------------------------------- MODULE Modes -------------------------------
(* The game modes with flags, bases and skulls as the server drives them:    *)
(* fpsgame/server.cpp calls the hooks of the mode in play, smode, as players *)
(* join, spawn, move, die, change side, spectate and leave, at every update  *)
(* and when the map changes.                                                *)
EXTENDS Flags, Bases, Skulls

CONSTANTS
  GameModes,      \* modes played, among ctf, protect, hold, capture and collect
  FromFiles,      \* modes of maps the server has a file of
  FromClients,    \* modes of maps it has none of: clients send the list
  Outside,        \* places where a player may be out of bounds
  Crowded,        \* modes explored with all of Clients; the others have two players at a time
  MaxTurns,       \* joins, departures, changes of team and turns at spectating explored in one game
  MaxChanges      \* changes of a flag (its version) explored in one game

VARIABLES
  turns,          \* turns left (a bound)
  barred,         \* <<i, c>>: c killed its team mate who carried flag i, which lies since (history)
  since           \* when the team that has the hold flag got it (history)

vars == <<ci, smode, m, turns, barred, since>>

IsFlags == smode \in FlagModes
IsBases == smode = "capture"
IsSkulls == smode = "collect"
Draws == IF IsFlags /\ Hold THEN Places ELSE {1}

-----------------------------------------------------------------------------
(* The hooks of the mode in play.                                           *)

LeaveGame(c, disconnecting) ==
  CASE IsFlags -> FlagsLeaveGame(m, c)
    [] IsBases -> BasesLeaveGame(m, c)
    [] OTHER -> IF disconnecting THEN SkullsDisconnect(m, c) ELSE m
Died(c, actor) ==
  CASE IsFlags -> FlagsDied(m, c, actor)
    [] IsBases -> BasesDied(m, c)
    [] OTHER -> SkullsDied(m, c, actor)
TokensAtDeath(c) == IF IsSkulls THEN TokensAfterDrop(m, c) ELSE 0
ChangeTeam(c, team) ==
  CASE IsFlags -> DropFlag(m, c, Nobody)
    [] IsBases -> BasesChangeTeam(m, c, team)
    [] OTHER -> m
Update(s, r) ==
  CASE IsFlags -> FlagsUpdate(s, r)
    [] IsBases -> BasesUpdate(s)
    [] OTHER -> SkullsUpdate(s)

-----------------------------------------------------------------------------
(* The players. A killed or departed player's hook sees it as it was.        *)

\* c is still in the life, or the wait for one, in which it killed.
Remains(c) == ci'[c].state \in {"dead", "alive"} /\ ~(Alive(c) /\ ci'[c].state = "dead")
Lies(i) == m'.flags /= <<>> /\ m'.flags[i].owner = Nobody /\ m'.flags[i].droptime /= 0
History ==
  /\ barred' = IF IsFlags THEN {p \in barred : Lies(p[1]) /\ Remains(p[2])} ELSE {}
  /\ since' = IF IsFlags /\ Hold /\ m.flags /= <<>> /\ m'.flags /= <<>> /\ m.flags[1].owner = Nobody
                 /\ m'.flags[1].owner /= Nobody /\ (m.flags[1].holdtime = 0 \/ m.flags[1].team /= m'.flags[1].team)
              THEN m'.now ELSE since
Game == History /\ UNCHANGED <<smode, turns>>
Turn == turns > 0 /\ turns' = turns - 1 /\ History /\ UNCHANGED smode

Players(q) == Cardinality({c \in Clients : q[c].state /= "gone"})
Seats(mode) == IF mode \in Crowded THEN Cardinality(Clients) ELSE 2
Connect(c, team) ==
  /\ ~Present(c) /\ Players(ci) < Seats(smode)
  /\ ci' = [ci EXCEPT ![c] = NewPlayer(team)]
  /\ UNCHANGED m /\ Turn

\* Only capture asks who is out of bounds.
Bounds(o) == IF IsBases /\ o \in Outside THEN BOOLEAN ELSE {FALSE}
\* N_TRYSPAWN, then N_SPAWN: o and clip are what the player told since it was granted.
Spawn(c, o, clip) ==
  /\ ci[c].state = "dead" /\ (IsSkulls => m.next < MaxTokens)
  /\ ci' = [ci EXCEPT ![c].state = "alive", ![c].o = o, ![c].clip = clip, ![c].tokens = 0]
  /\ m' = IF IsBases /\ ~m.notgot /\ ~clip THEN MoveBases(m, ci[c].team, Elsewhere, o) ELSE m
  /\ Game

\* N_POS: the hook runs with the place before the move still in ci.
Move(c, o, clip) ==
  /\ Alive(c) /\ (IsBases \/ <<o, clip>> /= <<ci[c].o, ci[c].clip>>)
  /\ m' = IF IsBases THEN BasesMoved(m, c, o, clip) ELSE m
  /\ ci' = [ci EXCEPT ![c].o = o, ![c].clip = clip]
  /\ Game

\* suicide and dodamage
Killed(c) == [ci[c] EXCEPT !.state = "dead", !.tokens = TokensAtDeath(c)]
Die(c, actor) ==
  /\ Alive(c) /\ (actor /= Nobody => ci[actor].state \in {"dead", "alive"})
  /\ m' = Died(c, actor)
  /\ ci' = [ci EXCEPT ![c] = Killed(c)]
  /\ since' = since
  /\ barred' = IF ~IsFlags THEN {}
               ELSE {p \in barred : Remains(p[2])} \cup
                    IF actor \notin {Nobody, c} /\ IsTeam(actor, c)
                    THEN {<<i, actor>> : i \in {j \in DOMAIN m.flags : m.flags[j].owner = c /\ Lies(j)}}
                    ELSE {}
  /\ UNCHANGED <<smode, turns>>

\* forcespectator: suicide if alive, then leavegame, which finds the player dead.
Spectate(c) ==
  /\ ci[c].state \in {"dead", "alive"}
  /\ ci' = [ci EXCEPT ![c].state = "spectator", ![c].tokens = 0]
  /\ m' = LET s == IF Alive(c) THEN Died(c, Nobody) ELSE m IN IF IsFlags THEN FlagsLeaveGame(s, c) ELSE s
  /\ Turn
Unspectate(c) ==
  /\ ci[c].state = "spectator"
  /\ ci' = [ci EXCEPT ![c].state = "dead"]
  /\ UNCHANGED m /\ Game

\* N_SWITCHTEAM and N_SETTEAM: the living die first; aiman::changeteam moves a bot alive.
SwitchTeam(c, team) ==
  /\ Present(c) /\ ci[c].team /= team
  /\ m' = IF Alive(c) THEN Died(c, Nobody) ELSE m
  /\ ci' = [ci EXCEPT ![c] = IF Alive(c) THEN [Killed(c) EXCEPT !.team = team] ELSE [@ EXCEPT !.team = team]]
  /\ Turn
BotChangesTeam(c, team) ==
  /\ Alive(c) /\ ci[c].team /= team
  /\ m' = ChangeTeam(c, team)
  /\ ci' = [ci EXCEPT ![c].team = team]
  /\ Turn

Disconnect(c) ==
  /\ Present(c)
  /\ m' = LeaveGame(c, TRUE)
  /\ ci' = [ci EXCEPT ![c] = Gone]
  /\ Turn

-----------------------------------------------------------------------------
(* What players ask of the mode.                                            *)

TryDropFlag(c) == IsFlags /\ Alive(c) /\ m' = DropFlag(m, c, Nobody) /\ m' /= m /\ UNCHANGED ci /\ Game
\* The changes explored: the setup of hold is one of its own, and in protect
\* both flags change hands within a side, so one fewer is explored.
Changes == CASE Hold -> MaxChanges + 1 [] Protect -> MaxChanges - 1 [] OTHER -> MaxChanges
TakeFlag(c, i, r) ==
  /\ IsFlags /\ MayTake(m, c, i) /\ m.flags[i].version < Changes
  /\ m' = Take(m, c, i, r) /\ m' /= m
  /\ UNCHANGED ci /\ Game
RepAmmo(c) == IsBases /\ m' = Replenish(m, c) /\ m' /= m /\ UNCHANGED ci /\ Game
\* Deposits past the score that ends the game are not explored.
DepositTokens(c, b) ==
  /\ IsSkulls /\ m.next < MaxTokens /\ m.scores[ci[c].team] < ScoreLimit
  /\ m' = Deposit(m, c, b) /\ m' /= m
  /\ ci' = [ci EXCEPT ![c].tokens = IF m'.next = m.next THEN 0 ELSE @]
  /\ Game
TakeSkull(c, id) ==
  /\ IsSkulls
  /\ m' = TakeToken(m, c, id)
  /\ ci' = [ci EXCEPT ![c].tokens = IF Gains(m, c, id) THEN @ + 1 ELSE @]
  /\ <<m', ci'>> /= <<m, ci>>
  /\ Game

\* N_INITFLAGS, N_BASES and N_INITTOKENS from a client on this map.
Orders == IF IsBases THEN {q \in [1..Cardinality(Clients) -> Clients] : IsInjective(q)} ELSE {<<>>}
ItemList(c, r, order) ==
  /\ Present(c) /\ ci[c].state /= "spectator" /\ m.notgot
  /\ m' = CASE IsFlags -> FlagsParse(m, r)
            [] IsBases -> BasesPlaced(m, order)
            [] OTHER -> [m EXCEPT !.notgot = FALSE]
  /\ UNCHANGED ci /\ Game

-----------------------------------------------------------------------------
(* The clock and the map.                                                   *)

Tick(r) ==
  /\ m.now < MaxTime
  /\ m' = Update([m EXCEPT !.now = @ + 1], r)
  /\ UNCHANGED ci
  /\ History
  /\ UNCHANGED <<smode, turns>>
\* The time limit, an administrator or another mode's rule ends the game.
GameEnds == ~m.ended /\ m' = Intermission(m) /\ UNCHANGED ci /\ Game

\* changemap: the old mode is cleaned up, everybody who does not spectate waits to spawn, the new mode is set up.
Setup(known, r) ==
  CASE IsFlags -> IF known THEN FlagsSetup(r) ELSE FlagsUnknown
    [] IsBases -> IF known THEN BasesSetup ELSE BasesEmpty(TRUE)
    [] OTHER -> SkullsEmpty(~known)
ResetPlayer(p) == [NewPlayer(p.team) EXCEPT !.state = IF p.state \in {"gone", "spectator"} THEN p.state ELSE "dead"]
Known(mode) == {k \in BOOLEAN : mode \in IF k THEN FromFiles ELSE FromClients}
ChangeMap(mode, r) ==
  /\ Players(ci) <= Seats(mode)
  /\ smode' = mode
  /\ ci' = [c \in Clients |-> ResetPlayer(ci[c])]
  /\ \E known \in Known(mode) : m' = Setup(known, r)'
  /\ barred' = {} /\ since' = 0 /\ UNCHANGED turns

Init ==
  /\ smode \in GameModes
  /\ ci \in {q \in [Clients -> {Gone} \cup {NewPlayer(t) : t \in Teams}] : Players(q) <= Seats(smode)}
  /\ turns = MaxTurns /\ barred = {} /\ since = 0
  /\ \E known \in Known(smode), r \in Draws : m = Setup(known, r)

Next ==
  \/ \E c \in Clients :
       \/ \E t \in Teams : Connect(c, t) \/ SwitchTeam(c, t) \/ BotChangesTeam(c, t)
       \/ \E o \in Spots : \E clip \in Bounds(o) : Spawn(c, o, clip) \/ Move(c, o, clip)
       \/ \E actor \in Clients \cup {Nobody} : Die(c, actor)
       \/ Spectate(c) \/ Unspectate(c) \/ Disconnect(c)
       \/ TryDropFlag(c) \/ RepAmmo(c)
       \/ \E b \in Teams : DepositTokens(c, b)
       \/ \E i \in 1..2, r \in Draws : TakeFlag(c, i, r)
       \/ \E id \in 1..(MaxTokens + 2) : TakeSkull(c, id)
       \/ \E r \in Draws, order \in Orders : ItemList(c, r, order)
  \/ \E r \in Draws : Tick(r)
  \/ GameEnds
  \/ \E mode \in GameModes, r \in {1} : ChangeMap(mode, r)

Spec == Init /\ [][Next]_vars

-----------------------------------------------------------------------------
(* Correctness.                                                             *)

TypeOK ==
  /\ ci \in [Clients -> Player]
  /\ smode \in GameModes /\ m.now \in 1..MaxTime

\* parseitems gives a flag of protect the time as its team, and no invistime: nobody can take it, and the
\* clients, who set it up from their own map, keep it invisible.
Mislaid(f) == Protect /\ f.team \notin Teams
FlagKnown(f) == IF Mislaid(f) THEN [FlagShown(f) EXCEPT !.invis = TRUE] ELSE FlagShown(f)
FlagsKnown(s) == [flags |-> [i \in DOMAIN s.flags |-> FlagKnown(s.flags[i])], scores |-> s.scores]

\* What a player who joins now is told of the flags, bases and scores (initclient) is what the others
\* have put together from the messages so far, for every order of takes, drops, deaths and departures,
\* but for a mislaid flag, which is told visible.
\* Of skulls the others may have forgotten some: the clients remove one that N_TAKETOKEN names (collect.h,
\* taketoken of the client half), the server does not.
ViewsAgree ==
  ~m.notgot => /\ IsFlags => m.seen = FlagsKnown(m)
               /\ IsBases => m.seen = BaseView(m)
               /\ IsSkulls => m.seen.tokens \subseteq SkullView(m).tokens /\ m.seen.scores = SkullView(m).scores

\* A flag is carried by one living player, who carries no other, and whose side may carry it: nobody
\* dies, leaves, spectates or changes team (died, leavegame, changeteam) with a flag.
HoldersAlive ==
  IsFlags => \A i \in DOMAIN m.flags : LET c == m.flags[i].owner IN
    c /= Nobody => /\ Alive(c)
                   /\ \A j \in DOMAIN m.flags : m.flags[j].owner = c => j = i
                   /\ m.flags[i].team \in Teams /\ (Hold \/ (Protect <=> m.flags[i].team = ci[c].team))

\* Whoever kills a team mate that carries a flag cannot take that flag while it lies (ctftkpenalty),
\* until it dies or leaves the game itself.
TeamKillerBarred ==
  [][smode' = smode => \A p \in barred : IsFlags /\ p[1] \in DOMAIN m'.flags => m'.flags[p[1]].owner /= p[2]]_vars

\* In hold a point needs the flag in the hands of one team for HOLDSECS, whoever carried it and however
\* often it was dropped (ownflag, dropflag, deadflag).
HoldEarned ==
  [][smode' = smode /\ Hold /\ (\E t \in Teams : m'.scores[t] > m.scores[t]) => m'.now - since >= HoldSecs]_vars

\* The rules of flags that span lives: points are held for, team killers barred.
FlagsEarned == HoldEarned /\ TeamKillerBarred

\* A base counts no owner and no enemy who is not a living player of that team in it: whoever dies,
\* leaves, changes team or moves out is taken off the count that let it in (movebases, stealbase), all but
\* as many as stealbase once counted out of bounds.
Occupants(team, b) == Cardinality({c \in Clients : Inside(c, b, team) /\ ~ci[c].clip})
NoGhosts ==
  IsBases /\ ~m.ended => \A i \in DOMAIN m.bases : LET b == m.bases[i] IN
    /\ b.owners <= Occupants(b.owner, i) + b.strays
    /\ b.enemies <= Occupants(b.enemy, i) + b.strays

\* No player, alive or gone, and no base leaves more skulls lying than the limits of each kind allow.
SkullsBounded ==
  IsSkulls => /\ \A c \in Clients : Cardinality({i \in DOMAIN m.tokens : m.tokens[i].dropper = c}) <= 2 * TokenLimit
              /\ \A b \in Teams : Cardinality({i \in DOMAIN m.tokens : m.tokens[i].dropper = OfBase(b)}) <= TokenLimit
              /\ Cardinality({i \in DOMAIN m.tokens : m.tokens[i].dropper = Left}) <= 2 * UnownedTokenLimit

\* What lies or stands on the map is counted right: players in bases, skulls.
PlacesCounted == NoGhosts /\ SkullsBounded
=============================================================================
