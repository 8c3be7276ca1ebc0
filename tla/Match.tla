------------------------------- MODULE Match -------------------------------
(* The match of fpsgame/server.cpp: its clock, overtime and intermission,    *)
(* votes and the map rotation, teams, scores kept for players who return,    *)
(* team killers, modified maps, pausing and demos; and what each client, and *)
(* the demo, has been told of it. Players connect and leave here as Sessions *)
(* lets them; local clients, bots and scripts that override a step are left  *)
(* out. Server functions are operators from one state to the next; s.cl, s.g *)
(* and s.told are the variables below.                                      *)
EXTENDS Rotation, Integers

CONSTANTS
  Clients,        \* client numbers
  Idents,         \* address and name of players
  Players,        \* [Clients -> Idents], who is there at first
  Votes,          \* maps and modes players vote for
  Admins,         \* the players whose privilege is an admin's
  KnownMaps,      \* maps the server has a file of
  GameTime,       \* gamelimit of a new match, in steps of the clock
  ExtraTime,      \* what overtime adds, or 0 where overtime is off
  IntermissionTime,
  MaxDemos,       \* maxdemos
  AutoRecord,     \* autorecorddemo
  ModifiedMapSpectator,
  PersistTeams,
  LockMapRotation,
  Veto,           \* mastermode >= MM_VETO
  TeamKillLimit,  \* limit of the teamkillkick that applies
  MaxLimit,       \* ties are broken past it, a bound
  MaxTurns        \* what players may do, but for joining and spawning, in one behaviour: a bound

VARIABLES
  cl,             \* [Clients -> player]
  g,              \* the match
  told,           \* what each client and the demo in progress were told
  hist,           \* votes, departures, team kills and lost new maps of this match (history)
  turns,          \* turns left (a bound)
  tick            \* flips at each update

vars == <<cl, g, told, hist, turns, tick>>

Demo == 0
NoTeam == 0
Teams == {1, 2}
NoVote == [map |-> NewMap, mode |-> "none"]
Timed(mode) == mode \notin {"none", "coop"}
Teamed(mode) == mode \in {"team", "ctf"}
HideFrags(mode) == mode = "ctf"

Gone == [st |-> "gone", who |-> CHOOSE w \in Idents : TRUE, priv |-> FALSE, team |-> NoTeam, frags |-> 0, tks |-> 0,
         vote |-> NoVote, crc |-> 0, warned |-> FALSE, newmap |-> FALSE]
Present(s, c) == s.cl[c].st /= "gone"
Playing(s, c) == s.cl[c].st \notin {"gone", "spectator"}
In(s) == {c \in Clients : Present(s, c)}
Admin(s, c) == s.cl[c].priv /\ s.cl[c].who \in Admins

-----------------------------------------------------------------------------
(* Messages: a client's copy of the match, and the demo's.                  *)

NoView == [map |-> NewMap, mode |-> "none", over |-> FALSE, paused |-> FALSE, slow |-> FALSE, here |-> {}, spec |-> {},
           team |-> [c \in Clients |-> NoTeam], frags |-> [t \in Teams |-> 0], matches |-> 0]
View(s) ==
  [map |-> s.g.map, mode |-> s.g.mode, over |-> s.g.interm /= 0, paused |-> s.g.paused, slow |-> s.g.slow, here |-> In(s),
   spec |-> {c \in Clients : s.cl[c].st = "spectator"}, team |-> [c \in Clients |-> s.cl[c].team],
   frags |-> s.g.frags, matches |-> 1]

Fixed(f) == f @@ <<>>   \* f; TLC evaluates it once
\* sendf(-1, ...): to everybody connected but exclude, and the demo in progress.
SendBut(s, exclude, Msg(_)) ==
  [s EXCEPT !.told = Fixed([x \in DOMAIN s.told |->
     IF (x \in In(s) \ exclude) \/ (x = Demo /\ s.g.rec) THEN Msg(s.told[x]) ELSE s.told[x]])]
Send(s, Msg(_)) == SendBut(s, {}, Msg)

MsgMapChange(s) ==
  LET a == Send(s, LAMBDA v : [v EXCEPT !.map = s.g.map, !.mode = s.g.mode, !.over = FALSE, !.frags = [t \in Teams |-> 0]])
  IN IF s.g.rec THEN [a EXCEPT !.told[Demo].matches = 2] ELSE a
MsgTimeUp(s, over) == Send(s, LAMBDA v : [v EXCEPT !.over = over])
MsgSpectator(s, c, but) == SendBut(s, but, LAMBDA v : [v EXCEPT !.spec = IF s.cl[c].st = "spectator" THEN @ \cup {c} ELSE @ \ {c}])
MsgSetTeam(s, c) == Send(s, LAMBDA v : [v EXCEPT !.team[c] = s.cl[c].team])
MsgInitClient(s, c) == SendBut(s, {c}, LAMBDA v : [v EXCEPT !.here = @ \cup {c}, !.team[c] = s.cl[c].team])
MsgCDis(s, c) == Send(s, LAMBDA v : [v EXCEPT !.here = @ \ {c}, !.spec = @ \ {c}, !.team[c] = NoTeam])
MsgDied(s, t) == Send(s, LAMBDA v : [v EXCEPT !.frags[t] = s.g.frags[t]])
\* buildworldstate: the N_NEWMAP queued with a client (newmap) goes to everybody else.
WorldState(s) ==
  LET makers == {c \in Clients : s.cl[c].newmap}
      hears(x) == makers \ {x} /= {} /\ (x \in In(s) \/ (x = Demo /\ s.g.rec))
  IN [s EXCEPT !.told = Fixed([x \in DOMAIN s.told |-> IF hears(x) THEN [s.told[x] EXCEPT !.map = NewMap] ELSE s.told[x]]),
               !.cl = Fixed([c \in Clients |-> [s.cl[c] EXCEPT !.newmap = FALSE]])]

\* welcomepacket: all of the match, and of the others in it; a copy of its own for the demo.
Welcome(s) ==
  [NoView EXCEPT !.map = s.g.map, !.mode = s.g.mode, !.over = (s.g.millis >= s.g.limit \/ s.g.interm /= 0) /\ Timed(s.g.mode),
                 !.paused = s.g.paused, !.slow = s.g.slow, !.here = In(s), !.matches = 1,
                 !.spec = {c \in Clients : s.cl[c].st = "spectator"}, !.team = [c \in Clients |-> s.cl[c].team],
                 !.frags = IF Teamed(s.g.mode) THEN s.g.frags ELSE @]
\* Wrong on purpose, to be put in the place of the next definition: no message follows the welcome.
SendWelcomeQuiet(s, c) == [s EXCEPT !.told[c] = Welcome(s)]
SendWelcome(s, c) ==
  LET spec == IF s.cl[c].st = "spectator" THEN MsgSpectator(s, c, {c}) ELSE s
  IN [spec EXCEPT !.told[c] = Welcome(s)]

-----------------------------------------------------------------------------
(* Demos, pausing and the speed of the game.                                *)

\* enddemorecord: prunedemos(1) makes room for the new demo.
EndDemoRecord(s) ==
  IF ~s.g.rec THEN s
  ELSE [s EXCEPT !.g.rec = FALSE, !.told[Demo] = NoView,
                 !.g.demos = IF MaxDemos = 0 THEN @ ELSE IF @ + 1 > MaxDemos THEN MaxDemos ELSE @ + 1]
StopDemo(s) == EndDemoRecord(s)
SetupDemoRecord(s) ==
  IF s.g.mode = "coop" THEN s ELSE [s EXCEPT !.g.rec = TRUE, !.told[Demo] = Welcome(s)]
PauseGame(s, val) ==
  IF s.g.paused = val THEN s ELSE Send([s EXCEPT !.g.paused = val], LAMBDA v : [v EXCEPT !.paused = val])
CheckPauseGame(s) == IF \E c \in Clients : s.cl[c].priv THEN s ELSE PauseGame(s, FALSE)
ChangeGameSpeed(s, slow) ==
  IF s.g.slow = slow THEN s ELSE Send([s EXCEPT !.g.slow = slow], LAMBDA v : [v EXCEPT !.slow = slow])

-----------------------------------------------------------------------------
(* Deaths and spectators.                                                   *)

\* A frag counts for the team, which has a teaminfo in team modes (autoteam), unless the player has none.
TeamFrag(s, c, n) ==
  LET t == s.cl[c].team
      counts == Teamed(s.g.mode) /\ t /= NoTeam
  IN IF counts THEN MsgDied([s EXCEPT !.g.frags[t] = @ + n], t) ELSE s
Suicide(s, c) ==
  IF s.cl[c].st /= "alive" THEN s ELSE TeamFrag([s EXCEPT !.cl[c].frags = @ - 1, !.cl[c].st = "dead"], c, -1)
ForceSpectator(s, c) ==
  LET a == Suicide(s, c) IN MsgSpectator([a EXCEPT !.cl[c].st = "spectator"], c, {})

\* checkmaps: who has another map than the server, or than most, is warned, and made a spectator.
CheckMaps(s) ==
  LET p == {c \in Clients : Playing(s, c)}
      mcrc == IF s.g.map \in KnownMaps THEN 1 ELSE 0
      n(v) == Cardinality({c \in p : s.cl[c].crc = v}) + IF mcrc = v THEN Cardinality(In(s)) + 1 ELSE 0
      crcs == {v \in 1..2 : n(v) > 0}
      few == Cardinality({c \in p : s.cl[c].crc /= 0}) < IF Cardinality(p) < 4 THEN Cardinality(p) ELSE 4
      modified == {v \in crcs : \E u \in crcs \ {v} : n(u) >= n(v)}
      bad == {c \in p : s.cl[c].crc = -1 \/ s.cl[c].crc \in modified}
      warned == [s EXCEPT !.cl = Fixed([c \in Clients |-> [s.cl[c] EXCEPT !.warned = @ \/ c \in bad]])]
      out == IF ModifiedMapSpectator > 1 \/ (ModifiedMapSpectator = 1 /\ mcrc /= 0) THEN {c \in p : warned.cl[c].warned} ELSE {}
  IN IF s.g.mode = "coop" \/ s.g.map = NewMap \/ (mcrc = 0 /\ few) THEN s
     ELSE FoldLeft(ForceSpectator, warned, SetToSeq(out))

\* hasmap: somebody plays on, or the match is not over.
HasMap(s, c) ==
  \/ s.g.mode = "coop" /\ In(s) /= {}
  \/ /\ s.g.map /= NewMap
     /\ \/ ~Timed(s.g.mode) \/ s.g.millis < s.g.limit
        \/ s.cl[c].st = "spectator" /\ ~s.cl[c].priv
        \/ \E d \in Clients \ {c} : Playing(s, d) \/ s.cl[d].priv

-----------------------------------------------------------------------------
(* Teams, scores and team killers.                                          *)

\* autoteam: the teams draw in turn from the players in the order of their rank (effectiveness by time
\* played, spectators last) until the drawing team is ahead. A team that draws nobody ends it, although
\* players may be left: those keep the team they had.
RECURSIVE Draw(_, _, _, _, _, _)
Draw(order, rank, hide, first, sums, drawn) ==
  LET second == 3 - first
      RECURSIVE Pick(_, _, _)
      Pick(d, sum, n) ==
        LET k == Len(d) + 1
            r == IF hide THEN 1 ELSE rank[k]
        IN IF sum > sums[second] \/ k > Len(order) \/ (n > 0 /\ r <= 0) THEN [d |-> d, sum |-> sum, n |-> n]
           ELSE IF r <= 0 THEN [d |-> Append(d, first), sum |-> sum, n |-> n + 1]
           ELSE Pick(Append(d, first), sum + r, n + 1)
      p == Pick(drawn, sums[first], 0)
  IN IF p.n = 0 THEN drawn ELSE Draw(order, rank, hide, second, [sums EXCEPT ![first] = p.sum], p.d)

\* The teams autoteam may come to: any order, and ranks that fall along it.
Rankings(s) ==
  LET n == Cardinality(In(s))
      fits(q, r) == /\ \A i, j \in 1..n : i < j => r[i] >= r[j]
                    /\ \A i \in 1..n : (s.cl[q[i]].st = "spectator") = (r[i] = -1)
  IN {p \in SetToSeqs(In(s)) \X [1..n -> -1..2] : fits(p[1], p[2])}
AutoTeams(s) ==
  LET Assigned(p) ==
        LET drawn == Draw(p[1], p[2], HideFrags(s.g.mode), 1, <<0, 0>>, <<>>)
        IN [c \in Clients |->
              LET k == CHOOSE k \in 0..Len(p[1]) : IF c \in In(s) THEN k > 0 /\ p[1][k] = c ELSE k = 0
              IN IF k \notin DOMAIN drawn \/ (PersistTeams /\ s.cl[c].team /= NoTeam) THEN s.cl[c].team ELSE drawn[k]]
  IN IF Teamed(s.g.mode) THEN {Assigned(p) : p \in Rankings(s)} ELSE {[c \in Clients |-> s.cl[c].team]}
SetTeams(s, teams) ==
  FoldLeft(LAMBDA t, c : MsgSetTeam([t EXCEPT !.cl[c].team = teams[c]], c), s,
           SetToSeq({c \in Clients : teams[c] /= s.cl[c].team}))
\* chooseworstteam: by rank, then by players; the ranks of frag modes may say either.
WorstTeams(s, c) ==
  LET n(t) == Cardinality({d \in Clients \ {c} : Playing(s, d) /\ s.cl[d].team = t})
  IN IF HideFrags(s.g.mode) /\ n(1) /= n(2) THEN {IF n(1) < n(2) THEN 1 ELSE 2} ELSE Teams

\* findscore and savescore: a player still here under the same name and address comes first.
Same(s, c) == {d \in In(s) \ {c} : s.cl[d].who = s.cl[c].who}
Saved(gs) == [frags |-> gs.frags, tks |-> gs.tks]
Restored(gs, sc) == [gs EXCEPT !.frags = sc.frags, !.tks = sc.tks]
SaveScore(s, c) ==
  LET sc == Saved(s.cl[c])
  IN [s EXCEPT !.g.scores = {x \in @ : x.who /= s.cl[c].who} \cup {[who |-> s.cl[c].who, frags |-> sc.frags, tks |-> sc.tks]}]
RestoreScore(s, c) ==
  LET here == {Saved(s.cl[d]) : d \in Same(s, c)}
      kept == {Saved(x) : x \in {y \in s.g.scores : y.who = s.cl[c].who}}
      found == IF here /= {} THEN here ELSE kept
  IN IF found = {} THEN {s} ELSE {[s EXCEPT !.cl[c] = Restored(@, sc)] : sc \in found}

\* Wrong on purpose, to be put in the place of the next definition: the score is not saved.
ClientDisconnectUnsaved(s, c) == [MsgCDis(s, c) EXCEPT !.cl[c] = Gone, !.told[c] = NoView]
ClientDisconnect(s, c) ==
  LET a == IF s.cl[c].priv THEN CheckPauseGame([s EXCEPT !.cl[c].priv = FALSE]) ELSE s
      b == MsgCDis(SaveScore(a, c), c)
  IN [b EXCEPT !.cl[c] = Gone, !.told[c] = NoView]
\* addteamkill and checkteamkills: by address; not for who has a privilege, and an admin is not kicked.
AddTeamKill(s, c) ==
  IF ~Timed(s.g.mode) \/ s.cl[c].priv THEN s
  ELSE [s EXCEPT !.g.tks[s.cl[c].who] = @ + 1, !.g.check = TRUE]
CheckTeamKills(s) ==
  LET over == {w \in Idents : s.g.tks[w] >= TeamKillLimit}
      out == {c \in In(s) : s.cl[c].who \in over /\ ~Admin(s, c)}
      kicked == FoldLeft(ClientDisconnect, s, SetToSeq(out))
  IN IF ~s.g.check THEN s
     ELSE [kicked EXCEPT !.g.tks = [w \in Idents |-> IF w \in over THEN 0 ELSE @[w]], !.g.check = FALSE]

-----------------------------------------------------------------------------
(* The next map.                                                            *)

\* Wrong on purpose, to be put in the place of the next definition: votes outlive the match.
MapChangeKeepingVote(p) ==
  IF p.st = "gone" THEN p ELSE [p EXCEPT !.crc = 0, !.warned = FALSE, !.frags = 0, !.tks = 0, !.st = IF @ = "spectator" THEN @ ELSE "ready"]
MapChange(p) ==
  IF p.st = "gone" THEN p
  ELSE [p EXCEPT !.vote = NoVote, !.crc = 0, !.warned = FALSE, !.frags = 0, !.tks = 0, !.st = IF @ = "spectator" THEN @ ELSE "ready"]
ChangeMap(s, map, mode) ==
  LET a == ChangeGameSpeed(PauseGame(StopDemo(s), FALSE), FALSE)
      b == MsgMapChange([a EXCEPT !.g = [@ EXCEPT !.map = map, !.mode = mode, !.millis = 0, !.limit = GameTime, !.interm = 0,
                           !.scores = {}, !.check = FALSE, !.tks = [w \in Idents |-> 0], !.frags = [t \in Teams |-> 0]]])
      Finish(teams) ==
        LET c == SetTeams(b, teams)
            d == [c EXCEPT !.cl = Fixed([x \in Clients |-> MapChange(c.cl[x])])]
            e == IF d.g.demonext THEN SetupDemoRecord(d) ELSE d
        IN [e EXCEPT !.g.demonext = AutoRecord]
  IN {Finish(teams) : teams \in AutoTeams(b)}
RotateMap(s, next) ==
  LET found == FindRotation(s.g.rot, s.g.mode, s.g.map)
      any == FindRotation(s.g.rot, s.g.mode, NewMap)
      rot == IF ~next THEN s.g.rot ELSE IF found /= NoEntry THEN NextRotation(found)
             ELSE IF s.g.map /= NewMap /\ any /= NoEntry THEN any ELSE 1
      t == [s EXCEPT !.g.rot = rot, !.g.why = "rotation"]
  IN IF s.g.rot \notin Entries THEN ChangeMap(t, NewMap, "coop")
     ELSE ChangeMap(t, MapRotation[rot].map, FindMode(MapRotation[rot], s.g.mode))

\* checkvotes: the votes of those who may play, a majority of them, or two when forced; ties either way.
Voters(s) == {c \in Clients : Playing(s, c) \/ s.cl[c].priv}
Supporters(s, v) == {c \in Voters(s) : s.cl[c].vote = v}
CheckVotes(s, force) ==
  LET votes == {s.cl[c].vote : c \in Voters(s)} \ {NoVote}
      n(v) == Cardinality(Supporters(s, v))
      half == Cardinality(Voters(s)) \div 2
      best == {v \in votes : \A u \in votes : n(v) >= n(u)}
      e == EndDemoRecord(WorldState(s))
      Won(v) == n(v) > IF force THEN 1 ELSE half
  IN IF ~force /\ ~\E v \in best : Won(v) THEN {s}
     ELSE IF \E v \in best : Won(v) THEN UNION {ChangeMap([e EXCEPT !.g.why = "vote"], v.map, v.mode) : v \in best}
     ELSE RotateMap(e, TRUE)

-----------------------------------------------------------------------------
(* The clock.                                                               *)

\* checkovertime: tied at the top, by teams or by players; what the modes count for ctf is not modelled: either.
Tied(s) ==
  LET p == {c \in Clients : Playing(s, c)}
      team == {s.cl[c].team : c \in p} \ {NoTeam}
      top(S, f(_)) == {x \in S : \A y \in S : f(x) >= f(y)}
  IN CASE HideFrags(s.g.mode) -> IF Cardinality(team) > 1 THEN BOOLEAN ELSE {FALSE}
       [] s.g.mode = "team" -> {Cardinality(top(team, LAMBDA t : s.g.frags[t])) > 1}
       [] OTHER -> {Cardinality(top(p, LAMBDA c : s.cl[c].frags)) > 1}
Intermission(s) ==
  ChangeGameSpeed([MsgTimeUp(s, TRUE) EXCEPT !.g.interm = s.g.millis + IntermissionTime], FALSE)
CheckIntermission(s, force) ==
  IF s.g.millis < s.g.limit \/ s.g.interm /= 0 THEN {s}
  ELSE {IF tied /\ ~force /\ ExtraTime > 0 /\ s.g.limit < MaxLimit
        THEN MsgTimeUp([s EXCEPT !.g.limit = (IF s.g.millis > @ THEN s.g.millis ELSE @) + ExtraTime], FALSE)
        ELSE Intermission(s) : tied \in Tied(s)}
StartIntermission(s) ==
  CheckIntermission([s EXCEPT !.g.limit = IF @ < s.g.millis THEN @ ELSE s.g.millis], TRUE)
\* Wrong on purpose, to be put in the place of the next definition: the next match waits for a request.
AfterIntermissionAsked(s) ==
  IF s.g.interm > 0 /\ s.g.millis > s.g.interm THEN CheckVotes([EndDemoRecord(s) EXCEPT !.g.interm = -1], FALSE) ELSE {s}
AfterIntermission(s) ==
  IF s.g.interm > 0 /\ s.g.millis > s.g.interm THEN CheckVotes([EndDemoRecord(s) EXCEPT !.g.interm = -1], TRUE) ELSE {s}
\* serverupdate, a step of the clock (curtime = 1) at a time; shouldstep is whether somebody was in at the last one.
ServerUpdate(s) ==
  LET runs == s.g.step /\ ~s.g.paused
      a == IF runs /\ s.g.millis <= MaxLimit + IntermissionTime THEN [s EXCEPT !.g.millis = @ + 1] ELSE s
      b == CheckTeamKills(a)
      c == IF runs /\ ~b.g.paused /\ Timed(b.g.mode) /\ b.g.map /= NewMap /\ b.g.millis - 1 > 0 THEN CheckIntermission(b, FALSE) ELSE {b}
      d == IF runs /\ ~b.g.paused THEN UNION {AfterIntermission(x) : x \in c} ELSE c
  IN {[x EXCEPT !.g.step = In(x) /= {}] : x \in d}

-----------------------------------------------------------------------------
(* Players. Each is an operator to the set of states it may lead to.        *)

\* connected, with what sendwelcome sets the player up with.
Connected(s, c, w, locked) ==
  LET Join(a) ==
        {[a EXCEPT !.g.step = TRUE,
                   !.cl[c] = [Gone EXCEPT !.st = IF locked THEN "spectator" ELSE "ready", !.who = w, !.team = t]]
           : t \in IF Teamed(a.g.mode) THEN WorstTeams(a, c) ELSE {NoTeam}}
      Rest(a) == {MsgInitClient(b, c) : b \in RestoreScore(SendWelcome(a, c), c)}
  IN UNION {UNION {Rest(a) : a \in Join(m)} : m \in IF HasMap(s, c) THEN {s} ELSE RotateMap(s, FALSE)}
\* unspectate, through N_SPECTATOR.
Unspectated(s, c) ==
  LET a == MsgSpectator([s EXCEPT !.cl[c].st = "back"], c, {})
      b == IF a.cl[c].crc /= 0 THEN CheckMaps(a) ELSE a
      refused == s.cl[c].warned /\ (ModifiedMapSpectator > 1 \/ (ModifiedMapSpectator = 1 /\ s.g.map \in KnownMaps))
  IN IF refused THEN {s} ELSE IF HasMap(b, c) THEN {b} ELSE RotateMap(b, TRUE)
\* dodamage: the actor's frag, and the target's death.
Killed(s, target, actor) ==
  LET mates == target /= actor /\ Teamed(s.g.mode) /\ s.cl[target].team = s.cl[actor].team
      n == IF mates \/ target = actor THEN -1 ELSE 1
      a == TeamFrag([s EXCEPT !.cl[actor].frags = @ + n, !.cl[target].st = "dead"], actor, n)
  IN IF mates THEN AddTeamKill([a EXCEPT !.cl[actor].tks = @ + 1], actor) ELSE a
\* N_TRYSPAWN: who sent no map by now is taken to have none. Shots of the last life are fired first,
\* when that ended in a death ("dead"; "back" is CS_DEAD after spectating): also in a pause, or after the end.
TriedSpawn(s, c) ==
  LET a == IF s.cl[c].crc = 0 THEN CheckMaps([s EXCEPT !.cl[c].crc = -1]) ELSE s
      hit == IF a.cl[c].st = "dead" THEN SUBSET {d \in Clients : a.cl[d].st = "alive"} ELSE {{}}
      Fired(D) == FoldLeft(LAMBDA t, d : Killed(t, d, c), a, SetToSeq(D))
  IN IF a.cl[c].st \in {"dead", "back"} THEN {[Fired(D) EXCEPT !.cl[c].st = "ready"] : D \in hit} ELSE {a}
\* N_MAPCRC for the match's map, or for another.
SentCrc(s, c, crc) ==
  IF crc > 0 THEN CheckMaps([s EXCEPT !.cl[c].crc = crc]) ELSE [s EXCEPT !.cl[c].crc = IF @ > 0 THEN 0 ELSE @]
\* vote: a mode without a map takes the rotation's.
Voted(s, c, map, mode) ==
  LET here == FindRotation(s.g.rot, mode, s.g.map)
      idx == IF here = NoEntry /\ s.g.map /= NewMap THEN FindRotation(s.g.rot, mode, NewMap) ELSE here
      m == IF map = NewMap /\ mode /= "coop" /\ idx /= NoEntry THEN MapRotation[idx].map ELSE map
      a == [s EXCEPT !.cl[c].vote = [map |-> m, mode |-> mode]]
      refused == \/ map = NewMap /\ mode /= "coop" /\ idx = NoEntry
                 \/ LockMapRotation /\ ~s.cl[c].priv /\ FindRotation(s.g.rot, mode, m) = NoEntry
  IN IF refused THEN {s}
     ELSE IF s.cl[c].priv /\ Veto THEN ChangeMap([EndDemoRecord(WorldState(a)) EXCEPT !.g.why = "veto"], m, mode)
     ELSE CheckVotes(a, FALSE)

-----------------------------------------------------------------------------
NoHist == [voted |-> [c \in Clients |-> NoVote], left |-> [w \in Idents |-> {}], tks |-> [w \in Idents |-> 0], lost |-> FALSE]

\* The server before anybody came, and after all of them did.
Empty ==
  [cl |-> [c \in Clients |-> Gone], told |-> [x \in Clients \cup {Demo} |-> NoView],
   g |-> [map |-> NewMap, mode |-> "ffa", millis |-> 0, limit |-> 0, interm |-> 0, paused |-> FALSE, slow |-> FALSE,
          step |-> TRUE, rec |-> FALSE, demonext |-> FALSE, demos |-> 0, rot |-> 1, scores |-> {}, tks |-> [w \in Idents |-> 0],
          frags |-> [t \in Teams |-> 0], check |-> FALSE, why |-> "none"]]
Opened ==
  FoldLeft(LAMBDA S, c : UNION {Connected(s, c, Players[c], FALSE) : s \in S}, {Empty}, SetToSeq(Clients))
Init ==
  /\ \E s \in Opened : cl = s.cl /\ g = s.g /\ told = s.told
  /\ hist = NoHist
  /\ turns = MaxTurns /\ tick = FALSE

Now == [cl |-> cl, g |-> [g EXCEPT !.why = "none"], told |-> told]
\* What a step adds to the history: who left with what score, unless the match is another.
Hist(s, h) ==
  LET gone(w) == {c \in Clients : Present(Now, c) /\ ~Present(s, c) /\ cl[c].who = w}
  IN IF s.g.why /= "none" THEN NoHist
     ELSE [h EXCEPT !.lost = @ \/ \E c \in Clients : cl[c].newmap /\ ~Present(s, c),
                    !.voted = [c \in Clients |-> IF Present(s, c) THEN @[c] ELSE NoVote],
                    !.left = [w \in Idents |-> IF gone(w) = {} THEN @[w] ELSE {cl[c].frags : c \in gone(w)}]]
Becomes(S, h) == \E s \in S : cl' = s.cl /\ g' = s.g /\ told' = s.told /\ hist' = Hist(s, h)
Turned(S, h) == turns > 0 /\ turns' = turns - 1 /\ Becomes(S, h) /\ UNCHANGED tick
Turn(S) == Turned(S, hist)

Connect(c, w, locked) == ~Present(Now, c) /\ Becomes(Connected(Now, c, w, locked), hist) /\ UNCHANGED <<turns, tick>>
Disconnect(c) == Present(Now, c) /\ Turn({ClientDisconnect(Now, c)})
Claim(c) == Present(Now, c) /\ ~cl[c].priv /\ Turn({[Now EXCEPT !.cl[c].priv = TRUE]})
Resign(c) == cl[c].priv /\ Turn({CheckPauseGame([Now EXCEPT !.cl[c].priv = FALSE])})
Spectate(c) == Playing(Now, c) /\ Turn({ForceSpectator(Now, c)})
Unspectate(c) == cl[c].st = "spectator" /\ Turn(Unspectated(Now, c))
\* Team kills that count, of a player.
Counted(s, c) == [hist EXCEPT !.tks[cl[c].who] = @ + s.g.tks[cl[c].who] - g.tks[cl[c].who]]
TrySpawn(c) == cl[c].st \in {"dead", "back"} /\ \E s \in TriedSpawn(Now, c) : Turned({s}, Counted(s, c))
Spawn(c) == cl[c].st = "ready" /\ Becomes({[Now EXCEPT !.cl[c].st = "alive"]}, hist) /\ UNCHANGED <<turns, tick>>
Kill(target, actor) ==
  /\ cl[target].st = "alive" /\ Playing(Now, actor) /\ ~g.paused /\ (~Timed(g.mode) \/ g.millis < g.limit)
  /\ LET s == Killed(Now, target, actor) IN Turned({s}, Counted(s, actor))
MapCrc(c, crc) == Present(Now, c) /\ crc /= cl[c].crc /\ Turn({SentCrc(Now, c, crc)})
SwitchTeam(c, t) ==
  Present(Now, c) /\ Teamed(g.mode) /\ cl[c].team /= t /\ Turn({MsgSetTeam([Suicide(Now, c) EXCEPT !.cl[c].team = t], c)})
Vote(c, map, mode) ==
  /\ Playing(Now, c) \/ cl[c].priv
  /\ \E s \in Voted(Now, c, map, mode) :
       Turned({s}, IF s.cl[c].vote = NoVote THEN hist ELSE [hist EXCEPT !.voted[c] = s.cl[c].vote])
\* What holders of a privilege may do.
Pause(val) == (\E c \in Clients : cl[c].priv) /\ val /= g.paused /\ Turn({PauseGame(Now, val)})
Speed(slow) == (\E c \in Clients : cl[c].priv) /\ slow /= g.slow /\ Turn({ChangeGameSpeed(Now, slow)})
RecordDemo(val) ==
  (\E c \in Clients : cl[c].priv) /\ MaxDemos > 0 /\ val /= g.demonext /\ Turn({[Now EXCEPT !.g.demonext = val]})
StopRecording == (\E c \in Clients : cl[c].priv) /\ g.rec /\ Turn({StopDemo(Now)})
ClearDemos(n) == (\E c \in Clients : cl[c].priv) /\ g.demos > 0 /\ Turn({[Now EXCEPT !.g.demos = IF n = 0 THEN 0 ELSE @ - 1]})
\* writedemo ends a demo that is too long; a script may start intermission at any time.
DemoFull == g.rec /\ Turn({EndDemoRecord(Now)})
EndGame == Timed(g.mode) /\ g.map /= NewMap /\ In(Now) /= {} /\ Turn(StartIntermission(Now))
\* N_NEWMAP, which clients send in coop edit, the sender on the new map; it waits for the world state.
MakeMap(c) ==
  (Playing(Now, c) \/ cl[c].priv) /\ g.mode = "coop"
  /\ Becomes({[Now EXCEPT !.g.map = NewMap, !.cl[c].newmap = TRUE, !.told[c].map = NewMap]}, hist) /\ UNCHANGED <<turns, tick>>
SendWorldState == (\E c \in Clients : cl[c].newmap) /\ Becomes({WorldState(Now)}, hist) /\ UNCHANGED <<turns, tick>>
Tick == tick' = ~tick
Update ==
  /\ Tick /\ UNCHANGED turns
  /\ Becomes(ServerUpdate(Now), [hist EXCEPT !.tks = [w \in Idents |-> IF @[w] < TeamKillLimit THEN @[w] ELSE 0]])

Next ==
  \/ \E c \in Clients :
       \/ \E w \in Idents, locked \in BOOLEAN : Connect(c, w, locked)
       \/ Disconnect(c) \/ Claim(c) \/ Resign(c) \/ Spectate(c) \/ Unspectate(c) \/ TrySpawn(c) \/ Spawn(c) \/ MakeMap(c)
       \/ \E d \in Clients : Kill(c, d)
       \/ \E crc \in 0..2 : MapCrc(c, crc)
       \/ \E t \in Teams : SwitchTeam(c, t)
       \/ \E v \in Votes : Vote(c, v[1], v[2])
  \/ \E val \in BOOLEAN : Pause(val) \/ Speed(val) \/ RecordDemo(val)
  \/ \E n \in 0..1 : ClearDemos(n)
  \/ StopRecording \/ DemoFull \/ EndGame \/ SendWorldState \/ Update

\* main calls serverslice, and serverupdate, for as long as the server runs: Update is enabled in every
\* state and the only action with Tick, of which TLC decides ENABLED faster.
Spec == Init /\ [][Next]_vars /\ WF_tick(Tick)

-----------------------------------------------------------------------------
(* Properties.                                                              *)

\* However map changes, teams, spectators, pauses and the end of a match follow upon one another, what the
\* messages add up to for every client, from its welcome on, is the match as the server has it; and so for
\* the demo in progress, which begins with a welcome of its own. But that an editor has made a new map is
\* known to the others only when it goes out, and never if the editor left before.
ToldAgree ==
  \A x \in In(Now) \cup (IF g.rec THEN {Demo} ELSE {}) :
    /\ [told[x] EXCEPT !.map = g.map] = View(Now)
    /\ told[x].map /= g.map => g.map = NewMap /\ g.mode = "coop" /\ (hist.lost \/ \E c \in Clients \ {x} : cl[c].newmap)

\* A demo holds one match: whoever changes the map, by vote, veto, rotation, or by joining or leaving the
\* spectators of a match that is over, ends it first. The list of demos never grows past maxdemos.
DemoOneMatch == told[Demo].matches <= 1 /\ g.demos <= MaxDemos

\* modifiedmapspectator: on a map the server has, nobody plays who sent another map, or sent none by the time
\* of trying to spawn, however the player got among the players again.
ModifiedSpectate ==
  (g.map \in KnownMaps /\ g.mode /= "coop" /\ ModifiedMapSpectator > 0) => \A c \in Clients : Playing(Now, c) => cl[c].crc \in {0, 1}

\* checkvotes counts votes of this match only: a vote ends with the match or the player it was cast in or by.
VotesOfThisMatch == \A c \in Clients : cl[c].vote \in {NoVote, hist.voted[c]}

\* Votes, demos and players' maps belong to the match in progress.
OfThisMatch == VotesOfThisMatch /\ DemoOneMatch /\ ModifiedSpectate

\* A player who comes back within a match has the score it last left with.
ScoreKept ==
  [][\A c \in Clients :
       (cl[c].st = "gone" /\ cl'[c].st /= "gone" /\ g'.why = "none" /\ \A d \in In(Now) : cl[d].who /= cl'[c].who)
         => hist.left[cl'[c].who] = {} \/ cl'[c].frags \in hist.left[cl'[c].who]]_vars

\* Who has killed teamkillkick's limit of team mates in this match is not in it after the next update, by
\* the same or another connection, unless it is an admin by then.
TeamkillersGo ==
  [][tick' /= tick => \A c \in In(Now) : ~Admin(Now, c) /\ hist.tks[cl[c].who] >= TeamKillLimit => cl'[c].st = "gone"]_vars

\* Frags and team kills follow a player out of the match and back.
RecordsKept == ScoreKept /\ TeamkillersGo

\* An intermission ends in the next match, unless the game is paused or nobody is left.
MatchGoesOn == (g.interm /= 0) ~> (g.interm = 0 \/ g.paused \/ In(Now) = {})
=============================================================================
