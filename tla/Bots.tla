--------------------------------- MODULE Bots ---------------------------------
(***************************************************************************)
(* Bots, fpsgame/aiman.h: the server keeps the bots, the clients simulate  *)
(* them.  Each bot has an owner, who is told to simulate it (aireinit) and *)
(* has it on a list; when owners leave or spectate their bots move to the  *)
(* client that simulates the fewest.  checkai, called by serverupdate when *)
(* dorefresh is set, balances teams, tells the owners, removes what nobody *)
(* owns and evens out the load.  Its two loops are taken apart into steps; *)
(* nothing else happens before checkai ends.                               *)
(*                                                                         *)
(* The game modes (smode), scripts and local clients are left out.  Team   *)
(* names are numbers in their alphabetical order.  Who is what, and which  *)
(* team a player is given, is decided elsewhere: any of it may happen.     *)
(***************************************************************************)
EXTENDS Integers, FiniteSets, Vectors

CONSTANTS
    Humans,         \* client numbers of human clients
    NoOwner,        \* ownernum of a bot that is to be removed (-1)
    MaxBots,        \* MAXBOTS: slots for bots
    Teams,          \* team names
    DefaultTeams,   \* "good" and "evil"
    TeamMode,       \* m_teammode
    Limits,         \* values of serverbotlimit, as configured and as set by players
    MapSpectator    \* whether modified maps make spectators (modifiedmapspectator)

ASSUME ClientAssumption == IsFiniteSet(Humans) /\ NoOwner \notin Humans
ASSUME TeamAssumption ==
    /\ Teams \subseteq Nat /\ IsFiniteSet(Teams)
    /\ DefaultTeams \in Seq(Teams) /\ Len(DefaultTeams) = 2 /\ DefaultTeams[1] # DefaultTeams[2]
ASSUME LimitAssumption ==
    /\ MaxBots \in Nat \ {0} /\ Limits \subseteq 0 .. MaxBots /\ Limits # {}
    /\ TeamMode \in BOOLEAN /\ MapSpectator \in BOOLEAN

VARIABLES
    clients,            \* the clients list, without the bots
    spectators, privileged, warned,
    team,               \* of each human
    bots,               \* bots, by slot
    owned,              \* clientinfo::bots
    dorefresh, botbalance, botlimit,
    phase,              \* of checkai: "idle", "balance", "reinit" or "reassign"
    teams, reassign     \* balanceteams: teams by score, bots that may be moved

people == <<clients, spectators, privileged, warned, team>>
ai == <<bots, owned>>
settings == <<botbalance, botlimit>>
loops == <<phase, teams, reassign>>
vars == <<people, ai, dorefresh, settings, loops>>

Slots == 1 .. MaxBots
NoBot == [ownernum |-> NoOwner, aireinit |-> 0, team |-> -1]

Joined == {clients[i] : i \in DOMAIN clients}
Present == {b \in Slots : bots[b] # NoBot}
Idle == phase = "idle"

Init ==
    /\ clients = <<>> /\ spectators = {} /\ privileged = {} /\ warned = {}
    /\ team = [h \in Humans |-> DefaultTeams[1]]
    /\ bots = [b \in Slots |-> NoBot] /\ owned = [h \in Humans |-> <<>>]
    /\ dorefresh = FALSE /\ botbalance = TRUE /\ botlimit \in Limits
    /\ phase = "idle" /\ teams = <<>> /\ reassign = <<>>
-----------------------------------------------------------------------------
\* The first position in s whose element has the property P.
FirstWith(s, P(_)) == CHOOSE i \in DOMAIN s : P(s[i]) /\ \A j \in 1 .. i - 1 : ~P(s[j])
-----------------------------------------------------------------------------
(* Owners.  "who" holds the clients that may own bots, in the order of the list; *)
(* "st" is a state of the bots and of the lists of their owners.                 *)

\* validaiclient()
Valid(h, spec, priv, warn) == h \notin spec \/ (h \in priv /\ h \notin warn)

ValidNow(h) == Valid(h, spectators, privileged, warned)

\* Those who may own bots, in the order of the list.
Owners == Within(clients, {c \in Joined : ValidNow(c)})

\* findaiclient(): the first of those with the fewest bots.
FindAiClient(st, who) ==
    IF who = <<>> THEN NoOwner
    ELSE LET least(h) == \A i \in DOMAIN who : Len(st.owned[h]) <= Len(st.owned[who[i]])
         IN  who[FirstWith(who, least)]

\* Wrong on purpose, to be put in the place of the next definition: the last owner
\* keeps the bot on its list.
ShiftAiKeeping(st, b, owner) ==
    IF owner = NoOwner
    THEN [st EXCEPT !.bots[b] = [@ EXCEPT !.ownernum = NoOwner, !.aireinit = 0]]
    ELSE [st EXCEPT !.bots[b] = [@ EXCEPT !.ownernum = owner, !.aireinit = 2],
                    !.owned[owner] = Append(@, b)]

\* shiftai()
ShiftAi(st, b, owner) ==
    LET prev == st.bots[b].ownernum
        left == IF prev = NoOwner THEN st ELSE [st EXCEPT !.owned[prev] = Removed(@, b)]
    IN  IF owner = NoOwner
        THEN [left EXCEPT !.bots[b] = [@ EXCEPT !.ownernum = NoOwner, !.aireinit = 0]]
        ELSE IF prev = owner THEN left
        ELSE [left EXCEPT !.bots[b] = [@ EXCEPT !.ownernum = owner, !.aireinit = 2],
                          !.owned[owner] = Append(@, b)]

\* The present state of bots and lists.
Now == [bots |-> bots, owned |-> owned]

\* removeai(): the bots of h, from the last to the first, go to others.
RemoveAi(h, who) ==
    LET mine == owned[h]
        shifted[n \in 0 .. Len(mine)] ==
            IF n = 0 THEN Now
            ELSE ShiftAi(shifted[n - 1], mine[Len(mine) + 1 - n],
                         FindAiClient(shifted[n - 1], who))
    IN  shifted[Len(mine)]

\* Wrong on purpose, to be put in the place of the next definition: nobody is told.
BecomeQuietly(st) == bots' = st.bots /\ owned' = st.owned /\ UNCHANGED dorefresh

\* Every shift asks for a refresh.
Become(st) ==
    /\ bots' = st.bots /\ owned' = st.owned
    /\ dorefresh' = (dorefresh \/ st # Now)

\* clearai()
Cleared == [bots |-> [b \in Slots |-> NoBot], owned |-> [h \in Humans |-> <<>>]]

Others(h, spec, priv, warn) ==
    Within(clients, {c \in Joined \ {h} : Valid(c, spec, priv, warn)})

\* The bots of h go to whoever else is valid.
GiveUp(h) == Become(RemoveAi(h, Others(h, spectators, privileged, warned)))
-----------------------------------------------------------------------------
(* Clients *)

\* What changemap() does to bots: they are all removed, and teams are given anew.
ChangesMap(who) ==
    /\ bots' = Cleared.bots /\ owned' = Cleared.owned /\ dorefresh' = TRUE
    /\ warned' = {}
    /\ botbalance' = IF who \cap privileged = {} THEN TRUE ELSE botbalance

\* autoteam() may give anybody a default team.
ChangeMap ==
    /\ Idle /\ ChangesMap(Joined)
    /\ team' \in [Humans -> Teams]
    /\ \A h \in Humans :
          \/ team'[h] = team[h]
          \/ TeamMode /\ h \in Joined /\ \E i \in {1, 2} : team'[h] = DefaultTeams[i]
    /\ UNCHANGED <<clients, spectators, privileged, botlimit, loops>>

\* connected(), on a new map if the last game is over.
Join(h, watch) ==
    /\ Idle /\ h \notin Joined
    /\ clients' = Append(clients, h)
    /\ spectators' = IF watch THEN spectators \cup {h} ELSE spectators
    /\ team' \in {[team EXCEPT ![h] = DefaultTeams[i]] : i \in IF TeamMode THEN {1, 2} ELSE {1}}
    /\ \/ ChangesMap(Joined)
       \/ dorefresh' = TRUE /\ UNCHANGED <<ai, warned, botbalance>>
    /\ UNCHANGED <<privileged, botlimit, loops>>

\* clientdisconnect(); with the last client the bots go.
Leave(h) ==
    /\ Idle /\ h \in Joined
    /\ clients' = Removed(clients, h)
    /\ spectators' = spectators \ {h} /\ privileged' = privileged \ {h} /\ warned' = warned \ {h}
    /\ team' = [team EXCEPT ![h] = DefaultTeams[1]]
    /\ IF Joined = {h} THEN Become(Cleared) ELSE GiveUp(h)
    /\ UNCHANGED <<settings, loops>>

\* forcespectator()
ForceSpectator(h) ==
    /\ Idle /\ h \in Joined \ spectators
    /\ spectators' = spectators \cup {h}
    /\ IF h \notin privileged \/ h \in warned THEN GiveUp(h) ELSE UNCHANGED <<ai, dorefresh>>
    /\ UNCHANGED <<clients, privileged, warned, team, settings, loops>>

\* unspectate(), and a new map if the last game is over.
Unspectate(h) ==
    /\ Idle /\ h \in Joined \cap spectators
    /\ ~(MapSpectator /\ h \in warned)
    /\ spectators' = spectators \ {h}
    /\ \/ ChangesMap(Joined)
       \/ dorefresh' = TRUE /\ UNCHANGED <<ai, warned, botbalance>>
    /\ UNCHANGED <<clients, privileged, team, botlimit, loops>>

\* checkmaps() finds that h has modified the map.
Warn(h) ==
    /\ Idle /\ h \in Joined \ (spectators \cup warned)
    /\ warned' = warned \cup {h}
    /\ IF MapSpectator THEN spectators' = spectators \cup {h} /\ GiveUp(h)
       ELSE UNCHANGED <<spectators, ai, dorefresh>>
    /\ UNCHANGED <<clients, privileged, team, settings, loops>>

\* setmaster(): a spectator may claim it with a key.  That others lose theirs is a
\* RevokeMaster; any of the privileged may be an admin.
Claim(h) ==
    /\ Idle /\ h \in Joined \ privileged
    /\ privileged' = privileged \cup {h}
    /\ UNCHANGED <<clients, spectators, warned, team, ai, dorefresh, settings, loops>>

\* Wrong on purpose, to be put in the place of the next definition: a spectator
\* keeps its bots.
RevokeMasterOnly(h) ==
    /\ Idle /\ h \in privileged
    /\ privileged' = privileged \ {h}
    /\ UNCHANGED <<clients, spectators, warned, team, ai, dorefresh, settings, loops>>

\* revokemaster()
RevokeMaster(h) ==
    /\ Idle /\ h \in privileged
    /\ privileged' = privileged \ {h}
    /\ IF h \in spectators THEN GiveUp(h) ELSE UNCHANGED <<ai, dorefresh>>
    /\ UNCHANGED <<clients, spectators, warned, team, settings, loops>>

\* N_SWITCHTEAM and N_SETTEAM, of a player.
SwitchTeam(h, t) ==
    /\ Idle /\ TeamMode /\ h \in Joined /\ team[h] # t
    /\ team' = [team EXCEPT ![h] = t] /\ dorefresh' = TRUE
    /\ UNCHANGED <<clients, spectators, privileged, warned, ai, settings, loops>>

\* N_SETTEAM, of a bot.
SetBotTeam(b, t) ==
    /\ Idle /\ TeamMode /\ privileged # {} /\ b \in Present /\ bots[b].team # t
    /\ bots' = [bots EXCEPT ![b].team = t]
    /\ UNCHANGED <<people, owned, dorefresh, settings, loops>>
-----------------------------------------------------------------------------
(* Requests of clients *)

\* Players and bots of a team.
Size(t) ==
    Cardinality({h \in Joined \ spectators : team[h] = t}) +
    Cardinality({b \in Present : bots[b].team = t})

\* calcteams(): the teams that have players, by score and then by name; default
\* teams without players follow if there are fewer than two.
CalcTeams ==
    LET used == {t \in Teams : Size(t) > 0}
        before(t, u) == Size(t) > Size(u) \/ (Size(t) = Size(u) /\ t < u)
        sorted == CHOOSE s \in [1 .. Cardinality(used) -> used] :
                      \A i, j \in DOMAIN s : i < j => before(s[i], s[j])
        names == IF Cardinality(used) < 2
                 THEN sorted \o Within(DefaultTeams, Teams \ used)
                 ELSE sorted
    IN  [i \in DOMAIN names |-> [team |-> names[i], score |-> Size(names[i])]]

\* chooseteam(), in team modes.
ChooseTeam == IF TeamMode THEN CalcTeams[Len(CalcTeams)].team ELSE 0

\* Bots that are not about to be removed.
Owned == {b \in Slots : bots[b].ownernum # NoOwner}

\* addai(): the first slot that is free, or whose bot was to be removed.
AddAi(limit) ==
    LET free == Slots \ Owned
        b == CHOOSE s \in free : \A r \in free : s <= r
        owner == FindAiClient(Now, Owners)
    IN  IF Cardinality(Owned) >= limit THEN UNCHANGED <<ai, dorefresh>>
        ELSE /\ bots' = [bots EXCEPT ![b] =
                           [ownernum |-> owner, aireinit |-> 2,
                            team |-> IF b \in Present THEN @.team ELSE ChooseTeam]]
             /\ owned' = IF owner = NoOwner THEN owned
                         ELSE [owned EXCEPT ![owner] = Append(@, b)]
             /\ dorefresh' = TRUE

\* reqadd(): the limit does not bind admins.
ReqAdd(h, admin) ==
    /\ Idle /\ h \in privileged
    /\ AddAi(IF admin THEN MaxBots ELSE botlimit)
    /\ UNCHANGED <<people, settings, loops>>

\* reqdel(), deleteai(): the last bot that has an owner.
ReqDel(h) ==
    /\ Idle /\ h \in privileged /\ Owned # {}
    /\ LET b == CHOOSE s \in Owned : \A r \in Owned : r <= s
       IN  /\ bots' = [bots EXCEPT ![b] = NoBot]
           /\ owned' = [owned EXCEPT ![bots[b].ownernum] = Removed(@, b)]
    /\ dorefresh' = TRUE
    /\ UNCHANGED <<people, settings, loops>>

SetBotLimit(h, limit) ==
    /\ Idle /\ h \in privileged
    /\ botlimit' = limit /\ dorefresh' = TRUE
    /\ UNCHANGED <<people, ai, botbalance, loops>>

SetBotBalance(h, balance) ==
    /\ Idle /\ h \in privileged
    /\ botbalance' = balance /\ dorefresh' = TRUE
    /\ UNCHANGED <<people, ai, botlimit, loops>>
-----------------------------------------------------------------------------
(* checkai *)

\* The bots in the order of their slots.
BotList == Within([b \in Slots |-> b], Present)

CheckAi ==
    /\ Idle /\ dorefresh
    /\ IF clients = <<>>
       THEN /\ bots' = Cleared.bots /\ owned' = Cleared.owned
            /\ dorefresh' = (Present # {}) /\ UNCHANGED loops
       ELSE /\ dorefresh' = FALSE /\ UNCHANGED ai
            /\ IF TeamMode /\ botbalance
               THEN phase' = "balance" /\ teams' = CalcTeams /\ reassign' = BotList
               ELSE phase' = "reinit" /\ UNCHANGED <<teams, reassign>>
    /\ UNCHANGED <<people, settings>>

\* The largest team has two more than the smallest.
Uneven(s) == s # <<>> /\ s[1].score > s[Len(s)].score + 1

\* A bot leaves the first team of s and joins the last, which moves up.
Moved(s) ==
    LET n == Len(s)
        counted == [s EXCEPT ![1].score = @ - 1, ![n].score = @ + 1]
        k == CHOOSE i \in 1 .. n :
               /\ \A j \in i .. n - 1 : counted[j].score < counted[n].score
               /\ i > 1 => counted[i - 1].score >= counted[n].score
    IN  SubSeq(counted, 1, k - 1) \o <<counted[n]>> \o SubSeq(counted, k, n - 1)

\* The loop of balanceteams().  A bot gets the team that is last now.
Balance ==
    /\ phase = "balance" /\ reassign # <<>> /\ Uneven(teams)
    /\ LET inFirst(b) == bots[b].team = teams[1].team
       IN  IF \E i \in DOMAIN reassign : inFirst(reassign[i])
           THEN LET i == FirstWith(reassign, inFirst)
                IN  /\ teams' = Moved(teams)
                    /\ reassign' = RemovedUnordered(reassign, i)
                    /\ bots' = [bots EXCEPT ![reassign[i]].team = teams'[Len(teams)].team]
           ELSE teams' = Tail(teams) /\ UNCHANGED <<reassign, bots>>
    /\ UNCHANGED <<people, owned, dorefresh, settings, phase>>

Balanced ==
    /\ phase = "balance" /\ (reassign = <<>> \/ ~Uneven(teams))
    /\ phase' = "reinit" /\ teams' = <<>> /\ reassign' = <<>>
    /\ UNCHANGED <<people, ai, dorefresh, settings>>

\* checksetup(): bots without an owner are removed, owners are told of the others.
ReinitAi ==
    /\ phase = "reinit" /\ phase' = "reassign"
    /\ bots' = [b \in Slots |-> IF b \in Owned THEN [bots[b] EXCEPT !.aireinit = 0] ELSE NoBot]
    /\ dorefresh' = (dorefresh \/ \E b \in Present : b \notin Owned)
    /\ UNCHANGED <<people, owned, settings, teams, reassign>>

\* How many bots h simulates.
Load(h) == Len(owned[h])

\* Wrong on purpose, to be put in the place of the next definition: a difference
\* of one is too much.
OverloadedByOne(hi, lo) == Load(hi) - Load(lo) > 0

\* Wrong on purpose, to be put in the place of the next definition: a difference
\* of two is tolerated.
OverloadedByTwo(hi, lo) == Load(hi) - Load(lo) > 2

\* The difference reassignai() does something about.
Overloaded(hi, lo) == Load(hi) - Load(lo) > 1

\* reassignai(): the last bot of the first client with the most goes to the first
\* one with the fewest.
ReassignAi ==
    LET who == Owners
        fewest(h) == \A i \in DOMAIN who : Load(h) <= Load(who[i])
        most(h) == \A i \in DOMAIN who : Load(h) >= Load(who[i])
        lo == who[FirstWith(who, fewest)]
        hi == who[FirstWith(who, most)]
    IN  /\ phase = "reassign"
        /\ IF who # <<>> /\ Overloaded(hi, lo)
           THEN /\ Become(ShiftAi(Now, owned[hi][Load(hi)], lo))
                /\ UNCHANGED phase
           ELSE phase' = "idle" /\ UNCHANGED <<ai, dorefresh>>
        /\ UNCHANGED <<people, settings, teams, reassign>>

Refresh == Balance \/ Balanced \/ ReinitAi \/ ReassignAi

Next ==
    \/ \E h \in Humans :
         \/ \E watch \in BOOLEAN : Join(h, watch)
         \/ Leave(h) \/ ForceSpectator(h) \/ Unspectate(h) \/ Warn(h)
         \/ Claim(h) \/ RevokeMaster(h)
         \/ \E t \in Teams : SwitchTeam(h, t)
         \/ \E admin \in BOOLEAN : ReqAdd(h, admin)
         \/ ReqDel(h)
         \/ \E limit \in Limits : SetBotLimit(h, limit)
         \/ \E balance \in BOOLEAN : SetBotBalance(h, balance)
    \/ \E b \in Slots, t \in Teams : SetBotTeam(b, t)
    \/ ChangeMap
    \/ CheckAi
    \/ Refresh

Spec == Init /\ [][Next]_vars

\* checkai is one call: once begun it goes on.
FairSpec == Spec /\ WF_vars(Refresh)
-----------------------------------------------------------------------------
(* Properties *)

\* The teams a bot may be on: the name is empty where there are none.
TeamOf == IF TeamMode THEN Teams ELSE {0}

\* Types.  No list holds a bot twice; a bot has a team in team modes.
TypeOK ==
    /\ clients \in Seq(Humans) /\ IsInjective(clients)
    /\ spectators \subseteq Joined /\ privileged \subseteq Joined /\ warned \subseteq Joined
    /\ team \in [Humans -> Teams]
    /\ bots \in [Slots -> {NoBot} \cup
                   [ownernum : Humans \cup {NoOwner}, aireinit : {0, 2}, team : TeamOf]]
    /\ owned \in [Humans -> Seq(Slots)] /\ \A h \in Humans : IsInjective(owned[h])
    /\ dorefresh \in BOOLEAN /\ botbalance \in BOOLEAN /\ botlimit \in 0 .. MaxBots
    /\ phase \in {"idle", "balance", "reinit", "reassign"}
    /\ teams \in Seq([team : Teams, score : Nat])
    /\ reassign \in Seq(Slots) /\ IsInjective(reassign)

\* shiftai, addai and deleteai keep the owner's list and the bot's ownernum together:
\* a bot is on the list of its owner and on no other, and nobody else has a list.
OwnersAgree ==
    \A h \in Humans, b \in Slots :
        (\E i \in DOMAIN owned[h] : owned[h][i] = b) <=> bots[b].ownernum = h

\* Whoever must simulate a bot is there and may: removeai runs wherever a client
\* leaves, spectates or loses the privilege that lets a spectator own bots.
OwnersValid == \A b \in Owned : bots[b].ownernum \in Joined /\ ValidNow(bots[b].ownernum)

\* Between calls of checkai, every bot that is to be removed, or whose owner is to be
\* told, has dorefresh set: no handler forgets to ask for the next checkai.
PendingRefreshed ==
    Idle /\ (\E b \in Present : b \notin Owned \/ bots[b].aireinit # 0) => dorefresh

\* Each bot has the owner it says it has, who is there and may have it, or will be
\* seen to by the next checkai.
OwnersKept == OwnersAgree /\ OwnersValid /\ PendingRefreshed

\* When nothing is pending, no player has two bots more than another.  Spectators are
\* left out: who claims a privilege may own bots at once, but setmaster asks for no refresh.
OwnersBalanced ==
    Idle /\ ~dorefresh =>
        \A h, k \in Joined \ spectators : Load(h) <= Load(k) + 1

\* checkai ends: the loops of balanceteams and reassignai do not go round for ever.
RefreshEnds == ~Idle ~> Idle
=============================================================================
