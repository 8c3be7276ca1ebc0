----------------------------- MODULE ModesProofs -----------------------------
(***************************************************************************)
(* Theorems about Modes: who holds a flag, what a hold earns, whom a team  *)
(* kill bars, what clients are told of flags, bases and skulls, and the    *)
(* counts of skulls and of players in bases, for any clients, places,      *)
(* bounds and rules.                                                       *)
(***************************************************************************)
EXTENDS Modes, VectorProofs, FiniteSetTheorems

StateFields == {"flags", "spawns", "scores", "notgot", "now", "ended", "seen"}
FlagFields == {"version", "spawnindex", "droploc", "spawnloc", "team", "droptime", "holdtime", "owner", "dropcount",
               "dropper", "invistime"}

\* The server's record of a flag: what is timed lies in the past.
FlagOK(f, now) ==
  /\ DOMAIN f = FlagFields /\ f.owner \in Clients \cup {Nobody}
  /\ f.holdtime \in Nat /\ f.holdtime <= now
  /\ f.droptime \in Nat /\ f.droptime <= now
  /\ f.dropcount \in Nat

\* The state of a mode with flags: none before the list, then one or two.
FlagsOK(s) ==
  /\ DOMAIN s = StateFields
  /\ s.notgot \in BOOLEAN
  /\ s.now \in Nat /\ s.now # 0
  /\ DOMAIN s.flags = IF s.notgot THEN {} ELSE IF Hold THEN {1} ELSE {1, 2}
  /\ \A i \in DOMAIN s.flags : FlagOK(s.flags[i], s.now)
  /\ Hold => s.scores \in [Teams -> Nat]

\* Nothing but the clients' copy changed.
Unseen(s, t) ==
  /\ DOMAIN t = DOMAIN s /\ t.flags = s.flags /\ t.scores = s.scores /\ t.notgot = s.notgot
  /\ t.now = s.now /\ t.spawns = s.spawns

\* What is not a flag stayed.
Beside(s, t) == t.notgot = s.notgot /\ t.now = s.now

\* Nobody earned a point of hold.
Kept(s, t) == Hold => t.scores = s.scores

LEMMA SeenUnseen ==
  ASSUME NEW s, DOMAIN s = StateFields, NEW i, NEW b
  PROVE  /\ Unseen(s, SeeTake(s, i)) /\ Unseen(s, SeeDrop(s, i)) /\ Unseen(s, SeeReturn(s, i, b))
         /\ Unseen(s, SeeReset(s, i)) /\ Unseen(s, SeeInvis(s, i)) /\ Unseen(s, SeeScore(s, b))
         /\ Unseen(s, SeeScored(s, i))
<1>1. \A x : Unseen(s, [s EXCEPT !.seen = x])
  BY DEF Unseen, StateFields
<1>2. Unseen(s, SeeTake(s, i))
  BY <1>1 DEF SeeTake
<1>3. Unseen(s, SeeDrop(s, i))
  BY <1>1 DEF SeeDrop
<1>4. Unseen(s, SeeReturn(s, i, b))
  BY <1>1 DEF SeeReturn
<1>5. Unseen(s, SeeInvis(s, i))
  BY <1>1 DEF SeeInvis
<1>6. Unseen(s, SeeScore(s, b))
  BY <1>1 DEF SeeScore
<1>7. Unseen(s, SeeReset(s, i))
  BY <1>1 DEF SeeReset, SeeReturn, Unseen, StateFields
<1>8. Unseen(s, SeeScored(s, i))
  BY <1>1 DEF SeeScored
<1> QED BY <1>2, <1>3, <1>4, <1>5, <1>6, <1>7, <1>8

LEMMA BumpedFlag ==
  ASSUME NEW s, DOMAIN s = StateFields, NEW i \in DOMAIN s.flags, DOMAIN s.flags[i] = FlagFields
  PROVE  /\ DOMAIN Bumped(s, i) = StateFields /\ Beside(s, Bumped(s, i)) /\ Bumped(s, i).scores = s.scores
         /\ DOMAIN Bumped(s, i).flags = DOMAIN s.flags
         /\ \A j \in DOMAIN s.flags : j # i => Bumped(s, i).flags[j] = s.flags[j]
         /\ \E v : Bumped(s, i).flags[i] = [s.flags[i] EXCEPT !.version = v]
BY DEF Bumped, StateFields, FlagFields, Beside, Kept

\* What the properties see of a flag stayed.
Same(f, g) ==
  /\ g.owner = f.owner /\ g.team = f.team /\ g.holdtime = f.holdtime /\ g.droptime = f.droptime
  /\ g.dropper = f.dropper /\ g.dropcount = f.dropcount

\* From s to t, flag i became what g is, and no other changed.
Sets(s, t, i, g) ==
  /\ FlagsOK(t) /\ Beside(s, t) /\ Kept(s, t)
  /\ DOMAIN t.flags = DOMAIN s.flags
  /\ \A j \in DOMAIN s.flags : j # i => t.flags[j] = s.flags[j]
  /\ Same(g, t.flags[i])

LEMMA SetOne ==
  ASSUME NEW s, FlagsOK(s), NEW i \in DOMAIN s.flags, NEW g, FlagOK(g, s.now)
  PROVE  Sets(s, [s EXCEPT !.flags[i] = g], i, g)
BY DEF Sets, FlagsOK, Beside, Kept, Same, StateFields

LEMMA SetBumped ==
  ASSUME NEW s, NEW i \in DOMAIN s.flags, NEW g, NEW u, Sets(s, u, i, g)
  PROVE  Sets(s, Bumped(u, i), i, g)
<1> DEFINE t == Bumped(u, i)
<1>1. /\ FlagsOK(u) /\ DOMAIN u = StateFields /\ i \in DOMAIN u.flags /\ DOMAIN u.flags[i] = FlagFields
  BY DEF Sets, FlagsOK, FlagOK
<1>2. /\ DOMAIN t = StateFields /\ Beside(u, t) /\ t.scores = u.scores
      /\ DOMAIN t.flags = DOMAIN u.flags
      /\ \A j \in DOMAIN u.flags : j # i => t.flags[j] = u.flags[j]
      /\ \E v : t.flags[i] = [u.flags[i] EXCEPT !.version = v]
  BY <1>1, BumpedFlag, ZenonT(60)
<1> HIDE DEF t
<1>3. DOMAIN t.flags[i] = FlagFields /\ Same(u.flags[i], t.flags[i])
  BY <1>1, <1>2 DEF Same, FlagFields
<1>4. FlagsOK(t)
  <2>1. t.now = u.now /\ t.notgot = u.notgot /\ t.scores = u.scores BY <1>2 DEF Beside, Kept
  <2>2. FlagOK(t.flags[i], t.now) BY <1>1, <1>3, <2>1 DEF FlagsOK, FlagOK, Same
  <2>3. \A j \in DOMAIN t.flags : FlagOK(t.flags[j], t.now) BY <1>1, <1>2, <2>1, <2>2 DEF FlagsOK
  <2> QED BY <1>1, <1>2, <2>1, <2>3 DEF FlagsOK
<1>5. Sets(s, t, i, g)
  BY <1>2, <1>3, <1>4 DEF Sets, Beside, Kept, Same
<1> QED BY <1>5 DEF t

LEMMA SetSeen ==
  ASSUME NEW s, NEW i, NEW g, NEW u, Sets(s, u, i, g), NEW t, Unseen(u, t)
  PROVE  Sets(s, t, i, g)
BY DEF Sets, Unseen, FlagsOK, Beside, Kept

LEMMA SetSpawned ==
  ASSUME NEW s, NEW i \in DOMAIN s.flags, NEW g, NEW u, Sets(s, u, i, g), NEW r
  PROVE  Sets(s, Spawned(u, i, r), i, g)
<1> DEFINE t == [u EXCEPT !.flags[i].spawnindex = r]
<1>1. /\ FlagsOK(u) /\ DOMAIN u = StateFields /\ i \in DOMAIN u.flags /\ DOMAIN u.flags[i] = FlagFields
      /\ DOMAIN u.flags = DOMAIN s.flags
  BY DEF Sets, FlagsOK, FlagOK
<1>2. /\ DOMAIN t = StateFields /\ Beside(u, t) /\ t.scores = u.scores
      /\ DOMAIN t.flags = DOMAIN u.flags
      /\ \A j \in DOMAIN u.flags : j # i => t.flags[j] = u.flags[j]
      /\ t.flags[i] = [u.flags[i] EXCEPT !.spawnindex = r]
  BY <1>1 DEF StateFields, Beside, Kept
<1> HIDE DEF t
<1>3. DOMAIN t.flags[i] = FlagFields /\ Same(u.flags[i], t.flags[i])
  BY <1>1, <1>2 DEF Same, FlagFields
<1>4. FlagsOK(t)
  <2>1. t.now = u.now /\ t.notgot = u.notgot /\ t.scores = u.scores BY <1>2 DEF Beside, Kept
  <2>2. FlagOK(t.flags[i], t.now) BY <1>1, <1>3, <2>1 DEF FlagsOK, FlagOK, Same
  <2>3. \A j \in DOMAIN t.flags : FlagOK(t.flags[j], t.now) BY <1>1, <1>2, <2>1, <2>2 DEF FlagsOK
  <2> QED BY <1>1, <1>2, <2>1, <2>3 DEF FlagsOK
<1>5. Sets(s, t, i, g)
  BY <1>2, <1>3, <1>4 DEF Sets, Beside, Kept, Same
<1> QED BY <1>5 DEF t, Spawned

\* A flag that is where it belongs: nobody holds it, none of its times runs.
Home(f, g) == g.owner = Nobody /\ g.team = f.team /\ g.holdtime = 0 /\ g.droptime = 0

LEMMA ReturnedHome ==
  ASSUME NEW f, NEW now \in Nat, FlagOK(f, now), NEW invistime
  PROVE  FlagOK(Returned(f, invistime), now) /\ Home(f, Returned(f, invistime))
BY DEF Returned, FlagOK, FlagFields, Home

\* A flag that lies where dropper dropped it.
Lying(f, g, dropper, penalty, now) ==
  /\ g.owner = Nobody /\ g.team = f.team /\ g.holdtime = f.holdtime /\ g.droptime = now /\ g.dropper = dropper
  /\ dropper # Nobody /\ penalty => g.dropcount = MaxDrops

LEMMA DroppedLies ==
  ASSUME NEW f, NEW now \in Nat, FlagOK(f, now), NEW o, NEW dropper, NEW penalty \in BOOLEAN
  PROVE  /\ FlagOK(Dropped(f, o, dropper, penalty, now), now)
         /\ Lying(f, Dropped(f, o, dropper, penalty, now), dropper, penalty, now)
BY FlagsAssumption DEF Dropped, FlagOK, FlagFields, Lying

-----------------------------------------------------------------------------
(* What a player leaves behind: dropflag, leavegame, died.                   *)

\* Nobody holds the flag from c's hands on, whoever dropped it: who did at the limit of drops, if guilty.
Falls(f, g, c, dropper, guilty) ==
  /\ g.team = f.team
  /\ g.owner = IF f.owner = c THEN Nobody ELSE f.owner
  /\ f.owner # c /\ f.dropper # c => Same(f, g)
  /\ f.owner # c => g.droptime = f.droptime
  /\ g.holdtime = 0 \/ (f.holdtime # 0 /\ f.holdtime <= g.holdtime)
  /\ f.owner # c => g.holdtime = f.holdtime
  /\ f.owner = c /\ guilty /\ g.droptime # 0 => g.dropper = dropper /\ g.dropcount = MaxDrops

Loses(s, t, c, dropper, guilty) ==
  /\ FlagsOK(t) /\ Beside(s, t) /\ Kept(s, t)
  /\ DOMAIN t.flags = DOMAIN s.flags
  /\ \A i \in DOMAIN s.flags : Falls(s.flags[i], t.flags[i], c, dropper, guilty)

LEMMA DropOneFalls ==
  ASSUME NEW s, FlagsOK(s), NEW i \in DOMAIN s.flags, NEW c \in Clients, NEW dropper
  PROVE  LET t == DropOne(s, c, dropper, i)
             guilty == dropper \notin {Nobody, c}
         IN /\ FlagsOK(t) /\ Beside(s, t) /\ Kept(s, t) /\ DOMAIN t.flags = DOMAIN s.flags
            /\ \A j \in DOMAIN s.flags : j # i => t.flags[j] = s.flags[j]
            /\ s.flags[i].owner # c => t.flags[i] = s.flags[i]
            /\ Falls(s.flags[i], t.flags[i], c, dropper, guilty)
            /\ t.flags[i].owner # c
<1> DEFINE t == DropOne(s, c, dropper, i)
           guilty == dropper \notin {Nobody, c}
           by == IF dropper = Nobody THEN c ELSE dropper
           f == s.flags[i]
           home == Returned(f, 0)
           lies == Dropped(f, ci[c].o, by, guilty, s.now)
<1>1. FlagOK(f, s.now) /\ s.now \in Nat /\ DOMAIN s = StateFields /\ c # Nobody
  BY PlayersAssumption DEF FlagsOK
<1>2. CASE f.owner # c
  <2>1. t = s BY <1>2 DEF DropOne
  <2> QED BY <1>1, <1>2, <2>1 DEF Beside, Kept, Falls, Same, FlagOK
<1>3. CASE f.owner = c /\ Protect /\ InsideBase(f, ci[c].o)
  <2>1. Sets(s, [s EXCEPT !.flags[i] = home], i, home) BY <1>1, SetOne, ReturnedHome
  <2>2. [s EXCEPT !.flags[i] = Returned(@, 0)] = [s EXCEPT !.flags[i] = home] OBVIOUS
  <2> DEFINE u == Bumped([s EXCEPT !.flags[i] = Returned(@, 0)], i)
  <2>3. Sets(s, u, i, home) BY <2>1, <2>2, SetBumped
  <2>4. t = SeeReturn(u, i, FALSE) BY <1>3 DEF DropOne
  <2> HIDE DEF u
  <2>5. DOMAIN u = StateFields BY <2>3 DEF Sets, FlagsOK
  <2>6. Unseen(u, t) BY <2>4, <2>5, SeenUnseen
  <2>7. Sets(s, t, i, home) BY <2>3, <2>6, SetSeen
  <2>8. Home(f, home) BY <1>1, ReturnedHome
  <2> HIDE DEF t, home
  <2>9. Same(home, t.flags[i]) BY <2>7 DEF Sets
  <2>10. Falls(f, t.flags[i], c, dropper, guilty) /\ t.flags[i].owner # c
    <3> HIDE DEF f
    <3> QED BY <1>1, <1>3, <2>8, <2>9 DEF Falls, Same, Home
  <2> QED BY <1>3, <2>7, <2>10 DEF Sets, t
<1>4. CASE f.owner = c /\ ~(Protect /\ InsideBase(f, ci[c].o))
  <2>0. guilty \in BOOLEAN /\ by # Nobody BY <1>1
  <2>9. FlagOK(lies, s.now) BY <1>1, <2>0, DroppedLies
  <2>1. Sets(s, [s EXCEPT !.flags[i] = lies], i, lies) BY <1>1, <2>9, SetOne
  <2> DEFINE u == Bumped([s EXCEPT !.flags[i] = Dropped(@, ci[c].o, by, guilty, s.now)], i)
  <2>2. [s EXCEPT !.flags[i] = Dropped(@, ci[c].o, by, guilty, s.now)] = [s EXCEPT !.flags[i] = lies] OBVIOUS
  <2>3. Sets(s, u, i, lies) BY <2>1, <2>2, SetBumped
  <2>4. t = SeeDrop(u, i) BY <1>4 DEF DropOne
  <2> HIDE DEF u
  <2>5. DOMAIN u = StateFields BY <2>3 DEF Sets, FlagsOK
  <2>6. Unseen(u, t) BY <2>4, <2>5, SeenUnseen
  <2>7. Sets(s, t, i, lies) BY <2>3, <2>6, SetSeen
  <2>8. Lying(f, lies, by, guilty, s.now)
    BY <1>1, <2>0, DroppedLies
  <2> HIDE DEF t, lies
  <2>10. Same(lies, t.flags[i]) BY <2>7 DEF Sets
  <2>11. Falls(f, t.flags[i], c, dropper, guilty) /\ t.flags[i].owner # c
    <3>1. guilty => by = dropper OBVIOUS
    <3>2. f.holdtime \in Nat BY <1>1 DEF FlagOK
    <3> HIDE DEF f, by, guilty
    <3> QED BY <1>1, <1>4, <2>0, <2>8, <2>10, <3>1, <3>2 DEF Falls, Same, Lying
  <2> QED BY <1>4, <2>7, <2>11 DEF Sets, t
<1> QED BY <1>2, <1>3, <1>4

LEMMA FallsTwice ==
  ASSUME NEW f, NEW g, NEW h, NEW c, NEW dropper, NEW guilty \in BOOLEAN, c # Nobody,
         f.holdtime \in Nat, g.holdtime \in Nat, h.holdtime \in Nat,
         Falls(f, g, c, dropper, guilty), Falls(g, h, c, Nobody, FALSE), Same(g, h)
  PROVE  Falls(f, h, c, dropper, guilty)
BY DEF Falls, Same

LEMMA DropFlagLoses ==
  ASSUME NEW s, FlagsOK(s), ~s.notgot, NEW c \in Clients, NEW dropper
  PROVE  /\ Loses(s, DropFlag(s, c, dropper), c, dropper, dropper \notin {Nobody, c})
         /\ \A i \in DOMAIN s.flags :
              s.flags[i].owner # c => Same(s.flags[i], DropFlag(s, c, dropper).flags[i])
<1> DEFINE t == DropOne(s, c, dropper, 1)
           u == DropOne(t, c, dropper, 2)
           guilty == dropper \notin {Nobody, c}
<1>1. 1 \in DOMAIN s.flags /\ DOMAIN s.flags \in {{1}, {1, 2}}
  BY DEF FlagsOK
<1>2. /\ FlagsOK(t) /\ Beside(s, t) /\ Kept(s, t) /\ DOMAIN t.flags = DOMAIN s.flags
      /\ \A j \in DOMAIN s.flags : j # 1 => t.flags[j] = s.flags[j]
      /\ s.flags[1].owner # c => t.flags[1] = s.flags[1]
      /\ Falls(s.flags[1], t.flags[1], c, dropper, guilty)
  BY <1>1, DropOneFalls
<1>3. CASE 2 \notin DOMAIN s.flags
  <2>1. DropFlag(s, c, dropper) = t BY <1>3 DEF DropFlag
  <2>2. DOMAIN s.flags = {1} BY <1>1, <1>3
  <2> HIDE DEF t, guilty
  <2>3. Loses(s, t, c, dropper, guilty) /\ \A i \in DOMAIN s.flags : s.flags[i].owner # c => Same(s.flags[i], t.flags[i])
    BY <1>2, <2>2 DEF Loses, Same
  <2> QED BY <2>1, <2>3 DEF guilty
<1>4. CASE 2 \in DOMAIN s.flags
  <2>1. DropFlag(s, c, dropper) = u BY <1>4 DEF DropFlag
  <2>2. DOMAIN s.flags = {1, 2} BY <1>1, <1>4
  <2> HIDE DEF t
  <2>3. 2 \in DOMAIN t.flags BY <1>2, <1>4
  <2>4. /\ FlagsOK(u) /\ Beside(t, u) /\ Kept(t, u) /\ DOMAIN u.flags = DOMAIN t.flags
        /\ \A j \in DOMAIN t.flags : j # 2 => u.flags[j] = t.flags[j]
        /\ t.flags[2].owner # c => u.flags[2] = t.flags[2]
        /\ Falls(t.flags[2], u.flags[2], c, dropper, guilty)
    BY <1>2, <2>3, DropOneFalls
  <2> HIDE DEF u, guilty
  <2>5. t.flags[2] = s.flags[2] /\ u.flags[1] = t.flags[1] BY <1>2, <2>2, <2>4
  <2>6. Loses(s, u, c, dropper, guilty) /\ \A i \in DOMAIN s.flags : s.flags[i].owner # c => Same(s.flags[i], u.flags[i])
    BY <1>2, <2>2, <2>4, <2>5 DEF Loses, Beside, Kept, Same
  <2> QED BY <2>1, <2>6 DEF guilty
<1> QED BY <1>3, <1>4

\* leavegame and died forget who dropped what.
LEMMA Forgets ==
  ASSUME NEW s, FlagsOK(s), NEW c
  PROVE  LET t == ForgetDropper(s, c)
         IN /\ FlagsOK(t) /\ Beside(s, t) /\ Kept(s, t) /\ DOMAIN t.flags = DOMAIN s.flags
            /\ \A i \in DOMAIN s.flags :
                 LET f == s.flags[i]
                     g == t.flags[i]
                 IN /\ g.owner = f.owner /\ g.team = f.team /\ g.holdtime = f.holdtime /\ g.droptime = f.droptime
                    /\ f.dropper # c => g = f
<1> DEFINE t == ForgetDropper(s, c)
<1>1. DOMAIN s = StateFields /\ \A i \in DOMAIN s.flags : FlagOK(s.flags[i], s.now) BY DEF FlagsOK
<1>2. /\ DOMAIN t = StateFields /\ Beside(s, t) /\ t.scores = s.scores
      /\ t.flags = [i \in DOMAIN s.flags |->
                     IF s.flags[i].dropper = c THEN [s.flags[i] EXCEPT !.dropper = Nobody, !.dropcount = 0] ELSE s.flags[i]]
  BY <1>1 DEF ForgetDropper, StateFields, Beside, Kept
<1> HIDE DEF t
<1>3. ASSUME NEW i \in DOMAIN s.flags
      PROVE  /\ FlagOK(t.flags[i], s.now)
             /\ LET f == s.flags[i]
                    g == t.flags[i]
                IN /\ g.owner = f.owner /\ g.team = f.team /\ g.holdtime = f.holdtime /\ g.droptime = f.droptime
                   /\ f.dropper # c => g = f
  <2>1. FlagOK(s.flags[i], s.now) BY <1>1
  <2>2. t.flags[i] = IF s.flags[i].dropper = c THEN [s.flags[i] EXCEPT !.dropper = Nobody, !.dropcount = 0] ELSE s.flags[i]
    BY <1>2
  <2> QED BY <2>1, <2>2 DEF FlagOK, FlagFields
<1>4. FlagsOK(t)
  BY <1>1, <1>2, <1>3 DEF FlagsOK, Beside, Kept
<1> QED BY <1>2, <1>3, <1>4 DEF t, Kept

LEMMA LosesForgets ==
  ASSUME NEW s, FlagsOK(s), NEW c \in Clients, NEW dropper, NEW guilty \in BOOLEAN, guilty => dropper # c,
         NEW t, Loses(s, t, c, dropper, guilty)
  PROVE  Loses(s, ForgetDropper(t, c), c, dropper, guilty)
<1> DEFINE u == ForgetDropper(t, c)
<1>1. FlagsOK(t) BY DEF Loses
<1>2. /\ FlagsOK(u) /\ Beside(t, u) /\ Kept(t, u) /\ DOMAIN u.flags = DOMAIN t.flags
      /\ \A i \in DOMAIN t.flags :
           LET g == t.flags[i]
               h == u.flags[i]
           IN /\ h.owner = g.owner /\ h.team = g.team /\ h.holdtime = g.holdtime /\ h.droptime = g.droptime
              /\ g.dropper # c => h = g
  BY <1>1, Forgets
<1> HIDE DEF u
<1>3. ASSUME NEW i \in DOMAIN s.flags
      PROVE  Falls(s.flags[i], u.flags[i], c, dropper, guilty)
  <2>1. Falls(s.flags[i], t.flags[i], c, dropper, guilty) /\ i \in DOMAIN t.flags BY DEF Loses
  <2>2. CASE t.flags[i].dropper # c BY <1>2, <2>1, <2>2
  <2>3. CASE t.flags[i].dropper = c BY <1>2, <2>1, <2>3 DEF Falls, Same
  <2> QED BY <2>2, <2>3
<1> QED BY <1>2, <1>3 DEF Loses, Beside, Kept, u

LEMMA LeaveGameLoses ==
  ASSUME NEW s, FlagsOK(s), NEW c \in Clients
  PROVE  Loses(s, FlagsLeaveGame(s, c), c, Nobody, FALSE)
<1> DEFINE t == DropFlag(s, c, Nobody)
<1>1. Loses(s, t, c, Nobody, FALSE)
  <2>1. CASE s.notgot
    <3>1. t = s /\ DOMAIN s.flags = {} BY <2>1 DEF DropFlag, FlagsOK
    <3> QED BY <3>1 DEF Loses, Beside, Kept
  <2>2. CASE ~s.notgot
    <3>1. (Nobody \notin {Nobody, c}) <=> FALSE OBVIOUS
    <3> QED BY <2>2, <3>1, DropFlagLoses
  <2> QED BY <2>1, <2>2 DEF FlagsOK
<1> HIDE DEF t
<1>2. Loses(s, ForgetDropper(t, c), c, Nobody, FALSE) BY <1>1, LosesForgets
<1> QED BY <1>2 DEF FlagsLeaveGame, t

LEMMA DeadflagOK ==
  ASSUME NEW f, NEW now \in Nat, FlagOK(f, now)
  PROVE  LET g == Deadflag(f, now)
         IN /\ FlagOK(g, now)
            /\ g.owner = f.owner /\ g.team = f.team /\ g.droptime = f.droptime
            /\ g.holdtime = 0 \/ (f.holdtime # 0 /\ f.holdtime <= g.holdtime)
<1> DEFINE limit == IF f.owner = Nobody /\ f.droptime /= 0 /\ f.droptime >= f.holdtime THEN f.droptime ELSE now
           held == f.holdtime + HoldDeathPenalty
           h == IF held >= limit THEN 0 ELSE held
<1>1. limit \in Nat /\ limit <= now /\ held \in Nat /\ f.holdtime <= held BY FlagsAssumption DEF FlagOK
<1>2. Deadflag(f, now) = IF f.holdtime = 0 THEN f ELSE [f EXCEPT !.holdtime = h] BY DEF Deadflag
<1> HIDE DEF limit, held
<1>3. h \in Nat /\ h <= now /\ (h = 0 \/ f.holdtime <= h) BY <1>1
<1> HIDE DEF h
<1> QED BY <1>2, <1>3 DEF FlagOK, FlagFields

LEMMA DiedLoses ==
  ASSUME NEW s, FlagsOK(s), NEW c \in Clients, NEW actor
  PROVE  Loses(s, FlagsDied(s, c, actor), c, actor, actor \notin {Nobody, c} /\ IsTeam(actor, c))
<1> DEFINE flags == [i \in DOMAIN s.flags |-> IF s.flags[i].owner = c THEN Deadflag(s.flags[i], s.now) ELSE s.flags[i]]
           dead == IF ~Hold THEN s ELSE [s EXCEPT !.flags = flags]
           guilty == actor \notin {Nobody, c} /\ IsTeam(actor, c)
           by == IF guilty THEN actor ELSE Nobody
           t == DropFlag(dead, c, by)
<1>1. CASE s.notgot
  <2>1. FlagsDied(s, c, actor) = s /\ DOMAIN s.flags = {} BY <1>1 DEF FlagsDied, FlagsOK
  <2> QED BY <2>1 DEF Loses, Beside, Kept
<1>2. CASE ~s.notgot
  <2>0. FlagsDied(s, c, actor) = ForgetDropper(t, c) BY <1>2 DEF FlagsDied
  <2>1. s.now \in Nat /\ \A i \in DOMAIN s.flags : FlagOK(s.flags[i], s.now) BY DEF FlagsOK
  <2>2. ASSUME NEW i \in DOMAIN s.flags
        PROVE  /\ FlagOK(flags[i], s.now)
               /\ flags[i].owner = s.flags[i].owner /\ flags[i].team = s.flags[i].team
               /\ flags[i].droptime = s.flags[i].droptime
               /\ flags[i].holdtime = 0 \/ (s.flags[i].holdtime # 0 /\ s.flags[i].holdtime <= flags[i].holdtime)
               /\ s.flags[i].owner # c => flags[i] = s.flags[i]
    <3>1. FlagOK(s.flags[i], s.now) BY <2>1
    <3>2. flags[i] = IF s.flags[i].owner = c THEN Deadflag(s.flags[i], s.now) ELSE s.flags[i] OBVIOUS
    <3>3. CASE s.flags[i].owner = c BY <2>1, <3>1, <3>2, <3>3, DeadflagOK
    <3>4. CASE s.flags[i].owner # c
      <4>1. flags[i] = s.flags[i] BY <3>2, <3>4
      <4>2. s.flags[i].holdtime \in Nat BY <3>1 DEF FlagOK
      <4> HIDE DEF flags
      <4> QED BY <3>1, <4>1, <4>2
    <3> QED BY <3>3, <3>4
  <2> HIDE DEF flags
  <2>3. DOMAIN flags = DOMAIN s.flags BY DEF flags
  <2>4. /\ FlagsOK(dead) /\ Beside(s, dead) /\ Kept(s, dead) /\ ~dead.notgot
        /\ DOMAIN dead.flags = DOMAIN s.flags
        /\ \A i \in DOMAIN s.flags : dead.flags[i] = s.flags[i] \/ dead.flags[i] = flags[i]
    BY <1>2, <2>2, <2>3 DEF FlagsOK, StateFields, Beside, Kept
  <2> HIDE DEF dead
  <2>5. Loses(dead, t, c, by, by \notin {Nobody, c}) BY <2>4, DropFlagLoses
  <2>6. (by \notin {Nobody, c}) <=> guilty OBVIOUS
  <2>7. guilty \in BOOLEAN /\ (guilty => by = actor /\ actor # c) BY DEF IsTeam
  <2> HIDE DEF t, by, guilty
  <2>8. ASSUME NEW i \in DOMAIN s.flags PROVE Falls(s.flags[i], t.flags[i], c, actor, guilty)
    <3>1. Falls(dead.flags[i], t.flags[i], c, by, by \notin {Nobody, c}) BY <2>4, <2>5 DEF Loses
    <3>2. s.flags[i].holdtime \in Nat /\ flags[i].holdtime \in Nat /\ t.flags[i].holdtime \in Nat
      BY <2>1, <2>2, <2>4, <2>5 DEF Loses, FlagsOK, FlagOK
    <3>3. CASE dead.flags[i] = s.flags[i] BY <2>6, <2>7, <3>1, <3>3 DEF Falls
    <3>4. CASE dead.flags[i] = flags[i] BY <2>2, <2>6, <2>7, <3>1, <3>2, <3>4 DEF Falls
    <3> QED BY <2>4, <3>3, <3>4
  <2>9. Loses(s, t, c, actor, guilty) BY <2>4, <2>5, <2>8 DEF Loses, Beside, Kept
  <2>10. Loses(s, ForgetDropper(t, c), c, actor, guilty) BY <2>7, <2>9, LosesForgets
  <2> QED BY <2>0, <2>10 DEF guilty
<1> QED BY <1>1, <1>2 DEF FlagsOK

LEMMA LosesTwice ==
  ASSUME NEW s, FlagsOK(s), NEW t, NEW u, NEW c \in Clients, NEW dropper,
         Loses(s, t, c, dropper, FALSE), Loses(t, u, c, Nobody, FALSE)
  PROVE  Loses(s, u, c, dropper, FALSE)
<1>1. FlagsOK(t) /\ FlagsOK(u) /\ c # Nobody BY PlayersAssumption DEF Loses
<1>2. ASSUME NEW i \in DOMAIN s.flags PROVE Falls(s.flags[i], u.flags[i], c, dropper, FALSE)
  <2>1. Falls(s.flags[i], t.flags[i], c, dropper, FALSE) /\ Falls(t.flags[i], u.flags[i], c, Nobody, FALSE)
    BY DEF Loses
  <2>2. i \in DOMAIN t.flags /\ i \in DOMAIN u.flags BY DEF Loses
  <2>3. s.flags[i].holdtime \in Nat /\ t.flags[i].holdtime \in Nat /\ u.flags[i].holdtime \in Nat
    BY <1>1, <2>2 DEF FlagsOK, FlagOK
  <2> QED BY <1>1, <2>1, <2>3 DEF Falls, Same
<1> QED BY <1>1, <1>2 DEF Loses, Beside, Kept

-----------------------------------------------------------------------------
(* What brings a flag home: scoreflag and the resets of update.              *)

\* From s to t, flag i became what g is and the others stayed, points apart.
Moves(s, t, i, g) ==
  /\ FlagsOK(t) /\ Beside(s, t)
  /\ DOMAIN t.flags = DOMAIN s.flags
  /\ \A j \in DOMAIN s.flags : j # i => Same(s.flags[j], t.flags[j])
  /\ Same(g, t.flags[i])

LEMMA SetsMoves ==
  ASSUME NEW s, NEW t, NEW i, NEW g, Sets(s, t, i, g)
  PROVE  Moves(s, t, i, g)
BY DEF Sets, Moves, Same

LEMMA MoveMoves ==
  ASSUME NEW s, NEW t, NEW u, NEW i \in DOMAIN s.flags, NEW g, NEW k \in DOMAIN s.flags, NEW h,
         Moves(s, t, i, g), Moves(t, u, k, h), Same(t.flags[k], h)
  PROVE  Moves(s, u, i, g)
BY DEF Moves, Same, Beside

LEMMA MoveSeen ==
  ASSUME NEW s, NEW t, NEW u, NEW i, NEW g, Moves(s, t, i, g), Unseen(t, u)
  PROVE  Moves(s, u, i, g)
BY DEF Moves, Unseen, FlagsOK, Beside

LEMMA SameSelf == \A f : Same(f, f)
BY DEF Same

LEMMA MoveBumped ==
  ASSUME NEW s, NEW t, NEW i \in DOMAIN s.flags, NEW g, NEW k \in DOMAIN s.flags, Moves(s, t, i, g)
  PROVE  Moves(s, Bumped(t, k), i, g)
<1>1. FlagsOK(t) /\ k \in DOMAIN t.flags /\ DOMAIN t.flags = DOMAIN s.flags BY DEF Moves
<1>2. Sets(t, t, k, t.flags[k]) BY <1>1, SameSelf DEF Sets, Beside, Kept
<1>3. Sets(t, Bumped(t, k), k, t.flags[k]) BY <1>1, <1>2, SetBumped
<1> QED BY <1>3, SetsMoves, MoveMoves, SameSelf

LEMMA MoveSpawned ==
  ASSUME NEW s, NEW t, NEW i \in DOMAIN s.flags, NEW g, NEW k \in DOMAIN s.flags, Moves(s, t, i, g), NEW r
  PROVE  Moves(s, Spawned(t, k, r), i, g)
<1>1. FlagsOK(t) /\ k \in DOMAIN t.flags /\ DOMAIN t.flags = DOMAIN s.flags BY DEF Moves
<1>2. Sets(t, t, k, t.flags[k]) BY <1>1, SameSelf DEF Sets, Beside, Kept
<1>3. Sets(t, Spawned(t, k, r), k, t.flags[k]) BY <1>1, <1>2, SetSpawned
<1> QED BY <1>3, SetsMoves, MoveMoves, SameSelf

LEMMA MoveScored ==
  ASSUME NEW s, NEW t, NEW i, NEW g, Moves(s, t, i, g), NEW team, NEW n, Hold => team \in Teams /\ n \in Nat
  PROVE  Moves(s, AddScore(t, team, n), i, g)
<1> DEFINE u == AddScore(t, team, n)
<1>1. FlagsOK(t) BY DEF Moves
<1>2. /\ DOMAIN u = DOMAIN t /\ u.flags = t.flags /\ Beside(t, u)
      /\ u.scores = [t.scores EXCEPT ![team] = @ + n]
  BY <1>1 DEF AddScore, FlagsOK, StateFields, Beside
<1>3. Hold => u.scores \in [Teams -> Nat] BY <1>1, <1>2 DEF FlagsOK
<1> HIDE DEF u
<1>4. FlagsOK(u) BY <1>1, <1>2, <1>3 DEF FlagsOK, Beside
<1>5. Moves(s, u, i, g) BY <1>2, <1>4 DEF Moves, Beside
<1> QED BY <1>5 DEF u

LEMMA MoveEnded ==
  ASSUME NEW s, NEW t, NEW i, NEW g, Moves(s, t, i, g)
  PROVE  Moves(s, Intermission(t), i, g)
<1>1. DOMAIN t = StateFields BY DEF Moves, FlagsOK
<1>2. Unseen(t, Intermission(t)) BY <1>1 DEF Intermission, Unseen, StateFields
<1> QED BY <1>2, MoveSeen

\* scoreflag brings home the flag that was carried, or the goal of protect and hold.
LEMMA ScoreMoves ==
  ASSUME NEW s, FlagsOK(s), NEW c, NEW goal \in DOMAIN s.flags, NEW relay \in DOMAIN s.flags \cup {Nobody},
         NEW r, Hold => ci[c].team \in Teams
  PROVE  LET back == IF relay = Nobody THEN goal ELSE relay
         IN /\ back \in DOMAIN s.flags
            /\ \E g : Home(s.flags[back], g) /\ Moves(s, Score(s, c, goal, relay, r), back, g)
<1> DEFINE back == IF relay = Nobody THEN goal ELSE relay
           team == ci[c].team
           home == Returned(s.flags[back], InvisFrom(s.now))
           x == [s EXCEPT !.flags[back] = Returned(@, InvisFrom(s.now))]
           a == AddScore(x, team, 1)
           b == IF Hold THEN Spawned(a, goal, r) ELSE a
           d == IF relay = Nobody THEN b ELSE Bumped(b, relay)
           d2 == Bumped(d, goal)
           d3 == SeeScore(d2, team)
           e == SeeReturn(d3, back, Protect)
           g == SeeScored(e, goal)
<1>1. back \in DOMAIN s.flags OBVIOUS
<1>2. Score(s, c, goal, relay, r) = IF g.scores[team] >= FlagLimit THEN Intermission(g) ELSE g
  BY DEF Score
<1> HIDE DEF back
<1>3. FlagOK(s.flags[back], s.now) /\ s.now \in Nat BY <1>1 DEF FlagsOK
<1>4. FlagOK(home, s.now) /\ Home(s.flags[back], home) BY <1>3, ReturnedHome
<1>5. x = [s EXCEPT !.flags[back] = home] OBVIOUS
<1>6. Moves(s, x, back, home) BY <1>1, <1>4, <1>5, SetOne, SetsMoves
<1> HIDE DEF x, home
<1>7. Moves(s, a, back, home) BY <1>6, MoveScored
<1> HIDE DEF a
<1>8. Moves(s, b, back, home) BY <1>1, <1>7, MoveSpawned
<1> HIDE DEF b
<1>9. Moves(s, d, back, home)
  <2>1. CASE relay = Nobody BY <1>8, <2>1
  <2>2. CASE relay # Nobody
    <3>1. relay \in DOMAIN s.flags BY <2>2
    <3> QED BY <1>1, <1>8, <2>2, <3>1, MoveBumped
  <2> QED BY <2>1, <2>2
<1> HIDE DEF d
<1>10. Moves(s, d2, back, home) BY <1>1, <1>9, MoveBumped
<1> HIDE DEF d2
<1>11. Moves(s, d3, back, home)
  <2>1. DOMAIN d2 = StateFields BY <1>10 DEF Moves, FlagsOK
  <2> QED BY <1>10, <2>1, SeenUnseen, MoveSeen
<1> HIDE DEF d3
<1>12. Moves(s, e, back, home)
  <2>1. DOMAIN d3 = StateFields BY <1>11 DEF Moves, FlagsOK
  <2> QED BY <1>11, <2>1, SeenUnseen, MoveSeen
<1> HIDE DEF e
<1>13. Moves(s, g, back, home)
  <2>1. DOMAIN e = StateFields BY <1>12 DEF Moves, FlagsOK
  <2> QED BY <1>12, <2>1, SeenUnseen, MoveSeen
<1> HIDE DEF g
<1>14. Moves(s, Score(s, c, goal, relay, r), back, home) BY <1>2, <1>13, MoveEnded
<1> QED BY <1>1, <1>4, <1>14 DEF back

\* update leaves a flag or brings it home, and pays a point of hold only for a flag held long enough.
Ticks(s, t) ==
  /\ FlagsOK(t) /\ Beside(s, t)
  /\ DOMAIN t.flags = DOMAIN s.flags
  /\ \A j \in DOMAIN s.flags : Same(s.flags[j], t.flags[j]) \/ Home(s.flags[j], t.flags[j])
  /\ Hold => \/ t.scores = s.scores
             \/ \E j \in DOMAIN s.flags : s.flags[j].owner # Nobody /\ s.now - s.flags[j].holdtime >= HoldSecs

LEMMA MovesTick ==
  ASSUME NEW s, NEW i \in DOMAIN s.flags, NEW t, NEW g, Moves(s, t, i, g), Kept(s, t),
         Same(s.flags[i], g) \/ Home(s.flags[i], g)
  PROVE  Ticks(s, t)
BY DEF Moves, Ticks, Kept, Same, Home

LEMMA ResetTicks ==
  ASSUME NEW s, FlagsOK(s), NEW i \in DOMAIN s.flags, NEW r
  PROVE  Ticks(s, ResetFlag(s, i, r))
<1> DEFINE home == Returned(s.flags[i], InvisFrom(s.now))
           b == [s EXCEPT !.flags[i] = Returned(@, InvisFrom(s.now))]
           b2 == IF Hold THEN Spawned(b, i, r) ELSE b
           d == Bumped(b2, i)
           e == IF Hold THEN d ELSE AddScore(d, d.flags[i].team, IF Protect THEN -1 ELSE 0)
           h == IF Hold THEN e ELSE SeeScore(e, e.flags[i].team)
           t == SeeReset(h, i)
<1>1. FlagOK(s.flags[i], s.now) /\ s.now \in Nat BY DEF FlagsOK
<1>2. FlagOK(home, s.now) /\ Home(s.flags[i], home) BY <1>1, ReturnedHome
<1>3. b = [s EXCEPT !.flags[i] = home] OBVIOUS
<1>4. Sets(s, b, i, home) BY <1>2, <1>3, SetOne
<1> HIDE DEF b, home
<1>5. Sets(s, b2, i, home) BY <1>4, SetSpawned
<1> HIDE DEF b2
<1>6. Sets(s, d, i, home) BY <1>5, SetBumped
<1> HIDE DEF d
<1>7. Moves(s, e, i, home) /\ Kept(s, e)
  <2>1. CASE Hold BY <1>6, <2>1, SetsMoves DEF Sets
  <2>2. CASE ~Hold
    <3>1. Moves(s, d, i, home) BY <1>6, SetsMoves
    <3>2. e = AddScore(d, d.flags[i].team, IF Protect THEN -1 ELSE 0) BY <2>2
    <3> QED BY <2>2, <3>1, <3>2, MoveScored DEF Kept
  <2> QED BY <2>1, <2>2
<1> HIDE DEF e
<1>8. Moves(s, h, i, home) /\ Kept(s, h)
  <2>1. DOMAIN e = StateFields BY <1>7 DEF Moves, FlagsOK
  <2>2. Unseen(e, SeeScore(e, e.flags[i].team)) BY <2>1, SeenUnseen
  <2> QED BY <1>7, <2>2, MoveSeen DEF Kept
<1> HIDE DEF h
<1>9. Moves(s, t, i, home) /\ Kept(s, t)
  <2>1. DOMAIN h = StateFields BY <1>8 DEF Moves, FlagsOK
  <2>2. Unseen(h, t) BY <2>1, SeenUnseen
  <2> HIDE DEF t
  <2> QED BY <1>8, <2>2, MoveSeen DEF Kept, Unseen
<1> HIDE DEF t
<1>10. Ticks(s, t) BY <1>2, <1>9, MovesTick
<1> QED BY <1>10 DEF ResetFlag, t, h, e, d, b2, b

LEMMA TicksTwice ==
  ASSUME NEW s, NEW t, NEW u, FlagsOK(s), Ticks(s, t), Ticks(t, u)
  PROVE  Ticks(s, u)
<1>1. \A j \in DOMAIN s.flags : Same(s.flags[j], u.flags[j]) \/ Home(s.flags[j], u.flags[j])
  BY DEF Ticks, Same, Home
<1>2. Hold => \/ u.scores = s.scores
              \/ \E j \in DOMAIN s.flags : s.flags[j].owner # Nobody /\ s.now - s.flags[j].holdtime >= HoldSecs
  <2>1. ASSUME NEW j \in DOMAIN t.flags, t.flags[j].owner # Nobody, t.now - t.flags[j].holdtime >= HoldSecs
        PROVE  j \in DOMAIN s.flags /\ s.flags[j].owner # Nobody /\ s.now - s.flags[j].holdtime >= HoldSecs
    BY <2>1 DEF Ticks, Same, Home, Beside
  <2> QED BY <2>1 DEF Ticks
<1> QED BY <1>1, <1>2 DEF Ticks, Beside

LEMMA InvisTicks ==
  ASSUME NEW s, FlagsOK(s), NEW i \in DOMAIN s.flags
  PROVE  Ticks(s, SeeInvis([s EXCEPT !.flags[i].invistime = 0], i))
<1> DEFINE g == [s.flags[i] EXCEPT !.invistime = 0]
           b == [s EXCEPT !.flags[i] = g]
<1>0. [s EXCEPT !.flags[i].invistime = 0] = b OBVIOUS
<1>1. FlagOK(s.flags[i], s.now) BY DEF FlagsOK
<1>2. FlagOK(g, s.now) /\ Same(s.flags[i], g) BY <1>1 DEF FlagOK, FlagFields, Same
<1> HIDE DEF g
<1>3. Sets(s, b, i, g) BY <1>2, SetOne
<1> HIDE DEF b
<1>4. Unseen(b, SeeInvis(b, i))
  <2>1. DOMAIN b = StateFields BY <1>3 DEF Sets, FlagsOK
  <2> QED BY <2>1, SeenUnseen
<1>5. Moves(s, SeeInvis(b, i), i, g) /\ Kept(s, SeeInvis(b, i))
  BY <1>3, <1>4, SetsMoves, MoveSeen DEF Kept, Unseen, Sets
<1> QED BY <1>0, <1>2, <1>5, MovesTick

LEMMA HeldTicks ==
  ASSUME NEW s, FlagsOK(s), NEW i \in DOMAIN s.flags, NEW r, \A c \in Clients : ci[c].team \in Teams
  PROVE  Ticks(s, TickHeld(s, i, r))
<1> DEFINE f == s.flags[i]
           t == TickHeld(s, i, r)
<1>1. FlagOK(f, s.now) BY DEF FlagsOK
<1>2. Ticks(s, s) BY SameSelf DEF Ticks, Beside
<1>3. CASE ~(Hold /\ f.owner /= Nobody /\ s.now - f.holdtime >= HoldSecs)
  <2>1. t = s BY <1>3 DEF TickHeld
  <2> QED BY <1>2, <2>1
<1>4. CASE Hold /\ f.owner /= Nobody /\ s.now - f.holdtime >= HoldSecs /\ Present(f.owner)
  <2>1. t = Score(s, f.owner, i, Nobody, r) BY <1>4 DEF TickHeld
  <2>2. f.owner \in Clients BY <1>1, <1>4 DEF FlagOK
  <2>3. PICK h : Home(f, h) /\ Moves(s, t, i, h)
    BY <2>1, <2>2, ScoreMoves
  <2> HIDE DEF t
  <2>4. Ticks(s, t) BY <1>4, <2>3 DEF Moves, Ticks, Same, Home
  <2> QED BY <2>4 DEF t
<1>5. CASE Hold /\ f.owner /= Nobody /\ s.now - f.holdtime >= HoldSecs /\ ~Present(f.owner)
  <2> DEFINE v == Bumped(Spawned(s, i, r), i)
  <2>1. t = SeeReset(v, i) BY <1>5 DEF TickHeld
  <2>2. Sets(s, s, i, f) BY SameSelf DEF Sets, Beside, Kept
  <2>3. Sets(s, v, i, f) BY <2>2, SetSpawned, SetBumped
  <2> HIDE DEF v, t
  <2>4. Unseen(v, t)
    <3>1. DOMAIN v = StateFields BY <2>3 DEF Sets, FlagsOK
    <3> QED BY <2>1, <3>1, SeenUnseen
  <2>5. Moves(s, t, i, f) /\ Kept(s, t) BY <2>3, <2>4, SetsMoves, MoveSeen DEF Kept, Unseen, Sets
  <2>6. Ticks(s, t) BY <2>5, SameSelf, MovesTick
  <2> QED BY <2>6 DEF t
<1> QED BY <1>3, <1>4, <1>5

LEMMA UpdateFlagTicks ==
  ASSUME NEW s, FlagsOK(s), NEW i \in DOMAIN s.flags, NEW r, \A c \in Clients : ci[c].team \in Teams
  PROVE  Ticks(s, UpdateFlag(s, i, r))
<1> DEFINE a == TickDropped(s, i, r)
           g == TickInvisible(a, i)
           t == TickHeld(g, i, r)
<1>1. Ticks(s, a)
  <2>1. Ticks(s, s) BY SameSelf DEF Ticks, Beside
  <2> QED BY <2>1, ResetTicks DEF TickDropped
<1> HIDE DEF a
<1>2. FlagsOK(a) /\ i \in DOMAIN a.flags BY <1>1 DEF Ticks
<1>3. Ticks(a, g)
  <2>1. Ticks(a, a) BY <1>2, SameSelf DEF Ticks, Beside
  <2> QED BY <1>2, <2>1, InvisTicks DEF TickInvisible
<1> HIDE DEF g
<1>4. FlagsOK(g) /\ i \in DOMAIN g.flags BY <1>2, <1>3 DEF Ticks
<1>5. Ticks(g, t) BY <1>4, HeldTicks
<1> HIDE DEF t
<1>6. Ticks(s, t) BY <1>1, <1>2, <1>3, <1>5, TicksTwice
<1> QED BY <1>6 DEF UpdateFlag, t, g, a

LEMMA FlagsUpdateTicks ==
  ASSUME NEW s, FlagsOK(s), NEW r, \A c \in Clients : ci[c].team \in Teams
  PROVE  Ticks(s, FlagsUpdate(s, r))
<1> DEFINE t == UpdateFlag(s, 1, r)
           u == UpdateFlag(t, 2, r)
<1>1. CASE s.ended \/ s.notgot
  BY <1>1, SameSelf DEF FlagsUpdate, Ticks, Beside
<1>2. CASE ~(s.ended \/ s.notgot)
  <2>1. 1 \in DOMAIN s.flags BY <1>2 DEF FlagsOK
  <2>2. Ticks(s, t) BY <2>1, UpdateFlagTicks
  <2>3. FlagsUpdate(s, r) = IF 2 \in DOMAIN s.flags THEN u ELSE t BY <1>2 DEF FlagsUpdate
  <2> HIDE DEF t
  <2>4. 2 \in DOMAIN s.flags => Ticks(t, u)
    <3>1. FlagsOK(t) /\ DOMAIN t.flags = DOMAIN s.flags BY <2>2 DEF Ticks
    <3> QED BY <3>1, UpdateFlagTicks
  <2> HIDE DEF u
  <2> QED BY <2>2, <2>3, <2>4, TicksTwice
<1> QED BY <1>1, <1>2

-----------------------------------------------------------------------------
(* takeflag.                                                                *)

\* c has picked up flag f, which its side may carry and which it is not barred from.
Taken(f, g, c, now) ==
  /\ f.owner = Nobody /\ g.owner = c
  /\ g.team = IF Hold THEN ci[c].team ELSE f.team
  /\ Hold \/ (f.team \in Teams /\ (Protect <=> f.team = ci[c].team))
  /\ g.holdtime # 0
  /\ Hold => IF f.holdtime = 0 \/ f.team # g.team THEN g.holdtime = now ELSE f.holdtime <= g.holdtime
  /\ ~(f.droptime # 0 /\ f.dropper = c /\ f.dropcount >= MaxDrops)

\* Flags went home, or c, whose hands were empty, took one.
Takes(s, t, c) ==
  /\ FlagsOK(t) /\ Beside(s, t) /\ Kept(s, t)
  /\ DOMAIN t.flags = DOMAIN s.flags
  /\ \/ \A j \in DOMAIN s.flags : Same(s.flags[j], t.flags[j]) \/ Home(s.flags[j], t.flags[j])
     \/ /\ \A j \in DOMAIN s.flags : s.flags[j].owner # c
        /\ \E i \in DOMAIN s.flags :
             /\ Taken(s.flags[i], t.flags[i], c, s.now)
             /\ \A j \in DOMAIN s.flags : j # i => Same(s.flags[j], t.flags[j])

LEMMA OwnedFlag ==
  ASSUME NEW f, NEW now \in Nat, now # 0, FlagOK(f, now), NEW c \in Clients, NEW ownteam
  PROVE  LET g == Owned(f, c, ownteam, now)
         IN /\ FlagOK(g, now) /\ g.owner = c /\ g.team = IF ownteam = Nobody THEN f.team ELSE ownteam
            /\ g.holdtime # 0
            /\ IF f.holdtime = 0 \/ f.team # ownteam THEN g.holdtime = now ELSE f.holdtime <= g.holdtime
<1> DEFINE retaken == f.holdtime /= 0 /\ f.team = ownteam
           late == IF f.droptime /= 0 /\ f.droptime < now THEN 2 * (now - f.droptime) ELSE 0
           held == f.holdtime + late
           h == IF ~retaken THEN now ELSE IF held < now THEN held ELSE now
           tm == IF ~retaken /\ ownteam /= Nobody THEN ownteam ELSE f.team
           n == IF c /= f.dropper THEN 0 ELSE IF f.dropcount < MaxDrops THEN f.dropcount + 1 ELSE f.dropcount
           g == [f EXCEPT !.owner = c, !.holdtime = h, !.team = tm, !.dropcount = n, !.dropper = Nobody, !.invistime = 0]
<1>1. Owned(f, c, ownteam, now) = g BY DEF Owned
<1>2. f.holdtime \in Nat /\ f.holdtime <= now /\ f.droptime \in Nat /\ f.dropcount \in Nat BY DEF FlagOK
<1>3. late \in Nat BY <1>2
<1> HIDE DEF late
<1>4. h \in Nat /\ h # 0 /\ h <= now /\ (IF f.holdtime = 0 \/ f.team # ownteam THEN h = now ELSE f.holdtime <= h)
  BY <1>2, <1>3
<1>5. tm = (IF ownteam = Nobody THEN f.team ELSE ownteam) OBVIOUS
<1>6. n \in Nat BY <1>2
<1> HIDE DEF h, tm, n
<1>7. FlagOK(g, now) /\ g.owner = c /\ g.holdtime = h /\ g.team = tm BY <1>4, <1>6 DEF FlagOK, FlagFields
<1> HIDE DEF g
<1> QED BY <1>1, <1>4, <1>5, <1>7

LEMMA PickUpTakes ==
  ASSUME NEW s, FlagsOK(s), NEW c \in Clients, NEW i, MayTake(s, c, i), ci[c].team \in Teams,
         Hold \/ (Protect <=> s.flags[i].team = ci[c].team), \A j \in DOMAIN s.flags : ~Carries(s, c, j)
  PROVE  Takes(s, PickUp(s, c, i), c)
<1> DEFINE f == s.flags[i]
           ownteam == IF Hold THEN ci[c].team ELSE Nobody
           g == Owned(f, c, ownteam, s.now)
           b == [s EXCEPT !.flags[i] = Owned(@, c, ownteam, s.now)]
           u == Bumped(b, i)
           t == SeeTake(u, i)
<1>1. /\ i \in DOMAIN s.flags /\ f.owner = Nobody /\ (Hold \/ f.team \in Teams)
      /\ ~(f.droptime # 0 /\ f.dropper = c /\ f.dropcount >= MaxDrops)
  BY DEF MayTake
<1>2. FlagOK(f, s.now) /\ s.now \in Nat /\ s.now # 0 BY <1>1 DEF FlagsOK
<1>3. b = [s EXCEPT !.flags[i] = g] OBVIOUS
<1>4. /\ FlagOK(g, s.now) /\ g.owner = c /\ g.team = (IF ownteam = Nobody THEN f.team ELSE ownteam)
      /\ g.holdtime # 0
      /\ IF f.holdtime = 0 \/ f.team # ownteam THEN g.holdtime = s.now ELSE f.holdtime <= g.holdtime
  BY <1>2, OwnedFlag
<1> HIDE DEF g
<1>5. Sets(s, b, i, g) BY <1>1, <1>3, <1>4, SetOne
<1> HIDE DEF b
<1>6. Sets(s, u, i, g) BY <1>1, <1>5, SetBumped
<1> HIDE DEF u
<1>7. Unseen(u, t)
  <2>1. DOMAIN u = StateFields BY <1>6 DEF Sets, FlagsOK
  <2> QED BY <2>1, SeenUnseen
<1> HIDE DEF t
<1>8. Sets(s, t, i, g) BY <1>6, <1>7, SetSeen
<1>9. Hold => ownteam = ci[c].team /\ ownteam # Nobody BY DEF Teams, Good, Evil, Nobody
<1>10. ~Hold => ownteam = Nobody OBVIOUS
<1> HIDE DEF ownteam
<1>11. g.team = IF Hold THEN ci[c].team ELSE f.team BY <1>4, <1>9, <1>10
<1>12. Taken(f, t.flags[i], c, s.now)
  <2>1. Same(g, t.flags[i]) BY <1>8 DEF Sets
  <2>2. Hold \/ (Protect <=> f.team = ci[c].team) OBVIOUS
  <2> HIDE DEF f
  <2> QED BY <1>1, <1>4, <1>9, <1>11, <2>1, <2>2 DEF Taken, Same
<1>13. \A j \in DOMAIN s.flags : j # i => Same(s.flags[j], t.flags[j]) BY <1>8 DEF Sets, Same
<1>14. \A j \in DOMAIN s.flags : s.flags[j].owner # c BY DEF Carries
<1>15. Takes(s, t, c) BY <1>1, <1>8, <1>12, <1>13, <1>14 DEF Takes, Sets
<1> QED BY <1>15 DEF PickUp, t, u, b, ownteam

LEMMA BringBackTakes ==
  ASSUME NEW s, FlagsOK(s), NEW i \in DOMAIN s.flags, NEW c
  PROVE  Takes(s, BringBack(s, i), c)
<1> DEFINE g == Returned(s.flags[i], 0)
           b == [s EXCEPT !.flags[i] = Returned(@, 0)]
           u == Bumped(b, i)
           t == SeeReturn(u, i, FALSE)
<1>1. FlagOK(s.flags[i], s.now) /\ s.now \in Nat BY DEF FlagsOK
<1>2. b = [s EXCEPT !.flags[i] = g] OBVIOUS
<1>3. FlagOK(g, s.now) /\ Home(s.flags[i], g) BY <1>1, ReturnedHome
<1> HIDE DEF g
<1>4. Sets(s, b, i, g) BY <1>2, <1>3, SetOne
<1> HIDE DEF b
<1>5. Sets(s, u, i, g) BY <1>4, SetBumped
<1> HIDE DEF u
<1>6. Unseen(u, t)
  <2>1. DOMAIN u = StateFields BY <1>5 DEF Sets, FlagsOK
  <2> QED BY <2>1, SeenUnseen
<1> HIDE DEF t
<1>7. Sets(s, t, i, g) BY <1>5, <1>6, SetSeen
<1>8. \A j \in DOMAIN s.flags : Same(s.flags[j], t.flags[j]) \/ Home(s.flags[j], t.flags[j])
  BY <1>3, <1>7 DEF Sets, Same, Home
<1>9. Takes(s, t, c) BY <1>7, <1>8 DEF Takes, Sets
<1> QED BY <1>9 DEF BringBack, t, u, b

LEMMA FirstIsCarried ==
  ASSUME NEW s, FlagsOK(s), NEW c, \E j \in DOMAIN s.flags : Carries(s, c, j)
  PROVE  FirstCarried(s, c) \in DOMAIN s.flags
<1> DEFINE First(j) == Carries(s, c, j) /\ \A k \in 1..(j - 1) : ~Carries(s, c, k)
<1>1. DOMAIN s.flags \in {{}, {1}, {1, 2}} BY DEF FlagsOK
<1>2. \E j \in DOMAIN s.flags : First(j)
  <2>1. CASE Carries(s, c, 1) /\ 1 \in DOMAIN s.flags BY <2>1
  <2>2. CASE ~(Carries(s, c, 1) /\ 1 \in DOMAIN s.flags)
    <3>1. 2 \in DOMAIN s.flags /\ Carries(s, c, 2) /\ ~Carries(s, c, 1) BY <1>1, <2>2
    <3>2. \A k \in 1..(2 - 1) : k = 1 OBVIOUS
    <3> QED BY <3>1, <3>2
  <2> QED BY <2>1, <2>2
<1> QED BY <1>2 DEF FirstCarried

LEMMA TakeTakes ==
  ASSUME NEW s, FlagsOK(s), NEW c \in Clients, NEW i, NEW r, MayTake(s, c, i), ci[c].team \in Teams
  PROVE  Takes(s, Take(s, c, i, r), c)
<1>1. i \in DOMAIN s.flags BY DEF MayTake
<1>2. Takes(s, s, c) BY SameSelf DEF Takes, Beside, Kept
<1>3. ASSUME NEW relay \in DOMAIN s.flags \cup {Nobody}, ~Hold
      PROVE  Takes(s, Score(s, c, i, relay, r), c)
  <2> DEFINE t == Score(s, c, i, relay, r)
  <2>1. PICK k, g : k \in DOMAIN s.flags /\ Home(s.flags[k], g) /\ Moves(s, t, k, g) BY <1>1, <1>3, ScoreMoves
  <2> HIDE DEF t
  <2>2. ASSUME NEW j \in DOMAIN s.flags PROVE Same(s.flags[j], t.flags[j]) \/ Home(s.flags[j], t.flags[j])
    BY <2>1 DEF Moves, Same, Home
  <2>3. Takes(s, t, c) BY <1>3, <2>1, <2>2 DEF Moves, Takes, Kept
  <2> QED BY <2>3 DEF t
<1>4. ASSUME \E j \in DOMAIN s.flags : Carries(s, c, j), ~Hold
      PROVE  Takes(s, Score(s, c, i, FirstCarried(s, c), r), c)
  BY <1>3, <1>4, FirstIsCarried
<1> QED BY <1>1, <1>2, <1>3, <1>4, PickUpTakes, BringBackTakes DEF Take

-----------------------------------------------------------------------------
(* The setup of a map, and the list a client sends.                         *)

\* Nobody has a flag, and no hold runs.
Fresh(s) == FlagsOK(s) /\ \A i \in DOMAIN s.flags : s.flags[i].owner = Nobody /\ s.flags[i].holdtime = 0

LEMMA NewFlagOK ==
  ASSUME NEW team, NEW o, NEW invistime, NEW now \in Nat
  PROVE  /\ FlagOK(NewFlag(team, o, invistime), now)
         /\ NewFlag(team, o, invistime).owner = Nobody /\ NewFlag(team, o, invistime).holdtime = 0
BY DEF NewFlag, FlagOK, FlagFields

LEMMA EmptyFresh ==
  ASSUME NEW notgot \in BOOLEAN
  PROVE  LET s == FlagsEmpty(notgot)
         IN /\ DOMAIN s = StateFields /\ s.notgot \in BOOLEAN /\ (s.notgot <=> notgot) /\ s.now = 1 /\ DOMAIN s.flags = {}
            /\ s.scores = [t \in Teams |-> 0]
BY DEF FlagsEmpty, StateFields

LEMMA SetupHoldFresh ==
  ASSUME NEW s, DOMAIN s = StateFields, s.now \in Nat, s.now # 0, s.notgot \in BOOLEAN, ~s.notgot, s.scores \in [Teams -> Nat], Hold,
         NEW n, NEW r
  PROVE  Fresh(SetupHold(s, n, r)) /\ SetupHold(s, n, r).scores = s.scores /\ SetupHold(s, n, r).now = s.now
<1> DEFINE f == NewFlag(0, Elsewhere, 0)
           a == [s EXCEPT !.spawns = [i \in 1..n |-> i], !.flags = <<NewFlag(0, Elsewhere, 0)>>,
                          !.seen.flags = <<FlagShown(NewFlag(0, Elsewhere, 0))>>]
           b == Spawned(a, 1, r)
           d == Bumped(b, 1)
           t == SeeReset(d, 1)
<1>1. FlagOK(f, s.now) /\ f.owner = Nobody /\ f.holdtime = 0 BY NewFlagOK
<1>2. /\ DOMAIN a = StateFields /\ a.flags = <<f>> /\ a.scores = s.scores /\ a.now = s.now /\ a.notgot \in BOOLEAN /\ ~a.notgot
  BY DEF StateFields
<1> HIDE DEF a, f
<1>3. DOMAIN a.flags = {1} /\ a.flags[1] = f BY <1>2
<1>4. FlagsOK(a) BY <1>1, <1>2, <1>3 DEF FlagsOK
<1>5. Sets(a, a, 1, f) BY <1>3, <1>4, SameSelf DEF Sets, Beside, Kept
<1>6. Sets(a, b, 1, f) BY <1>3, <1>5, SetSpawned
<1> HIDE DEF b
<1>7. Sets(a, d, 1, f) BY <1>3, <1>6, SetBumped
<1> HIDE DEF d
<1>8. Unseen(d, t)
  <2>1. DOMAIN d = StateFields BY <1>7 DEF Sets, FlagsOK
  <2> QED BY <2>1, SeenUnseen
<1> HIDE DEF t
<1>9. Sets(a, t, 1, f) BY <1>7, <1>8, SetSeen
<1>10. Fresh(t) /\ t.scores = s.scores /\ t.now = s.now BY <1>1, <1>2, <1>3, <1>9 DEF Sets, Same, Fresh, Kept, Beside
<1> QED BY <1>10 DEF SetupHold, t, d, b, a

LEMMA FlagsSetupFresh ==
  ASSUME NEW r
  PROVE  Fresh(FlagsSetup(r)) /\ (Hold => FlagsSetup(r).scores = [t \in Teams |-> 0])
<1> DEFINE s == FlagsEmpty(FALSE)
           flags == [i \in 1..2 |-> NewFlag(i, i, InvisFrom(1))]
           t == [s EXCEPT !.flags = flags, !.seen.flags = [i \in 1..2 |-> FlagShown(flags[i])]]
<1>1. /\ DOMAIN s = StateFields /\ s.notgot \in BOOLEAN /\ ~s.notgot /\ s.now = 1 /\ s.scores = [k \in Teams |-> 0]
  BY EmptyFresh
<1> HIDE DEF s
<1>2. CASE Hold
  <2>1. FlagsSetup(r) = SetupHold(s, Cardinality(Places), r) BY <1>2 DEF FlagsSetup, s
  <2>2. s.scores \in [Teams -> Nat] BY <1>1
  <2> QED BY <1>1, <1>2, <2>1, <2>2, SetupHoldFresh
<1>3. CASE ~Hold
  <2>1. FlagsSetup(r) = t BY <1>3 DEF FlagsSetup, s
  <2>2. DOMAIN t = StateFields /\ t.flags = flags /\ t.notgot \in BOOLEAN /\ ~t.notgot /\ t.now = 1 BY <1>1 DEF StateFields
  <2>3. DOMAIN flags = {1, 2} OBVIOUS
  <2>4. \A i \in {1, 2} : FlagOK(flags[i], 1) /\ flags[i].owner = Nobody /\ flags[i].holdtime = 0 BY NewFlagOK
  <2> HIDE DEF flags, t
  <2> QED BY <1>3, <2>1, <2>2, <2>3, <2>4 DEF Fresh, FlagsOK
<1> QED BY <1>2, <1>3

LEMMA FlagsUnknownFresh == Fresh(FlagsUnknown) /\ (Hold => FlagsUnknown.scores = [t \in Teams |-> 0])
<1> DEFINE s == FlagsEmpty(TRUE)
           flags == [i \in 1..2 |-> NewFlag(i, i, InvisFrom(1))]
           t == [s EXCEPT !.seen.flags = [i \in 1..2 |-> FlagShown(flags[i])]]
<1>1. /\ DOMAIN s = StateFields /\ s.notgot \in BOOLEAN /\ s.notgot /\ s.now = 1 /\ s.scores = [k \in Teams |-> 0]
      /\ DOMAIN s.flags = {}
  BY EmptyFresh
<1>2. FlagsUnknown = IF Hold THEN s ELSE t BY DEF FlagsUnknown
<1> HIDE DEF s
<1>3. DOMAIN t = StateFields /\ t.flags = s.flags /\ t.notgot \in BOOLEAN /\ t.notgot /\ t.now = 1 /\ t.scores = s.scores
  BY <1>1 DEF StateFields
<1> HIDE DEF t
<1> HIDE DEF flags
<1>4. s.scores \in [Teams -> Nat] BY <1>1
<1>5. Fresh(s) BY <1>1, <1>4 DEF Fresh, FlagsOK
<1>6. Fresh(t) BY <1>1, <1>3, <1>4 DEF Fresh, FlagsOK
<1>7. CASE Hold BY <1>1, <1>2, <1>5, <1>7
<1>8. CASE ~Hold BY <1>2, <1>6, <1>8
<1> QED BY <1>7, <1>8

LEMMA FlagsParseFresh ==
  ASSUME NEW s, FlagsOK(s), s.notgot, NEW r
  PROVE  Fresh(FlagsParse(s, r)) /\ Kept(s, FlagsParse(s, r)) /\ FlagsParse(s, r).now = s.now
<1> DEFINE u == [s EXCEPT !.notgot = FALSE]
           flags == [i \in 1..2 |-> NewFlag(IF Protect THEN s.now + 2 ELSE 0, i, 0)]
           t == [s EXCEPT !.notgot = FALSE, !.flags = flags]
<1>1. DOMAIN s = StateFields /\ s.now \in Nat /\ s.now # 0 /\ (Hold => s.scores \in [Teams -> Nat])
  BY DEF FlagsOK
<1>2. CASE Hold
  <2>1. FlagsParse(s, r) = SetupHold(u, Cardinality(Places), r) BY <1>2 DEF FlagsParse
  <2>2. DOMAIN u = StateFields /\ u.now = s.now /\ u.scores = s.scores /\ u.notgot \in BOOLEAN /\ ~u.notgot
    BY <1>1 DEF StateFields
  <2> HIDE DEF u
  <2> QED BY <1>1, <1>2, <2>1, <2>2, SetupHoldFresh DEF Kept
<1>3. CASE ~Hold
  <2>1. FlagsParse(s, r) = t BY <1>3 DEF FlagsParse
  <2>2. DOMAIN t = StateFields /\ t.flags = flags /\ t.notgot \in BOOLEAN /\ ~t.notgot /\ t.now = s.now
    BY <1>1 DEF StateFields
  <2>3. DOMAIN flags = {1, 2} OBVIOUS
  <2>4. \A i \in {1, 2} : FlagOK(flags[i], s.now) /\ flags[i].owner = Nobody /\ flags[i].holdtime = 0 BY <1>1, NewFlagOK
  <2> HIDE DEF flags, t
  <2> QED BY <1>1, <1>3, <2>1, <2>2, <2>3, <2>4 DEF Fresh, FlagsOK, Kept
<1> QED BY <1>2, <1>3

-----------------------------------------------------------------------------
(* The inductive invariant.                                                 *)

PlayerFields == {"state", "team", "o", "clip", "tokens"}
PlayersOK == DOMAIN ci = Clients /\ \A c \in Clients : DOMAIN ci[c] = PlayerFields /\ ci[c].team \in Teams

\* The hold flag's time runs while somebody has it, and from no earlier than its team got it.
HoldTimed ==
  IsFlags /\ Hold => \A i \in DOMAIN m.flags : /\ m.flags[i].owner # Nobody => m.flags[i].holdtime # 0
                                               /\ m.flags[i].holdtime # 0 => since <= m.flags[i].holdtime

\* What a team killer is barred from lies where its mate fell, and its drops are at the limit.
BarredLie ==
  \A p \in barred : /\ IsFlags /\ p[1] \in DOMAIN m.flags /\ p[2] \in Clients
                    /\ m.flags[p[1]].owner = Nobody /\ m.flags[p[1]].droptime # 0
                    /\ m.flags[p[1]].dropper = p[2] /\ m.flags[p[1]].dropcount >= MaxDrops

Inv == PlayersOK /\ since \in Nat /\ (IsFlags => FlagsOK(m)) /\ HoldersAlive /\ HoldTimed /\ BarredLie

\* The steps HoldEarned and TeamKillerBarred allow.
Earned == smode' = smode /\ Hold /\ (\E t \in Teams : m'.scores[t] > m.scores[t]) => m'.now - since >= HoldSecs
StaysBarred == smode' = smode => \A p \in barred : IsFlags /\ p[1] \in DOMAIN m'.flags => m'.flags[p[1]].owner /= p[2]
Safe == Inv' /\ Earned /\ StaysBarred

LEMMA KeptEarned ==
  ASSUME FlagsOK(m), Kept(m, m')
  PROVE  Earned
BY DEF FlagsOK, Kept, Earned

LEMMA StillOK ==
  ASSUME smode' = smode, FlagsOK(m')
  PROVE  FlagsOK(m)'
BY DEF FlagsOK, Hold

LEMMA NoFlagsStep ==
  ASSUME Inv, ~IsFlags, smode' = smode, PlayersOK', barred' = {}, since' = since
  PROVE  Safe
<1>1. ~IsFlags' BY DEF IsFlags
<1>2. ~Hold BY DEF IsFlags, FlagModes, Hold
<1>3. Inv' BY <1>1 DEF Inv, HoldersAlive, HoldTimed, BarredLie
<1> QED BY <1>2, <1>3 DEF Safe, Earned, StaysBarred

\* since keeps unless somebody takes the flag.
LEMMA SinceKept ==
  ASSUME Inv, IsFlags, History, FlagsOK(m'),
         1 \in DOMAIN m.flags => m.flags[1].owner # Nobody \/ m'.flags[1].owner = Nobody
  PROVE  since' \in Nat /\ (1 \in DOMAIN m.flags => since' = since)
BY DEF Inv, FlagsOK, History

\* Nobody gets or loses a flag but to its place; holders stay alive on their side.
LEMMA QuietStep ==
  ASSUME Inv, IsFlags, smode' = smode, PlayersOK', FlagsOK(m'), DOMAIN m'.flags = DOMAIN m.flags, History,
         \A j \in DOMAIN m.flags : Same(m.flags[j], m'.flags[j]) \/ Home(m.flags[j], m'.flags[j]),
         \A d \in Clients : Alive(d) => ci'[d].state = "alive" /\ ci'[d].team = ci[d].team,
         Earned
  PROVE  Safe
<1>1. FlagsOK(m) /\ FlagsOK(m)' BY StillOK DEF Inv
<1>2. since' \in Nat /\ (1 \in DOMAIN m.flags => since' = since)
  <2>1. 1 \in DOMAIN m.flags => m.flags[1].owner # Nobody \/ m'.flags[1].owner = Nobody BY DEF Same, Home
  <2> QED BY <2>1, SinceKept
<1>3. (Hold' <=> Hold) /\ (Protect' <=> Protect) /\ IsFlags' BY DEF Hold, Protect, IsFlags
<1>4. HoldersAlive'
  <2>1. ASSUME NEW i \in DOMAIN m'.flags, m'.flags[i].owner # Nobody
        PROVE  LET c == m'.flags[i].owner IN
                 /\ ci'[c].state = "alive"
                 /\ \A j \in DOMAIN m'.flags : m'.flags[j].owner = c => j = i
                 /\ m'.flags[i].team \in Teams /\ (Hold \/ (Protect <=> m'.flags[i].team = ci'[c].team))
    <3>1. m'.flags[i].owner = m.flags[i].owner /\ m'.flags[i].team = m.flags[i].team BY <2>1 DEF Same, Home
    <3>2. m.flags[i].owner \in Clients BY <1>1, <2>1, <3>1 DEF FlagsOK, FlagOK
    <3>3. LET c == m.flags[i].owner IN
            /\ Alive(c) /\ \A j \in DOMAIN m.flags : m.flags[j].owner = c => j = i
            /\ m.flags[i].team \in Teams /\ (Hold \/ (Protect <=> m.flags[i].team = ci[c].team))
      BY <2>1, <3>1 DEF Inv, HoldersAlive
    <3>4. \A j \in DOMAIN m.flags : m'.flags[j].owner = m.flags[j].owner \/ m'.flags[j].owner = Nobody
      BY DEF Same, Home
    <3> QED BY <2>1, <3>1, <3>2, <3>3, <3>4
  <2> QED BY <1>3, <2>1 DEF HoldersAlive, Alive
<1>5. HoldTimed'
  <2>1. ASSUME Hold, NEW i \in DOMAIN m'.flags
        PROVE  /\ m'.flags[i].owner # Nobody => m'.flags[i].holdtime # 0
               /\ m'.flags[i].holdtime # 0 => since' <= m'.flags[i].holdtime
    <3>1. i = 1 /\ 1 \in DOMAIN m.flags BY <1>1, <2>1 DEF FlagsOK
    <3>2. /\ m.flags[i].owner # Nobody => m.flags[i].holdtime # 0
          /\ m.flags[i].holdtime # 0 => since <= m.flags[i].holdtime
      BY <2>1 DEF Inv, HoldTimed
    <3> QED BY <1>2, <3>1, <3>2 DEF Same, Home
  <2> QED BY <1>3, <2>1 DEF HoldTimed
<1>6. BarredLie'
  <2>1. ASSUME NEW p \in barred'
        PROVE  /\ p[1] \in DOMAIN m'.flags /\ p[2] \in Clients
               /\ m'.flags[p[1]].owner = Nobody /\ m'.flags[p[1]].droptime # 0
               /\ m'.flags[p[1]].dropper = p[2] /\ m'.flags[p[1]].dropcount >= MaxDrops
    <3>1. p \in barred /\ Lies(p[1]) BY <2>1 DEF History
    <3> QED BY <3>1 DEF Inv, BarredLie, Lies, Same, Home
  <2> QED BY <1>3, <2>1 DEF BarredLie
<1>7. StaysBarred
  BY PlayersAssumption DEF StaysBarred, Inv, BarredLie, Same, Home
<1> QED BY <1>1, <1>2, <1>4, <1>5, <1>6, <1>7 DEF Safe, Inv

\* Whatever becomes of c, it has no flag any more.
LEMMA LeaveStep ==
  ASSUME Inv, IsFlags, smode' = smode, PlayersOK', NEW c \in Clients, NEW dropper, NEW guilty \in BOOLEAN,
         Loses(m, m', c, dropper, guilty), \A d \in Clients \ {c} : ci'[d] = ci[d],
         since' \in Nat, 1 \in DOMAIN m.flags => since' = since,
         \A p \in barred' :
           \/ p \in barred /\ (p[2] # c \/ \A j \in DOMAIN m.flags : m.flags[j].owner # c => Same(m.flags[j], m'.flags[j]))
           \/ /\ guilty /\ p[2] = dropper /\ p[2] \in Clients /\ p[1] \in DOMAIN m.flags
              /\ m.flags[p[1]].owner = c /\ m'.flags[p[1]].droptime # 0
  PROVE  Safe
<1>1. FlagsOK(m) /\ FlagsOK(m') /\ FlagsOK(m)' /\ DOMAIN m'.flags = DOMAIN m.flags /\ Earned
  BY StillOK, KeptEarned DEF Inv, Loses
<1>2. \A j \in DOMAIN m.flags : Falls(m.flags[j], m'.flags[j], c, dropper, guilty) BY DEF Loses
<1>3. (Hold' <=> Hold) /\ (Protect' <=> Protect) /\ IsFlags' BY DEF Hold, Protect, IsFlags
<1>4. c # Nobody BY PlayersAssumption
<1>5. HoldersAlive'
  <2>1. ASSUME NEW i \in DOMAIN m'.flags, m'.flags[i].owner # Nobody
        PROVE  LET d == m'.flags[i].owner IN
                 /\ ci'[d].state = "alive"
                 /\ \A j \in DOMAIN m'.flags : m'.flags[j].owner = d => j = i
                 /\ m'.flags[i].team \in Teams /\ (Hold \/ (Protect <=> m'.flags[i].team = ci'[d].team))
    <3>1. m'.flags[i].owner = m.flags[i].owner /\ m'.flags[i].team = m.flags[i].team /\ m.flags[i].owner # c
      BY <1>1, <1>2, <2>1 DEF Falls
    <3>2. m.flags[i].owner \in Clients \ {c} BY <1>1, <2>1, <3>1 DEF FlagsOK, FlagOK
    <3>3. LET d == m.flags[i].owner IN
            /\ Alive(d) /\ \A j \in DOMAIN m.flags : m.flags[j].owner = d => j = i
            /\ m.flags[i].team \in Teams /\ (Hold \/ (Protect <=> m.flags[i].team = ci[d].team))
      BY <1>1, <2>1, <3>1 DEF Inv, HoldersAlive
    <3>4. \A j \in DOMAIN m.flags : m'.flags[j].owner = m.flags[j].owner \/ m'.flags[j].owner = Nobody
      BY <1>2 DEF Falls
    <3> QED BY <1>1, <2>1, <3>1, <3>2, <3>3, <3>4 DEF Alive
  <2> QED BY <1>3, <2>1 DEF HoldersAlive, Alive
<1>6. HoldTimed'
  <2>1. ASSUME Hold, NEW i \in DOMAIN m'.flags
        PROVE  /\ m'.flags[i].owner # Nobody => m'.flags[i].holdtime # 0
               /\ m'.flags[i].holdtime # 0 => since' <= m'.flags[i].holdtime
    <3>1. i = 1 /\ 1 \in DOMAIN m.flags BY <1>1, <2>1 DEF FlagsOK
    <3>2. /\ m.flags[i].owner # Nobody => m.flags[i].holdtime # 0
          /\ m.flags[i].holdtime # 0 => since <= m.flags[i].holdtime
      BY <2>1, <3>1 DEF Inv, HoldTimed
    <3>3. m.flags[i].holdtime \in Nat /\ m'.flags[i].holdtime \in Nat /\ since \in Nat
      BY <1>1, <3>1 DEF FlagsOK, FlagOK, Inv
    <3>4. Falls(m.flags[i], m'.flags[i], c, dropper, guilty) /\ since' = since BY <1>2, <3>1
    <3> QED BY <1>4, <3>2, <3>3, <3>4 DEF Falls
  <2> QED BY <1>3, <2>1 DEF HoldTimed
<1>7. BarredLie'
  <2>1. ASSUME NEW p \in barred'
        PROVE  /\ p[1] \in DOMAIN m'.flags /\ p[2] \in Clients
               /\ m'.flags[p[1]].owner = Nobody /\ m'.flags[p[1]].droptime # 0
               /\ m'.flags[p[1]].dropper = p[2] /\ m'.flags[p[1]].dropcount >= MaxDrops
    <3>1. CASE /\ p \in barred
               /\ p[2] # c \/ \A j \in DOMAIN m.flags : m.flags[j].owner # c => Same(m.flags[j], m'.flags[j])
      <4>1. /\ p[1] \in DOMAIN m.flags /\ p[2] \in Clients
            /\ m.flags[p[1]].owner = Nobody /\ m.flags[p[1]].droptime # 0
            /\ m.flags[p[1]].dropper = p[2] /\ m.flags[p[1]].dropcount >= MaxDrops
        BY <3>1 DEF Inv, BarredLie
      <4>2. Same(m.flags[p[1]], m'.flags[p[1]]) BY <1>2, <1>4, <3>1, <4>1 DEF Falls
      <4> QED BY <1>1, <4>1, <4>2 DEF Same
    <3>2. CASE /\ guilty /\ p[2] = dropper /\ p[2] \in Clients /\ p[1] \in DOMAIN m.flags
               /\ m.flags[p[1]].owner = c /\ m'.flags[p[1]].droptime # 0
      <4>1. MaxDrops >= MaxDrops BY FlagsAssumption
      <4> QED BY <1>1, <1>2, <3>2, <4>1 DEF Falls
    <3> QED BY <2>1, <3>1, <3>2
  <2> QED BY <1>3, <2>1 DEF BarredLie
<1>8. StaysBarred
  BY <1>1, <1>2, <1>4, PlayersAssumption DEF StaysBarred, Inv, BarredLie, Falls
<1> QED BY <1>1, <1>5, <1>6, <1>7, <1>8 DEF Safe, Inv

\* c takes flag i.
LEMMA TakenStep ==
  ASSUME Inv, IsFlags, UNCHANGED <<smode, ci>>, NEW c \in Clients, Alive(c), History,
         FlagsOK(m'), Beside(m, m'), Kept(m, m'), DOMAIN m'.flags = DOMAIN m.flags,
         \A j \in DOMAIN m.flags : m.flags[j].owner # c,
         NEW i \in DOMAIN m.flags, Taken(m.flags[i], m'.flags[i], c, m.now),
         \A j \in DOMAIN m.flags : j # i => Same(m.flags[j], m'.flags[j])
  PROVE  Safe
<1>1. FlagsOK(m) /\ FlagsOK(m)' /\ Earned /\ PlayersOK'
  BY StillOK, KeptEarned DEF Inv, PlayersOK
<1>2. (Hold' <=> Hold) /\ (Protect' <=> Protect) /\ IsFlags' BY DEF Hold, Protect, IsFlags
<1>3. c # Nobody /\ ci[c].team \in Teams BY PlayersAssumption DEF Inv, PlayersOK
<1>4. m.now \in Nat /\ m'.now = m.now BY <1>1 DEF FlagsOK, Beside
<1>5. HoldersAlive'
  <2>1. ASSUME NEW k \in DOMAIN m'.flags, m'.flags[k].owner # Nobody
        PROVE  LET d == m'.flags[k].owner IN
                 /\ ci'[d].state = "alive"
                 /\ \A j \in DOMAIN m'.flags : m'.flags[j].owner = d => j = k
                 /\ m'.flags[k].team \in Teams /\ (Hold \/ (Protect <=> m'.flags[k].team = ci'[d].team))
    <3>1. CASE k = i BY <1>3, <3>1 DEF Taken, Same, Alive
    <3>2. CASE k # i
      <4>1. m'.flags[k].owner = m.flags[k].owner /\ m'.flags[k].team = m.flags[k].team BY <3>2 DEF Same
      <4>2. LET d == m.flags[k].owner IN
              /\ Alive(d) /\ \A j \in DOMAIN m.flags : m.flags[j].owner = d => j = k
              /\ m.flags[k].team \in Teams /\ (Hold \/ (Protect <=> m.flags[k].team = ci[d].team))
        BY <2>1, <4>1 DEF Inv, HoldersAlive
      <4> QED BY <2>1, <3>2, <4>1, <4>2 DEF Taken, Same, Alive
    <3> QED BY <3>1, <3>2
  <2> QED BY <1>2, <2>1 DEF HoldersAlive, Alive
<1>6. since' \in Nat BY <1>1, <1>4 DEF History, Inv
<1>7. HoldTimed'
  <2>1. ASSUME Hold, NEW k \in DOMAIN m'.flags
        PROVE  /\ m'.flags[k].owner # Nobody => m'.flags[k].holdtime # 0
               /\ m'.flags[k].holdtime # 0 => since' <= m'.flags[k].holdtime
    <3>1. k = 1 /\ i = 1 /\ 1 \in DOMAIN m.flags BY <1>1, <2>1 DEF FlagsOK
    <3>2. m.flags[1].holdtime # 0 => since <= m.flags[1].holdtime BY <2>1, <3>1 DEF Inv, HoldTimed
    <3>3. m.flags[1].holdtime \in Nat /\ m'.flags[1].holdtime \in Nat /\ since \in Nat
      BY <1>1, <3>1 DEF FlagsOK, FlagOK, Inv
    <3>4. Taken(m.flags[1], m'.flags[1], c, m.now) BY <3>1
    <3>5. m.flags # <<>> /\ m'.flags # <<>> BY <3>1
    <3>6. since' = IF m.flags[1].holdtime = 0 \/ m.flags[1].team /= m'.flags[1].team THEN m'.now ELSE since
      BY <1>3, <2>1, <3>4, <3>5 DEF History, Taken
    <3> QED BY <1>4, <2>1, <3>1, <3>2, <3>3, <3>4, <3>6 DEF Taken
  <2> QED BY <1>2, <2>1 DEF HoldTimed
<1>8. BarredLie'
  <2>1. ASSUME NEW p \in barred'
        PROVE  /\ p[1] \in DOMAIN m'.flags /\ p[2] \in Clients
               /\ m'.flags[p[1]].owner = Nobody /\ m'.flags[p[1]].droptime # 0
               /\ m'.flags[p[1]].dropper = p[2] /\ m'.flags[p[1]].dropcount >= MaxDrops
    <3>1. p \in barred /\ Lies(p[1]) BY <2>1 DEF History
    <3>2. p[1] # i BY <1>3, <3>1 DEF Lies, Taken
    <3> QED BY <3>1, <3>2 DEF Inv, BarredLie, Same
  <2> QED BY <1>2, <2>1 DEF BarredLie
<1>9. StaysBarred
  <2>1. ASSUME NEW p \in barred PROVE p[1] \in DOMAIN m'.flags => m'.flags[p[1]].owner # p[2]
    <3>1. /\ p[1] \in DOMAIN m.flags /\ p[2] \in Clients
          /\ m.flags[p[1]].owner = Nobody /\ m.flags[p[1]].droptime # 0
          /\ m.flags[p[1]].dropper = p[2] /\ m.flags[p[1]].dropcount >= MaxDrops
      BY DEF Inv, BarredLie
    <3>2. CASE p[1] = i BY <3>1, <3>2 DEF Taken
    <3>3. CASE p[1] # i BY <3>1, <3>3, PlayersAssumption DEF Same
    <3> QED BY <3>2, <3>3
  <2> QED BY <2>1 DEF StaysBarred
<1> QED BY <1>1, <1>5, <1>6, <1>7, <1>8, <1>9 DEF Safe, Inv

-----------------------------------------------------------------------------
(* The actions.                                                             *)

LEMMA OneMode == IsFlags => ~IsBases /\ ~IsSkulls
BY DEF IsFlags, IsBases, IsSkulls, FlagModes

\* In a mode with flags the hooks are those of ctf.h.
LEMMA FlagHooks ==
  ASSUME IsFlags, NEW c, NEW actor, NEW team, NEW s, NEW r, NEW known \in BOOLEAN
  PROVE  /\ LeaveGame(c, TRUE) = FlagsLeaveGame(m, c) /\ Died(c, actor) = FlagsDied(m, c, actor)
         /\ ChangeTeam(c, team) = DropFlag(m, c, Nobody) /\ Update(s, r) = FlagsUpdate(s, r)
         /\ Setup(known, r) = IF known THEN FlagsSetup(r) ELSE FlagsUnknown
<1>1. smode \in FlagModes /\ smode # "capture" BY DEF IsFlags, FlagModes
<1>2. LeaveGame(c, TRUE) = FlagsLeaveGame(m, c) BY <1>1 DEF LeaveGame, IsFlags, IsBases
<1>3. Died(c, actor) = FlagsDied(m, c, actor) BY <1>1 DEF Died, IsFlags, IsBases
<1>4. ChangeTeam(c, team) = DropFlag(m, c, Nobody) BY <1>1 DEF ChangeTeam, IsFlags, IsBases
<1>5. Update(s, r) = FlagsUpdate(s, r) BY <1>1 DEF Update, IsFlags, IsBases
<1>6. Setup(known, r) = IF known THEN FlagsSetup(r) ELSE FlagsUnknown BY <1>1 DEF Setup, IsFlags, IsBases
<1> QED BY <1>2, <1>3, <1>4, <1>5, <1>6

LEMMA PlayerStep ==
  ASSUME PlayersOK, NEW c \in Clients, NEW p, DOMAIN p = PlayerFields, p.team \in Teams, ci' = [ci EXCEPT ![c] = p]
  PROVE  PlayersOK' /\ ci'[c] = p /\ \A d \in Clients \ {c} : ci'[d] = ci[d]
BY DEF PlayersOK

\* The flags stay as they are, and their holders where they are.
LEMMA CalmStep ==
  ASSUME Inv, smode' = smode, PlayersOK', IsFlags => m' = m, History,
         \A d \in Clients : Alive(d) => ci'[d].state = "alive" /\ ci'[d].team = ci[d].team
  PROVE  Safe
<1>1. CASE ~IsFlags BY <1>1, NoFlagsStep DEF History
<1>2. CASE IsFlags
  <2>1. m' = m /\ FlagsOK(m) BY <1>2 DEF Inv
  <2>2. Earned BY <2>1, KeptEarned DEF Kept
  <2> QED BY <1>2, <2>1, <2>2, QuietStep, SameSelf
<1> QED BY <1>1, <1>2

LEMMA ConnectSafe ==
  ASSUME Inv, NEW c \in Clients, NEW team \in Teams, Connect(c, team)
  PROVE  Safe
<1>1. PlayersOK' /\ \A d \in Clients \ {c} : ci'[d] = ci[d]
  <2>1. DOMAIN NewPlayer(team) = PlayerFields /\ NewPlayer(team).team = team BY DEF NewPlayer, PlayerFields
  <2> QED BY <2>1, PlayerStep DEF Connect, Inv
<1>2. ~Alive(c) BY DEF Connect, Present, Alive
<1> QED BY <1>1, <1>2, CalmStep DEF Connect, Turn, Alive

LEMMA SpawnSafe ==
  ASSUME Inv, NEW c \in Clients, NEW o, NEW clip, Spawn(c, o, clip)
  PROVE  Safe
<1> DEFINE p == [ci[c] EXCEPT !.state = "alive", !.o = o, !.clip = clip, !.tokens = 0]
<1>1. ci' = [ci EXCEPT ![c] = p] BY DEF Spawn, Inv, PlayersOK
<1>2. DOMAIN p = PlayerFields /\ p.team \in Teams /\ PlayersOK BY DEF Inv, PlayersOK, PlayerFields
<1> HIDE DEF p
<1>3. PlayersOK' /\ \A d \in Clients \ {c} : ci'[d] = ci[d] BY <1>1, <1>2, PlayerStep
<1>4. ~Alive(c) BY DEF Spawn, Alive
<1>5. IsFlags => m' = m BY OneMode DEF Spawn
<1> QED BY <1>3, <1>4, <1>5, CalmStep DEF Spawn, Game, Alive

LEMMA MoveSafe ==
  ASSUME Inv, NEW c \in Clients, NEW o, NEW clip, Move(c, o, clip)
  PROVE  Safe
<1> DEFINE p == [ci[c] EXCEPT !.o = o, !.clip = clip]
<1>1. ci' = [ci EXCEPT ![c] = p] BY DEF Move, Inv, PlayersOK
<1>2. DOMAIN p = PlayerFields /\ p.team = ci[c].team /\ p.state = ci[c].state /\ p.team \in Teams /\ PlayersOK
  BY DEF Inv, PlayersOK, PlayerFields
<1> HIDE DEF p
<1>3. PlayersOK' /\ ci'[c] = p /\ \A d \in Clients \ {c} : ci'[d] = ci[d] BY <1>1, <1>2, PlayerStep
<1>4. \A d \in Clients : Alive(d) => ci'[d].state = "alive" /\ ci'[d].team = ci[d].team
  BY <1>2, <1>3 DEF Alive
<1>5. IsFlags => m' = m BY OneMode DEF Move
<1> QED BY <1>3, <1>4, <1>5, CalmStep DEF Move, Game

LEMMA UnspectateSafe ==
  ASSUME Inv, NEW c \in Clients, Unspectate(c)
  PROVE  Safe
<1> DEFINE p == [ci[c] EXCEPT !.state = "dead"]
<1>1. ci' = [ci EXCEPT ![c] = p] BY DEF Unspectate, Inv, PlayersOK
<1>2. DOMAIN p = PlayerFields /\ p.team \in Teams /\ PlayersOK BY DEF Inv, PlayersOK, PlayerFields
<1> HIDE DEF p
<1>3. PlayersOK' /\ \A d \in Clients \ {c} : ci'[d] = ci[d] BY <1>1, <1>2, PlayerStep
<1>4. ~Alive(c) BY DEF Unspectate, Alive
<1> QED BY <1>3, <1>4, CalmStep DEF Unspectate, Game, Alive

LEMMA KilledPlayer ==
  ASSUME PlayersOK, NEW c \in Clients
  PROVE  DOMAIN Killed(c) = PlayerFields /\ Killed(c).team = ci[c].team /\ Killed(c).team \in Teams /\ Killed(c).state = "dead"
BY DEF PlayersOK, Killed, PlayerFields

\* c, who was alive, is not any more: history forgets whom it was barred for.
LEMMA GoneSafe ==
  ASSUME Inv, IsFlags, smode' = smode, PlayersOK', NEW c \in Clients, NEW dropper, Loses(m, m', c, dropper, FALSE),
         \A d \in Clients \ {c} : ci'[d] = ci[d], History, ~Remains(c)
  PROVE  Safe
<1>1. FlagsOK(m) /\ FlagsOK(m') BY DEF Loses, Inv
<1>2. since' \in Nat /\ (1 \in DOMAIN m.flags => since' = since)
  <2>1. 1 \in DOMAIN m.flags => m.flags[1].owner # Nobody \/ m'.flags[1].owner = Nobody BY DEF Loses, Falls
  <2> QED BY <1>1, <2>1, SinceKept
<1>3. \A p \in barred' : p \in barred /\ p[2] # c BY DEF History
<1> QED BY <1>2, <1>3, LeaveStep

LEMMA DieSafe ==
  ASSUME Inv, NEW c \in Clients, NEW actor \in Clients \cup {Nobody}, Die(c, actor)
  PROVE  Safe
<1> DEFINE guilty == actor \notin {Nobody, c} /\ IsTeam(actor, c)
<1>1. PlayersOK' /\ ci'[c] = Killed(c) /\ \A d \in Clients \ {c} : ci'[d] = ci[d]
  BY KilledPlayer, PlayerStep DEF Die, Inv
<1>2. ~Remains(c) BY <1>1, KilledPlayer DEF Remains, Die, Inv
<1>3. CASE ~IsFlags BY <1>1, <1>3, NoFlagsStep DEF Die
<1>4. CASE IsFlags
  <2>1. Loses(m, m', c, actor, guilty)
    <3>1. m' = FlagsDied(m, c, actor) BY <1>4, FlagHooks DEF Die
    <3> QED BY <1>4, <3>1, DiedLoses DEF Inv
  <2>2. guilty \in BOOLEAN BY DEF IsTeam
  <2>3. ASSUME NEW p \in barred'
        PROVE  \/ p \in barred /\ p[2] # c
               \/ /\ guilty /\ p[2] = actor /\ p[2] \in Clients /\ p[1] \in DOMAIN m.flags
                  /\ m.flags[p[1]].owner = c /\ m'.flags[p[1]].droptime # 0
    <3>1. \/ p \in barred /\ Remains(p[2])
          \/ /\ guilty
             /\ \E i \in DOMAIN m.flags : p = <<i, actor>> /\ m.flags[i].owner = c /\ Lies(i)
      BY <1>4, <2>3 DEF Die
    <3>2. CASE p \in barred /\ Remains(p[2]) BY <1>2, <3>2
    <3>3. CASE guilty /\ \E i \in DOMAIN m.flags : p = <<i, actor>> /\ m.flags[i].owner = c /\ Lies(i)
      <4>1. PICK i \in DOMAIN m.flags : p = <<i, actor>> /\ m.flags[i].owner = c /\ Lies(i) BY <3>3
      <4>2. actor \in Clients BY <3>3
      <4>3. p[1] = i /\ p[2] = actor BY <4>1
      <4> QED BY <3>3, <4>1, <4>2, <4>3 DEF Lies
    <3> QED BY <3>1, <3>2, <3>3
  <2>4. since' = since /\ since \in Nat /\ smode' = smode BY DEF Die, Inv
  <2> HIDE DEF guilty
  <2> QED BY <1>1, <1>4, <2>1, <2>2, <2>3, <2>4, LeaveStep
<1> QED BY <1>3, <1>4

LEMMA NobodyGuilty ==
  ASSUME NEW s, FlagsOK(s), NEW c \in Clients
  PROVE  Loses(s, FlagsDied(s, c, Nobody), c, Nobody, FALSE)
<1>1. (Nobody \notin {Nobody, c} /\ IsTeam(Nobody, c)) <=> FALSE OBVIOUS
<1> QED BY <1>1, DiedLoses

LEMMA SpectateSafe ==
  ASSUME Inv, NEW c \in Clients, Spectate(c)
  PROVE  Safe
<1> DEFINE p == [ci[c] EXCEPT !.state = "spectator", !.tokens = 0]
<1>1. ci' = [ci EXCEPT ![c] = p] BY DEF Spectate, Inv, PlayersOK
<1>2. DOMAIN p = PlayerFields /\ p.team \in Teams /\ p.state = "spectator" /\ PlayersOK BY DEF Inv, PlayersOK, PlayerFields
<1> HIDE DEF p
<1>3. PlayersOK' /\ ci'[c] = p /\ \A d \in Clients \ {c} : ci'[d] = ci[d] BY <1>1, <1>2, PlayerStep
<1>4. smode' = smode /\ History BY DEF Spectate, Turn
<1>5. ~Remains(c) BY <1>2, <1>3 DEF Remains
<1>6. CASE ~IsFlags BY <1>3, <1>4, <1>6, NoFlagsStep DEF History
<1>7. CASE IsFlags
  <2> DEFINE s == IF Alive(c) THEN Died(c, Nobody) ELSE m
  <2>1. FlagsOK(m) BY <1>7 DEF Inv
  <2>2. m' = FlagsLeaveGame(s, c) BY <1>7 DEF Spectate
  <2>3. Loses(m, m', c, Nobody, FALSE)
    <3>1. CASE Alive(c)
      <4>1. s = FlagsDied(m, c, Nobody) BY <1>7, <3>1, FlagHooks
      <4>2. Loses(m, s, c, Nobody, FALSE) BY <2>1, <4>1, NobodyGuilty
      <4> HIDE DEF s
      <4>3. Loses(s, m', c, Nobody, FALSE) BY <2>2, <4>2, LeaveGameLoses DEF Loses
      <4> QED BY <2>1, <4>2, <4>3, LosesTwice
    <3>2. CASE ~Alive(c) BY <2>1, <2>2, <3>2, LeaveGameLoses
    <3> QED BY <3>1, <3>2
  <2> QED BY <1>3, <1>4, <1>5, <1>7, <2>3, GoneSafe
<1> QED BY <1>6, <1>7

LEMMA SwitchTeamSafe ==
  ASSUME Inv, NEW c \in Clients, NEW team \in Teams, SwitchTeam(c, team)
  PROVE  Safe
<1> DEFINE p == IF Alive(c) THEN [Killed(c) EXCEPT !.team = team] ELSE [ci[c] EXCEPT !.team = team]
<1>1. ci' = [ci EXCEPT ![c] = p] BY DEF SwitchTeam, Inv, PlayersOK
<1>2. DOMAIN p = PlayerFields /\ p.team \in Teams /\ p.state = (IF Alive(c) THEN "dead" ELSE ci[c].state) /\ PlayersOK
  <2>1. PlayersOK /\ DOMAIN ci[c] = PlayerFields BY DEF Inv, PlayersOK
  <2>2. DOMAIN Killed(c) = PlayerFields /\ Killed(c).state = "dead" BY <2>1, KilledPlayer
  <2> QED BY <2>1, <2>2 DEF PlayerFields
<1> HIDE DEF p
<1>3. PlayersOK' /\ ci'[c] = p /\ \A d \in Clients \ {c} : ci'[d] = ci[d] BY <1>1, <1>2, PlayerStep
<1>4. smode' = smode /\ History BY DEF SwitchTeam, Turn
<1>5. CASE ~IsFlags BY <1>3, <1>4, <1>5, NoFlagsStep DEF History
<1>6. CASE IsFlags /\ Alive(c)
  <2>1. m' = FlagsDied(m, c, Nobody) BY <1>6, FlagHooks DEF SwitchTeam
  <2>2. Loses(m, m', c, Nobody, FALSE) BY <1>6, <2>1, NobodyGuilty DEF Inv
  <2>3. ~Remains(c) BY <1>2, <1>3, <1>6 DEF Remains
  <2> QED BY <1>3, <1>4, <1>6, <2>2, <2>3, GoneSafe
<1>7. CASE IsFlags /\ ~Alive(c)
  <2>1. m' = m BY <1>7 DEF SwitchTeam
  <2> QED BY <1>3, <1>4, <1>7, <2>1, CalmStep DEF Alive
<1> QED BY <1>5, <1>6, <1>7

\* dropflag alone: c plays on, and stays barred from what it was.
LEMMA DropSafe ==
  ASSUME Inv, IsFlags, smode' = smode, PlayersOK', NEW c \in Clients, m' = DropFlag(m, c, Nobody),
         \A d \in Clients \ {c} : ci'[d] = ci[d], History
  PROVE  Safe
<1>1. FlagsOK(m) BY DEF Inv
<1>2. Loses(m, m', c, Nobody, FALSE) /\ \A j \in DOMAIN m.flags : m.flags[j].owner # c => Same(m.flags[j], m'.flags[j])
  <2>1. CASE m.notgot
    <3>1. m' = m /\ DOMAIN m.flags = {} BY <1>1, <2>1 DEF DropFlag, FlagsOK
    <3> QED BY <1>1, <3>1 DEF Loses, Beside, Kept
  <2>2. CASE ~m.notgot
    <3>1. (Nobody \notin {Nobody, c}) <=> FALSE OBVIOUS
    <3> QED BY <1>1, <2>2, <3>1, DropFlagLoses
  <2> QED BY <1>1, <2>1, <2>2 DEF FlagsOK
<1>3. since' \in Nat /\ (1 \in DOMAIN m.flags => since' = since)
  <2>1. 1 \in DOMAIN m.flags => m.flags[1].owner # Nobody \/ m'.flags[1].owner = Nobody BY <1>2 DEF Loses, Falls
  <2> QED BY <1>2, <2>1, SinceKept DEF Loses
<1>4. \A p \in barred' : p \in barred BY DEF History
<1> QED BY <1>2, <1>3, <1>4, LeaveStep

LEMMA BotChangesTeamSafe ==
  ASSUME Inv, NEW c \in Clients, NEW team \in Teams, BotChangesTeam(c, team)
  PROVE  Safe
<1> DEFINE p == [ci[c] EXCEPT !.team = team]
<1>1. ci' = [ci EXCEPT ![c] = p] BY DEF BotChangesTeam, Inv, PlayersOK
<1>2. DOMAIN p = PlayerFields /\ p.team \in Teams /\ PlayersOK BY DEF Inv, PlayersOK, PlayerFields
<1> HIDE DEF p
<1>3. PlayersOK' /\ \A d \in Clients \ {c} : ci'[d] = ci[d] BY <1>1, <1>2, PlayerStep
<1>4. smode' = smode /\ History BY DEF BotChangesTeam, Turn
<1>5. CASE ~IsFlags BY <1>3, <1>4, <1>5, NoFlagsStep DEF History
<1>6. CASE IsFlags
  <2>1. m' = DropFlag(m, c, Nobody) BY <1>6, FlagHooks DEF BotChangesTeam
  <2> QED BY <1>3, <1>4, <1>6, <2>1, DropSafe
<1> QED BY <1>5, <1>6

LEMMA TryDropFlagSafe ==
  ASSUME Inv, NEW c \in Clients, TryDropFlag(c)
  PROVE  Safe
<1>1. PlayersOK' BY DEF TryDropFlag, Inv, PlayersOK
<1> QED BY <1>1, DropSafe DEF TryDropFlag, Game

LEMMA DisconnectSafe ==
  ASSUME Inv, NEW c \in Clients, Disconnect(c)
  PROVE  Safe
<1>1. DOMAIN Gone = PlayerFields /\ Gone.team \in Teams /\ Gone.state = "gone" /\ PlayersOK
  BY DEF Gone, NewPlayer, PlayerFields, Teams, Inv
<1>2. PlayersOK' /\ ci'[c] = Gone /\ \A d \in Clients \ {c} : ci'[d] = ci[d] BY <1>1, PlayerStep DEF Disconnect
<1>3. smode' = smode /\ History BY DEF Disconnect, Turn
<1>4. CASE ~IsFlags BY <1>2, <1>3, <1>4, NoFlagsStep DEF History
<1>5. CASE IsFlags
  <2>1. m' = FlagsLeaveGame(m, c) BY <1>5, FlagHooks DEF Disconnect
  <2>2. Loses(m, m', c, Nobody, FALSE) BY <1>5, <2>1, LeaveGameLoses DEF Inv
  <2>3. ~Remains(c) BY <1>1, <1>2 DEF Remains
  <2> QED BY <1>2, <1>3, <1>5, <2>2, <2>3, GoneSafe
<1> QED BY <1>4, <1>5

LEMMA TakeFlagSafe ==
  ASSUME Inv, NEW c \in Clients, NEW i, NEW r, TakeFlag(c, i, r)
  PROVE  Safe
<1>1. /\ IsFlags /\ MayTake(m, c, i) /\ m' = Take(m, c, i, r) /\ Alive(c) /\ History /\ UNCHANGED <<smode, ci>>
  BY DEF TakeFlag, MayTake, Game
<1>2. FlagsOK(m) /\ ci[c].team \in Teams /\ PlayersOK' BY <1>1 DEF Inv, PlayersOK
<1>3. Takes(m, m', c) BY <1>1, <1>2, TakeTakes
<1>4. FlagsOK(m') /\ Beside(m, m') /\ Kept(m, m') /\ DOMAIN m'.flags = DOMAIN m.flags BY <1>3 DEF Takes
<1>5. CASE \A j \in DOMAIN m.flags : Same(m.flags[j], m'.flags[j]) \/ Home(m.flags[j], m'.flags[j])
  <2>1. Earned BY <1>2, <1>4, KeptEarned
  <2>2. \A d \in Clients : Alive(d) => ci'[d].state = "alive" /\ ci'[d].team = ci[d].team BY <1>1 DEF Alive
  <2> QED BY <1>1, <1>2, <1>4, <1>5, <2>1, <2>2, QuietStep
<1>6. CASE /\ \A j \in DOMAIN m.flags : m.flags[j].owner # c
           /\ \E k \in DOMAIN m.flags :
                /\ Taken(m.flags[k], m'.flags[k], c, m.now)
                /\ \A j \in DOMAIN m.flags : j # k => Same(m.flags[j], m'.flags[j])
  BY <1>1, <1>4, <1>6, TakenStep
<1> QED BY <1>3, <1>5, <1>6 DEF Takes

LEMMA OtherModeSafe ==
  ASSUME Inv, NEW c \in Clients, NEW b,
         RepAmmo(c) \/ DepositTokens(c, b) \/ TakeSkull(c, b)
  PROVE  Safe
<1>1. ~IsFlags /\ smode' = smode /\ History BY OneMode DEF RepAmmo, DepositTokens, TakeSkull, Game
<1>2. \E n : ci' = ci \/ ci' = [ci EXCEPT ![c].tokens = n]
  BY DEF RepAmmo, DepositTokens, TakeSkull
<1>3. PlayersOK' BY <1>2 DEF Inv, PlayersOK, PlayerFields
<1> QED BY <1>1, <1>3, NoFlagsStep DEF History

LEMMA ItemListSafe ==
  ASSUME Inv, NEW c \in Clients, NEW r, NEW order, ItemList(c, r, order)
  PROVE  Safe
<1>1. smode' = smode /\ History /\ PlayersOK' /\ ci' = ci /\ m.notgot BY DEF ItemList, Game, Inv, PlayersOK
<1>2. CASE ~IsFlags BY <1>1, <1>2, NoFlagsStep DEF History
<1>3. CASE IsFlags
  <2>1. m' = FlagsParse(m, r) /\ FlagsOK(m)
    <3>1. smode \in FlagModes /\ smode # "capture" BY <1>3 DEF IsFlags, FlagModes
    <3>2. m' = FlagsParse(m, r) BY <3>1 DEF ItemList, IsFlags, IsBases
    <3> QED BY <1>3, <3>2 DEF Inv
  <2>2. Fresh(m') /\ Kept(m, m') /\ m'.now = m.now BY <1>1, <2>1, FlagsParseFresh
  <2>3. FlagsOK(m') /\ FlagsOK(m)' /\ Earned BY <1>1, <2>1, <2>2, StillOK, KeptEarned DEF Fresh
  <2>4. since' \in Nat BY <1>1, <2>3 DEF History, Inv, FlagsOK
  <2>5. barred = {} /\ barred' = {} BY <1>1, <2>1 DEF Inv, BarredLie, FlagsOK, History
  <2>6. HoldersAlive' /\ HoldTimed' BY <2>2 DEF Fresh, HoldersAlive, HoldTimed
  <2> QED BY <1>1, <2>3, <2>4, <2>5, <2>6 DEF Safe, Inv, BarredLie, StaysBarred
<1> QED BY <1>2, <1>3

LEMMA TickSafe ==
  ASSUME Inv, NEW r, Tick(r)
  PROVE  Safe
<1>1. smode' = smode /\ History /\ PlayersOK' /\ ci' = ci BY DEF Tick, Inv, PlayersOK
<1>2. CASE ~IsFlags BY <1>1, <1>2, NoFlagsStep DEF History
<1>3. CASE IsFlags
  <2> DEFINE s == [m EXCEPT !.now = @ + 1]
  <2>1. m' = FlagsUpdate(s, r) /\ FlagsOK(m) BY <1>3, FlagHooks DEF Tick, Inv
  <2>2. /\ DOMAIN s = StateFields /\ s.now = m.now + 1 /\ s.flags = m.flags /\ s.scores = m.scores /\ s.notgot = m.notgot
    BY <2>1 DEF FlagsOK, StateFields
  <2> HIDE DEF s
  <2>3. FlagsOK(s) BY <2>1, <2>2 DEF FlagsOK, FlagOK
  <2>4. Ticks(s, m')
    <3>1. \A c \in Clients : ci[c].team \in Teams BY DEF Inv, PlayersOK
    <3> QED BY <2>1, <2>3, <3>1, FlagsUpdateTicks
  <2>5. /\ FlagsOK(m') /\ DOMAIN m'.flags = DOMAIN m.flags /\ m'.now = s.now
        /\ \A j \in DOMAIN m.flags : Same(m.flags[j], m'.flags[j]) \/ Home(m.flags[j], m'.flags[j])
    BY <2>2, <2>4 DEF Ticks, Beside
  <2>6. Earned
    <3>1. SUFFICES ASSUME Hold, \E t \in Teams : m'.scores[t] > m.scores[t]
                   PROVE  m'.now - since >= HoldSecs
      BY DEF Earned
    <3>2. m.scores \in [Teams -> Nat] BY <2>1, <3>1 DEF FlagsOK
    <3>3. m'.scores # s.scores BY <2>2, <3>1, <3>2
    <3>4. PICK j \in DOMAIN s.flags : s.flags[j].owner # Nobody /\ s.now - s.flags[j].holdtime >= HoldSecs
      BY <2>4, <3>1, <3>3 DEF Ticks
    <3>5. m.flags[j].holdtime # 0 /\ since <= m.flags[j].holdtime
      BY <1>3, <2>2, <3>1, <3>4 DEF Inv, HoldTimed
    <3>6. m.flags[j].holdtime \in Nat /\ since \in Nat /\ m.now \in Nat BY <2>1, <2>2, <3>4 DEF FlagsOK, FlagOK, Inv
    <3> QED BY <2>2, <2>5, <3>4, <3>5, <3>6, FlagsAssumption
  <2>7. \A d \in Clients : Alive(d) => ci'[d].state = "alive" /\ ci'[d].team = ci[d].team BY <1>1 DEF Alive
  <2> QED BY <1>1, <1>3, <2>5, <2>6, <2>7, QuietStep
<1> QED BY <1>2, <1>3

LEMMA GameEndsSafe ==
  ASSUME Inv, GameEnds
  PROVE  Safe
<1>1. smode' = smode /\ History /\ PlayersOK' /\ ci' = ci /\ m' = Intermission(m) BY DEF GameEnds, Game, Inv, PlayersOK
<1>2. CASE ~IsFlags BY <1>1, <1>2, NoFlagsStep DEF History
<1>3. CASE IsFlags
  <2>1. FlagsOK(m) BY <1>3 DEF Inv
  <2>2. /\ DOMAIN m' = StateFields /\ m'.flags = m.flags /\ m'.scores = m.scores /\ m'.now = m.now /\ m'.notgot = m.notgot
    BY <1>1, <2>1 DEF Intermission, FlagsOK, StateFields
  <2>3. FlagsOK(m') /\ Kept(m, m') BY <2>1, <2>2 DEF FlagsOK, Kept
  <2>4. Earned BY <2>1, <2>3, KeptEarned
  <2>5. \A d \in Clients : Alive(d) => ci'[d].state = "alive" /\ ci'[d].team = ci[d].team BY <1>1 DEF Alive
  <2>6. \A j \in DOMAIN m.flags : Same(m.flags[j], m'.flags[j]) BY <2>2, SameSelf
  <2> QED BY <1>1, <1>3, <2>2, <2>3, <2>4, <2>5, <2>6, QuietStep
<1> QED BY <1>2, <1>3

-----------------------------------------------------------------------------
(* The map, and the theorems.                                               *)

\* What a map starts with in a mode with flags.
SetupsFresh ==
  IsFlags => \A known \in BOOLEAN : \A r :
    Fresh(Setup(known, r)) /\ (Hold => Setup(known, r).scores = [t \in Teams |-> 0])

LEMMA SetupFresh == SetupsFresh
BY FlagsSetupFresh, FlagsUnknownFresh, FlagHooks DEF SetupsFresh

LEMMA ChangeMapSafe ==
  ASSUME Inv, SetupsFresh', NEW mode \in GameModes, NEW r, ChangeMap(mode, r)
  PROVE  Safe
<1>1. barred' = {} /\ since' = 0 BY DEF ChangeMap
<1>2. PlayersOK'
  <2>1. ASSUME NEW c \in Clients
        PROVE  DOMAIN ResetPlayer(ci[c]) = PlayerFields /\ ResetPlayer(ci[c]).team \in Teams
    BY DEF Inv, PlayersOK, ResetPlayer, NewPlayer, PlayerFields
  <2> QED BY <2>1 DEF ChangeMap, PlayersOK
<1>3. IsFlags' => /\ Fresh(m)' /\ (Hold' => m'.scores = [t \in Teams |-> 0])
  <2>1. PICK known \in BOOLEAN : m' = Setup(known, r)' BY DEF ChangeMap, Known
  <2> QED BY <2>1 DEF SetupsFresh, Fresh
<1>4. Inv' BY <1>1, <1>2, <1>3 DEF Inv, Fresh, HoldersAlive, HoldTimed, BarredLie
<1>5. Earned
  <2>1. SUFFICES ASSUME smode' = smode, Hold, NEW t \in Teams PROVE ~(m'.scores[t] > m.scores[t])
    BY DEF Earned
  <2>2. IsFlags /\ IsFlags' /\ Hold' BY <2>1 DEF IsFlags, Hold, FlagModes
  <2>3. m.scores \in [Teams -> Nat] BY <2>1, <2>2 DEF Inv, FlagsOK
  <2> QED BY <1>3, <2>2, <2>3
<1>6. StaysBarred
  <2>1. SUFFICES ASSUME smode' = smode, IsFlags, NEW p \in barred, p[1] \in DOMAIN m'.flags
                 PROVE  m'.flags[p[1]].owner /= p[2]
    BY DEF StaysBarred
  <2>2. m'.flags[p[1]].owner = Nobody BY <1>3, <2>1 DEF Fresh, IsFlags
  <2> QED BY <2>2, PlayersAssumption DEF Inv, BarredLie
<1> QED BY <1>4, <1>5, <1>6 DEF Safe

LEMMA InitInv == Init => Inv
<1> SUFFICES ASSUME Init PROVE Inv
  OBVIOUS
<1>1. PlayersOK
  <2>1. ci \in [Clients -> {Gone} \cup {NewPlayer(t) : t \in Teams}] BY DEF Init
  <2>2. \A p \in {Gone} \cup {NewPlayer(t) : t \in Teams} : DOMAIN p = PlayerFields /\ p.team \in Teams
    BY DEF Gone, NewPlayer, PlayerFields, Teams
  <2> QED BY <2>1, <2>2 DEF PlayersOK
<1>2. IsFlags => Fresh(m)
  <2>1. PICK known \in BOOLEAN, r \in Draws : m = Setup(known, r) BY DEF Init, Known
  <2> QED BY <2>1, SetupFresh DEF SetupsFresh
<1> QED BY <1>1, <1>2 DEF Init, Inv, Fresh, HoldersAlive, HoldTimed, BarredLie

LEMMA NextSafe ==
  ASSUME Inv, SetupsFresh', Next
  PROVE  Safe
BY ConnectSafe, SpawnSafe, MoveSafe, UnspectateSafe, DieSafe, SpectateSafe, SwitchTeamSafe, BotChangesTeamSafe,
   TryDropFlagSafe, DisconnectSafe, TakeFlagSafe, OtherModeSafe, ItemListSafe, TickSafe, GameEndsSafe, ChangeMapSafe
   DEF Next

LEMMA StutterSafe ==
  ASSUME Inv, UNCHANGED vars
  PROVE  Inv'
BY DEF vars, Inv, PlayersOK, FlagsOK, Hold, HoldersAlive, HoldTimed, BarredLie, IsFlags, Protect, Alive

\* A flag is carried by one living player, who carries no other and whose side may carry it (takeflag,
\* dropflag, died, leavegame, changeteam of ctf.h), for any clients, places and limits.
THEOREM Carried == Spec => []HoldersAlive
<1>1. Inv /\ SetupsFresh' /\ [Next]_vars => Inv' BY NextSafe, StutterSafe DEF Safe
<1>2. Inv => HoldersAlive BY DEF Inv
<1> QED BY <1>1, <1>2, InitInv, SetupFresh, PTL DEF Spec

\* A point of hold is paid for HOLDSECS in one team's hands, and a team killer does not take the flag it
\* brought down (ownflag, dropflag, deadflag, takeflag and update of ctf.h), for any clients, places and limits.
THEOREM Rules == Spec => FlagsEarned
<1>1. Inv /\ SetupsFresh' /\ [Next]_vars => Inv' BY NextSafe, StutterSafe DEF Safe
<1>2. Inv /\ SetupsFresh' /\ [Next]_vars
      => [smode' = smode /\ Hold /\ (\E t \in Teams : m'.scores[t] > m.scores[t]) => m'.now - since >= HoldSecs]_vars
  BY NextSafe DEF Safe, Earned
<1>3. Inv /\ SetupsFresh' /\ [Next]_vars
      => [smode' = smode => \A p \in barred : IsFlags /\ p[1] \in DOMAIN m'.flags => m'.flags[p[1]].owner /= p[2]]_vars
  BY NextSafe DEF Safe, StaysBarred
<1> QED BY <1>1, <1>2, <1>3, InitInv, SetupFresh, PTL DEF Spec, FlagsEarned, HoldEarned, TeamKillerBarred

-----------------------------------------------------------------------------
(* What clients are told of the flags.                                      *)

ShownFields == {"version", "spawnindex", "owner", "invis", "dropped", "droploc"}
Fcn(f, D) == f = [x \in D |-> f[x]]

\* The shape of the flags, their copy and the scores.
Shape(s) ==
  /\ DOMAIN s = StateFields /\ s.now # 0
  /\ \A i \in DOMAIN s.flags : DOMAIN s.flags[i] = FlagFields
  /\ s.seen = [flags |-> s.seen.flags, scores |-> s.seen.scores]
  /\ Fcn(s.seen.flags, DOMAIN s.flags)
  /\ \A i \in DOMAIN s.flags : Fcn(s.seen.flags[i], ShownFields)
  /\ Fcn(s.scores, Teams) /\ Fcn(s.seen.scores, Teams)

\* The copy g says who holds flag f and where it lies.
PlaceTold(g, f) ==
  /\ g.owner = f.owner
  /\ g.invis \in BOOLEAN /\ (g.invis <=> f.invistime # 0)
  /\ g.dropped \in BOOLEAN /\ (g.dropped <=> f.owner = Nobody /\ f.droptime # 0)
  /\ g.droploc = IF f.owner = Nobody /\ f.droptime # 0 THEN f.droploc ELSE Elsewhere

\* The copy is right but for the versions of V, the spawn points of P, the places of R and the scores of Z.
Copy(s, V, P, R, Z) ==
  /\ Shape(s)
  /\ \A i \in DOMAIN s.flags \ V : s.seen.flags[i].version = s.flags[i].version
  /\ \A i \in DOMAIN s.flags \ P : s.seen.flags[i].spawnindex = s.flags[i].spawnindex
  /\ \A i \in DOMAIN s.flags \ R : PlaceTold(s.seen.flags[i], s.flags[i])
  /\ \A t \in Teams \ Z : s.seen.scores[t] = s.scores[t]

\* Nothing a copy tells of a flag's place changed.
Kin(s, t) ==
  /\ DOMAIN t.flags = DOMAIN s.flags /\ t.now = s.now /\ t.notgot = s.notgot
  /\ \A j \in DOMAIN s.flags :
       /\ t.flags[j].owner = s.flags[j].owner /\ t.flags[j].invistime = s.flags[j].invistime
       /\ t.flags[j].droptime = s.flags[j].droptime /\ t.flags[j].droploc = s.flags[j].droploc

LEMMA CopyTold ==
  ASSUME NEW s, Copy(s, {}, {}, {}, {})
  PROVE  s.seen = FlagView(s)
<1>1. ASSUME NEW i \in DOMAIN s.flags PROVE s.seen.flags[i] = FlagShown(s.flags[i])
  <2> DEFINE g == s.seen.flags[i]
             f == s.flags[i]
             h == FlagShown(f)
             v == f.invistime # 0
             d == f.owner = Nobody /\ f.droptime # 0
             l == IF d THEN f.droploc ELSE Elsewhere
  <2>1. g = [x \in ShownFields |-> g[x]] /\ g.version = f.version /\ g.spawnindex = f.spawnindex /\ PlaceTold(g, f)
    BY DEF Copy, Shape, Fcn
  <2>2. v \in BOOLEAN /\ d \in BOOLEAN OBVIOUS
  <2>3. h = [version |-> f.version, spawnindex |-> f.spawnindex, owner |-> f.owner, invis |-> v, dropped |-> d, droploc |-> l]
    BY DEF FlagShown
  <2>4. g.owner = f.owner /\ g.invis \in BOOLEAN /\ (g.invis <=> v) /\ g.dropped \in BOOLEAN /\ (g.dropped <=> d) /\ g.droploc = l
    BY <2>1 DEF PlaceTold
  <2> HIDE DEF v, d, l, g, h
  <2>5. g.invis = v /\ g.dropped = d BY <2>2, <2>4
  <2>6. g = h BY <2>1, <2>3, <2>4, <2>5 DEF ShownFields
  <2> QED BY <2>6 DEF g, h
<1>2. s.seen.flags = [i \in DOMAIN s.flags |-> FlagShown(s.flags[i])]
  BY <1>1, Zenon DEF Copy, Shape, Fcn
<1>3. s.seen.scores = s.scores
  BY DEF Copy, Shape, Fcn
<1> QED BY <1>2, <1>3 DEF Copy, Shape, FlagView

LEMMA ToldCopy ==
  ASSUME NEW s, DOMAIN s = StateFields, s.now # 0, \A i \in DOMAIN s.flags : DOMAIN s.flags[i] = FlagFields,
         Fcn(s.scores, Teams), s.seen = FlagView(s)
  PROVE  Copy(s, {}, {}, {}, {})
<1>1. s.seen.flags = [i \in DOMAIN s.flags |-> FlagShown(s.flags[i])] /\ s.seen.scores = s.scores
  BY DEF FlagView
<1>2. ASSUME NEW i \in DOMAIN s.flags
      PROVE  /\ Fcn(s.seen.flags[i], ShownFields)
             /\ s.seen.flags[i].version = s.flags[i].version /\ s.seen.flags[i].spawnindex = s.flags[i].spawnindex
             /\ PlaceTold(s.seen.flags[i], s.flags[i])
  <2> DEFINE f == s.flags[i]
             v == f.invistime # 0
             d == f.owner = Nobody /\ f.droptime # 0
             l == IF d THEN f.droploc ELSE Elsewhere
  <2>1. s.seen.flags[i] = FlagShown(f) BY <1>1
  <2>2. v \in BOOLEAN /\ d \in BOOLEAN OBVIOUS
  <2>3. FlagShown(f) = [version |-> f.version, spawnindex |-> f.spawnindex, owner |-> f.owner, invis |-> v, dropped |-> d, droploc |-> l]
    BY DEF FlagShown
  <2>4. PlaceTold(FlagShown(f), f) <=>
           LET g == FlagShown(f) IN
           g.owner = f.owner /\ g.invis \in BOOLEAN /\ (g.invis <=> v) /\ g.dropped \in BOOLEAN /\ (g.dropped <=> d) /\ g.droploc = l
    BY DEF PlaceTold
  <2> HIDE DEF v, d, l, f
  <2> QED BY <2>1, <2>2, <2>3, <2>4 DEF ShownFields, Fcn, f
<1>3. Fcn(s.seen.flags, DOMAIN s.flags) BY <1>1 DEF Fcn
<1>4. s.seen = [flags |-> s.seen.flags, scores |-> s.seen.scores] BY DEF FlagView
<1>5. Shape(s)
  BY <1>1, <1>2, <1>3, <1>4 DEF Shape
<1> QED BY <1>1, <1>2, <1>5 DEF Copy

LEMMA KinTwice ==
  ASSUME NEW s, NEW t, NEW u, Kin(s, t), Kin(t, u)
  PROVE  Kin(s, u)
BY DEF Kin

LEMMA UnseenKin ==
  ASSUME NEW s, NEW t, Unseen(s, t)
  PROVE  Kin(s, t)
BY DEF Kin, Unseen

\* The copy of flag i becomes g.
LEMMA SeenSet ==
  ASSUME NEW s, Shape(s), NEW i \in DOMAIN s.flags, NEW g, Fcn(g, ShownFields)
  PROVE  LET t == [s EXCEPT !.seen.flags[i] = g]
         IN /\ Shape(t) /\ Kin(s, t) /\ t.flags = s.flags /\ t.scores = s.scores /\ t.seen.scores = s.seen.scores
            /\ t.seen.flags[i] = g /\ \A j \in DOMAIN s.flags : j # i => t.seen.flags[j] = s.seen.flags[j]
<1> DEFINE t == [s EXCEPT !.seen.flags[i] = g]
           q == [s.seen.flags EXCEPT ![i] = g]
<1>1. /\ DOMAIN s = StateFields /\ s.now # 0
      /\ s.seen = [flags |-> s.seen.flags, scores |-> s.seen.scores]
      /\ Fcn(s.seen.flags, DOMAIN s.flags)
  BY DEF Shape
<1>2. /\ DOMAIN t = StateFields /\ t.flags = s.flags /\ t.scores = s.scores /\ t.now = s.now /\ t.notgot = s.notgot
      /\ t.seen = [s.seen EXCEPT !.flags = q]
  BY <1>1 DEF StateFields
<1>3. t.seen = [flags |-> q, scores |-> s.seen.scores]
  BY <1>1, <1>2
<1>4. Fcn(q, DOMAIN s.flags) /\ q[i] = g /\ \A j \in DOMAIN s.flags : j # i => q[j] = s.seen.flags[j]
  BY <1>1 DEF Fcn
<1> HIDE DEF t, q
<1>5. t.seen.flags = q /\ t.seen.scores = s.seen.scores BY <1>3
<1>6. \A j \in DOMAIN s.flags : Fcn(q[j], ShownFields) BY <1>4 DEF Shape
<1>7. Shape(t) BY <1>2, <1>3, <1>4, <1>5, <1>6 DEF Shape
<1>8. Kin(s, t) BY <1>2 DEF Kin
<1> QED BY <1>2, <1>4, <1>5, <1>7, <1>8 DEF t

\* Flag i becomes f.
LEMMA FlagSet ==
  ASSUME NEW s, Shape(s), NEW i \in DOMAIN s.flags, NEW f, DOMAIN f = FlagFields
  PROVE  LET t == [s EXCEPT !.flags[i] = f]
         IN /\ Shape(t) /\ DOMAIN t.flags = DOMAIN s.flags /\ t.now = s.now /\ t.notgot = s.notgot
            /\ t.seen = s.seen /\ t.scores = s.scores
            /\ t.flags[i] = f /\ \A j \in DOMAIN s.flags : j # i => t.flags[j] = s.flags[j]
BY DEF Shape, StateFields

\* What a handler tells of flag i, told in part or in full.
LEMMA SeenCopy ==
  ASSUME NEW s, NEW V, NEW P, NEW R, NEW Z, Copy(s, V, P, R, Z), NEW i \in DOMAIN s.flags,
         NEW g, Fcn(g, ShownFields), NEW V2, NEW P2, NEW R2, V \subseteq V2 \cup {i}, P \subseteq P2 \cup {i}, R \subseteq R2 \cup {i},
         i \in V2 \/ g.version = s.flags[i].version, i \in P2 \/ g.spawnindex = s.flags[i].spawnindex,
         i \in R2 \/ PlaceTold(g, s.flags[i])
  PROVE  Copy([s EXCEPT !.seen.flags[i] = g], V2, P2, R2, Z) /\ Kin(s, [s EXCEPT !.seen.flags[i] = g])
<1> DEFINE t == [s EXCEPT !.seen.flags[i] = g]
<1>1. Shape(s) BY DEF Copy
<1>2. /\ Shape(t) /\ Kin(s, t) /\ t.flags = s.flags /\ t.scores = s.scores /\ t.seen.scores = s.seen.scores
      /\ t.seen.flags[i] = g /\ \A j \in DOMAIN s.flags : j # i => t.seen.flags[j] = s.seen.flags[j]
  BY <1>1, SeenSet
<1> HIDE DEF t
<1>3. Copy(t, V2, P2, R2, Z)
  BY <1>2 DEF Copy
<1> QED BY <1>2, <1>3 DEF t

\* The flag changes, and the copy is left behind.
LEMMA FlagCopy ==
  ASSUME NEW s, NEW V, NEW P, NEW R, NEW Z, Copy(s, V, P, R, Z), NEW i \in DOMAIN s.flags,
         NEW f, DOMAIN f = FlagFields, NEW V2, NEW P2, NEW R2, V \subseteq V2, P \subseteq P2, R \subseteq R2,
         i \in V2 \/ f.version = s.flags[i].version, i \in P2 \/ f.spawnindex = s.flags[i].spawnindex, i \in R2
  PROVE  LET t == [s EXCEPT !.flags[i] = f]
         IN Copy(t, V2, P2, R2, Z) /\ t.flags[i] = f /\ DOMAIN t.flags = DOMAIN s.flags /\ t.now = s.now /\ t.notgot = s.notgot
            /\ \A j \in DOMAIN s.flags : j # i => t.flags[j] = s.flags[j]
<1> DEFINE t == [s EXCEPT !.flags[i] = f]
<1>1. Shape(s) BY DEF Copy
<1>2. /\ Shape(t) /\ DOMAIN t.flags = DOMAIN s.flags /\ t.now = s.now /\ t.notgot = s.notgot
      /\ t.seen = s.seen /\ t.scores = s.scores
      /\ t.flags[i] = f /\ \A j \in DOMAIN s.flags : j # i => t.flags[j] = s.flags[j]
  BY <1>1, FlagSet
<1> HIDE DEF t
<1>3. Copy(t, V2, P2, R2, Z)
  BY <1>2 DEF Copy
<1> QED BY <1>2, <1>3 DEF t

LEMMA ReturnTold ==
  ASSUME NEW s, NEW V, NEW P, NEW R, NEW Z, Copy(s, V, P, R, Z), NEW i \in DOMAIN s.flags,
         s.flags[i].owner = Nobody, s.flags[i].droptime = 0,
         NEW invis \in BOOLEAN, invis <=> s.flags[i].invistime # 0
  PROVE  Copy(SeeReturn(s, i, invis), V \ {i}, P, R \ {i}, Z) /\ Kin(s, SeeReturn(s, i, invis))
<1> DEFINE g == [s.seen.flags[i] EXCEPT !.version = s.flags[i].version, !.owner = Nobody, !.invis = invis,
                                        !.dropped = FALSE, !.droploc = Elsewhere]
<1>1. Fcn(s.seen.flags[i], ShownFields) /\ DOMAIN s = StateFields BY DEF Copy, Shape
<1>2. Fcn(g, ShownFields) /\ g.version = s.flags[i].version /\ g.spawnindex = s.seen.flags[i].spawnindex
      /\ g.owner = Nobody /\ (g.invis <=> invis) /\ g.invis \in BOOLEAN /\ g.dropped \in BOOLEAN /\ ~g.dropped /\ g.droploc = Elsewhere
  BY <1>1 DEF Fcn, ShownFields
<1>3. SeeReturn(s, i, invis) = [s EXCEPT !.seen.flags[i] = g] BY DEF SeeReturn
<1> HIDE DEF g
<1>4. PlaceTold(g, s.flags[i]) BY <1>2 DEF PlaceTold
<1>5. i \in P \/ g.spawnindex = s.flags[i].spawnindex BY <1>2 DEF Copy
<1>6. V \subseteq (V \ {i}) \cup {i} /\ P \subseteq P \cup {i} /\ R \subseteq (R \ {i}) \cup {i} OBVIOUS
<1>7. Copy([s EXCEPT !.seen.flags[i] = g], V \ {i}, P, R \ {i}, Z) /\ Kin(s, [s EXCEPT !.seen.flags[i] = g])
  BY <1>2, <1>4, <1>5, <1>6, SeenCopy
<1> QED BY <1>3, <1>7

LEMMA TakeTold ==
  ASSUME NEW s, NEW V, NEW P, NEW R, NEW Z, Copy(s, V, P, R, Z), NEW i \in DOMAIN s.flags,
         s.flags[i].owner # Nobody, s.flags[i].invistime = 0
  PROVE  Copy(SeeTake(s, i), V \ {i}, P, R \ {i}, Z) /\ Kin(s, SeeTake(s, i))
<1> DEFINE g == [s.seen.flags[i] EXCEPT !.version = s.flags[i].version, !.owner = s.flags[i].owner, !.invis = FALSE,
                                        !.dropped = FALSE, !.droploc = Elsewhere]
<1>1. Fcn(s.seen.flags[i], ShownFields) /\ DOMAIN s = StateFields BY DEF Copy, Shape
<1>2. Fcn(g, ShownFields) /\ g.version = s.flags[i].version /\ g.spawnindex = s.seen.flags[i].spawnindex
      /\ g.owner = s.flags[i].owner /\ ~g.invis /\ g.invis \in BOOLEAN /\ g.dropped \in BOOLEAN /\ ~g.dropped /\ g.droploc = Elsewhere
  BY <1>1 DEF Fcn, ShownFields
<1>3. SeeTake(s, i) = [s EXCEPT !.seen.flags[i] = g] BY DEF SeeTake
<1> HIDE DEF g
<1>4. PlaceTold(g, s.flags[i]) BY <1>2 DEF PlaceTold
<1>5. i \in P \/ g.spawnindex = s.flags[i].spawnindex BY <1>2 DEF Copy
<1>6. V \subseteq (V \ {i}) \cup {i} /\ P \subseteq P \cup {i} /\ R \subseteq (R \ {i}) \cup {i} OBVIOUS
<1>7. Copy([s EXCEPT !.seen.flags[i] = g], V \ {i}, P, R \ {i}, Z) /\ Kin(s, [s EXCEPT !.seen.flags[i] = g])
  BY <1>2, <1>4, <1>5, <1>6, SeenCopy
<1> QED BY <1>3, <1>7

LEMMA DropTold ==
  ASSUME NEW s, NEW V, NEW P, NEW R, NEW Z, Copy(s, V, P, R, Z), NEW i \in DOMAIN s.flags,
         s.flags[i].owner = Nobody, s.flags[i].droptime # 0, s.flags[i].invistime = 0
  PROVE  Copy(SeeDrop(s, i), V \ {i}, P, R \ {i}, Z) /\ Kin(s, SeeDrop(s, i))
<1> DEFINE g == [s.seen.flags[i] EXCEPT !.version = s.flags[i].version, !.owner = Nobody, !.invis = FALSE,
                                        !.dropped = TRUE, !.droploc = s.flags[i].droploc]
<1>1. Fcn(s.seen.flags[i], ShownFields) /\ DOMAIN s = StateFields BY DEF Copy, Shape
<1>2. Fcn(g, ShownFields) /\ g.version = s.flags[i].version /\ g.spawnindex = s.seen.flags[i].spawnindex
      /\ g.owner = Nobody /\ ~g.invis /\ g.invis \in BOOLEAN /\ g.dropped \in BOOLEAN /\ g.dropped /\ g.droploc = s.flags[i].droploc
  BY <1>1 DEF Fcn, ShownFields
<1>3. SeeDrop(s, i) = [s EXCEPT !.seen.flags[i] = g] BY DEF SeeDrop
<1> HIDE DEF g
<1>4. PlaceTold(g, s.flags[i]) BY <1>2 DEF PlaceTold
<1>5. i \in P \/ g.spawnindex = s.flags[i].spawnindex BY <1>2 DEF Copy
<1>6. V \subseteq (V \ {i}) \cup {i} /\ P \subseteq P \cup {i} /\ R \subseteq (R \ {i}) \cup {i} OBVIOUS
<1>7. Copy([s EXCEPT !.seen.flags[i] = g], V \ {i}, P, R \ {i}, Z) /\ Kin(s, [s EXCEPT !.seen.flags[i] = g])
  BY <1>2, <1>4, <1>5, <1>6, SeenCopy
<1> QED BY <1>3, <1>7

LEMMA ScoredTold ==
  ASSUME NEW s, NEW V, NEW P, NEW R, NEW Z, Copy(s, V, P, R, Z), NEW i \in DOMAIN s.flags
  PROVE  Copy(SeeScored(s, i), V \ {i}, P \ {i}, R, Z) /\ Kin(s, SeeScored(s, i))
<1> DEFINE g == [s.seen.flags[i] EXCEPT !.version = s.flags[i].version, !.spawnindex = s.flags[i].spawnindex]
<1>1. Fcn(s.seen.flags[i], ShownFields) /\ DOMAIN s = StateFields BY DEF Copy, Shape
<1>2. Fcn(g, ShownFields) /\ g.version = s.flags[i].version /\ g.spawnindex = s.flags[i].spawnindex
      /\ g.owner = s.seen.flags[i].owner /\ g.invis = s.seen.flags[i].invis /\ g.dropped = s.seen.flags[i].dropped
      /\ g.droploc = s.seen.flags[i].droploc
  BY <1>1 DEF Fcn, ShownFields
<1>3. SeeScored(s, i) = [s EXCEPT !.seen.flags[i] = g] BY DEF SeeScored
<1> HIDE DEF g
<1>4. i \in R \/ PlaceTold(g, s.flags[i])
  <2>1. i \in R \/ PlaceTold(s.seen.flags[i], s.flags[i]) BY DEF Copy
  <2> QED BY <1>2, <2>1 DEF PlaceTold
<1>5. V \subseteq (V \ {i}) \cup {i} /\ P \subseteq (P \ {i}) \cup {i} /\ R \subseteq R \cup {i} OBVIOUS
<1>6. Copy([s EXCEPT !.seen.flags[i] = g], V \ {i}, P \ {i}, R, Z) /\ Kin(s, [s EXCEPT !.seen.flags[i] = g])
  BY <1>2, <1>4, <1>5, SeenCopy, SMTT(60)
<1> QED BY <1>3, <1>6

LEMMA ResetTold ==
  ASSUME NEW s, NEW V, NEW P, NEW R, NEW Z, Copy(s, V, P, R, Z), NEW i \in DOMAIN s.flags,
         s.flags[i].owner = Nobody, s.flags[i].droptime = 0, Protect <=> s.flags[i].invistime # 0
  PROVE  Copy(SeeReset(s, i), V \ {i}, P \ {i}, R \ {i}, Z) /\ Kin(s, SeeReset(s, i))
<1> DEFINE t == SeeReturn(s, i, Protect)
           g == [t.seen.flags[i] EXCEPT !.spawnindex = s.flags[i].spawnindex]
<1>1. Protect \in BOOLEAN BY DEF Protect
<1>2. Copy(t, V \ {i}, P, R \ {i}, Z) /\ Kin(s, t) BY <1>1, ReturnTold
<1>3. t.flags = s.flags
  <2>1. DOMAIN s = StateFields BY DEF Copy, Shape
  <2> QED BY <2>1, SeenUnseen DEF Unseen
<1>4. SeeReset(s, i) = [t EXCEPT !.seen.flags[i] = g] BY DEF SeeReset
<1> HIDE DEF t
<1>5. Fcn(t.seen.flags[i], ShownFields) /\ PlaceTold(t.seen.flags[i], t.flags[i]) /\ t.seen.flags[i].version = t.flags[i].version
  BY <1>2, <1>3 DEF Copy, Shape
<1>6. Fcn(g, ShownFields) /\ g.version = t.flags[i].version /\ g.spawnindex = t.flags[i].spawnindex
      /\ g.owner = t.seen.flags[i].owner /\ g.invis = t.seen.flags[i].invis /\ g.dropped = t.seen.flags[i].dropped
      /\ g.droploc = t.seen.flags[i].droploc
  BY <1>3, <1>5 DEF Fcn, ShownFields
<1> HIDE DEF g
<1>7. PlaceTold(g, t.flags[i]) BY <1>5, <1>6 DEF PlaceTold
<1>8. i \in DOMAIN t.flags BY <1>3
<1>9. P \subseteq (P \ {i}) \cup {i} OBVIOUS
<1> DEFINE u == [t EXCEPT !.seen.flags[i] = g]
<1>10. Copy(u, V \ {i}, P \ {i}, R \ {i}, Z) /\ Kin(t, u)
  BY <1>2, <1>6, <1>7, <1>8, <1>9, SeenCopy
<1> HIDE DEF u
<1>11. Kin(s, u) BY <1>2, <1>10, KinTwice
<1> QED BY <1>4, <1>10, <1>11 DEF u

LEMMA BumpedTold ==
  ASSUME NEW s, NEW V, NEW P, NEW R, NEW Z, Copy(s, V, P, R, Z), NEW i \in DOMAIN s.flags
  PROVE  Copy(Bumped(s, i), V \cup {i}, P, R, Z) /\ Kin(s, Bumped(s, i))
<1> DEFINE f == [s.flags[i] EXCEPT !.version = @ + 1]
           t == [s EXCEPT !.flags[i] = f]
<1>1. DOMAIN s = StateFields /\ DOMAIN s.flags[i] = FlagFields BY DEF Copy, Shape
<1>2. /\ DOMAIN f = FlagFields /\ f.spawnindex = s.flags[i].spawnindex /\ f.owner = s.flags[i].owner
      /\ f.invistime = s.flags[i].invistime /\ f.droptime = s.flags[i].droptime /\ f.droploc = s.flags[i].droploc
  BY <1>1 DEF FlagFields
<1>3. Bumped(s, i) = t BY DEF Bumped
<1> HIDE DEF f
<1>4. i \in R \/ PlaceTold(s.seen.flags[i], f)
  <2>1. i \in R \/ PlaceTold(s.seen.flags[i], s.flags[i]) BY DEF Copy
  <2> QED BY <1>2, <2>1 DEF PlaceTold
<1>5. /\ Shape(t) /\ DOMAIN t.flags = DOMAIN s.flags /\ t.now = s.now /\ t.notgot = s.notgot
      /\ t.seen = s.seen /\ t.scores = s.scores
      /\ t.flags[i] = f /\ \A j \in DOMAIN s.flags : j # i => t.flags[j] = s.flags[j]
  BY <1>2, FlagSet DEF Copy
<1> HIDE DEF t
<1>6. Copy(t, V \cup {i}, P, R, Z) BY <1>2, <1>4, <1>5 DEF Copy
<1>7. Kin(s, t) BY <1>2, <1>5 DEF Kin
<1> QED BY <1>3, <1>6, <1>7

LEMMA SpawnedTold ==
  ASSUME NEW s, NEW V, NEW P, NEW R, NEW Z, Copy(s, V, P, R, Z), NEW i \in DOMAIN s.flags, NEW r
  PROVE  Copy(Spawned(s, i, r), V, P \cup {i}, R, Z) /\ Kin(s, Spawned(s, i, r))
<1> DEFINE f == [s.flags[i] EXCEPT !.spawnindex = r]
           t == [s EXCEPT !.flags[i] = f]
<1>1. DOMAIN s = StateFields /\ DOMAIN s.flags[i] = FlagFields BY DEF Copy, Shape
<1>2. /\ DOMAIN f = FlagFields /\ f.version = s.flags[i].version /\ f.owner = s.flags[i].owner
      /\ f.invistime = s.flags[i].invistime /\ f.droptime = s.flags[i].droptime /\ f.droploc = s.flags[i].droploc
  BY <1>1 DEF FlagFields
<1>3. Spawned(s, i, r) = IF Len(s.spawns) = 0 THEN s ELSE t BY DEF Spawned
<1> HIDE DEF f
<1>4. i \in R \/ PlaceTold(s.seen.flags[i], f)
  <2>1. i \in R \/ PlaceTold(s.seen.flags[i], s.flags[i]) BY DEF Copy
  <2> QED BY <1>2, <2>1 DEF PlaceTold
<1>5. /\ Shape(t) /\ DOMAIN t.flags = DOMAIN s.flags /\ t.now = s.now /\ t.notgot = s.notgot
      /\ t.seen = s.seen /\ t.scores = s.scores
      /\ t.flags[i] = f /\ \A j \in DOMAIN s.flags : j # i => t.flags[j] = s.flags[j]
  BY <1>2, FlagSet DEF Copy
<1> HIDE DEF t
<1>6. Copy(t, V, P \cup {i}, R, Z) BY <1>2, <1>4, <1>5 DEF Copy
<1>7. Kin(s, t) BY <1>2, <1>5 DEF Kin
<1>8. Copy(s, V, P \cup {i}, R, Z) /\ Kin(s, s) BY DEF Copy, Kin
<1> QED BY <1>3, <1>6, <1>7, <1>8

LEMMA AddScoreTold ==
  ASSUME NEW s, NEW V, NEW P, NEW R, NEW Z, Copy(s, V, P, R, Z), NEW team, NEW n
  PROVE  Copy(AddScore(s, team, n), V, P, R, Z \cup {team}) /\ Kin(s, AddScore(s, team, n))
<1> DEFINE t == AddScore(s, team, n)
           q == [s.scores EXCEPT ![team] = @ + n]
<1>1. DOMAIN s = StateFields /\ Fcn(s.scores, Teams) BY DEF Copy, Shape
<1>2. /\ DOMAIN t = StateFields /\ t.flags = s.flags /\ t.seen = s.seen /\ t.now = s.now /\ t.notgot = s.notgot
      /\ t.scores = q
  BY <1>1 DEF AddScore, StateFields
<1>3. Fcn(q, Teams) /\ \A x \in Teams : x # team => q[x] = s.scores[x] BY <1>1 DEF Fcn
<1> HIDE DEF q, t
<1>4. Copy(t, V, P, R, Z \cup {team}) BY <1>2, <1>3 DEF Copy, Shape
<1>5. Kin(s, t) BY <1>2 DEF Kin
<1> QED BY <1>4, <1>5 DEF t

LEMMA ScoreSeen ==
  ASSUME NEW s, NEW V, NEW P, NEW R, NEW Z, Copy(s, V, P, R, Z), NEW team
  PROVE  Copy(SeeScore(s, team), V, P, R, Z \ {team}) /\ Kin(s, SeeScore(s, team))
<1> DEFINE t == SeeScore(s, team)
           q == [s.seen.scores EXCEPT ![team] = s.scores[team]]
<1>1. DOMAIN s = StateFields /\ Fcn(s.seen.scores, Teams) /\ s.seen = [flags |-> s.seen.flags, scores |-> s.seen.scores]
  BY DEF Copy, Shape
<1>2. /\ DOMAIN t = StateFields /\ t.flags = s.flags /\ t.scores = s.scores /\ t.now = s.now /\ t.notgot = s.notgot
      /\ t.seen = [s.seen EXCEPT !.scores = q]
  BY <1>1 DEF SeeScore, StateFields
<1>3. t.seen = [flags |-> s.seen.flags, scores |-> q] BY <1>1, <1>2
<1>4. Fcn(q, Teams) /\ \A x \in Teams : q[x] = IF x = team THEN s.scores[x] ELSE s.seen.scores[x] BY <1>1 DEF Fcn
<1> HIDE DEF q, t
<1>5. t.seen.flags = s.seen.flags /\ t.seen.scores = q BY <1>3
<1>6. Copy(t, V, P, R, Z \ {team}) BY <1>2, <1>3, <1>4, <1>5 DEF Copy, Shape
<1>7. Kin(s, t) BY <1>2 DEF Kin
<1> QED BY <1>6, <1>7 DEF t

Right(s) == Copy(s, {}, {}, {}, {})

LEMMA NoneLeft == \A i : {i} \ {i} = {} /\ {} \cup {i} = {i} /\ {} \ {i} = {} /\ {i} \cup {i} = {i}
OBVIOUS

\* What a client is not told of flags may change.
LEMMA UntoldKept ==
  ASSUME NEW s, Right(s), NEW q, DOMAIN q = DOMAIN s.flags,
         \A i \in DOMAIN s.flags :
           /\ DOMAIN q[i] = FlagFields /\ q[i].version = s.flags[i].version /\ q[i].spawnindex = s.flags[i].spawnindex
           /\ q[i].owner = s.flags[i].owner /\ q[i].invistime = s.flags[i].invistime
           /\ q[i].droptime = s.flags[i].droptime /\ q[i].droploc = s.flags[i].droploc
  PROVE  Right([s EXCEPT !.flags = q])
<1> DEFINE t == [s EXCEPT !.flags = q]
<1>1. /\ DOMAIN t = StateFields /\ t.flags = q /\ t.scores = s.scores /\ t.seen = s.seen /\ t.now = s.now
  BY DEF Right, Copy, Shape, StateFields
<1> HIDE DEF t
<1>2. Shape(t) BY <1>1 DEF Right, Copy, Shape
<1>3. \A i \in DOMAIN s.flags : PlaceTold(s.seen.flags[i], q[i])
  <2>1. \A i \in DOMAIN s.flags : PlaceTold(s.seen.flags[i], s.flags[i]) BY DEF Right, Copy
  <2> QED BY <2>1 DEF PlaceTold
<1>4. Copy(t, {}, {}, {}, {}) BY <1>1, <1>2, <1>3 DEF Right, Copy
<1> QED BY <1>4 DEF Right, t

LEMMA ForgetRight ==
  ASSUME NEW s, Right(s), NEW c
  PROVE  Right(ForgetDropper(s, c))
<1> DEFINE q == [i \in DOMAIN s.flags |->
                  IF s.flags[i].dropper = c THEN [s.flags[i] EXCEPT !.dropper = Nobody, !.dropcount = 0] ELSE s.flags[i]]
<1>1. ASSUME NEW i \in DOMAIN s.flags
      PROVE  /\ DOMAIN q[i] = FlagFields /\ q[i].version = s.flags[i].version /\ q[i].spawnindex = s.flags[i].spawnindex
             /\ q[i].owner = s.flags[i].owner /\ q[i].invistime = s.flags[i].invistime
             /\ q[i].droptime = s.flags[i].droptime /\ q[i].droploc = s.flags[i].droploc
  <2>1. DOMAIN s.flags[i] = FlagFields BY DEF Right, Copy, Shape
  <2>2. q[i] = IF s.flags[i].dropper = c THEN [s.flags[i] EXCEPT !.dropper = Nobody, !.dropcount = 0] ELSE s.flags[i]
    OBVIOUS
  <2> QED BY <2>1, <2>2 DEF FlagFields
<1>2. DOMAIN q = DOMAIN s.flags OBVIOUS
<1>3. ForgetDropper(s, c) = [s EXCEPT !.flags = q] BY DEF ForgetDropper
<1> HIDE DEF q
<1> QED BY <1>1, <1>2, <1>3, UntoldKept

ReturnedAt(s, i, invistime) == [s EXCEPT !.flags[i] = Returned(@, invistime)]

\* A returned flag is to be told.
LEMMA ReturnedCopy ==
  ASSUME NEW s, Right(s), NEW i \in DOMAIN s.flags, NEW invistime
  PROVE  LET t == ReturnedAt(s, i, invistime)
         IN /\ Copy(t, {}, {}, {i}, {}) /\ DOMAIN t.flags = DOMAIN s.flags /\ t.now = s.now /\ t.notgot = s.notgot
            /\ t.flags[i].owner = Nobody /\ t.flags[i].droptime = 0 /\ t.flags[i].invistime = invistime
            /\ \A j \in DOMAIN s.flags : j # i => t.flags[j] = s.flags[j]
<1> DEFINE f == Returned(s.flags[i], invistime)
           t == [s EXCEPT !.flags[i] = f]
<1>1. DOMAIN s.flags[i] = FlagFields BY DEF Right, Copy, Shape
<1>2. /\ DOMAIN f = FlagFields /\ f.version = s.flags[i].version /\ f.spawnindex = s.flags[i].spawnindex
      /\ f.owner = Nobody /\ f.droptime = 0 /\ f.invistime = invistime
  BY <1>1 DEF Returned, FlagFields
<1>3. ReturnedAt(s, i, invistime) = t BY DEF ReturnedAt
<1> HIDE DEF f
<1>4. Copy(t, {}, {}, {i}, {}) /\ t.flags[i] = f /\ DOMAIN t.flags = DOMAIN s.flags /\ t.now = s.now /\ t.notgot = s.notgot
      /\ \A j \in DOMAIN s.flags : j # i => t.flags[j] = s.flags[j]
  BY <1>2, FlagCopy DEF Right
<1> QED BY <1>2, <1>3, <1>4

\* returnflag, the new version, and the message.
LEMMA BroughtHome ==
  ASSUME NEW s, Right(s), NEW i \in DOMAIN s.flags
  PROVE  LET t == SeeReturn(Bumped([s EXCEPT !.flags[i] = Returned(@, 0)], i), i, FALSE)
         IN Right(t) /\ DOMAIN t.flags = DOMAIN s.flags /\ t.notgot = s.notgot /\ t.now = s.now
<1> DEFINE a == ReturnedAt(s, i, 0)
           b == Bumped(a, i)
           t == SeeReturn(b, i, FALSE)
<1>1. /\ Copy(a, {}, {}, {i}, {}) /\ DOMAIN a.flags = DOMAIN s.flags /\ a.now = s.now /\ a.notgot = s.notgot
      /\ a.flags[i].owner = Nobody /\ a.flags[i].droptime = 0 /\ a.flags[i].invistime = 0
  BY ReturnedCopy
<1> HIDE DEF a
<1>2. Copy(b, {i}, {}, {i}, {}) /\ Kin(a, b) BY <1>1, BumpedTold, NoneLeft
<1> HIDE DEF b
<1>3. i \in DOMAIN b.flags /\ b.flags[i].owner = Nobody /\ b.flags[i].droptime = 0 /\ b.flags[i].invistime = 0
  BY <1>1, <1>2 DEF Kin
<1>4. Copy(t, {i} \ {i}, {}, {i} \ {i}, {}) /\ Kin(b, t) BY <1>2, <1>3, ReturnTold
<1> HIDE DEF t
<1>5. Right(t) BY <1>4, NoneLeft DEF Right
<1>6. DOMAIN t.flags = DOMAIN s.flags /\ t.notgot = s.notgot /\ t.now = s.now BY <1>1, <1>2, <1>4 DEF Kin
<1> QED BY <1>5, <1>6 DEF t, b, a, ReturnedAt

LEMMA DropOneRight ==
  ASSUME NEW s, Right(s), NEW i \in DOMAIN s.flags, NEW c, NEW dropper
  PROVE  LET t == DropOne(s, c, dropper, i)
         IN Right(t) /\ DOMAIN t.flags = DOMAIN s.flags /\ t.notgot = s.notgot
<1> DEFINE by == IF dropper = Nobody THEN c ELSE dropper
           guilty == dropper \notin {Nobody, c}
           f == Dropped(s.flags[i], ci[c].o, by, guilty, s.now)
           a == [s EXCEPT !.flags[i] = f]
           b == Bumped(a, i)
           t == SeeDrop(b, i)
<1>1. DOMAIN s.flags[i] = FlagFields /\ s.now # 0 BY DEF Right, Copy, Shape
<1>2. CASE s.flags[i].owner # c BY <1>2 DEF DropOne
<1>3. CASE s.flags[i].owner = c /\ Protect /\ InsideBase(s.flags[i], ci[c].o)
  BY <1>3, BroughtHome DEF DropOne
<1>4. CASE s.flags[i].owner = c /\ ~(Protect /\ InsideBase(s.flags[i], ci[c].o))
  <2>1. /\ DOMAIN f = FlagFields /\ f.version = s.flags[i].version /\ f.spawnindex = s.flags[i].spawnindex
        /\ f.owner = Nobody /\ f.droptime = s.now /\ f.invistime = 0
    BY <1>1 DEF Dropped, FlagFields
  <2>2. DropOne(s, c, dropper, i) = t BY <1>4 DEF DropOne
  <2> HIDE DEF f
  <2>3. Copy(a, {}, {}, {i}, {}) /\ a.flags[i] = f /\ DOMAIN a.flags = DOMAIN s.flags /\ a.notgot = s.notgot
    BY <2>1, FlagCopy DEF Right
  <2> HIDE DEF a
  <2>4. Copy(b, {i}, {}, {i}, {}) /\ Kin(a, b) BY <2>3, BumpedTold, NoneLeft
  <2> HIDE DEF b
  <2>5. i \in DOMAIN b.flags /\ b.flags[i].owner = Nobody /\ b.flags[i].droptime # 0 /\ b.flags[i].invistime = 0
    BY <1>1, <2>1, <2>3, <2>4 DEF Kin
  <2>6. Copy(t, {i} \ {i}, {}, {i} \ {i}, {}) /\ Kin(b, t) BY <2>4, <2>5, DropTold
  <2> HIDE DEF t
  <2>7. Right(t) BY <2>6, NoneLeft DEF Right
  <2>8. DOMAIN t.flags = DOMAIN s.flags /\ t.notgot = s.notgot BY <2>3, <2>4, <2>6 DEF Kin
  <2> QED BY <2>2, <2>7, <2>8
<1> QED BY <1>2, <1>3, <1>4

LEMMA DropFlagRight ==
  ASSUME NEW s, Right(s), 1 \in DOMAIN s.flags, NEW c, NEW dropper
  PROVE  LET t == DropFlag(s, c, dropper)
         IN Right(t) /\ DOMAIN t.flags = DOMAIN s.flags /\ t.notgot = s.notgot
<1> DEFINE a == DropOne(s, c, dropper, 1)
           b == DropOne(a, c, dropper, 2)
<1>1. Right(a) /\ DOMAIN a.flags = DOMAIN s.flags /\ a.notgot = s.notgot BY DropOneRight
<1>2. DropFlag(s, c, dropper) = IF s.notgot THEN s ELSE IF 2 \in DOMAIN s.flags THEN b ELSE a BY DEF DropFlag
<1> HIDE DEF a
<1>3. 2 \in DOMAIN s.flags => Right(b) /\ DOMAIN b.flags = DOMAIN a.flags /\ b.notgot = a.notgot BY <1>1, DropOneRight
<1> HIDE DEF b
<1> QED BY <1>1, <1>2, <1>3

LEMMA DiedRight ==
  ASSUME NEW s, Right(s), 1 \in DOMAIN s.flags, ~s.notgot, NEW c, NEW actor
  PROVE  LET t == FlagsDied(s, c, actor)
         IN Right(t) /\ DOMAIN t.flags = DOMAIN s.flags /\ t.notgot = s.notgot
<1> DEFINE q == [i \in DOMAIN s.flags |-> IF s.flags[i].owner = c THEN Deadflag(s.flags[i], s.now) ELSE s.flags[i]]
           dead == IF ~Hold THEN s ELSE [s EXCEPT !.flags = q]
           guilty == actor \notin {Nobody, c} /\ IsTeam(actor, c)
           by == IF guilty THEN actor ELSE Nobody
           t == DropFlag(dead, c, by)
<1>1. ASSUME NEW i \in DOMAIN s.flags
      PROVE  /\ DOMAIN q[i] = FlagFields /\ q[i].version = s.flags[i].version /\ q[i].spawnindex = s.flags[i].spawnindex
             /\ q[i].owner = s.flags[i].owner /\ q[i].invistime = s.flags[i].invistime
             /\ q[i].droptime = s.flags[i].droptime /\ q[i].droploc = s.flags[i].droploc
  <2>1. DOMAIN s.flags[i] = FlagFields BY DEF Right, Copy, Shape
  <2>2. q[i] = IF s.flags[i].owner = c THEN Deadflag(s.flags[i], s.now) ELSE s.flags[i] OBVIOUS
  <2>3. \E n : Deadflag(s.flags[i], s.now) = s.flags[i] \/ Deadflag(s.flags[i], s.now) = [s.flags[i] EXCEPT !.holdtime = n]
    BY DEF Deadflag
  <2> HIDE DEF q
  <2> QED BY <2>1, <2>2, <2>3 DEF FlagFields
<1>2. DOMAIN q = DOMAIN s.flags OBVIOUS
<1>3. FlagsDied(s, c, actor) = ForgetDropper(t, c) BY DEF FlagsDied
<1> HIDE DEF q
<1>4. Right(dead) /\ DOMAIN dead.flags = DOMAIN s.flags /\ dead.notgot = s.notgot
  <2>1. Right([s EXCEPT !.flags = q]) BY <1>1, <1>2, UntoldKept
  <2>2. DOMAIN s = StateFields BY DEF Right, Copy, Shape
  <2> QED BY <1>2, <2>1, <2>2 DEF StateFields
<1> HIDE DEF dead
<1>5. Right(t) /\ DOMAIN t.flags = DOMAIN s.flags /\ t.notgot = s.notgot BY <1>4, DropFlagRight
<1> HIDE DEF t
<1>6. Right(ForgetDropper(t, c)) BY <1>5, ForgetRight
<1>7. DOMAIN ForgetDropper(t, c).flags = DOMAIN t.flags /\ ForgetDropper(t, c).notgot = t.notgot
  <2>1. DOMAIN t = StateFields BY <1>5 DEF Right, Copy, Shape
  <2> QED BY <2>1 DEF ForgetDropper, StateFields
<1> QED BY <1>3, <1>5, <1>6, <1>7

LEMMA EndedRight ==
  ASSUME NEW s, Right(s)
  PROVE  LET t == Intermission(s)
         IN Right(t) /\ t.flags = s.flags /\ t.notgot = s.notgot /\ t.now = s.now
<1> DEFINE t == Intermission(s)
<1>1. /\ DOMAIN t = StateFields /\ t.flags = s.flags /\ t.notgot = s.notgot /\ t.now = s.now
      /\ t.scores = s.scores /\ t.seen = s.seen
  BY DEF Intermission, Right, Copy, Shape, StateFields
<1> HIDE DEF t
<1>2. Right(t) BY <1>1 DEF Right, Copy, Shape
<1> QED BY <1>1, <1>2 DEF t

LEMMA InvisSince ==
  ASSUME NEW now, now # 0
  PROVE  Protect <=> InvisFrom(now) # 0
BY DEF InvisFrom

\* The copy is right after a step too.
KeptRight(s, t) == Right(t) /\ DOMAIN t.flags = DOMAIN s.flags /\ t.notgot = s.notgot

LEMMA ScoreRight ==
  ASSUME NEW s, Right(s), NEW goal \in DOMAIN s.flags, NEW relay \in DOMAIN s.flags \cup {Nobody}, NEW c, NEW r
  PROVE  KeptRight(s, Score(s, c, goal, relay, r))
<1> DEFINE back == IF relay = Nobody THEN goal ELSE relay
           team == ci[c].team
           a0 == ReturnedAt(s, back, InvisFrom(s.now))
           a == AddScore(a0, team, 1)
           b == IF Hold THEN Spawned(a, goal, r) ELSE a
           d == IF relay = Nobody THEN b ELSE Bumped(b, relay)
           e == Bumped(d, goal)
           f == SeeScore(e, team)
           g0 == SeeReturn(f, back, Protect)
           g == SeeScored(g0, goal)
<1>0. back \in DOMAIN s.flags /\ s.now # 0 BY DEF Right, Copy, Shape
<1>1. Score(s, c, goal, relay, r) = IF g.scores[team] >= FlagLimit THEN Intermission(g) ELSE g
  BY DEF Score, ReturnedAt
<1>2. relay = Nobody \/ relay = back OBVIOUS
<1> HIDE DEF back, team
<1>3. /\ Copy(a0, {}, {}, {back}, {}) /\ DOMAIN a0.flags = DOMAIN s.flags /\ a0.notgot = s.notgot
      /\ a0.flags[back].owner = Nobody /\ a0.flags[back].droptime = 0 /\ a0.flags[back].invistime = InvisFrom(s.now)
  BY <1>0, ReturnedCopy, SMTT(60)
<1> HIDE DEF a0
<1>4. Copy(a, {}, {}, {back}, {team}) /\ Kin(a0, a)
  BY <1>3, AddScoreTold, NoneLeft
<1> HIDE DEF a
<1>5. Copy(b, {}, {goal}, {back}, {team}) /\ Kin(a, b)
  <2>1. goal \in DOMAIN a.flags BY <1>3, <1>4 DEF Kin
  <2>2. Copy(Spawned(a, goal, r), {}, {goal}, {back}, {team}) /\ Kin(a, Spawned(a, goal, r))
    BY <1>4, <2>1, SpawnedTold, NoneLeft
  <2>3. Copy(a, {}, {goal}, {back}, {team}) /\ Kin(a, a) BY <1>4 DEF Copy, Kin
  <2> QED BY <2>2, <2>3
<1> HIDE DEF b
<1>6. Copy(d, {back}, {goal}, {back}, {team}) /\ Kin(b, d)
  <2>1. back \in DOMAIN b.flags BY <1>0, <1>3, <1>4, <1>5 DEF Kin
  <2>2. Copy(Bumped(b, back), {back}, {goal}, {back}, {team}) /\ Kin(b, Bumped(b, back))
    BY <1>5, <2>1, BumpedTold, NoneLeft
  <2>3. Copy(b, {back}, {goal}, {back}, {team}) /\ Kin(b, b) BY <1>5 DEF Copy, Kin
  <2> QED BY <1>2, <2>2, <2>3
<1> HIDE DEF d
<1>7. Kin(a0, d) BY <1>4, <1>5, <1>6, KinTwice
<1>8. Copy(e, {back} \cup {goal}, {goal}, {back}, {team}) /\ Kin(d, e)
  <2>1. goal \in DOMAIN d.flags BY <1>3, <1>7 DEF Kin
  <2> QED BY <1>6, <2>1, BumpedTold
<1> HIDE DEF e
<1>9. Copy(f, {back} \cup {goal}, {goal}, {back}, {team} \ {team}) /\ Kin(e, f)
  BY <1>8, ScoreSeen
<1> HIDE DEF f
<1>10. Copy(f, {back} \cup {goal}, {goal}, {back}, {}) BY <1>9, NoneLeft
<1>11. Kin(a0, f) BY <1>7, <1>8, <1>9, KinTwice
<1>12. Copy(g0, ({back} \cup {goal}) \ {back}, {goal}, {back} \ {back}, {}) /\ Kin(f, g0)
  <2>1. back \in DOMAIN f.flags /\ f.flags[back].owner = Nobody /\ f.flags[back].droptime = 0
        /\ f.flags[back].invistime = InvisFrom(s.now)
    BY <1>0, <1>3, <1>11 DEF Kin
  <2>2. Protect \in BOOLEAN BY DEF Protect
  <2>3. Protect <=> f.flags[back].invistime # 0 BY <1>0, <2>1, InvisSince
  <2> HIDE DEF g0
  <2> QED BY <1>10, <2>1, <2>2, <2>3, ReturnTold DEF g0
<1> HIDE DEF g0
<1>13. Copy(g, (({back} \cup {goal}) \ {back}) \ {goal}, {goal} \ {goal}, {back} \ {back}, {}) /\ Kin(g0, g)
  <2>1. goal \in DOMAIN g0.flags BY <1>3, <1>11, <1>12 DEF Kin
  <2> QED BY <1>12, <2>1, ScoredTold
<1> HIDE DEF g
<1>14. (({back} \cup {goal}) \ {back}) \ {goal} = {} OBVIOUS
<1>15. Right(g) BY <1>13, <1>14, NoneLeft DEF Right
<1>16. DOMAIN g.flags = DOMAIN s.flags /\ g.notgot = s.notgot BY <1>3, <1>11, <1>12, <1>13 DEF Kin
<1>17. LET t == Intermission(g) IN Right(t) /\ t.flags = g.flags /\ t.notgot = g.notgot BY <1>15, EndedRight
<1> QED BY <1>1, <1>15, <1>16, <1>17 DEF KeptRight

LEMMA PickUpRight ==
  ASSUME NEW s, Right(s), NEW i \in DOMAIN s.flags, NEW c \in Clients
  PROVE  LET t == PickUp(s, c, i) IN Right(t) /\ DOMAIN t.flags = DOMAIN s.flags /\ t.notgot = s.notgot
<1> DEFINE own == IF Hold THEN ci[c].team ELSE Nobody
           f == Owned(s.flags[i], c, own, s.now)
           a == [s EXCEPT !.flags[i] = f]
           b == Bumped(a, i)
           t == SeeTake(b, i)
<1>1. DOMAIN s.flags[i] = FlagFields BY DEF Right, Copy, Shape
<1>2. PickUp(s, c, i) = t BY DEF PickUp
<1> HIDE DEF own
<1>3. /\ DOMAIN f = FlagFields /\ f.version = s.flags[i].version /\ f.spawnindex = s.flags[i].spawnindex
      /\ f.owner = c /\ f.invistime = 0
  BY <1>1 DEF Owned, FlagFields
<1> HIDE DEF f
<1>4. Copy(a, {}, {}, {i}, {}) /\ a.flags[i] = f /\ DOMAIN a.flags = DOMAIN s.flags /\ a.notgot = s.notgot
  BY <1>3, FlagCopy DEF Right
<1> HIDE DEF a
<1>5. Copy(b, {i}, {}, {i}, {}) /\ Kin(a, b) BY <1>4, BumpedTold, NoneLeft
<1> HIDE DEF b
<1>6. i \in DOMAIN b.flags /\ b.flags[i].owner # Nobody /\ b.flags[i].invistime = 0
  BY <1>3, <1>4, <1>5, PlayersAssumption DEF Kin
<1>7. Copy(t, {i} \ {i}, {}, {i} \ {i}, {}) /\ Kin(b, t) BY <1>5, <1>6, TakeTold
<1> HIDE DEF t
<1>8. Right(t) BY <1>7, NoneLeft DEF Right
<1>9. DOMAIN t.flags = DOMAIN s.flags /\ t.notgot = s.notgot BY <1>4, <1>5, <1>7 DEF Kin
<1> QED BY <1>2, <1>8, <1>9

LEMMA TakeRight ==
  ASSUME NEW s, Right(s), FlagsOK(s), NEW i, NEW c \in Clients, MayTake(s, c, i), NEW r
  PROVE  LET t == Take(s, c, i, r) IN Right(t) /\ t.notgot = s.notgot
<1>1. i \in DOMAIN s.flags BY DEF MayTake
<1>2. LET t == PickUp(s, c, i) IN Right(t) /\ t.notgot = s.notgot BY <1>1, PickUpRight
<1>3. LET t == BringBack(s, i) IN Right(t) /\ t.notgot = s.notgot BY <1>1, BroughtHome DEF BringBack
<1>4. LET t == Score(s, c, i, Nobody, r) IN Right(t) /\ t.notgot = s.notgot
  <2>1. Nobody \in DOMAIN s.flags \cup {Nobody} OBVIOUS
  <2>2. KeptRight(s, Score(s, c, i, Nobody, r)) BY <1>1, <2>1, ScoreRight
  <2> QED BY <2>2 DEF KeptRight
<1>5. (\E j \in DOMAIN s.flags : Carries(s, c, j)) =>
        LET t == Score(s, c, i, FirstCarried(s, c), r) IN Right(t) /\ t.notgot = s.notgot
  <2>1. (\E j \in DOMAIN s.flags : Carries(s, c, j)) => FirstCarried(s, c) \in DOMAIN s.flags BY FirstIsCarried
  <2>2. (\E j \in DOMAIN s.flags : Carries(s, c, j)) => KeptRight(s, Score(s, c, i, FirstCarried(s, c), r))
    BY <1>1, <2>1, ScoreRight
  <2> QED BY <2>2 DEF KeptRight
<1> QED BY <1>2, <1>3, <1>4, <1>5 DEF Take

LEMMA ResetRight ==
  ASSUME NEW s, Right(s), NEW i \in DOMAIN s.flags, NEW r
  PROVE  LET t == ResetFlag(s, i, r) IN Right(t) /\ DOMAIN t.flags = DOMAIN s.flags /\ t.notgot = s.notgot
<1> DEFINE b == ReturnedAt(s, i, InvisFrom(s.now))
           b2 == IF Hold THEN Spawned(b, i, r) ELSE b
           d == Bumped(b2, i)
           e == IF Hold THEN d ELSE AddScore(d, d.flags[i].team, IF Protect THEN -1 ELSE 0)
           h == IF Hold THEN e ELSE SeeScore(e, e.flags[i].team)
           t == SeeReset(h, i)
           team == d.flags[i].team
<1>0. s.now # 0 BY DEF Right, Copy, Shape
<1>1. ResetFlag(s, i, r) = t BY DEF ResetFlag, ReturnedAt
<1>2. /\ Copy(b, {}, {}, {i}, {}) /\ DOMAIN b.flags = DOMAIN s.flags /\ b.notgot = s.notgot
      /\ b.flags[i].owner = Nobody /\ b.flags[i].droptime = 0 /\ b.flags[i].invistime = InvisFrom(s.now)
  BY ReturnedCopy
<1> HIDE DEF b
<1>3. Copy(b2, {}, {i}, {i}, {}) /\ Kin(b, b2)
  <2>1. Copy(Spawned(b, i, r), {}, {i}, {i}, {}) /\ Kin(b, Spawned(b, i, r)) BY <1>2, SpawnedTold, NoneLeft
  <2>2. Copy(b, {}, {i}, {i}, {}) /\ Kin(b, b) BY <1>2 DEF Copy, Kin
  <2> QED BY <2>1, <2>2
<1> HIDE DEF b2
<1>4. Copy(d, {i}, {i}, {i}, {}) /\ Kin(b2, d)
  <2>1. i \in DOMAIN b2.flags BY <1>2, <1>3 DEF Kin
  <2> QED BY <1>3, <2>1, BumpedTold, NoneLeft
<1> HIDE DEF d
<1>5. Copy(h, {i}, {i}, {i}, {}) /\ Kin(d, h)
  <2>1. CASE Hold BY <1>4, <2>1 DEF Kin
  <2>2. CASE ~Hold
    <3>1. e = AddScore(d, team, IF Protect THEN -1 ELSE 0) /\ h = SeeScore(e, e.flags[i].team) BY <2>2
    <3> HIDE DEF team
    <3>2. Copy(e, {i}, {i}, {i}, {team}) /\ Kin(d, e) BY <1>4, <3>1, AddScoreTold, NoneLeft
    <3>3. e.flags = d.flags
      <4>1. DOMAIN d = StateFields BY <1>4 DEF Copy, Shape
      <4> QED BY <3>1, <4>1 DEF AddScore, StateFields
    <3>4. h = SeeScore(e, team) BY <3>1, <3>3 DEF team
    <3> HIDE DEF e, h
    <3>5. Copy(h, {i}, {i}, {i}, {team} \ {team}) /\ Kin(e, h) BY <3>2, <3>4, ScoreSeen
    <3> QED BY <3>2, <3>5, NoneLeft, KinTwice
  <2> QED BY <2>1, <2>2
<1> HIDE DEF h
<1>6. Kin(b, h) BY <1>3, <1>4, <1>5, KinTwice
<1>7. i \in DOMAIN h.flags /\ h.flags[i].owner = Nobody /\ h.flags[i].droptime = 0 /\ h.flags[i].invistime = InvisFrom(s.now)
  BY <1>2, <1>6 DEF Kin
<1>8. Protect <=> h.flags[i].invistime # 0 BY <1>0, <1>7, InvisSince
<1>9. Copy(t, {i} \ {i}, {i} \ {i}, {i} \ {i}, {}) /\ Kin(h, t) BY <1>5, <1>7, <1>8, ResetTold
<1> HIDE DEF t
<1>10. Right(t) BY <1>9, NoneLeft DEF Right
<1>11. DOMAIN t.flags = DOMAIN s.flags /\ t.notgot = s.notgot BY <1>2, <1>6, <1>9 DEF Kin
<1> QED BY <1>1, <1>10, <1>11

LEMMA InvisRight ==
  ASSUME NEW s, Right(s), NEW i \in DOMAIN s.flags
  PROVE  LET t == TickInvisible(s, i) IN Right(t) /\ DOMAIN t.flags = DOMAIN s.flags /\ t.notgot = s.notgot
<1> DEFINE f == [s.flags[i] EXCEPT !.invistime = 0]
           a == [s EXCEPT !.flags[i] = f]
           g == [a.seen.flags[i] EXCEPT !.invis = FALSE]
           t == [a EXCEPT !.seen.flags[i] = g]
<1>1. DOMAIN s.flags[i] = FlagFields /\ PlaceTold(s.seen.flags[i], s.flags[i]) /\ DOMAIN s = StateFields
      /\ s.seen.flags[i].version = s.flags[i].version /\ s.seen.flags[i].spawnindex = s.flags[i].spawnindex
      /\ Fcn(s.seen.flags[i], ShownFields)
  BY DEF Right, Copy, Shape
<1>2. /\ DOMAIN f = FlagFields /\ f.version = s.flags[i].version /\ f.spawnindex = s.flags[i].spawnindex
      /\ f.owner = s.flags[i].owner /\ f.droptime = s.flags[i].droptime /\ f.droploc = s.flags[i].droploc /\ f.invistime = 0
  BY <1>1 DEF FlagFields
<1>3. TickInvisible(s, i) = t \/ TickInvisible(s, i) = s
  <2>1. [s EXCEPT !.flags[i].invistime = 0] = a OBVIOUS
  <2>2. TickInvisible(s, i) = SeeInvis(a, i) \/ TickInvisible(s, i) = s BY <2>1 DEF TickInvisible
  <2>3. SeeInvis(a, i) = t BY DEF SeeInvis
  <2> QED BY <2>2, <2>3
<1>4. a.seen = s.seen BY <1>1 DEF StateFields
<1> HIDE DEF f
<1>5. Copy(a, {}, {}, {i}, {}) /\ a.flags[i] = f /\ DOMAIN a.flags = DOMAIN s.flags /\ a.notgot = s.notgot
  BY <1>2, FlagCopy DEF Right
<1> HIDE DEF a
<1>6. Fcn(g, ShownFields) /\ g.version = f.version /\ g.spawnindex = f.spawnindex /\ g.owner = s.seen.flags[i].owner
      /\ g.invis \in BOOLEAN /\ ~g.invis /\ g.dropped = s.seen.flags[i].dropped /\ g.droploc = s.seen.flags[i].droploc
  BY <1>1, <1>2, <1>4 DEF Fcn, ShownFields
<1> HIDE DEF g
<1>7. PlaceTold(g, f) BY <1>1, <1>2, <1>6 DEF PlaceTold
<1>8. {} \subseteq {} \cup {i} /\ {i} \subseteq {} \cup {i} OBVIOUS
<1>9. Copy(t, {}, {}, {}, {}) /\ Kin(a, t)
  <2>1. g.version = a.flags[i].version /\ g.spawnindex = a.flags[i].spawnindex /\ PlaceTold(g, a.flags[i]) /\ i \in DOMAIN a.flags
    BY <1>5, <1>6, <1>7
  <2> DEFINE none == {}
             one == {i}
  <2>2. Copy(a, none, none, one, none) /\ none \subseteq none \cup {i} /\ one \subseteq none \cup {i} BY <1>5, <1>8
  <2> HIDE DEF none, one
  <2>3. Copy(t, none, none, none, none) /\ Kin(a, t) BY <1>6, <2>1, <2>2, SeenCopy
  <2> QED BY <2>3 DEF none
<1> HIDE DEF t
<1>10. Right(t) /\ DOMAIN t.flags = DOMAIN s.flags /\ t.notgot = s.notgot BY <1>5, <1>9 DEF Right, Kin
<1> QED BY <1>3, <1>10

\* A flag is held by a player who is there.
Manned(s) == Hold => \A i \in DOMAIN s.flags : s.flags[i].owner # Nobody => Present(s.flags[i].owner)

LEMMA HeldRight ==
  ASSUME NEW s, Right(s), Manned(s), NEW i \in DOMAIN s.flags, NEW r
  PROVE  LET t == TickHeld(s, i, r) IN Right(t) /\ DOMAIN t.flags = DOMAIN s.flags /\ t.notgot = s.notgot
<1>1. LET t == Score(s, s.flags[i].owner, i, Nobody, r) IN Right(t) /\ DOMAIN t.flags = DOMAIN s.flags /\ t.notgot = s.notgot
  <2>1. Nobody \in DOMAIN s.flags \cup {Nobody} OBVIOUS
  <2> QED BY <2>1, ScoreRight DEF KeptRight
<1>2. TickHeld(s, i, r) = s \/ TickHeld(s, i, r) = Score(s, s.flags[i].owner, i, Nobody, r) BY DEF TickHeld, Manned
<1> QED BY <1>1, <1>2

LEMMA UpdateFlagRight ==
  ASSUME NEW s, Right(s), FlagsOK(s), Manned(s), NEW i \in DOMAIN s.flags, NEW r
  PROVE  LET t == UpdateFlag(s, i, r) IN Right(t) /\ DOMAIN t.flags = DOMAIN s.flags /\ t.notgot = s.notgot
<1> DEFINE a == TickDropped(s, i, r)
           g == TickInvisible(a, i)
           t == TickHeld(g, i, r)
<1>1. Right(a) /\ DOMAIN a.flags = DOMAIN s.flags /\ a.notgot = s.notgot
  <2>1. LET u == ResetFlag(s, i, r) IN Right(u) /\ DOMAIN u.flags = DOMAIN s.flags /\ u.notgot = s.notgot BY ResetRight
  <2> QED BY <2>1 DEF TickDropped
<1>2. Ticks(s, a)
  <2>1. Ticks(s, s) BY SameSelf DEF Ticks, Beside
  <2> QED BY <2>1, ResetTicks DEF TickDropped
<1> HIDE DEF a
<1>3. FlagsOK(a) BY <1>2 DEF Ticks
<1>4. Ticks(a, g)
  <2>1. Ticks(a, a) BY <1>3, SameSelf DEF Ticks, Beside
  <2> QED BY <1>1, <1>3, <2>1, InvisTicks DEF TickInvisible
<1>5. Right(g) /\ DOMAIN g.flags = DOMAIN a.flags /\ g.notgot = a.notgot BY <1>1, InvisRight
<1> HIDE DEF g
<1>6. Manned(g) BY <1>1, <1>2, <1>4, <1>5 DEF Manned, Ticks, Same, Home
<1>7. Right(t) /\ DOMAIN t.flags = DOMAIN g.flags /\ t.notgot = g.notgot BY <1>1, <1>5, <1>6, HeldRight
<1> HIDE DEF t
<1>8. Right(t) /\ DOMAIN t.flags = DOMAIN s.flags /\ t.notgot = s.notgot BY <1>1, <1>5, <1>7
<1> QED BY <1>8 DEF UpdateFlag, t, g, a

LEMMA UpdateRight ==
  ASSUME NEW s, Right(s), FlagsOK(s), ~s.notgot, Manned(s), \A c \in Clients : ci[c].team \in Teams, NEW r
  PROVE  LET t == FlagsUpdate(s, r) IN Right(t) /\ t.notgot = s.notgot
<1> DEFINE a == UpdateFlag(s, 1, r)
           b == UpdateFlag(a, 2, r)
<1>1. 1 \in DOMAIN s.flags BY DEF FlagsOK
<1>2. Right(a) /\ DOMAIN a.flags = DOMAIN s.flags /\ a.notgot = s.notgot BY <1>1, UpdateFlagRight
<1>3. Ticks(s, a) BY <1>1, UpdateFlagTicks
<1>4. FlagsUpdate(s, r) = IF s.ended \/ s.notgot THEN s ELSE IF 2 \in DOMAIN s.flags THEN b ELSE a BY DEF FlagsUpdate
<1> HIDE DEF a
<1>5. FlagsOK(a) /\ Manned(a)
  <2>1. Hold => DOMAIN s.flags = {1} BY DEF FlagsOK
  <2> QED BY <1>2, <1>3, <2>1 DEF Manned, Ticks, Same, Home
<1>6. 2 \in DOMAIN s.flags => Right(b) /\ b.notgot = a.notgot BY <1>2, <1>5, UpdateFlagRight
<1> HIDE DEF b
<1> QED BY <1>2, <1>4, <1>6

\* Before the list of flags comes, the clients show those of their own map.
Waiting(s) ==
  /\ Fcn(s.scores, Teams)
  /\ s.seen = [flags |-> IF Hold THEN <<>> ELSE [i \in 1..2 |-> FlagShown(NewFlag(i, i, InvisFrom(1)))], scores |-> s.scores]

\* A flag of protect that parseitems made belongs to no team, stays where it is, and is invisible to the clients.
Hidden(f) == [FlagShown(f) EXCEPT !.invis = TRUE]
Orphan(f) == DOMAIN f = FlagFields /\ f.owner = Nobody /\ f.droptime = 0 /\ f.invistime = 0 /\ f.team \notin Teams
Orphaned(s) ==
  /\ Protect /\ DOMAIN s = StateFields /\ \A i \in DOMAIN s.flags : Orphan(s.flags[i])
  /\ s.seen = [flags |-> [i \in DOMAIN s.flags |-> Hidden(s.flags[i])], scores |-> s.scores]

\* The flags of protect that the map's file gives belong to the teams.
Sided(s) == Protect => \A i \in DOMAIN s.flags : s.flags[i].team \in Teams
FlagsTold(s) == IF s.notgot THEN Waiting(s) ELSE Orphaned(s) \/ (Right(s) /\ Sided(s))

LEMMA ShownAlike ==
  ASSUME NEW team, NEW o, NEW invistime
  PROVE  /\ DOMAIN NewFlag(team, o, invistime) = FlagFields
         /\ FlagShown(NewFlag(team, o, invistime)) = FlagShown(NewFlag(o, o, invistime))
         /\ NewFlag(team, o, invistime).owner = Nobody /\ NewFlag(team, o, invistime).droptime = 0
         /\ NewFlag(team, o, invistime).invistime = invistime
BY DEF NewFlag, FlagShown, FlagFields

LEMMA SetupHoldRight ==
  ASSUME NEW s, DOMAIN s = StateFields, s.now # 0, Fcn(s.scores, Teams), s.seen = [flags |-> s.seen.flags, scores |-> s.scores],
         Hold, NEW n, NEW r
  PROVE  Right(SetupHold(s, n, r)) /\ SetupHold(s, n, r).notgot = s.notgot
<1> DEFINE f == NewFlag(0, Elsewhere, 0)
           a == [s EXCEPT !.spawns = [i \in 1..n |-> i], !.flags = <<NewFlag(0, Elsewhere, 0)>>,
                          !.seen.flags = <<FlagShown(NewFlag(0, Elsewhere, 0))>>]
           b == Spawned(a, 1, r)
           d == Bumped(b, 1)
           t == SeeReset(d, 1)
<1>1. DOMAIN f = FlagFields /\ f.owner = Nobody /\ f.droptime = 0 /\ f.invistime = 0 BY ShownAlike
<1>2. /\ DOMAIN a = StateFields /\ a.flags = <<f>> /\ a.scores = s.scores /\ a.now = s.now /\ a.notgot = s.notgot
      /\ a.seen = [s.seen EXCEPT !.flags = <<FlagShown(f)>>]
  BY DEF StateFields
<1> HIDE DEF a, f
<1>3. a.seen = [flags |-> <<FlagShown(f)>>, scores |-> a.scores] BY <1>2
<1>4. DOMAIN a.flags = {1} /\ a.flags[1] = f BY <1>2
<1>5. <<FlagShown(f)>> = [i \in DOMAIN a.flags |-> FlagShown(a.flags[i])]
  <2> DEFINE g == FlagShown(f)
  <2>1. [i \in DOMAIN a.flags |-> FlagShown(a.flags[i])] = [i \in {1} |-> g] BY <1>4
  <2> HIDE DEF g
  <2>2. <<g>> = [i \in {1} |-> g] OBVIOUS
  <2> QED BY <2>1, <2>2 DEF g
<1>6. a.seen = FlagView(a) BY <1>3, <1>5 DEF FlagView
<1>7. Copy(a, {}, {}, {}, {}) BY <1>1, <1>2, <1>4, <1>6, ToldCopy
<1>8. Copy(b, {}, {1}, {}, {}) /\ Kin(a, b) BY <1>4, <1>7, SpawnedTold, NoneLeft
<1> HIDE DEF b
<1>9. Copy(d, {1}, {1}, {}, {}) /\ Kin(b, d)
  <2>1. 1 \in DOMAIN b.flags BY <1>4, <1>8 DEF Kin
  <2> QED BY <1>8, <2>1, BumpedTold, NoneLeft
<1> HIDE DEF d
<1>10. 1 \in DOMAIN d.flags /\ d.flags[1].owner = Nobody /\ d.flags[1].droptime = 0 /\ (Protect <=> d.flags[1].invistime # 0)
  BY <1>1, <1>4, <1>8, <1>9 DEF Kin, Hold, Protect
<1>11. Copy(t, {1} \ {1}, {1} \ {1}, {} \ {1}, {}) /\ Kin(d, t) BY <1>9, <1>10, ResetTold
<1> HIDE DEF t
<1>12. Right(t) BY <1>11, NoneLeft DEF Right
<1>13. t.notgot = s.notgot BY <1>2, <1>8, <1>9, <1>11 DEF Kin
<1> QED BY <1>12, <1>13 DEF SetupHold, t, d, b, a

LEMMA EmptySeen ==
  ASSUME NEW notgot \in BOOLEAN
  PROVE  LET s == FlagsEmpty(notgot)
         IN /\ DOMAIN s = StateFields /\ s.now = 1 /\ Fcn(s.scores, Teams) /\ (s.notgot <=> notgot) /\ s.notgot \in BOOLEAN
            /\ s.seen = [flags |-> <<>>, scores |-> s.scores]
BY DEF FlagsEmpty, StateFields, Fcn

\* Two flags, shown as they are.
LEMMA TwoRight ==
  ASSUME NEW t, DOMAIN t = StateFields, t.now # 0, Fcn(t.scores, Teams), NEW flags, t.flags = flags, DOMAIN flags = 1..2,
         \A i \in 1..2 : DOMAIN flags[i] = FlagFields,
         t.seen = [flags |-> [i \in 1..2 |-> FlagShown(flags[i])], scores |-> t.scores]
  PROVE  Right(t)
BY ToldCopy DEF Right, FlagView

LEMMA FlagsSetupTold ==
  ASSUME NEW r
  PROVE  FlagsTold(FlagsSetup(r))
<1> DEFINE s == FlagsEmpty(FALSE)
           flags == [i \in 1..2 |-> NewFlag(i, i, InvisFrom(1))]
           t == [s EXCEPT !.flags = flags, !.seen.flags = [i \in 1..2 |-> FlagShown(flags[i])]]
<1>1. /\ DOMAIN s = StateFields /\ s.now = 1 /\ Fcn(s.scores, Teams) /\ ~s.notgot /\ s.notgot \in BOOLEAN
      /\ s.seen = [flags |-> <<>>, scores |-> s.scores]
  BY EmptySeen
<1>2. FlagsSetup(r) = IF Hold THEN SetupHold(s, Cardinality(Places), r) ELSE t BY DEF FlagsSetup
<1> HIDE DEF s
<1>3. CASE Hold
  <2>1. LET u == SetupHold(s, Cardinality(Places), r) IN Right(u) /\ u.notgot = s.notgot
    BY <1>1, <1>3, SetupHoldRight
  <2>2. ~Protect BY <1>3 DEF Hold, Protect
  <2> QED BY <1>1, <1>2, <1>3, <2>1, <2>2 DEF FlagsTold, Sided
<1>4. CASE ~Hold
  <2>1. \A i \in 1..2 : DOMAIN flags[i] = FlagFields BY ShownAlike
  <2>2. DOMAIN flags = 1..2 OBVIOUS
  <2>6. \A i \in 1..2 : flags[i].team \in Teams BY DEF NewFlag, Teams, Good, Evil
  <2> HIDE DEF flags
  <2>3. /\ DOMAIN t = StateFields /\ t.flags = flags /\ t.scores = s.scores /\ t.now = 1 /\ t.notgot = s.notgot
        /\ t.seen = [s.seen EXCEPT !.flags = [i \in 1..2 |-> FlagShown(flags[i])]]
    BY <1>1 DEF StateFields
  <2> HIDE DEF t
  <2>4. t.seen = [flags |-> [i \in 1..2 |-> FlagShown(flags[i])], scores |-> t.scores] BY <1>1, <2>3
  <2>5. Right(t) BY <1>1, <2>1, <2>2, <2>3, <2>4, TwoRight
  <2>7. Sided(t) BY <2>2, <2>3, <2>6 DEF Sided
  <2> QED BY <1>1, <1>2, <1>4, <2>3, <2>5, <2>7 DEF FlagsTold
<1> QED BY <1>3, <1>4

LEMMA FlagsUnknownTold == FlagsTold(FlagsUnknown)
<1> DEFINE s == FlagsEmpty(TRUE)
           flags == [i \in 1..2 |-> NewFlag(i, i, InvisFrom(1))]
           q == [i \in 1..2 |-> FlagShown(flags[i])]
           shown == [i \in 1..2 |-> FlagShown(NewFlag(i, i, InvisFrom(1)))]
           t == [s EXCEPT !.seen.flags = q]
<1>1. /\ DOMAIN s = StateFields /\ s.now = 1 /\ Fcn(s.scores, Teams) /\ s.notgot /\ s.notgot \in BOOLEAN
      /\ s.seen = [flags |-> <<>>, scores |-> s.scores]
  BY EmptySeen
<1>2. FlagsUnknown = IF Hold THEN s ELSE t BY DEF FlagsUnknown
<1>3. q = shown OBVIOUS
<1> HIDE DEF s, flags, shown, q
<1>4. t.scores = s.scores /\ t.notgot = s.notgot /\ t.seen = [flags |-> shown, scores |-> s.scores]
  <2>1. t.scores = s.scores /\ t.notgot = s.notgot BY <1>1 DEF StateFields
  <2>2. t.seen = [s.seen EXCEPT !.flags = q] BY <1>1 DEF StateFields
  <2> HIDE DEF t
  <2> QED BY <1>1, <1>3, <2>1, <2>2
<1> HIDE DEF t
<1>5. CASE Hold BY <1>1, <1>2, <1>5 DEF FlagsTold, Waiting
<1>6. CASE ~Hold BY <1>1, <1>2, <1>4, <1>6 DEF FlagsTold, Waiting, shown
<1> QED BY <1>5, <1>6

\* A flag of parseitems, next to that of the clients' own map.
LEMMA ListedFlag ==
  ASSUME Protect, NEW now \in Nat, now # 0, NEW o
  PROVE  /\ Orphan(NewFlag(now + 2, o, 0))
         /\ Hidden(NewFlag(now + 2, o, 0)) = FlagShown(NewFlag(o, o, InvisFrom(1)))
<1>1. InvisFrom(1) = 1 BY DEF InvisFrom
<1>2. Orphan(NewFlag(now + 2, o, 0)) BY DEF Orphan, NewFlag, FlagFields, Teams, Good, Evil
<1>3. Hidden(NewFlag(now + 2, o, 0)) = FlagShown(NewFlag(o, o, 1))
  <2> DEFINE f == NewFlag(now + 2, o, 0)
             g == NewFlag(o, o, 1)
             shown(invis, dropped) == [version |-> 0, spawnindex |-> NoSpawn, owner |-> Nobody, invis |-> invis,
                                       dropped |-> dropped, droploc |-> Elsewhere]
             no == FALSE
             yes == TRUE
  <2>1. /\ f.version = 0 /\ f.spawnindex = NoSpawn /\ f.owner = Nobody /\ f.droptime = 0 /\ f.invistime = 0
        /\ g.version = 0 /\ g.spawnindex = NoSpawn /\ g.owner = Nobody /\ g.droptime = 0 /\ g.invistime = 1
    BY DEF NewFlag
  <2> HIDE DEF f, g
  <2>2. /\ (f.invistime # 0) = FALSE /\ (g.invistime # 0) = TRUE
        /\ (f.owner = Nobody /\ f.droptime # 0) = FALSE /\ (g.owner = Nobody /\ g.droptime # 0) = FALSE
    BY <2>1
  <2>3. FlagShown(f) = shown(no, no) /\ FlagShown(g) = shown(yes, no) BY <2>1, <2>2, Zenon DEF FlagShown
  <2>4. Hidden(f) = [FlagShown(f) EXCEPT !.invis = yes] BY DEF Hidden
  <2> HIDE DEF no, yes
  <2>5. [shown(no, no) EXCEPT !.invis = yes] = shown(yes, no) OBVIOUS
  <2> HIDE DEF shown
  <2> QED BY <2>3, <2>4, <2>5 DEF f, g
<1> QED BY <1>1, <1>2, <1>3

LEMMA FlagsParseTold ==
  ASSUME NEW s, FlagsOK(s), FlagsTold(s), s.notgot, NEW r
  PROVE  FlagsTold(FlagsParse(s, r))
<1> DEFINE u == [s EXCEPT !.notgot = FALSE]
           flags == [i \in 1..2 |-> NewFlag(IF Protect THEN s.now + 2 ELSE 0, i, 0)]
           t == [s EXCEPT !.notgot = FALSE, !.flags = flags]
<1>1. DOMAIN s = StateFields /\ s.now \in Nat /\ s.now # 0 BY DEF FlagsOK
<1>2. /\ Fcn(s.scores, Teams)
      /\ s.seen = [flags |-> IF Hold THEN <<>> ELSE [i \in 1..2 |-> FlagShown(NewFlag(i, i, InvisFrom(1)))], scores |-> s.scores]
  BY DEF FlagsTold, Waiting
<1>3. FlagsParse(s, r) = IF Hold THEN SetupHold(u, Cardinality(Places), r) ELSE t BY DEF FlagsParse
<1>4. CASE Hold
  <2>1. /\ DOMAIN u = StateFields /\ u.now = s.now /\ u.scores = s.scores /\ u.notgot \in BOOLEAN /\ ~u.notgot /\ u.seen = s.seen
    BY <1>1 DEF StateFields
  <2> HIDE DEF u
  <2>2. u.seen = [flags |-> u.seen.flags, scores |-> u.scores] BY <1>2, <2>1
  <2>3. LET v == SetupHold(u, Cardinality(Places), r) IN Right(v) /\ v.notgot = u.notgot
    BY <1>1, <1>2, <1>4, <2>1, <2>2, SetupHoldRight
  <2>4. ~Protect BY <1>4 DEF Hold, Protect
  <2> QED BY <1>3, <1>4, <2>1, <2>3, <2>4 DEF FlagsTold, Sided
<1>5. CASE ~Hold /\ ~Protect
  <2>1. \A i \in 1..2 : DOMAIN flags[i] = FlagFields BY ShownAlike
  <2>2. \A i \in 1..2 : FlagShown(NewFlag(i, i, InvisFrom(1))) = FlagShown(flags[i])
    <3>1. \A i \in 1..2 : flags[i] = NewFlag(0, i, 0) BY <1>5
    <3>2. InvisFrom(1) = 0 BY <1>5 DEF InvisFrom
    <3> QED BY <3>1, <3>2, ShownAlike
  <2>3. DOMAIN flags = 1..2 OBVIOUS
  <2> HIDE DEF flags
  <2>4. [i \in 1..2 |-> FlagShown(NewFlag(i, i, InvisFrom(1)))] = [i \in 1..2 |-> FlagShown(flags[i])] BY <2>2
  <2>5. /\ DOMAIN t = StateFields /\ t.flags = flags /\ t.scores = s.scores /\ t.now = s.now /\ t.notgot \in BOOLEAN /\ ~t.notgot
        /\ t.seen = s.seen
    BY <1>1 DEF StateFields
  <2> HIDE DEF t
  <2>6. t.seen = [flags |-> [i \in 1..2 |-> FlagShown(flags[i])], scores |-> t.scores] BY <1>2, <1>5, <2>4, <2>5
  <2>7. Right(t) BY <1>1, <1>2, <2>1, <2>3, <2>5, <2>6, TwoRight
  <2> QED BY <1>3, <1>5, <2>5, <2>7 DEF FlagsTold, Sided
<1>6. CASE ~Hold /\ Protect
  <2>1. \A i \in 1..2 : Orphan(flags[i]) /\ FlagShown(NewFlag(i, i, InvisFrom(1))) = Hidden(flags[i])
    <3>1. \A i \in 1..2 : flags[i] = NewFlag(s.now + 2, i, 0) BY <1>6
    <3> QED BY <1>1, <1>6, <3>1, ListedFlag
  <2>2. DOMAIN flags = 1..2 OBVIOUS
  <2> HIDE DEF flags
  <2>3. [i \in 1..2 |-> FlagShown(NewFlag(i, i, InvisFrom(1)))] = [i \in 1..2 |-> Hidden(flags[i])] BY <2>1
  <2>4. /\ DOMAIN t = StateFields /\ t.flags = flags /\ t.scores = s.scores /\ t.notgot \in BOOLEAN /\ ~t.notgot /\ t.seen = s.seen
    BY <1>1 DEF StateFields
  <2> HIDE DEF t
  <2>5. t.seen = [flags |-> [i \in DOMAIN t.flags |-> Hidden(t.flags[i])], scores |-> t.scores] BY <1>2, <1>6, <2>2, <2>3, <2>4
  <2>6. Orphaned(t) BY <1>6, <2>1, <2>2, <2>4, <2>5 DEF Orphaned
  <2> QED BY <1>3, <1>6, <2>4, <2>6 DEF FlagsTold
<1> QED BY <1>4, <1>5, <1>6

LEMMA ForgottenShown ==
  ASSUME NEW f, Orphan(f)
  PROVE  LET g == [f EXCEPT !.dropper = Nobody, !.dropcount = 0] IN Orphan(g) /\ Hidden(g) = Hidden(f)
<1> DEFINE g == [f EXCEPT !.dropper = Nobody, !.dropcount = 0]
<1>1. /\ DOMAIN g = FlagFields /\ g.owner = f.owner /\ g.droptime = f.droptime /\ g.invistime = f.invistime /\ g.team = f.team
      /\ g.version = f.version /\ g.spawnindex = f.spawnindex /\ g.droploc = f.droploc
  BY DEF Orphan, FlagFields
<1> HIDE DEF g
<1>2. FlagShown(g) = FlagShown(f) BY <1>1 DEF FlagShown
<1>3. Orphan(g) BY <1>1 DEF Orphan
<1> QED BY <1>2, <1>3 DEF Hidden, g

\* Nothing that players do moves or changes the flags that belong to no team.
LEMMA OrphansKept ==
  ASSUME NEW s, FlagsOK(s), Orphaned(s), ~s.notgot, NEW c \in Clients, NEW dropper
  PROVE  /\ DropFlag(s, c, dropper) = s
         /\ Orphaned(ForgetDropper(s, c)) /\ ~ForgetDropper(s, c).notgot
<1>1. \A i \in DOMAIN s.flags : s.flags[i].owner # c BY PlayersAssumption DEF Orphaned, Orphan
<1>2. 1 \in DOMAIN s.flags BY DEF FlagsOK
<1>3. DropOne(s, c, dropper, 1) = s BY <1>1, <1>2 DEF DropOne
<1>4. 2 \in DOMAIN s.flags => DropOne(s, c, dropper, 2) = s BY <1>1 DEF DropOne
<1>5. DropFlag(s, c, dropper) = s BY <1>3, <1>4 DEF DropFlag
<1> DEFINE t == ForgetDropper(s, c)
           q == [i \in DOMAIN s.flags |->
                   IF s.flags[i].dropper = c THEN [s.flags[i] EXCEPT !.dropper = Nobody, !.dropcount = 0] ELSE s.flags[i]]
<1>6. /\ DOMAIN t = StateFields /\ t.flags = q /\ t.scores = s.scores /\ t.notgot = s.notgot /\ t.seen = s.seen
  BY DEF ForgetDropper, Orphaned, StateFields
<1>7. \A i \in DOMAIN s.flags : Orphan(q[i]) /\ Hidden(q[i]) = Hidden(s.flags[i]) BY ForgottenShown DEF Orphaned
<1>8. DOMAIN q = DOMAIN s.flags OBVIOUS
<1> HIDE DEF t, q
<1>9. [i \in DOMAIN q |-> Hidden(q[i])] = [i \in DOMAIN s.flags |-> Hidden(s.flags[i])] BY <1>7, <1>8
<1>10. Orphaned(t) BY <1>6, <1>7, <1>8, <1>9 DEF Orphaned
<1> QED BY <1>5, <1>6, <1>10 DEF t

\* A flag that falls keeps its team.
LEMMA LosesSided ==
  ASSUME NEW s, NEW t, NEW c, NEW dropper, NEW guilty, Loses(s, t, c, dropper, guilty), Sided(s)
  PROVE  Sided(t)
BY DEF Loses, Falls, Sided

\* The hooks of ctf.h keep the copy right.
LEMMA FlagsHooksTold ==
  ASSUME NEW s, FlagsOK(s), FlagsTold(s), NEW c \in Clients
  PROVE  /\ FlagsTold(DropFlag(s, c, Nobody)) /\ FlagsTold(FlagsLeaveGame(s, c))
         /\ \A actor : FlagsTold(FlagsDied(s, c, actor))
<1> DEFINE a == DropFlag(s, c, Nobody)
           b == ForgetDropper(a, c)
<1>0. FlagsLeaveGame(s, c) = b BY DEF FlagsLeaveGame
<1>1. CASE s.notgot
  <2>1. DOMAIN s = StateFields /\ Waiting(s) BY <1>1 DEF FlagsOK, FlagsTold
  <2>2. a = s BY <1>1 DEF DropFlag
  <2>3. \A actor : FlagsDied(s, c, actor) = s BY <1>1 DEF FlagsDied
  <2>4. b.seen = s.seen /\ b.scores = s.scores /\ b.notgot = s.notgot BY <2>1, <2>2 DEF ForgetDropper, StateFields
  <2> HIDE DEF a, b
  <2> QED BY <1>0, <1>1, <2>1, <2>2, <2>3, <2>4 DEF FlagsTold, Waiting, a
<1>2. CASE ~s.notgot /\ Orphaned(s)
  <2>1. a = s /\ Orphaned(ForgetDropper(s, c)) /\ ~ForgetDropper(s, c).notgot BY <1>2, OrphansKept
  <2>2. ASSUME NEW actor PROVE FlagsDied(s, c, actor) = ForgetDropper(s, c)
    <3>1. ~Hold BY <1>2 DEF Orphaned, Hold, Protect
    <3>2. \A dropper : DropFlag(s, c, dropper) = s BY <1>2, OrphansKept
    <3> QED BY <1>2, <3>1, <3>2 DEF FlagsDied
  <2> HIDE DEF a, b
  <2> QED BY <1>0, <1>2, <2>1, <2>2 DEF FlagsTold, a, b
<1>3. CASE ~s.notgot /\ Right(s) /\ Sided(s)
  <2>1. 1 \in DOMAIN s.flags BY <1>3 DEF FlagsOK
  <2>2. Right(a) /\ a.notgot = s.notgot BY <1>3, <2>1, DropFlagRight
  <2>3. DOMAIN a = StateFields BY <2>2 DEF Right, Copy, Shape
  <2>4. Sided(a) BY <1>3, DropFlagLoses, LosesSided
  <2>5. Sided(FlagsLeaveGame(s, c)) BY <1>3, LeaveGameLoses, LosesSided
  <2> HIDE DEF a
  <2>6. Right(b) /\ b.notgot = s.notgot BY <2>2, <2>3, ForgetRight DEF ForgetDropper, StateFields
  <2>7. ASSUME NEW actor PROVE LET t == FlagsDied(s, c, actor) IN Right(t) /\ t.notgot = s.notgot /\ Sided(t)
    <3>1. LET t == FlagsDied(s, c, actor) IN Right(t) /\ t.notgot = s.notgot BY <1>3, <2>1, DiedRight
    <3>2. Sided(FlagsDied(s, c, actor)) BY <1>3, DiedLoses, LosesSided
    <3> QED BY <3>1, <3>2
  <2> QED BY <1>0, <1>3, <2>2, <2>4, <2>5, <2>6, <2>7 DEF FlagsTold, a
<1> QED BY <1>1, <1>2, <1>3 DEF FlagsOK, FlagsTold

LEMMA FlagsEndTold ==
  ASSUME NEW s, FlagsOK(s), FlagsTold(s)
  PROVE  FlagsTold(Intermission(s))
<1> DEFINE t == Intermission(s)
<1>1. /\ DOMAIN t = StateFields /\ t.seen = s.seen /\ t.scores = s.scores /\ t.notgot = s.notgot /\ t.flags = s.flags
  BY DEF Intermission, StateFields, FlagsOK
<1>2. Right(s) => Right(t) BY EndedRight
<1> HIDE DEF t
<1>3. Waiting(s) => Waiting(t) BY <1>1 DEF Waiting
<1>4. Orphaned(s) => Orphaned(t) BY <1>1 DEF Orphaned
<1>5. Sided(s) => Sided(t) BY <1>1 DEF Sided
<1> QED BY <1>1, <1>2, <1>3, <1>4, <1>5 DEF FlagsTold, t

LEMMA FlagsTakeTold ==
  ASSUME NEW s, FlagsOK(s), FlagsTold(s), NEW c \in Clients, ci[c].team \in Teams, NEW i, NEW r, MayTake(s, c, i)
  PROVE  FlagsTold(Take(s, c, i, r))
<1>1. ~s.notgot /\ i \in DOMAIN s.flags /\ (Hold \/ s.flags[i].team \in Teams) BY DEF MayTake
<1>2. ~Orphaned(s) BY <1>1 DEF Orphaned, Orphan, Hold, Protect
<1>3. Right(s) /\ Sided(s) BY <1>1, <1>2 DEF FlagsTold
<1>4. LET t == Take(s, c, i, r) IN Right(t) /\ t.notgot = s.notgot BY <1>3, TakeRight
<1>5. Sided(Take(s, c, i, r))
  <2>1. Takes(s, Take(s, c, i, r), c) BY TakeTakes
  <2>2. Protect => ~Hold BY DEF Hold, Protect
  <2> QED BY <1>3, <2>1, <2>2 DEF Takes, Taken, Same, Home, Sided
<1> QED BY <1>1, <1>4, <1>5 DEF FlagsTold

\* update leaves the flags that belong to no team as they are.
LEMMA OrphansUpdate ==
  ASSUME NEW s, FlagsOK(s), Orphaned(s), ~s.notgot, NEW r
  PROVE  FlagsUpdate(s, r) = s
<1>1. ~Hold BY DEF Orphaned, Hold, Protect
<1>2. ASSUME NEW i \in DOMAIN s.flags PROVE UpdateFlag(s, i, r) = s
  <2>1. s.flags[i].owner = Nobody /\ s.flags[i].droptime = 0 /\ s.flags[i].invistime = 0 BY DEF Orphaned, Orphan
  <2>2. TickDropped(s, i, r) = s BY <2>1 DEF TickDropped
  <2>3. TickInvisible(s, i) = s BY <2>1 DEF TickInvisible
  <2>4. TickHeld(s, i, r) = s BY <1>1 DEF TickHeld
  <2> QED BY <2>2, <2>3, <2>4 DEF UpdateFlag
<1>3. 1 \in DOMAIN s.flags BY DEF FlagsOK
<1> QED BY <1>2, <1>3 DEF FlagsUpdate

\* The clock moves, and update runs.
LEMMA FlagsTickTold ==
  ASSUME NEW s, FlagsOK(s), FlagsTold(s), Manned(s), \A c \in Clients : ci[c].team \in Teams, NEW r,
         NEW now \in Nat, s.now <= now
  PROVE  FlagsTold(FlagsUpdate([s EXCEPT !.now = now], r))
<1> DEFINE a == [s EXCEPT !.now = now]
<1>1. /\ DOMAIN a = StateFields /\ a.now = now /\ a.flags = s.flags /\ a.scores = s.scores /\ a.notgot = s.notgot /\ a.seen = s.seen
  BY DEF FlagsOK, StateFields
<1> HIDE DEF a
<1>2. now # 0 /\ s.now \in Nat BY DEF FlagsOK
<1>3. FlagsOK(a) BY <1>1, <1>2 DEF FlagsOK, FlagOK
<1>4. CASE s.notgot
  <2>1. FlagsUpdate(a, r) = a BY <1>1, <1>4 DEF FlagsUpdate
  <2> QED BY <1>1, <1>4, <2>1 DEF FlagsTold, Waiting, a
<1>5. CASE ~s.notgot /\ Orphaned(s)
  <2>1. Orphaned(a) BY <1>1, <1>5 DEF Orphaned
  <2>2. FlagsUpdate(a, r) = a BY <1>1, <1>3, <1>5, <2>1, OrphansUpdate
  <2> QED BY <1>1, <1>5, <2>1, <2>2 DEF FlagsTold, a
<1>6. CASE ~s.notgot /\ Right(s) /\ Sided(s)
  <2>1. Right(a) BY <1>1, <1>2, <1>6 DEF Right, Copy, Shape
  <2>2. Manned(a) BY <1>1 DEF Manned
  <2>3. LET t == FlagsUpdate(a, r) IN Right(t) /\ t.notgot = a.notgot BY <1>1, <1>3, <1>6, <2>1, <2>2, UpdateRight
  <2>4. Sided(FlagsUpdate(a, r))
    <3>1. Ticks(a, FlagsUpdate(a, r)) BY <1>3, FlagsUpdateTicks
    <3>2. Sided(a) BY <1>1, <1>6 DEF Sided
    <3> QED BY <3>1, <3>2 DEF Ticks, Same, Home, Sided
  <2> QED BY <1>1, <1>6, <2>3, <2>4 DEF FlagsTold, a
<1> QED BY <1>4, <1>5, <1>6 DEF FlagsOK, FlagsTold

-----------------------------------------------------------------------------
(* What clients are told of bases and skulls.                               *)

CaptureFields == {"bases", "scores", "notgot", "now", "ended", "seen"}
BaseFields == {"owner", "enemy", "owners", "enemies", "converted", "capturetime", "ammo", "strays"}
BasesRight(s) ==
  /\ DOMAIN s = CaptureFields
  /\ Fcn(s.bases, DOMAIN s.bases) /\ \E n \in Nat : DOMAIN s.bases = 1..n
  /\ \A b \in DOMAIN s.bases : DOMAIN s.bases[b] = BaseFields
  /\ Fcn(s.scores, Teams)
  /\ s.seen = BaseView(s)

CollectFields == {"tokens", "next", "laststeal", "scores", "notgot", "now", "ended", "seen"}
TokenFields == {"id", "team", "o", "dropper", "droptime"}
IsSequence(s) == \E S : s \in Seq(S)
Shows(tokens, g) == \E i \in DOMAIN tokens : TokenShown(tokens[i]) = g
SkullsRight(s) ==
  /\ DOMAIN s = CollectFields
  /\ IsSequence(s.tokens) /\ \A i \in DOMAIN s.tokens : DOMAIN s.tokens[i] = TokenFields
  /\ Fcn(s.scores, Teams)
  /\ s.seen = [tokens |-> s.seen.tokens, scores |-> s.scores]
  /\ \A g \in s.seen.tokens : Shows(s.tokens, g)

\* What a sweep took from the skulls of base it names.
SweepFields == {"tokens", "own", "other", "gone"}
SweptRight(base, l) ==
  /\ DOMAIN l = SweepFields
  /\ IsSequence(l.tokens) /\ \A i \in DOMAIN l.tokens : DOMAIN l.tokens[i] = TokenFields
  /\ \A j \in DOMAIN base.tokens : base.tokens[j].id \in l.gone \/ Shows(l.tokens, TokenShown(base.tokens[j]))

-----------------------------------------------------------------------------
(* The loops of the modes, by kind; p is what the loop holds fixed.         *)

BaseLoops == {"moves", "updates", "enters"}
Sweeps == {"crowds", "disowns", "ages"}
Step(kind, p, s, e) ==
  CASE kind = "moves" -> MoveBase(s, e, p[1], p[2], p[3])
    [] kind = "updates" -> UpdateBase(s, e)
    [] kind = "enters" -> BasesEnterGame(s, e)
    [] kind = "drops" -> DropToken(s, p[1], IF e = 1 THEN p[2] ELSE -p[2], p[3])
    [] kind = "crowds" -> Crowding(s, e, p)
    [] kind = "disowns" -> Disowned(s, e, p)
    [] OTHER -> Aged(s, e, p)

\* The sweeps run from the last to the first.
Backward(kind) == kind \in Sweeps
Turning(kind, S) == IF Backward(kind) THEN Min(S) ELSE Max(S)
IsLoop(t, kind, p, base, seq) ==
  t = [s \in SUBSET DOMAIN seq |->
         IF s = {} THEN base ELSE LET x == Turning(kind, s) IN Step(kind, p, t[s \ {x}], seq[x])]
Looped(kind, p, base, seq) == (CHOOSE t : IsLoop(t, kind, p, base, seq))[DOMAIN seq]

\* What k turns of a loop that starts from base keep.
LoopOK(kind, base, u, k) ==
  IF kind \in BaseLoops THEN BasesRight(u) /\ u.notgot = base.notgot /\ DOMAIN u.bases = DOMAIN base.bases
  ELSE IF kind = "drops" THEN SkullsRight(u)
  ELSE SweptRight(base, u) /\ Len(u.tokens) + k >= Len(base.tokens)

Indices(seq, n) == {s \in SUBSET DOMAIN seq : Cardinality(s) <= n}
IsLoopTo(t, kind, p, base, seq, n) ==
  t = [s \in Indices(seq, n) |->
         IF s = {} THEN base ELSE LET x == Turning(kind, s) IN Step(kind, p, t[s \ {x}], seq[x])]

LEMMA GreatestIn ==
  ASSUME NEW n \in Nat, NEW s \in SUBSET (1 .. n), s # {}
  PROVE  Max(s) \in s /\ \A y \in s : Max(s) >= y
<1> DEFINE R == {n - x : x \in s}
<1>1. R \in SUBSET Nat /\ R # {}
  <2>1. \A x \in s : x \in 1 .. n OBVIOUS
  <2>2. \A x \in 1 .. n : n - x \in Nat OBVIOUS
  <2> QED BY <2>1, <2>2
<1>2. PICK r \in R : \A q \in R : r <= q BY <1>1, LeastNat
<1>3. PICK x \in s : r = n - x OBVIOUS
<1>4. \A y \in s : x >= y
  <2> SUFFICES ASSUME NEW y \in s PROVE x >= y OBVIOUS
  <2>1. n - x <= n - y BY <1>2, <1>3
  <2>2. x \in Nat /\ y \in Nat OBVIOUS
  <2> QED BY <2>1, <2>2
<1> QED BY <1>4 DEF Max

LEMMA LowestIn ==
  ASSUME NEW n \in Nat, NEW s \in SUBSET (1 .. n), s # {}
  PROVE  Min(s) \in s /\ \A y \in s : Min(s) <= y
<1>1. s \in SUBSET Nat
  <2>1. \A x \in 1 .. n : x \in Nat OBVIOUS
  <2> QED BY <2>1
<1>2. PICK x \in s : \A y \in s : x <= y BY <1>1, LeastNat
<1> QED BY <1>2 DEF Min

LEMMA SizeOf ==
  ASSUME NEW n \in Nat
  PROVE  IsFiniteSet(1 .. n) /\ Cardinality(1 .. n) = n
<1>1. IsFiniteSet(1 .. n) /\ Cardinality(1 .. n) = IF 1 > n THEN 0 ELSE n - 1 + 1 BY FS_Interval
<1>2. (IF 1 > n THEN 0 ELSE n - 1 + 1) = n OBVIOUS
<1> QED BY <1>1, <1>2

LEMMA IndexSets ==
  ASSUME NEW seq, IsSequence(seq)
  PROVE  /\ \A s \in SUBSET DOMAIN seq : IsFiniteSet(s) /\ Cardinality(s) \in Nat /\ (Cardinality(s) = 0 <=> s = {})
         /\ Indices(seq, Len(seq)) = SUBSET DOMAIN seq /\ Len(seq) \in Nat /\ DOMAIN seq = 1 .. Len(seq)
         /\ Cardinality(DOMAIN seq) = Len(seq)
<1>1. DOMAIN seq = 1 .. Len(seq) /\ Len(seq) \in Nat BY DEF IsSequence
<1> DEFINE n == Len(seq)
<1> HIDE DEF n
<1>2. IsFiniteSet(1 .. n) /\ Cardinality(1 .. n) = n BY <1>1, SizeOf DEF n
<1>3. \A s \in SUBSET (1 .. n) : IsFiniteSet(s) /\ Cardinality(s) <= n BY <1>2, FS_Subset
<1>4. \A s \in SUBSET (1 .. n) : Cardinality(s) \in Nat /\ (Cardinality(s) = 0 <=> s = {})
  BY <1>3, FS_CardinalityType, FS_EmptySet
<1> QED BY <1>1, <1>2, <1>3, <1>4 DEF Indices, n

\* The index of a loop's last turn, and what the turns before it leave.
LEMMA FewerIndices ==
  ASSUME NEW kind, NEW seq, IsSequence(seq), NEW s \in SUBSET DOMAIN seq, s # {}
  PROVE  LET x == Turning(kind, s)
         IN /\ x \in s /\ s \ {x} \in SUBSET DOMAIN seq
            /\ Cardinality(s) \in Nat \ {0} /\ Cardinality(s \ {x}) = Cardinality(s) - 1
            /\ Backward(kind) => Cardinality(s \ {x}) + x <= Len(seq)
<1> DEFINE x == Turning(kind, s)
           n == Len(seq)
<1>1. DOMAIN seq = 1 .. n /\ n \in Nat BY IndexSets
<1> HIDE DEF n
<1>2. x \in s /\ (Backward(kind) => \A y \in s : x <= y) BY <1>1, GreatestIn, LowestIn DEF Turning
<1> HIDE DEF x
<1>3. IsFiniteSet(s) /\ Cardinality(s) \in Nat /\ Cardinality(s) # 0 BY IndexSets
<1>4. Cardinality(s \ {x}) = Cardinality(s) - 1 BY <1>2, <1>3, FS_RemoveElement
<1>5. ASSUME Backward(kind) PROVE Cardinality(s \ {x}) + x <= n
  <2>1. x \in 1 .. n /\ \A y \in s : y \in 1 .. n BY <1>1, <1>2
  <2>2. s \ {x} \in SUBSET ((x + 1) .. n) BY <1>2, <1>5, <2>1
  <2>3. IsFiniteSet((x + 1) .. n) /\ Cardinality((x + 1) .. n) = IF x + 1 > n THEN 0 ELSE n - (x + 1) + 1
    BY <1>1, <2>1, FS_Interval
  <2>4. (IF x + 1 > n THEN 0 ELSE n - (x + 1) + 1) = n - x BY <1>1, <2>1
  <2>5. Cardinality(s \ {x}) <= Cardinality((x + 1) .. n) BY <2>2, <2>3, FS_Subset
  <2> DEFINE d == Cardinality(s \ {x})
  <2>6. d <= n - x /\ d \in Int BY <1>3, <1>4, <2>3, <2>4, <2>5
  <2> HIDE DEF d
  <2>7. d + x <= n BY <1>1, <2>1, <2>6
  <2> QED BY <2>7 DEF d
<1> QED BY <1>2, <1>3, <1>4, <1>5 DEF x, n

LEMMA LoopStep ==
  ASSUME NEW kind, NEW p, NEW base, NEW seq, IsSequence(seq), NEW n \in Nat \ {0}, NEW u,
         IsLoopTo(u, kind, p, base, seq, n - 1)
  PROVE  \E t : IsLoopTo(t, kind, p, base, seq, n)
<1> DEFINE t == [s \in Indices(seq, n) |->
                   IF s = {} THEN base ELSE LET x == Turning(kind, s) IN Step(kind, p, u[s \ {x}], seq[x])]
<1>1. ASSUME NEW s \in Indices(seq, n - 1) PROVE t[s] = u[s]
  <2>1. s \in Indices(seq, n) BY IndexSets DEF Indices
  <2>2. u[s] = IF s = {} THEN base ELSE LET x == Turning(kind, s) IN Step(kind, p, u[s \ {x}], seq[x])
    BY DEF IsLoopTo
  <2> QED BY <2>1, <2>2
<1>2. ASSUME NEW s \in Indices(seq, n), s # {}
      PROVE  t[s] = LET x == Turning(kind, s) IN Step(kind, p, t[s \ {x}], seq[x])
  <2> DEFINE x == Turning(kind, s)
  <2>1. s \in SUBSET DOMAIN seq /\ Cardinality(s) <= n BY DEF Indices
  <2>0. s \ {x} \in SUBSET DOMAIN seq /\ Cardinality(s) \in Nat /\ Cardinality(s \ {x}) = Cardinality(s) - 1
    BY <1>2, <2>1, FewerIndices
  <2> HIDE DEF x
  <2>2. s \ {x} \in Indices(seq, n - 1)
    <3>1. Cardinality(s \ {x}) <= n - 1 BY <2>0, <2>1
    <3> QED BY <2>0, <3>1 DEF Indices
  <2>3. t[s \ {x}] = u[s \ {x}] BY <1>1, <2>2
  <2> HIDE DEF t
  <2>4. t[s] = Step(kind, p, u[s \ {x}], seq[x]) BY <1>2 DEF t, x
  <2>5. t[s] = Step(kind, p, t[s \ {x}], seq[x]) BY <2>3, <2>4
  <2> QED BY <2>5 DEF x
<1>3. ASSUME {} \in Indices(seq, n) PROVE t[{}] = base BY <1>3
<1>4. t = [s \in Indices(seq, n) |-> t[s]] OBVIOUS
<1> HIDE DEF t
<1>5. IsLoopTo(t, kind, p, base, seq, n)
  BY <1>2, <1>3, <1>4 DEF IsLoopTo
<1> QED BY <1>5

LEMMA LoopExists ==
  ASSUME NEW kind, NEW p, NEW base, NEW seq, IsSequence(seq)
  PROVE  \E t : IsLoop(t, kind, p, base, seq)
<1> DEFINE Bad == {n \in Nat : ~\E t : IsLoopTo(t, kind, p, base, seq, n)}
<1>1. Bad = {}
  <2> SUFFICES ASSUME Bad # {} PROVE FALSE OBVIOUS
  <2>1. PICK n \in Bad : \A k \in Bad : n <= k BY LeastNat
  <2>2. n # 0
    <3>1. \A s \in Indices(seq, 0) : s = {} BY IndexSets DEF Indices
    <3>2. IsLoopTo([s \in Indices(seq, 0) |-> base], kind, p, base, seq, 0) BY <3>1 DEF IsLoopTo
    <3> QED BY <3>2
  <2>3. n - 1 \in Nat /\ n - 1 \notin Bad BY <2>1, <2>2
  <2>4. PICK u : IsLoopTo(u, kind, p, base, seq, n - 1) BY <2>3
  <2> QED BY <2>1, <2>2, <2>4, LoopStep
<1>2. Len(seq) \in Nat BY IndexSets
<1>3. \E t : IsLoopTo(t, kind, p, base, seq, Len(seq)) BY <1>1, <1>2
<1> QED BY <1>3, IndexSets DEF IsLoop, IsLoopTo

\* A loop keeps what each of its turns keeps.
LEMMA LoopKeeps ==
  ASSUME NEW kind, NEW p, NEW base, NEW seq, IsSequence(seq), LoopOK(kind, base, base, 0),
         ASSUME NEW u, NEW k \in Nat, NEW i \in DOMAIN seq, LoopOK(kind, base, u, k), Backward(kind) => k + i <= Len(seq)
         PROVE  LoopOK(kind, base, Step(kind, p, u, seq[i]), k + 1)
  PROVE  LoopOK(kind, base, Looped(kind, p, base, seq), Len(seq))
<1> DEFINE t == CHOOSE u : IsLoop(u, kind, p, base, seq)
<1>1. IsLoop(t, kind, p, base, seq)
  BY LoopExists
<1> HIDE DEF t
<1> DEFINE Bad == {n \in Nat : \E s \in SUBSET DOMAIN seq : Cardinality(s) = n /\ ~LoopOK(kind, base, t[s], n)}
<1>2. Bad = {}
  <2> SUFFICES ASSUME Bad # {} PROVE FALSE OBVIOUS
  <2>1. PICK n \in Bad : \A k \in Bad : n <= k BY LeastNat
  <2>2. PICK s \in SUBSET DOMAIN seq : Cardinality(s) = n /\ ~LoopOK(kind, base, t[s], n) BY <2>1
  <2>3. t[s] = IF s = {} THEN base ELSE LET x == Turning(kind, s) IN Step(kind, p, t[s \ {x}], seq[x])
    BY <1>1 DEF IsLoop
  <2>4. s # {}
    <3>1. s = {} => n = 0 BY <2>2, IndexSets
    <3> QED BY <2>2, <2>3, <3>1
  <2> DEFINE x == Turning(kind, s)
  <2>5. t[s] = Step(kind, p, t[s \ {x}], seq[x]) BY <2>3, <2>4
  <2>6. x \in DOMAIN seq /\ s \ {x} \in SUBSET DOMAIN seq /\ (Backward(kind) => Cardinality(s \ {x}) + x <= Len(seq))
    BY <2>4, FewerIndices
  <2>7. Cardinality(s) \in Nat \ {0} /\ Cardinality(s \ {x}) = Cardinality(s) - 1 BY <2>4, FewerIndices
  <2> HIDE DEF x
  <2>11. Cardinality(s \ {x}) = n - 1 /\ n - 1 \in Nat BY <2>2, <2>7
  <2>8. n - 1 \notin Bad BY <2>1, <2>11
  <2> DEFINE k == n - 1
  <2>9. LoopOK(kind, base, t[s \ {x}], k) BY <2>6, <2>11, <2>8
  <2>10. k + 1 = n /\ k \in Nat /\ (Backward(kind) => k + x <= Len(seq)) BY <2>6, <2>11
  <2> HIDE DEF k
  <2> QED BY <2>2, <2>5, <2>6, <2>9, <2>10
<1>3. Cardinality(DOMAIN seq) = Len(seq) /\ Len(seq) \in Nat
  BY IndexSets
<1>4. LoopOK(kind, base, t[DOMAIN seq], Len(seq))
  BY <1>2, <1>3
<1> QED BY <1>4 DEF Looped, t

-----------------------------------------------------------------------------
(* Bases.                                                                   *)

\* The bases and their copy are right after s as before.
Held(s, t) == BasesRight(t) /\ t.notgot = s.notgot /\ DOMAIN t.bases = DOMAIN s.bases

LEMMA HeldTwice ==
  ASSUME NEW s, NEW t, NEW u, Held(s, t), Held(t, u)
  PROVE  Held(s, u)
BY DEF Held

LEMMA SeenBases ==
  ASSUME NEW s, BasesRight(s)
  PROVE  /\ s.seen = [bases |-> s.seen.bases, scores |-> s.scores]
         /\ s.seen.bases = [b \in DOMAIN s.bases |-> BaseShown(s.bases[b])] /\ s.seen.scores = s.scores
BY DEF BasesRight, BaseView

\* What is told of base b is what it shows.
LEMMA BaseSent ==
  ASSUME NEW s, BasesRight(s), NEW b \in DOMAIN s.bases, NEW x, DOMAIN x = BaseFields
  PROVE  Held(s, SendBase([s EXCEPT !.bases[b] = x], b))
<1> DEFINE a == [s EXCEPT !.bases[b] = x]
           q == [s.seen.bases EXCEPT ![b] = BaseShown(x)]
           t == SendBase(a, b)
<1>1. DOMAIN s = CaptureFields /\ Fcn(s.bases, DOMAIN s.bases) BY DEF BasesRight
<1>2. /\ DOMAIN a = CaptureFields /\ a.bases = [s.bases EXCEPT ![b] = x] /\ a.scores = s.scores /\ a.notgot = s.notgot /\ a.seen = s.seen
  BY <1>1 DEF CaptureFields
<1>3. DOMAIN a.bases = DOMAIN s.bases /\ a.bases[b] = x /\ \A d \in DOMAIN s.bases : d # b => a.bases[d] = s.bases[d]
  BY <1>2
<1> HIDE DEF a
<1>4. t = [a EXCEPT !.seen.bases[b] = BaseShown(x)] BY <1>3 DEF SendBase
<1> HIDE DEF t
<1>5. /\ DOMAIN t = CaptureFields /\ t.bases = a.bases /\ t.scores = s.scores /\ t.notgot = s.notgot
      /\ t.seen = [s.seen EXCEPT !.bases = q]
  BY <1>2, <1>4 DEF CaptureFields
<1>6. q = [d \in DOMAIN t.bases |-> BaseShown(t.bases[d])]
  <2>1. s.seen.bases = [d \in DOMAIN s.bases |-> BaseShown(s.bases[d])] BY SeenBases
  <2> QED BY <1>3, <1>5, <2>1
<1> HIDE DEF q
<1>7. t.seen = [bases |-> q, scores |-> t.scores] BY <1>5, SeenBases, ZenonT(60)
<1>8. t.seen = BaseView(t) BY <1>6, <1>7 DEF BaseView
<1>9. \A d \in DOMAIN t.bases : DOMAIN t.bases[d] = BaseFields BY <1>3, <1>5 DEF BasesRight
<1>10. Fcn(t.bases, DOMAIN t.bases) BY <1>2, <1>5 DEF Fcn
<1>11. DOMAIN t.bases = DOMAIN s.bases BY <1>3, <1>5
<1> QED BY <1>5, <1>8, <1>9, <1>10, <1>11 DEF Held, BasesRight, t, a

\* A base that shows as before need not be told of.
LEMMA BaseQuiet ==
  ASSUME NEW s, BasesRight(s), NEW b \in DOMAIN s.bases, NEW x, DOMAIN x = BaseFields, BaseShown(x) = BaseShown(s.bases[b])
  PROVE  Held(s, [s EXCEPT !.bases[b] = x])
<1> DEFINE t == [s EXCEPT !.bases[b] = x]
<1>1. DOMAIN s = CaptureFields /\ Fcn(s.bases, DOMAIN s.bases) BY DEF BasesRight
<1>2. /\ DOMAIN t = CaptureFields /\ t.bases = [s.bases EXCEPT ![b] = x] /\ t.scores = s.scores /\ t.notgot = s.notgot /\ t.seen = s.seen
  BY <1>1 DEF CaptureFields
<1> HIDE DEF t
<1>3. DOMAIN t.bases = DOMAIN s.bases /\ t.bases[b] = x /\ \A d \in DOMAIN s.bases : d # b => t.bases[d] = s.bases[d]
  BY <1>2
<1>4. [d \in DOMAIN s.bases |-> BaseShown(s.bases[d])] = [d \in DOMAIN t.bases |-> BaseShown(t.bases[d])]
  BY <1>3
<1>8. /\ s.seen = [bases |-> s.seen.bases, scores |-> s.scores] /\ s.seen.bases = [d \in DOMAIN s.bases |-> BaseShown(s.bases[d])]
  BY SeenBases
<1>9. BaseView(t) = [bases |-> [d \in DOMAIN t.bases |-> BaseShown(t.bases[d])], scores |-> t.scores] BY DEF BaseView
<1> DEFINE v == [d \in DOMAIN t.bases |-> BaseShown(t.bases[d])]
<1>10. s.seen.bases = v BY <1>4, <1>8
<1> HIDE DEF v
<1>5. t.seen = BaseView(t) BY <1>2, <1>8, <1>9, <1>10 DEF v
<1>6. \A d \in DOMAIN t.bases : DOMAIN t.bases[d] = BaseFields BY <1>3 DEF BasesRight
<1>7. Fcn(t.bases, DOMAIN t.bases) BY <1>2 DEF Fcn
<1> QED BY <1>2, <1>3, <1>5, <1>6, <1>7 DEF Held, BasesRight, t

\* A score, told.
LEMMA BaseScored ==
  ASSUME NEW s, BasesRight(s), NEW team, NEW v
  PROVE  LET t == SeeScore([s EXCEPT !.scores[team] = v], team) IN Held(s, t) /\ t.bases = s.bases
<1> DEFINE a == [s EXCEPT !.scores[team] = v]
           q == [s.seen.scores EXCEPT ![team] = a.scores[team]]
           t == SeeScore(a, team)
<1>1. DOMAIN s = CaptureFields BY DEF BasesRight
<1>2. /\ DOMAIN a = CaptureFields /\ a.scores = [s.scores EXCEPT ![team] = v] /\ a.bases = s.bases /\ a.notgot = s.notgot /\ a.seen = s.seen
  BY <1>1 DEF CaptureFields
<1> HIDE DEF a
<1>3. t = [a EXCEPT !.seen.scores[team] = a.scores[team]] BY DEF SeeScore
<1> HIDE DEF t
<1>4. /\ DOMAIN t = CaptureFields /\ t.bases = s.bases /\ t.scores = a.scores /\ t.notgot = s.notgot
      /\ t.seen = [s.seen EXCEPT !.scores = q]
  BY <1>2, <1>3 DEF CaptureFields
<1>5. Fcn(s.scores, Teams) /\ s.seen.scores = s.scores BY SeenBases DEF BasesRight
<1>6. q = a.scores /\ Fcn(a.scores, Teams) BY <1>2, <1>5 DEF Fcn
<1> HIDE DEF q
<1>7. s.seen.bases = [d \in DOMAIN s.bases |-> BaseShown(s.bases[d])] BY SeenBases
<1>8. s.seen.bases = [d \in DOMAIN t.bases |-> BaseShown(t.bases[d])] BY <1>4, <1>7
<1>10. s.seen = [bases |-> s.seen.bases, scores |-> s.scores] BY SeenBases
<1> DEFINE old == s.seen.bases
<1>11. s.seen = [bases |-> old, scores |-> s.scores] BY <1>10
<1>13. t.seen = [s.seen EXCEPT !.scores = t.scores] BY <1>4, <1>6
<1>12. BaseView(t) = [bases |-> old, scores |-> t.scores] BY <1>8 DEF BaseView
<1> HIDE DEF old
<1>14. t.seen = BaseView(t) BY <1>11, <1>12, <1>13
<1> QED BY <1>4, <1>6, <1>14 DEF Held, BasesRight, t, a

LEMMA BasesEnded ==
  ASSUME NEW s, BasesRight(s)
  PROVE  LET t == Intermission(s) IN Held(s, t) /\ t.bases = s.bases
<1> DEFINE t == Intermission(s)
<1>1. /\ DOMAIN t = CaptureFields /\ t.bases = s.bases /\ t.scores = s.scores /\ t.notgot = s.notgot /\ t.seen = s.seen
  BY DEF BasesRight, CaptureFields, Intermission
<1> HIDE DEF t
<1> QED BY <1>1 DEF Held, BasesRight, BaseView, t

-----------------------------------------------------------------------------
(* movebases.                                                               *)

LEMMA LeftBase ==
  ASSUME NEW b, DOMAIN b = BaseFields, NEW team
  PROVE  DOMAIN Leave(b, team) = BaseFields /\ BaseShown(Leave(b, team)) = BaseShown(b)
BY DEF Leave, BaseFields, BaseShown

LEMMA EnteredBase ==
  ASSUME NEW b, DOMAIN b = BaseFields, NEW team
  PROVE  DOMAIN Enter(b, team) = BaseFields /\ (~EnterTells(b, team) => BaseShown(Enter(b, team)) = BaseShown(b))
<1> DEFINE e == Enter(b, team)
<1>1. CASE b.owner = team
  <2>1. e = [b EXCEPT !.owners = @ + 1] BY <1>1 DEF Enter
  <2> HIDE DEF e
  <2> QED BY <2>1 DEF BaseFields, BaseShown, e
<1>2. CASE b.owner /= team /\ b.enemies = 0
  <2>1. \E v : e = [b EXCEPT !.enemy = team, !.enemies = 1, !.converted = v]
    <3>1. e = [b EXCEPT !.enemy = team, !.enemies = 1, !.converted = IF b.enemy = team THEN @ ELSE 0] BY <1>2 DEF Enter
    <3> HIDE DEF e
    <3>2. e = [b EXCEPT !.enemy = team, !.enemies = 1, !.converted = IF b.enemy = team THEN b.converted ELSE 0] BY <3>1 DEF BaseFields
    <3> QED BY <3>2
  <2> HIDE DEF e
  <2> QED BY <1>2, <2>1 DEF BaseFields, EnterTells, e
<1>3. CASE b.owner /= team /\ b.enemies # 0
  <2>1. e = IF b.enemy = team THEN [b EXCEPT !.enemies = @ + 1] ELSE b BY <1>3 DEF Enter
  <2> HIDE DEF e
  <2> QED BY <2>1 DEF BaseFields, BaseShown, e
<1> QED BY <1>1, <1>2, <1>3

LEMMA StealHeld ==
  ASSUME NEW s, BasesRight(s), NEW b \in DOMAIN s.bases, NEW team
  PROVE  Held(s, StealBase(s, b, team))
<1> DEFINE n == Cardinality({c \in Clients : Inside(c, b, team)})
           once == Enter(s.bases[b], team)
           x == IF n = 0 THEN s.bases[b]
                ELSE [once EXCEPT !.enemies = n, !.strays = IF @ < Strays(b, team) THEN Strays(b, team) ELSE @]
<1>1. StealBase(s, b, team) = SendBase([s EXCEPT !.bases[b] = x], b) BY DEF StealBase
<1>2. DOMAIN s.bases[b] = BaseFields BY DEF BasesRight
<1>3. DOMAIN once = BaseFields BY <1>2, EnteredBase
<1> HIDE DEF n, once
<1>4. DOMAIN x = BaseFields BY <1>2, <1>3
<1> HIDE DEF x
<1> QED BY <1>1, <1>4, BaseSent

LEMMA MoveHeld ==
  ASSUME NEW s, BasesRight(s), NEW b \in DOMAIN s.bases, NEW team, NEW from, NEW to
  PROVE  Held(s, MoveBase(s, b, team, from, to))
<1> DEFINE t == MoveBase(s, b, team, from, to)
           bs == s.bases[b]
           l == [s EXCEPT !.bases[b] = Leave(@, team)]
           e == [s EXCEPT !.bases[b] = Enter(@, team)]
<1>1. DOMAIN bs = BaseFields /\ DOMAIN s = CaptureFields BY DEF BasesRight
<1>2. l = [s EXCEPT !.bases[b] = Leave(bs, team)] /\ e = [s EXCEPT !.bases[b] = Enter(bs, team)] BY <1>1 DEF CaptureFields
<1>3. CASE from = b /\ to # b
  <2>1. t = IF LeaveTells(bs, team) THEN SendBase(l, b) ELSE l BY <1>3 DEF MoveBase, SendBaseIf
  <2>2. DOMAIN Leave(bs, team) = BaseFields /\ BaseShown(Leave(bs, team)) = BaseShown(bs) BY <1>1, LeftBase
  <2> HIDE DEF l, t
  <2> QED BY <1>2, <2>1, <2>2, BaseSent, BaseQuiet DEF t
<1>4. CASE from # b /\ to = b
  <2>1. t = IF EnterTells(bs, team) THEN SendBase(e, b) ELSE e BY <1>4 DEF MoveBase, SendBaseIf
  <2>2. DOMAIN Enter(bs, team) = BaseFields /\ (~EnterTells(bs, team) => BaseShown(Enter(bs, team)) = BaseShown(bs)) BY <1>1, EnteredBase
  <2> HIDE DEF e, t
  <2> QED BY <1>2, <2>1, <2>2, BaseSent, BaseQuiet DEF t
<1>5. CASE from = b /\ to = b
  <2>1. t = IF Steal(bs, team) THEN StealBase(s, b, team) ELSE s BY <1>5 DEF MoveBase
  <2> HIDE DEF t
  <2> QED BY <2>1, StealHeld DEF Held, t
<1>6. CASE from # b /\ to # b
  <2>1. t = s BY <1>6 DEF MoveBase
  <2> HIDE DEF t
  <2> QED BY <2>1 DEF Held, t
<1> QED BY <1>3, <1>4, <1>5, <1>6

\* A loop over the bases, or over the clients.
LEMMA BaseLoop ==
  ASSUME NEW kind \in BaseLoops, NEW p, NEW base, BasesRight(base), NEW seq, IsSequence(seq),
         ASSUME NEW u, Held(base, u), NEW i \in DOMAIN seq PROVE Held(u, Step(kind, p, u, seq[i]))
  PROVE  Held(base, Looped(kind, p, base, seq))
<1>1. kind \in BaseLoops OBVIOUS
<1>2. \A u, k : LoopOK(kind, base, u, k) <=> Held(base, u) BY <1>1 DEF LoopOK, Held
<1>3. LoopOK(kind, base, base, 0) BY <1>2 DEF Held
<1>4. ASSUME NEW u, NEW k \in Nat, NEW i \in DOMAIN seq, LoopOK(kind, base, u, k), Backward(kind) => k + i <= Len(seq)
      PROVE  LoopOK(kind, base, Step(kind, p, u, seq[i]), k + 1)
  <2>1. Held(base, u) BY <1>2, <1>4
  <2>2. Held(u, Step(kind, p, u, seq[i])) BY <2>1
  <2> QED BY <1>2, <2>1, <2>2, HeldTwice
<1>5. LoopOK(kind, base, Looped(kind, p, base, seq), Len(seq)) BY <1>3, <1>4, LoopKeeps
<1> QED BY <1>2, <1>5

LEMMA BaseIndices ==
  ASSUME NEW s, BasesRight(s)
  PROVE  LET seq == [b \in DOMAIN s.bases |-> b] IN IsSequence(seq) /\ DOMAIN seq = DOMAIN s.bases /\ \A i \in DOMAIN seq : seq[i] = i
<1> DEFINE seq == [b \in DOMAIN s.bases |-> b]
<1>1. PICK n \in Nat : DOMAIN s.bases = 1..n BY DEF BasesRight
<1>2. seq \in Seq(1..n) BY <1>1
<1> QED BY <1>2 DEF IsSequence

LEMMA MovesHeld ==
  ASSUME NEW s, BasesRight(s), NEW team, NEW from, NEW to
  PROVE  Held(s, MoveBases(s, team, from, to))
<1> DEFINE seq == [b \in DOMAIN s.bases |-> b]
           p == <<team, from, to>>
<1>1. CASE s.ended BY <1>1 DEF MoveBases, Held
<1>2. CASE ~s.ended
  <2>1. MoveBases(s, team, from, to) = Looped("moves", p, s, seq)
    BY <1>2 DEF MoveBases, Looped, IsLoop, Turning, Backward, Sweeps, Step, FoldLeft, MapThenFoldSet
  <2>2. IsSequence(seq) /\ DOMAIN seq = DOMAIN s.bases /\ \A i \in DOMAIN seq : seq[i] = i BY BaseIndices
  <2> HIDE DEF seq
  <2>3. ASSUME NEW u, Held(s, u), NEW i \in DOMAIN seq PROVE Held(u, Step("moves", p, u, seq[i]))
    <3>1. Step("moves", p, u, seq[i]) = MoveBase(u, i, team, from, to) BY <2>2 DEF Step
    <3>2. BasesRight(u) /\ i \in DOMAIN u.bases BY <2>2, <2>3 DEF Held
    <3> HIDE DEF p
    <3> QED BY <3>1, <3>2, MoveHeld
  <2> HIDE DEF p
  <2> DEFINE moves == "moves"
  <2>4. moves \in BaseLoops BY DEF BaseLoops
  <2>5. ASSUME NEW u, Held(s, u), NEW i \in DOMAIN seq PROVE Held(u, Step(moves, p, u, seq[i])) BY <2>3, <2>5
  <2> HIDE DEF moves
  <2>6. Held(s, Looped(moves, p, s, seq)) BY <2>2, <2>4, <2>5, BaseLoop
  <2> QED BY <2>1, <2>6 DEF moves
<1> QED BY <1>1, <1>2

-----------------------------------------------------------------------------
(* update.                                                                  *)

LEMMA NoEnemyBase ==
  ASSUME NEW b, DOMAIN b = BaseFields
  PROVE  DOMAIN NoEnemy(b) = BaseFields
BY DEF NoEnemy, BaseFields

LEMMA OccupiedBase ==
  ASSUME NEW b, DOMAIN b = BaseFields, NEW team, NEW units
  PROVE  DOMAIN Occupy(b, team, units) = BaseFields
<1> DEFINE done == b.converted + units
           c == [b EXCEPT !.converted = done]
           free == [c EXCEPT !.owner = NoTeam, !.converted = 0, !.enemy = team]
           taken == [c EXCEPT !.owner = team, !.ammo = 0, !.capturetime = 0, !.owners = b.enemies]
           o == Occupy(b, team, units)
<1>1. DOMAIN c = BaseFields OBVIOUS
<1>2. DOMAIN free = BaseFields /\ DOMAIN taken = BaseFields BY <1>1
<1>3. DOMAIN NoEnemy(c) = BaseFields /\ DOMAIN NoEnemy(taken) = BaseFields BY <1>1, <1>2, NoEnemyBase
<1>4. o = b \/ o = c \/ o = NoEnemy(c) \/ o = free \/ o = NoEnemy(taken) BY DEF Occupy
<1> HIDE DEF o, c, free, taken
<1> QED BY <1>1, <1>2, <1>3, <1>4 DEF o

LEMMA AddScoreHeld ==
  ASSUME NEW s, BasesRight(s), NEW team, NEW n
  PROVE  LET t == AddBaseScore(s, team, n) IN Held(s, t) /\ t.bases = s.bases
<1> DEFINE t == AddBaseScore(s, team, n)
           v == s.scores[team] + n
           u == SeeScore([s EXCEPT !.scores[team] = v], team)
<1>1. DOMAIN s = CaptureFields BY DEF BasesRight
<1>2. AddScore(s, team, n) = [s EXCEPT !.scores[team] = v] BY <1>1 DEF AddScore, CaptureFields
<1>3. t = IF n = 0 THEN s ELSE u BY <1>2 DEF AddBaseScore
<1> HIDE DEF v
<1>4. Held(s, u) /\ u.bases = s.bases BY BaseScored
<1> HIDE DEF u, t
<1>5. Held(s, t) /\ t.bases = s.bases BY <1>3, <1>4 DEF Held
<1> QED BY <1>5 DEF t

LEMMA UpdateBaseHeld ==
  ASSUME NEW s, BasesRight(s), NEW i \in DOMAIN s.bases
  PROVE  Held(s, UpdateBase(s, i))
<1> DEFINE u == UpdateBase(s, i)
           b == s.bases[i]
           held == [b EXCEPT !.capturetime = @ + 1]
           ammo == held.capturetime \div AmmoSecs - b.capturetime \div AmmoSecs
           n == held.capturetime \div ScoreSecs - b.capturetime \div ScoreSecs
<1>1. DOMAIN b = BaseFields /\ DOMAIN s = CaptureFields BY DEF BasesRight
<1>2. CASE b.enemy /= NoTeam
  <2> DEFINE x == IF b.owners = 0 \/ b.enemies = 0 THEN Occupy(b, b.enemy, OccupyUnits(b)) ELSE b
  <2>1. u = SendBase([s EXCEPT !.bases[i] = x], i) BY <1>2 DEF UpdateBase
  <2>2. DOMAIN x = BaseFields
    <3>1. DOMAIN Occupy(b, b.enemy, OccupyUnits(b)) = BaseFields BY <1>1, OccupiedBase
    <3> QED BY <1>1, <3>1
  <2> HIDE DEF x, u
  <2> QED BY <2>1, <2>2, BaseSent DEF u
<1>3. CASE b.enemy = NoTeam /\ b.owner /= NoTeam
  <2> DEFINE a == [s EXCEPT !.bases[i] = held]
             t == AddBaseScore(a, b.owner, n)
             w == SendBase([t EXCEPT !.bases[i] = AddAmmo(@, ammo)], i)
  <2>1. u = IF ammo > 0 /\ AddAmmoTells(b) THEN w ELSE t BY <1>3 DEF UpdateBase
  <2>2. DOMAIN held = BaseFields /\ BaseShown(held) = BaseShown(b) BY <1>1 DEF BaseFields, BaseShown
  <2> HIDE DEF held, ammo, n
  <2>3. Held(s, a) BY <2>2, BaseQuiet
  <2>4. a.bases[i] = held BY <1>1 DEF CaptureFields
  <2> HIDE DEF a
  <2>5. Held(a, t) /\ t.bases = a.bases BY <2>3, AddScoreHeld DEF Held
  <2> HIDE DEF t
  <2>6. DOMAIN t = CaptureFields /\ i \in DOMAIN t.bases BY <2>3, <2>5 DEF Held, BasesRight
  <2>7. w = SendBase([t EXCEPT !.bases[i] = AddAmmo(t.bases[i], ammo)], i) BY <2>6 DEF CaptureFields
  <2>8. DOMAIN AddAmmo(t.bases[i], ammo) = BaseFields BY <2>2, <2>4, <2>5 DEF AddAmmo
  <2> HIDE DEF w
  <2>9. Held(t, w) BY <2>5, <2>6, <2>7, <2>8, BaseSent DEF Held
  <2>10. Held(s, t) BY <2>3, <2>5, HeldTwice
  <2>11. Held(s, w) BY <2>9, <2>10, HeldTwice
  <2> HIDE DEF u
  <2> QED BY <2>1, <2>10, <2>11 DEF u
<1>4. CASE b.enemy = NoTeam /\ b.owner = NoTeam
  <2>1. u = s BY <1>4 DEF UpdateBase
  <2> HIDE DEF u
  <2> QED BY <2>1 DEF Held, u
<1> QED BY <1>2, <1>3, <1>4

LEMMA EndCheckHeld ==
  ASSUME NEW s, BasesRight(s)
  PROVE  LET t == EndCheck(s) IN Held(s, t) /\ t.bases = s.bases
<1> DEFINE t == EndCheck(s)
           team == s.bases[1].owner
           a == SeeScore([s EXCEPT !.scores[team] = AllBases], team)
<1>1. t = Intermission(a) \/ t = s BY DEF EndCheck
<1> HIDE DEF team
<1>2. Held(s, a) /\ a.bases = s.bases BY BaseScored
<1> HIDE DEF a
<1> DEFINE e == Intermission(a)
<1>3. Held(a, e) /\ e.bases = a.bases BY <1>2, BasesEnded DEF Held
<1> HIDE DEF e
<1>4. Held(s, e) /\ e.bases = s.bases BY <1>2, <1>3, HeldTwice
<1>5. t = e \/ t = s BY <1>1 DEF e
<1> HIDE DEF t
<1>6. Held(s, t) /\ t.bases = s.bases BY <1>4, <1>5 DEF Held
<1> QED BY <1>6 DEF t

LEMMA BasesUpdateHeld ==
  ASSUME NEW s, BasesRight(s)
  PROVE  Held(s, BasesUpdate(s))
<1> DEFINE seq == [b \in DOMAIN s.bases |-> b]
           e == EndCheck(s)
<1>1. CASE s.ended BY <1>1 DEF BasesUpdate, Held
<1>2. CASE ~s.ended
  <2>1. BasesUpdate(s) = Looped("updates", 0, e, seq)
    BY <1>2 DEF BasesUpdate, Looped, IsLoop, Turning, Backward, Sweeps, Step, FoldLeft, MapThenFoldSet
  <2>2. IsSequence(seq) /\ DOMAIN seq = DOMAIN s.bases /\ \A i \in DOMAIN seq : seq[i] = i BY BaseIndices
  <2>3. Held(s, e) /\ e.bases = s.bases BY EndCheckHeld
  <2> HIDE DEF seq, e
  <2> DEFINE updates == "updates"
             p == 0
  <2>4. updates \in BaseLoops BY DEF BaseLoops
  <2>5. ASSUME NEW u, Held(e, u), NEW i \in DOMAIN seq PROVE Held(u, Step(updates, p, u, seq[i]))
    <3>1. Step(updates, p, u, seq[i]) = UpdateBase(u, i) BY <2>2 DEF Step
    <3>2. BasesRight(u) /\ i \in DOMAIN u.bases BY <2>2, <2>3, <2>5 DEF Held
    <3> HIDE DEF p, updates
    <3> QED BY <3>1, <3>2, UpdateBaseHeld
  <2> HIDE DEF updates, p
  <2>6. BasesRight(e) BY <2>3 DEF Held
  <2>7. Held(e, Looped(updates, p, e, seq)) BY <2>2, <2>4, <2>5, <2>6, BaseLoop
  <2>8. Held(s, Looped(updates, p, e, seq)) BY <2>3, <2>7, HeldTwice
  <2> QED BY <2>1, <2>8 DEF updates, p
<1> QED BY <1>1, <1>2

LEMMA ReplenishHeld ==
  ASSUME NEW s, BasesRight(s), NEW c
  PROVE  Held(s, Replenish(s, c))
<1> DEFINE giving == {b \in DOMAIN s.bases : ci[c].o = b /\ MayTakeAmmo(s.bases[b], ci[c].team)}
           b == CHOOSE b \in giving : \A d \in giving : b <= d
           t == Replenish(s, c)
           x == TakeAmmo(s.bases[b])
           w == SendBase([s EXCEPT !.bases[b] = TakeAmmo(@)], b)
<1>1. t = s \/ (giving # {} /\ t = w) BY DEF Replenish
<1>2. giving # {} => b \in DOMAIN s.bases
  <2>1. PICK n \in Nat : DOMAIN s.bases = 1..n BY DEF BasesRight
  <2>2. giving \subseteq Nat
    <3>1. 1..n \subseteq Nat OBVIOUS
    <3> QED BY <2>1, <3>1
  <2>3. giving \subseteq DOMAIN s.bases OBVIOUS
  <2> HIDE DEF giving
  <2>4. giving # {} => \E k \in giving : \A d \in giving : k <= d BY <2>2, LeastNat
  <2> QED BY <2>3, <2>4
<1> HIDE DEF giving, b
<1>3. giving # {} => w = SendBase([s EXCEPT !.bases[b] = x], b) /\ DOMAIN x = BaseFields
  BY <1>2 DEF BasesRight, CaptureFields, TakeAmmo
<1> HIDE DEF t, x, w
<1>4. giving # {} => Held(s, w) BY <1>2, <1>3, BaseSent
<1> QED BY <1>1, <1>4 DEF Held, t

-----------------------------------------------------------------------------
(* The hooks, and the map.                                                  *)

LEMMA BaseHooksHeld ==
  ASSUME NEW s, BasesRight(s), NEW c
  PROVE  /\ Held(s, BasesEnterGame(s, c)) /\ Held(s, BasesSpawned(s, c))
         /\ Held(s, BasesLeaveGame(s, c)) /\ Held(s, BasesDied(s, c))
         /\ \A o, clip : Held(s, BasesMoved(s, c, o, clip))
         /\ \A team : Held(s, BasesChangeTeam(s, c, team))
<1>1. Held(s, s) BY DEF Held
<1>2. \A team, from, to : Held(s, MoveBases(s, team, from, to)) BY MovesHeld
<1>3. Held(s, BasesEnterGame(s, c)) BY <1>1, <1>2 DEF BasesEnterGame
<1>4. Held(s, BasesSpawned(s, c)) BY <1>1, <1>2 DEF BasesSpawned
<1>5. Held(s, BasesLeaveGame(s, c)) BY <1>1, <1>2 DEF BasesLeaveGame
<1>6. Held(s, BasesDied(s, c)) BY <1>1, <1>2 DEF BasesDied
<1>7. \A o, clip : Held(s, BasesMoved(s, c, o, clip)) BY <1>1, <1>2 DEF BasesMoved
<1>8. ASSUME NEW team PROVE Held(s, BasesChangeTeam(s, c, team))
  <2> DEFINE a == MoveBases(s, ci[c].team, ci[c].o, Elsewhere)
             z == MoveBases(a, team, Elsewhere, ci[c].o)
  <2>1. BasesChangeTeam(s, c, team) = s \/ BasesChangeTeam(s, c, team) = z BY DEF BasesChangeTeam
  <2>2. Held(s, a) BY <1>2
  <2> HIDE DEF a
  <2>3. Held(a, z) BY <2>2, MovesHeld DEF Held
  <2> HIDE DEF z
  <2>4. Held(s, z) BY <2>2, <2>3, HeldTwice
  <2> QED BY <1>1, <2>1, <2>4
<1> QED BY <1>3, <1>4, <1>5, <1>6, <1>7, <1>8

LEMMA EmptyBases ==
  ASSUME NEW notgot
  PROVE  LET s == BasesEmpty(notgot) IN BasesRight(s)
<1> DEFINE s == BasesEmpty(notgot)
           bases == <<>>
           scores == [t \in Teams |-> 0]
<1>1. /\ DOMAIN s = CaptureFields /\ s.bases = bases /\ s.scores = scores /\ s.notgot = notgot
      /\ s.seen = [bases |-> bases, scores |-> scores]
  BY DEF BasesEmpty, CaptureFields
<1> HIDE DEF s
<1>2. bases = [b \in DOMAIN bases |-> bases[b]] /\ DOMAIN bases = 1..0 /\ DOMAIN bases = {} OBVIOUS
<1>3. bases = [b \in DOMAIN bases |-> BaseShown(bases[b])] OBVIOUS
<1>4. Fcn(scores, Teams) BY DEF Fcn
<1> HIDE DEF bases, scores
<1>5. s.seen = BaseView(s) BY <1>1, <1>3 DEF BaseView
<1>6. BasesRight(s) BY <1>1, <1>2, <1>4, <1>5 DEF BasesRight, Fcn
<1> QED BY <1>6 DEF s

\* The bases as the list leaves them, before anybody enters.
Bare(s) ==
  LET n == Cardinality(Places)
  IN [s EXCEPT !.bases = [i \in 1..n |-> NewBase], !.notgot = FALSE, !.seen.bases = [i \in 1..n |-> BaseShown(NewBase)]]

LEMMA BareRight ==
  ASSUME NEW s, BasesRight(s)
  PROVE  /\ BasesRight(Bare(s)) /\ ~Bare(s).notgot /\ Bare(s).ended = s.ended
         /\ \A i \in DOMAIN Bare(s).bases : Bare(s).bases[i] = NewBase
<1> DEFINE n == Cardinality(Places)
           bs == [i \in 1..n |-> NewBase]
           q == [i \in 1..n |-> BaseShown(NewBase)]
           a == [s EXCEPT !.bases = bs, !.notgot = FALSE, !.seen.bases = q]
<1>1. Bare(s) = a BY DEF Bare
<1>2. n \in Nat BY PlayersAssumption, FS_CardinalityType
<1> HIDE DEF n
<1>3. DOMAIN bs = 1..n /\ (\A i \in 1..n : bs[i] = NewBase) /\ bs = [i \in 1..n |-> bs[i]] /\ q = [i \in 1..n |-> BaseShown(bs[i])] OBVIOUS
<1>4. DOMAIN NewBase = BaseFields BY DEF NewBase, BaseFields
<1> HIDE DEF bs, q
<1>5. /\ DOMAIN a = CaptureFields /\ a.bases = bs /\ a.scores = s.scores /\ a.notgot = FALSE /\ a.ended = s.ended
      /\ a.seen = [s.seen EXCEPT !.bases = q]
  BY DEF BasesRight, CaptureFields
<1> HIDE DEF a
<1>6. a.seen = [bases |-> q, scores |-> a.scores]
  <2>1. s.seen = [bases |-> s.seen.bases, scores |-> s.scores] BY SeenBases
  <2> QED BY <1>5, <2>1
<1>7. a.seen = BaseView(a) BY <1>3, <1>5, <1>6 DEF BaseView
<1>8. BasesRight(a)
  <2>1. Fcn(a.bases, DOMAIN a.bases) /\ Fcn(a.scores, Teams) BY <1>3, <1>5 DEF Fcn, BasesRight
  <2> QED BY <1>2, <1>3, <1>4, <1>5, <1>7, <2>1 DEF BasesRight
<1> QED BY <1>1, <1>3, <1>5, <1>8

LEMMA PlacedLoop ==
  ASSUME NEW s, NEW order
  PROVE  BasesPlaced(s, order) = Looped("enters", 0, Bare(s), order)
BY DEF BasesPlaced, Bare, Looped, IsLoop, Turning, Backward, Sweeps, Step, FoldLeft, MapThenFoldSet

LEMMA PlacedHeld ==
  ASSUME NEW s, BasesRight(s), NEW order, IsSequence(order)
  PROVE  BasesRight(BasesPlaced(s, order)) /\ ~BasesPlaced(s, order).notgot
<1> DEFINE a == Bare(s)
           enters == "enters"
           p == 0
<1>1. BasesPlaced(s, order) = Looped(enters, p, a, order) BY PlacedLoop
<1>8. BasesRight(a) /\ ~a.notgot BY BareRight
<1>9. enters \in BaseLoops BY DEF BaseLoops
<1>10. ASSUME NEW u, Held(a, u), NEW i \in DOMAIN order PROVE Held(u, Step(enters, p, u, order[i]))
  <2>1. Step(enters, p, u, order[i]) = BasesEnterGame(u, order[i]) BY DEF Step
  <2>2. BasesRight(u) BY <1>10 DEF Held
  <2> HIDE DEF p, enters
  <2> QED BY <2>1, <2>2, BaseHooksHeld
<1> HIDE DEF enters, p, a
<1>11. Held(a, Looped(enters, p, a, order)) BY <1>8, <1>9, <1>10, BaseLoop
<1> QED BY <1>1, <1>8, <1>11 DEF Held

-----------------------------------------------------------------------------
(* Skulls.                                                                  *)

\* A shorter or longer sequence of skulls.
LEMMA AppendedTokens ==
  ASSUME NEW q, IsSequence(q), NEW e
  PROVE  LET r == Append(q, e)
         IN /\ IsSequence(r) /\ Len(r) = Len(q) + 1 /\ DOMAIN r = 1..(Len(q) + 1) /\ DOMAIN q = 1..Len(q) /\ Len(q) \in Nat
            /\ r[Len(q) + 1] = e /\ \A i \in DOMAIN q : r[i] = q[i]
<1> PICK S : q \in Seq(S) BY DEF IsSequence
<1> DEFINE T == S \cup {e}
           r == Append(q, e)
<1>1. q \in Seq(T) /\ e \in T
  <2>1. DOMAIN q = 1 .. Len(q) /\ Len(q) \in Nat /\ \A i \in 1 .. Len(q) : q[i] \in T OBVIOUS
  <2> QED BY <2>1
<1> HIDE DEF T
<1>2. r \in Seq(T) /\ Len(r) = Len(q) + 1 /\ r[Len(q) + 1] = e /\ \A i \in 1..Len(q) : r[i] = q[i] BY <1>1
<1>3. DOMAIN q = 1..Len(q) /\ Len(q) \in Nat BY <1>1
<1> HIDE DEF r
<1>4. DOMAIN r = 1..Len(r) BY <1>2
<1>5. IsSequence(r) BY <1>2 DEF IsSequence
<1> QED BY <1>2, <1>3, <1>4, <1>5 DEF r

LEMMA RemovedToken ==
  ASSUME NEW q, IsSequence(q), NEW i \in DOMAIN q
  PROVE  LET r == RemoveUnordered(q, i)
         IN /\ IsSequence(r) /\ Len(r) = Len(q) - 1 /\ DOMAIN r = 1..(Len(q) - 1) /\ DOMAIN q = 1..Len(q) /\ Len(q) \in Nat
            /\ \A j \in DOMAIN r : \E k \in DOMAIN q : r[j] = q[k]
            /\ \A k \in DOMAIN q : k # i => \E j \in DOMAIN r : r[j] = q[k]
<1> PICK S : q \in Seq(S) BY DEF IsSequence
<1> DEFINE n == Len(q)
           f == Front(q)
           r == RemoveUnordered(q, i)
<1>1. DOMAIN q = 1..n /\ n \in Nat /\ i \in 1..n /\ \A k \in 1..n : q[k] \in S OBVIOUS
<1>2. n - 1 \in Nat BY <1>1
<1>3. f = SubSeq(q, 1, n - 1) BY DEF Front
<1> HIDE DEF n
<1>4. f = [k \in 1..(n - 1) |-> q[k]]
  <2>1. SubSeq(q, 1, n - 1) = [k \in 1..((n - 1) - 1 + 1) |-> q[1 + k - 1]] BY <1>2
  <2>2. (n - 1) - 1 + 1 = n - 1 BY <1>1
  <2>3. \A k \in 1..(n - 1) : 1 + k - 1 = k OBVIOUS
  <2> QED BY <1>3, <2>1, <2>2, <2>3
<1> HIDE DEF f
<1>5. r = IF i = n THEN f ELSE [f EXCEPT ![i] = q[n]] BY DEF RemoveUnordered, Last, f, n
<1> HIDE DEF r
<1>6. DOMAIN r = 1..(n - 1) BY <1>4, <1>5
<1>7. \A j \in 1..(n - 1) : r[j] = IF j = i THEN q[n] ELSE q[j] BY <1>1, <1>4, <1>5
<1>8. \A j \in 1..(n - 1) : j \in 1..n /\ n \in 1..n BY <1>1
<1>9. r \in Seq(S)
  <2>1. r = [j \in 1..(n - 1) |-> r[j]] BY <1>4, <1>5
  <2>2. \A j \in 1..(n - 1) : r[j] \in S BY <1>1, <1>7, <1>8
  <2> QED BY <1>2, <2>1, <2>2
<1>10. Len(r) = n - 1 BY <1>2, <1>6, <1>9
<1>11. ASSUME NEW k \in 1..n, k # i PROVE \E j \in 1..(n - 1) : r[j] = q[k]
  <2>1. CASE k = n
    <3>1. i \in 1..(n - 1) BY <1>1, <1>11, <2>1
    <3> QED BY <1>7, <2>1, <3>1
  <2>2. CASE k # n
    <3>1. k \in 1..(n - 1) BY <1>1, <2>2
    <3> QED BY <1>7, <1>11, <3>1
  <2> QED BY <2>1, <2>2
<1>12. \A j \in DOMAIN r : \E k \in DOMAIN q : r[j] = q[k] BY <1>1, <1>6, <1>7, <1>8
<1> QED BY <1>1, <1>6, <1>9, <1>10, <1>11, <1>12 DEF IsSequence, n, r

-----------------------------------------------------------------------------
(* Sweeps.                                                                  *)

\* One turn of a sweep: at most one skull expires, and what stays shows as before.
Turned(l, u) ==
  /\ DOMAIN u = SweepFields /\ IsSequence(u.tokens) /\ \A i \in DOMAIN u.tokens : DOMAIN u.tokens[i] = TokenFields
  /\ Len(u.tokens) + 1 >= Len(l.tokens)
  /\ l.gone \subseteq u.gone
  /\ \A j \in DOMAIN l.tokens : l.tokens[j].id \in u.gone \/ Shows(u.tokens, TokenShown(l.tokens[j]))

LEMMA ShownId ==
  ASSUME NEW t, NEW g, TokenShown(t) = g
  PROVE  g.id = t.id
BY DEF TokenShown

LEMMA TurnSwept ==
  ASSUME NEW base, NEW l, SweptRight(base, l), NEW u, Turned(l, u)
  PROVE  SweptRight(base, u)
<1>1. ASSUME NEW j \in DOMAIN base.tokens
      PROVE  base.tokens[j].id \in u.gone \/ Shows(u.tokens, TokenShown(base.tokens[j]))
  <2> DEFINE g == TokenShown(base.tokens[j])
  <2>1. CASE base.tokens[j].id \in l.gone BY <2>1 DEF Turned
  <2>2. CASE Shows(l.tokens, g)
    <3>1. PICK k \in DOMAIN l.tokens : TokenShown(l.tokens[k]) = g BY <2>2 DEF Shows
    <3>2. l.tokens[k].id = base.tokens[j].id BY <3>1, ShownId
    <3> HIDE DEF g
    <3>3. l.tokens[k].id \in u.gone \/ Shows(u.tokens, g) BY <3>1 DEF Turned
    <3> QED BY <3>2, <3>3 DEF g
  <2> QED BY <2>1, <2>2 DEF SweptRight
<1> QED BY <1>1 DEF SweptRight, Turned

\* Nothing expires, and skulls show as before.
LEMMA StayTurned ==
  ASSUME NEW base, NEW l, SweptRight(base, l), NEW u, DOMAIN u = SweepFields, u.gone = l.gone,
         IsSequence(u.tokens), Len(u.tokens) = Len(l.tokens),
         \A i \in DOMAIN l.tokens : DOMAIN u.tokens[i] = TokenFields /\ TokenShown(u.tokens[i]) = TokenShown(l.tokens[i])
  PROVE  Turned(l, u)
<1>1. DOMAIN u.tokens = 1..Len(u.tokens) /\ Len(u.tokens) \in Nat /\ DOMAIN l.tokens = 1..Len(l.tokens)
  BY IndexSets DEF SweptRight
<1>2. DOMAIN u.tokens = DOMAIN l.tokens BY <1>1
<1>3. \A j \in DOMAIN l.tokens : Shows(u.tokens, TokenShown(l.tokens[j])) BY <1>2 DEF Shows
<1>4. Len(u.tokens) + 1 >= Len(l.tokens) BY <1>1
<1> QED BY <1>2, <1>3, <1>4 DEF Turned

LEMMA ExpireTurned ==
  ASSUME NEW base, NEW l, SweptRight(base, l), NEW i \in DOMAIN l.tokens
  PROVE  Turned(l, Expire(l, i))
<1> DEFINE q == l.tokens
           r == RemoveUnordered(q, i)
           u == Expire(l, i)
<1>1. DOMAIN u = SweepFields /\ u.tokens = r /\ u.gone = l.gone \cup {q[i].id} BY DEF SweptRight, SweepFields, Expire
<1>2. IsSequence(q) /\ \A j \in DOMAIN q : DOMAIN q[j] = TokenFields BY DEF SweptRight
<1> HIDE DEF q, u
<1>3. i \in DOMAIN q BY DEF q
<1>4. /\ IsSequence(r) /\ Len(r) = Len(q) - 1 /\ Len(q) \in Nat
      /\ \A j \in DOMAIN r : \E k \in DOMAIN q : r[j] = q[k]
      /\ \A k \in DOMAIN q : k # i => \E j \in DOMAIN r : r[j] = q[k]
  BY <1>2, <1>3, RemovedToken
<1> HIDE DEF r
<1>5. \A j \in DOMAIN r : DOMAIN r[j] = TokenFields BY <1>2, <1>4
<1>6. \A k \in DOMAIN q : q[k].id \in u.gone \/ Shows(r, TokenShown(q[k])) BY <1>1, <1>4 DEF Shows
<1>7. Len(r) + 1 >= Len(q) BY <1>4
<1> QED BY <1>1, <1>4, <1>5, <1>6, <1>7 DEF Turned, q, u

LEMMA TurnedTwice ==
  ASSUME NEW base, NEW l, SweptRight(base, l), NEW a, Turned(l, a), Len(a.tokens) = Len(l.tokens), NEW u, Turned(a, u)
  PROVE  Turned(l, u)
<1>1. ASSUME NEW j \in DOMAIN l.tokens
      PROVE  l.tokens[j].id \in u.gone \/ Shows(u.tokens, TokenShown(l.tokens[j]))
  <2> DEFINE g == TokenShown(l.tokens[j])
  <2>1. CASE l.tokens[j].id \in a.gone BY <2>1 DEF Turned
  <2>2. CASE Shows(a.tokens, g)
    <3>1. PICK k \in DOMAIN a.tokens : TokenShown(a.tokens[k]) = g BY <2>2 DEF Shows
    <3>2. a.tokens[k].id = l.tokens[j].id BY <3>1, ShownId
    <3> HIDE DEF g
    <3>3. a.tokens[k].id \in u.gone \/ Shows(u.tokens, g) BY <3>1 DEF Turned
    <3> QED BY <3>2, <3>3 DEF g
  <2> QED BY <2>1, <2>2 DEF Turned
<1> QED BY <1>1 DEF Turned

\* A skull is counted, and expires beyond the limit.
LEMMA SweptTurned ==
  ASSUME NEW base, NEW l, SweptRight(base, l), NEW i \in DOMAIN l.tokens, NEW own, NEW limit
  PROVE  Turned(l, Swept(l, i, own, limit))
<1> DEFINE c == Counted(l, own)
           u == Swept(l, i, own, limit)
<1>1. DOMAIN c = SweepFields /\ c.tokens = l.tokens /\ c.gone = l.gone BY DEF SweptRight, SweepFields, Counted
<1>2. u = Expire(c, i) \/ u = c BY DEF Swept
<1> HIDE DEF c, u
<1>3. SweptRight(base, c) BY <1>1 DEF SweptRight
<1>4. Turned(l, c) BY <1>1, StayTurned DEF SweptRight
<1>5. Turned(c, Expire(c, i)) BY <1>1, <1>3, ExpireTurned
<1>6. Turned(l, Expire(c, i)) BY <1>1, <1>4, <1>5, TurnedTwice
<1> QED BY <1>2, <1>4, <1>6 DEF u

LEMMA SelfTurned ==
  ASSUME NEW base, NEW l, SweptRight(base, l)
  PROVE  Turned(l, l)
BY StayTurned DEF SweptRight

LEMMA CrowdingTurned ==
  ASSUME NEW base, NEW l, SweptRight(base, l), NEW i \in DOMAIN l.tokens, NEW c
  PROVE  Turned(l, Crowding(l, i, c))
<1>1. \A own, limit : Turned(l, Swept(l, i, own, limit)) BY SweptTurned
<1> QED BY <1>1, SelfTurned DEF Crowding

LEMMA AgedTurned ==
  ASSUME NEW base, NEW l, SweptRight(base, l), NEW i \in DOMAIN l.tokens, NEW now
  PROVE  Turned(l, Aged(l, i, now))
BY ExpireTurned, SelfTurned DEF Aged

LEMMA DisownedTurned ==
  ASSUME NEW base, NEW l, SweptRight(base, l), NEW i \in DOMAIN l.tokens, NEW c
  PROVE  Turned(l, Disowned(l, i, c))
<1> DEFINE d == l.tokens[i].dropper
           e == [l EXCEPT !.tokens[i].dropper = Left]
           a == IF d = c THEN e ELSE l
           own == l.tokens[i].team = ci[c].team
           u == Disowned(l, i, c)
           x == [l.tokens[i] EXCEPT !.dropper = Left]
           q == [l.tokens EXCEPT ![i] = x]
<1>1. u = l \/ u = Swept(a, i, own, UnownedTokenLimit) BY DEF Disowned
<1>2. DOMAIN l = SweepFields /\ DOMAIN l.tokens[i] = TokenFields BY DEF SweptRight
<1>3. DOMAIN e = SweepFields /\ e.tokens = q /\ e.gone = l.gone BY <1>2 DEF SweepFields
<1>4. DOMAIN x = TokenFields /\ TokenShown(x) = TokenShown(l.tokens[i]) BY <1>2 DEF TokenFields, TokenShown
<1> HIDE DEF x, own, u, e, d
<1>5. DOMAIN q = DOMAIN l.tokens /\ q[i] = x /\ \A j \in DOMAIN l.tokens : j # i => q[j] = l.tokens[j] OBVIOUS
<1>6. IsSequence(q) /\ Len(q) = Len(l.tokens)
  <2> DEFINE r == l.tokens
  <2>1. IsSequence(r) /\ i \in DOMAIN r BY DEF SweptRight
  <2> HIDE DEF r
  <2> PICK S : r \in Seq(S) BY <2>1 DEF IsSequence
  <2> DEFINE T == S \cup {x}
  <2>2. DOMAIN r = 1 .. Len(r) /\ Len(r) \in Nat /\ \A j \in 1 .. Len(r) : r[j] \in T OBVIOUS
  <2>3. r \in Seq(T) /\ x \in T BY <2>2
  <2> HIDE DEF T
  <2>4. [r EXCEPT ![i] = x] \in Seq(T) /\ Len([r EXCEPT ![i] = x]) = Len(r) BY <2>1, <2>3
  <2> QED BY <2>4 DEF IsSequence, r
<1> HIDE DEF q
<1>7. Turned(l, e) /\ Len(e.tokens) = Len(l.tokens)
  <2>1. \A j \in DOMAIN l.tokens : DOMAIN q[j] = TokenFields /\ TokenShown(q[j]) = TokenShown(l.tokens[j])
    BY <1>4, <1>5 DEF SweptRight
  <2> QED BY <1>3, <1>6, <2>1, StayTurned
<1>8. SweptRight(base, e) /\ i \in DOMAIN e.tokens BY <1>3, <1>5, <1>7, TurnSwept
<1>9. Turned(l, Swept(l, i, own, UnownedTokenLimit)) BY SweptTurned
<1>10. Turned(e, Swept(e, i, own, UnownedTokenLimit)) BY <1>8, SweptTurned
<1>11. Turned(l, Swept(e, i, own, UnownedTokenLimit)) BY <1>7, <1>10, TurnedTwice
<1>12. Turned(l, Swept(a, i, own, UnownedTokenLimit)) BY <1>9, <1>11
<1> HIDE DEF a
<1> QED BY <1>1, <1>12, SelfTurned DEF u

Started(s, own, other) == [tokens |-> s.tokens, own |-> own, other |-> other, gone |-> {}]

LEMMA StartSwept ==
  ASSUME NEW s, SkullsRight(s), NEW own, NEW other
  PROVE  LET l == Started(s, own, other) IN SweptRight(l, l) /\ l.tokens = s.tokens
<1> DEFINE l == Started(s, own, other)
<1>1. DOMAIN l = SweepFields /\ l.tokens = s.tokens BY DEF Started, SweepFields
<1> HIDE DEF l
<1>2. SweptRight(l, l) BY <1>1 DEF SweptRight, SkullsRight, Shows
<1> QED BY <1>1, <1>2 DEF l

LEMMA SkullIndices ==
  ASSUME NEW s, SkullsRight(s)
  PROVE  LET seq == [i \in DOMAIN s.tokens |-> i]
         IN IsSequence(seq) /\ Len(seq) = Len(s.tokens) /\ DOMAIN seq = DOMAIN s.tokens /\ \A i \in DOMAIN seq : seq[i] = i
<1> DEFINE n == Len(s.tokens)
           seq == [i \in DOMAIN s.tokens |-> i]
<1>1. DOMAIN s.tokens = 1..n /\ n \in Nat BY IndexSets DEF SkullsRight
<1> HIDE DEF n
<1>2. seq = [i \in 1..n |-> i] BY <1>1
<1>3. [i \in 1..n |-> i] \in Seq(1..n) /\ Len([i \in 1..n |-> i]) = n BY <1>1
<1> HIDE DEF seq
<1>4. IsSequence(seq) /\ Len(seq) = n BY <1>2, <1>3 DEF IsSequence
<1> QED BY <1>4 DEF seq, n

\* A loop over the skulls leaves those it does not name.
LEMMA SweepLoop ==
  ASSUME NEW kind \in Sweeps, NEW p, NEW s, SkullsRight(s), NEW own, NEW other
  PROVE  LET l == Looped(kind, p, Started(s, own, other), [i \in DOMAIN s.tokens |-> i]) IN SweptRight(Started(s, own, other), l)
<1> DEFINE seq == [i \in DOMAIN s.tokens |-> i]
           base == Started(s, own, other)
           l == Looped(kind, p, base, seq)
<1>1. SweptRight(base, base) /\ base.tokens = s.tokens BY StartSwept
<1>2. IsSequence(seq) /\ Len(seq) = Len(s.tokens) /\ DOMAIN seq = DOMAIN s.tokens /\ \A i \in DOMAIN seq : seq[i] = i
  BY SkullIndices
<1> HIDE DEF seq, base
<1>3. Backward(kind) /\ kind \notin BaseLoops /\ kind # "drops" BY DEF Backward, BaseLoops, Sweeps
<1>4. \A u, k : LoopOK(kind, base, u, k) <=> SweptRight(base, u) /\ Len(u.tokens) + k >= Len(base.tokens)
  BY <1>3 DEF LoopOK
<1>5. Len(s.tokens) \in Nat BY IndexSets DEF SkullsRight
<1>6. LoopOK(kind, base, base, 0) BY <1>1, <1>4, <1>5
<1>7. ASSUME NEW u, NEW k \in Nat, NEW i \in DOMAIN seq, LoopOK(kind, base, u, k), Backward(kind) => k + i <= Len(seq)
      PROVE  LoopOK(kind, base, Step(kind, p, u, seq[i]), k + 1)
  <2> DEFINE v == Step(kind, p, u, seq[i])
  <2>1. SweptRight(base, u) /\ Len(u.tokens) + k >= Len(base.tokens) BY <1>4, <1>7
  <2>2. DOMAIN u.tokens = 1..Len(u.tokens) /\ Len(u.tokens) \in Nat BY <2>1, IndexSets DEF SweptRight
  <2>3. i \in DOMAIN u.tokens
    <3>1. i \in Nat \ {0}
      <4>1. DOMAIN seq = 1..Len(seq) BY <1>2, IndexSets
      <4> QED BY <4>1
    <3> DEFINE n == Len(u.tokens)
    <3>2. n \in Nat /\ n + k >= Len(s.tokens) /\ k + i <= Len(s.tokens) BY <1>1, <1>2, <1>3, <1>7, <2>1, <2>2
    <3> HIDE DEF n
    <3>3. i <= n BY <1>5, <3>1, <3>2
    <3> QED BY <2>2, <3>1, <3>3 DEF n
  <2>4. v = IF kind = "crowds" THEN Crowding(u, i, p) ELSE IF kind = "disowns" THEN Disowned(u, i, p) ELSE Aged(u, i, p)
    BY <1>2, <1>3 DEF Step, BaseLoops
  <2> HIDE DEF v
  <2>5. Turned(u, v) BY <2>1, <2>3, <2>4, CrowdingTurned, DisownedTurned, AgedTurned
  <2>6. SweptRight(base, v) BY <2>1, <2>5, TurnSwept
  <2>7. Len(v.tokens) + (k + 1) >= Len(base.tokens)
    <3>1. Len(v.tokens) \in Nat BY <2>6, IndexSets DEF SweptRight
    <3>2. Len(v.tokens) + 1 >= Len(u.tokens) BY <2>5 DEF Turned
    <3> DEFINE x == Len(v.tokens)
               y == Len(u.tokens)
               z == Len(base.tokens)
    <3>3. x \in Nat /\ y \in Nat /\ z \in Nat /\ x + 1 >= y /\ y + k >= z BY <1>1, <1>5, <2>1, <2>2, <3>1, <3>2
    <3> HIDE DEF x, y, z
    <3>4. x + (k + 1) >= z BY <3>3
    <3> QED BY <3>4 DEF x, z
  <2>8. LoopOK(kind, base, v, k + 1) BY <1>4, <2>6, <2>7
  <2> QED BY <2>8 DEF v
<1>8. LoopOK(kind, base, l, Len(seq)) BY <1>2, <1>6, <1>7, LoopKeeps
<1> HIDE DEF l
<1>9. SweptRight(base, l) BY <1>4, <1>8
<1> QED BY <1>9 DEF l, seq, base

\* Clients are told of the skulls that expired.
LEMMA SweptTold ==
  ASSUME NEW s, SkullsRight(s), NEW own, NEW other, NEW l, SweptRight(Started(s, own, other), l)
  PROVE  SkullsRight(SeeGone([s EXCEPT !.tokens = l.tokens], l.gone))
<1> DEFINE base == Started(s, own, other)
           a == [s EXCEPT !.tokens = l.tokens]
           q == {g \in s.seen.tokens : g.id \notin l.gone}
           t == SeeGone(a, l.gone)
<1>1. DOMAIN s = CollectFields /\ s.seen = [tokens |-> s.seen.tokens, scores |-> s.scores] BY DEF SkullsRight
<1>2. DOMAIN a = CollectFields /\ a.tokens = l.tokens /\ a.scores = s.scores /\ a.seen = s.seen BY <1>1 DEF CollectFields
<1> HIDE DEF a
<1>3. DOMAIN t = CollectFields /\ t.tokens = l.tokens /\ t.scores = s.scores /\ t.seen = [s.seen EXCEPT !.tokens = q]
  BY <1>1, <1>2 DEF SeeGone, CollectFields
<1> HIDE DEF t
<1>4. ASSUME NEW g \in q PROVE Shows(l.tokens, g)
  <2>1. PICK j \in DOMAIN s.tokens : TokenShown(s.tokens[j]) = g BY DEF SkullsRight, Shows
  <2>2. s.tokens[j].id \notin l.gone BY <2>1, ShownId
  <2>3. base.tokens = s.tokens BY StartSwept
  <2> HIDE DEF base
  <2>4. s.tokens[j].id \in l.gone \/ Shows(l.tokens, TokenShown(s.tokens[j])) BY <2>1, <2>3 DEF SweptRight, base
  <2> QED BY <2>1, <2>2, <2>4
<1> HIDE DEF q
<1>5. t.seen = [tokens |-> q, scores |-> t.scores] BY <1>1, <1>3
<1>6. t.seen.tokens = q BY <1>5
<1>7. t.seen = [tokens |-> t.seen.tokens, scores |-> t.scores] BY <1>5, <1>6
<1>8. IsSequence(l.tokens) /\ \A i \in DOMAIN l.tokens : DOMAIN l.tokens[i] = TokenFields BY DEF SweptRight
<1>9. Fcn(t.scores, Teams) BY <1>3 DEF SkullsRight
<1> QED BY <1>3, <1>4, <1>6, <1>7, <1>8, <1>9 DEF SkullsRight, t, a

-----------------------------------------------------------------------------
(* Skulls appear.                                                           *)

LEMMA DropTokenTold ==
  ASSUME NEW s, SkullsRight(s), NEW o, NEW team, NEW dropper
  PROVE  SkullsRight(DropToken(s, o, team, dropper))
<1> DEFINE x == Token(s.next + 1, team, o, dropper, s.now)
           r == Append(s.tokens, x)
           q == s.seen.tokens \cup {TokenShown(x)}
           t == DropToken(s, o, team, dropper)
<1>1. DOMAIN s = CollectFields /\ s.seen = [tokens |-> s.seen.tokens, scores |-> s.scores] /\ IsSequence(s.tokens) BY DEF SkullsRight
<1>2. DOMAIN x = TokenFields BY DEF Token, TokenFields
<1>3. t = [s EXCEPT !.next = @ + 1, !.tokens = Append(@, x), !.seen.tokens = @ \cup {TokenShown(x)}] BY DEF DropToken
<1> HIDE DEF x, t
<1>4. DOMAIN t = CollectFields /\ t.tokens = r /\ t.scores = s.scores /\ t.seen = [s.seen EXCEPT !.tokens = q]
  BY <1>1, <1>3 DEF CollectFields
<1>5. /\ IsSequence(r) /\ DOMAIN r = 1..(Len(s.tokens) + 1) /\ DOMAIN s.tokens = 1..Len(s.tokens) /\ Len(s.tokens) \in Nat
      /\ r[Len(s.tokens) + 1] = x /\ \A i \in DOMAIN s.tokens : r[i] = s.tokens[i]
  BY <1>1, AppendedTokens
<1> DEFINE n == Len(s.tokens)
<1>6. DOMAIN r = 1..(n + 1) /\ DOMAIN s.tokens = 1..n /\ n \in Nat /\ r[n + 1] = x BY <1>5
<1> HIDE DEF n, r, q
<1>7. \A i \in DOMAIN r : i = n + 1 \/ i \in DOMAIN s.tokens BY <1>6
<1>8. \A i \in DOMAIN r : DOMAIN r[i] = TokenFields BY <1>2, <1>5, <1>6, <1>7 DEF SkullsRight
<1>9. \A i \in DOMAIN s.tokens : i \in DOMAIN r BY <1>6
<1>10. ASSUME NEW g \in q PROVE Shows(r, g)
  <2>1. CASE g \in s.seen.tokens
    <3>1. PICK i \in DOMAIN s.tokens : TokenShown(s.tokens[i]) = g BY <2>1 DEF SkullsRight, Shows
    <3> QED BY <1>5, <1>9, <3>1 DEF Shows
  <2>2. CASE g = TokenShown(x)
    <3>1. n + 1 \in DOMAIN r BY <1>6
    <3> QED BY <1>6, <2>2, <3>1 DEF Shows
  <2> QED BY <2>1, <2>2 DEF q
<1>11. t.seen = [tokens |-> q, scores |-> t.scores] BY <1>1, <1>4
<1>12. t.seen.tokens = q BY <1>11
<1>13. t.seen = [tokens |-> t.seen.tokens, scores |-> t.scores] BY <1>11, <1>12
<1>14. Fcn(t.scores, Teams) BY <1>4 DEF SkullsRight
<1> QED BY <1>4, <1>5, <1>8, <1>10, <1>12, <1>13, <1>14 DEF SkullsRight, t

\* A loop that drops skulls.
LEMMA DropLoop ==
  ASSUME NEW p, NEW s, SkullsRight(s), NEW n \in Nat
  PROVE  SkullsRight(Looped("drops", p, s, [i \in 1..n |-> i]))
<1> DEFINE seq == [i \in 1..n |-> i]
           drops == "drops"
<1>1. IsSequence(seq)
  <2>1. seq \in Seq(1..n) OBVIOUS
  <2> QED BY <2>1 DEF IsSequence
<1> HIDE DEF seq
<1>2. \A base, u, k : LoopOK(drops, base, u, k) <=> SkullsRight(u) BY DEF LoopOK, BaseLoops
<1>3. \A u, i : SkullsRight(u) => SkullsRight(Step(drops, p, u, seq[i]))
  <2> SUFFICES ASSUME NEW u, NEW i, SkullsRight(u) PROVE SkullsRight(Step(drops, p, u, seq[i])) OBVIOUS
  <2>1. Step(drops, p, u, seq[i]) = DropToken(u, p[1], IF seq[i] = 1 THEN p[2] ELSE -p[2], p[3]) BY DEF Step
  <2> HIDE DEF drops
  <2> QED BY <2>1, DropTokenTold
<1> HIDE DEF drops
<1>4. LoopOK(drops, s, s, 0) BY <1>2
<1>5. ASSUME NEW u, NEW k \in Nat, NEW i \in DOMAIN seq, LoopOK(drops, s, u, k), Backward(drops) => k + i <= Len(seq)
      PROVE  LoopOK(drops, s, Step(drops, p, u, seq[i]), k + 1)
  BY <1>2, <1>3, <1>5
<1>6. LoopOK(drops, s, Looped(drops, p, s, seq), Len(seq)) BY <1>1, <1>4, <1>5, LoopKeeps
<1> QED BY <1>2, <1>6 DEF drops, seq

LEMMA DropTokensTold ==
  ASSUME NEW s, SkullsRight(s), NEW c, ci[c].tokens \in Nat, NEW penalty
  PROVE  SkullsRight(DropTokens(s, c, penalty))
<1> DEFINE team == ci[c].team
           carried == IF penalty THEN 0 ELSE ci[c].tokens
           swept == Sweep(s, LAMBDA l, i : Crowding(l, i, c), 1, carried)
           a == SeeGone([s EXCEPT !.tokens = swept.tokens], swept.gone)
           p == <<ci[c].o, team, c>>
           n == 1 + carried
           t == DropTokens(s, c, penalty)
           d == FoldLeft(LAMBDA u, i : DropToken(u, ci[c].o, IF i = 1 THEN team ELSE -team, c), a, [i \in 1..n |-> i])
           l == Looped("crowds", c, Started(s, 1, carried), [i \in DOMAIN s.tokens |-> i])
<1>1. t = IF s.notgot THEN s ELSE d BY DEF DropTokens
<1>2. swept = l
  BY DEF Sweep, Started, Looped, IsLoop, Turning, Backward, Sweeps, Step, FoldRight, MapThenFoldSet
<1>3. n \in Nat OBVIOUS
<1> HIDE DEF t
<1>4. d = Looped("drops", p, a, [i \in 1..n |-> i])
  <2> HIDE DEF swept, n, a
  <2> QED BY DEF Looped, IsLoop, Turning, Backward, Sweeps, Step, FoldLeft, MapThenFoldSet
<1> HIDE DEF d, n, p, swept
<1>5. SweptRight(Started(s, 1, carried), l)
  <2> DEFINE crowds == "crowds"
             u == Looped(crowds, c, Started(s, 1, carried), [i \in DOMAIN s.tokens |-> i])
  <2>1. crowds \in Sweeps BY DEF Sweeps
  <2> HIDE DEF crowds, carried
  <2>2. SweptRight(Started(s, 1, carried), u) BY <2>1, SweepLoop
  <2> QED BY <2>2 DEF crowds
<1> HIDE DEF l, carried
<1>6. SkullsRight(a) BY <1>2, <1>5, SweptTold
<1> HIDE DEF a
<1>7. SkullsRight(d) BY <1>3, <1>4, <1>6, DropLoop
<1> QED BY <1>1, <1>7 DEF t

LEMMA SkullsDisconnectTold ==
  ASSUME NEW s, SkullsRight(s), NEW c
  PROVE  SkullsRight(SkullsDisconnect(s, c))
<1> DEFINE swept == Sweep(s, LAMBDA l, i : Disowned(l, i, c), 0, 0)
           l == Looped("disowns", c, Started(s, 0, 0), [i \in DOMAIN s.tokens |-> i])
           a == SeeGone([s EXCEPT !.tokens = swept.tokens], swept.gone)
<1>1. SkullsDisconnect(s, c) = a BY DEF SkullsDisconnect
<1>2. swept = l
  BY DEF Sweep, Started, Looped, IsLoop, Turning, Backward, Sweeps, Step, FoldRight, MapThenFoldSet
<1> HIDE DEF swept
<1>3. SweptRight(Started(s, 0, 0), l)
  <2> DEFINE disowns == "disowns"
             u == Looped(disowns, c, Started(s, 0, 0), [i \in DOMAIN s.tokens |-> i])
  <2>1. disowns \in Sweeps BY DEF Sweeps
  <2> HIDE DEF disowns
  <2>2. SweptRight(Started(s, 0, 0), u) BY <2>1, SweepLoop
  <2> QED BY <2>2 DEF disowns
<1> HIDE DEF l
<1>4. SkullsRight(a) BY <1>2, <1>3, SweptTold
<1> HIDE DEF a
<1> QED BY <1>1, <1>4

LEMMA SkullsUpdateTold ==
  ASSUME NEW s, SkullsRight(s)
  PROVE  SkullsRight(SkullsUpdate(s))
<1> DEFINE swept == Sweep(s, LAMBDA l, i : Aged(l, i, s.now), 0, 0)
           l == Looped("ages", s.now, Started(s, 0, 0), [i \in DOMAIN s.tokens |-> i])
           a == SeeGone([s EXCEPT !.tokens = swept.tokens], swept.gone)
<1>1. SkullsUpdate(s) = a \/ SkullsUpdate(s) = s BY DEF SkullsUpdate
<1>2. swept = l
  BY DEF Sweep, Started, Looped, IsLoop, Turning, Backward, Sweeps, Step, FoldRight, MapThenFoldSet
<1> HIDE DEF swept
<1>3. SweptRight(Started(s, 0, 0), l)
  <2> DEFINE ages == "ages"
             now == s.now
             u == Looped(ages, now, Started(s, 0, 0), [i \in DOMAIN s.tokens |-> i])
  <2>1. ages \in Sweeps BY DEF Sweeps
  <2> HIDE DEF ages, now
  <2>2. SweptRight(Started(s, 0, 0), u) BY <2>1, SweepLoop
  <2> QED BY <2>2 DEF ages, now
<1> HIDE DEF l
<1>4. SkullsRight(a) BY <1>2, <1>3, SweptTold
<1> HIDE DEF a
<1> QED BY <1>1, <1>4

\* A score, told.
LEMMA SkullScored ==
  ASSUME NEW s, SkullsRight(s), NEW team, NEW v
  PROVE  SkullsRight(SeeScore([s EXCEPT !.scores[team] = v], team))
<1> DEFINE a == [s EXCEPT !.scores[team] = v]
           q == [s.seen.scores EXCEPT ![team] = a.scores[team]]
           t == SeeScore(a, team)
           old == s.seen.tokens
<1>1. DOMAIN s = CollectFields /\ Fcn(s.scores, Teams) BY DEF SkullsRight
<1>2. s.seen = [tokens |-> old, scores |-> s.scores] BY DEF SkullsRight
<1> HIDE DEF old
<1>3. DOMAIN a = CollectFields /\ a.scores = [s.scores EXCEPT ![team] = v] /\ a.tokens = s.tokens /\ a.seen = s.seen
  BY <1>1 DEF CollectFields
<1> HIDE DEF a
<1>4. t = [a EXCEPT !.seen.scores[team] = a.scores[team]] BY DEF SeeScore
<1> HIDE DEF t
<1>5. DOMAIN t = CollectFields /\ t.tokens = s.tokens /\ t.scores = a.scores /\ t.seen = [s.seen EXCEPT !.scores = q]
  BY <1>3, <1>4 DEF CollectFields
<1>10. s.seen.scores = s.scores BY <1>2
<1>6. q = a.scores /\ Fcn(a.scores, Teams) BY <1>1, <1>3, <1>10 DEF Fcn
<1> HIDE DEF q
<1>7. t.seen = [tokens |-> old, scores |-> t.scores] BY <1>2, <1>5, <1>6
<1>8. t.seen.tokens = old BY <1>7
<1>9. t.seen = [tokens |-> t.seen.tokens, scores |-> t.scores] BY <1>7, <1>8
<1> QED BY <1>5, <1>6, <1>8, <1>9 DEF SkullsRight, t, a, old

LEMMA SkullsStill ==
  ASSUME NEW s, SkullsRight(s), NEW t, DOMAIN t = CollectFields, t.tokens = s.tokens, t.scores = s.scores, t.seen = s.seen
  PROVE  SkullsRight(t)
<1> DEFINE old == s.seen.tokens
<1>1. s.seen = [tokens |-> old, scores |-> s.scores] BY DEF SkullsRight
<1> HIDE DEF old
<1>2. t.seen = [tokens |-> old, scores |-> t.scores] BY <1>1
<1>3. t.seen.tokens = old BY <1>2
<1>4. t.seen = [tokens |-> t.seen.tokens, scores |-> t.scores] BY <1>2, <1>3
<1> QED BY <1>3, <1>4 DEF SkullsRight, old

LEMMA SkullsQuiet ==
  ASSUME NEW s, SkullsRight(s)
  PROVE  /\ SkullsRight(Intermission(s))
         /\ \A now : SkullsRight([s EXCEPT !.now = now])
         /\ \A b, now : SkullsRight([s EXCEPT !.laststeal[b] = now])
         /\ SkullsRight([s EXCEPT !.notgot = FALSE])
<1>1. DOMAIN s = CollectFields BY DEF SkullsRight
<1>2. SkullsRight(Intermission(s)) BY <1>1, SkullsStill DEF Intermission, CollectFields
<1>3. ASSUME NEW now PROVE SkullsRight([s EXCEPT !.now = now])
  <2> DEFINE t == [s EXCEPT !.now = now]
  <2>1. DOMAIN t = CollectFields /\ t.tokens = s.tokens /\ t.scores = s.scores /\ t.seen = s.seen BY <1>1 DEF CollectFields
  <2> HIDE DEF t
  <2> QED BY <2>1, SkullsStill DEF t
<1>4. ASSUME NEW b, NEW now PROVE SkullsRight([s EXCEPT !.laststeal[b] = now])
  <2> DEFINE t == [s EXCEPT !.laststeal[b] = now]
  <2>1. DOMAIN t = CollectFields /\ t.tokens = s.tokens /\ t.scores = s.scores /\ t.seen = s.seen BY <1>1 DEF CollectFields
  <2> HIDE DEF t
  <2> QED BY <2>1, SkullsStill DEF t
<1>5. SkullsRight([s EXCEPT !.notgot = FALSE])
  <2> DEFINE t == [s EXCEPT !.notgot = FALSE]
  <2>1. DOMAIN t = CollectFields /\ t.tokens = s.tokens /\ t.scores = s.scores /\ t.seen = s.seen BY <1>1 DEF CollectFields
  <2> HIDE DEF t
  <2> QED BY <2>1, SkullsStill DEF t
<1> QED BY <1>2, <1>3, <1>4, <1>5

LEMMA AddScoreSkulls ==
  ASSUME NEW s, SkullsRight(s), NEW team, NEW n
  PROVE  SkullsRight(SeeScore(AddScore(s, team, n), team))
<1> DEFINE v == s.scores[team] + n
<1>1. AddScore(s, team, n) = [s EXCEPT !.scores[team] = v] BY DEF AddScore, SkullsRight, CollectFields
<1> HIDE DEF v
<1> QED BY <1>1, SkullScored

LEMMA DepositTold ==
  ASSUME NEW s, SkullsRight(s), NEW c, NEW b
  PROVE  SkullsRight(Deposit(s, c, b))
<1> DEFINE team == ci[c].team
           z == [s EXCEPT !.laststeal[b] = s.now]
           scored == SeeScore(AddScore(z, team, ci[c].tokens), team)
           robbed == SeeScore(AddScore(z, b, -1), b)
           stolen == DropToken(robbed, b, team, OfBase(b))
           t == Deposit(s, c, b)
<1>1. t = s \/ t = Intermission(scored) \/ t = scored \/ t = stolen BY DEF Deposit
<1>2. SkullsRight(z) BY SkullsQuiet
<1> HIDE DEF z, t
<1>3. SkullsRight(scored) /\ SkullsRight(robbed) BY <1>2, AddScoreSkulls
<1> HIDE DEF scored, robbed
<1>4. SkullsRight(Intermission(scored)) BY <1>3, SkullsQuiet
<1>5. SkullsRight(stolen) BY <1>3, DropTokenTold
<1> HIDE DEF stolen
<1> QED BY <1>1, <1>3, <1>4, <1>5 DEF t

LEMMA TakeTokenTold ==
  ASSUME NEW s, SkullsRight(s), NEW c, NEW id
  PROVE  SkullsRight(TakeToken(s, c, id))
<1> DEFINE t == TakeToken(s, c, id)
           q == {g \in s.seen.tokens : g.id \notin {id}}
           w == SeeGone(s, {id})
<1>1. t = s \/ t = w BY DEF TakeToken
<1>2. DOMAIN s = CollectFields /\ s.seen = [tokens |-> s.seen.tokens, scores |-> s.scores] BY DEF SkullsRight
<1>3. DOMAIN w = CollectFields /\ w.tokens = s.tokens /\ w.scores = s.scores /\ w.seen = [s.seen EXCEPT !.tokens = q]
  BY <1>2 DEF SeeGone, CollectFields
<1>4. q \subseteq s.seen.tokens OBVIOUS
<1> HIDE DEF t, w, q
<1>5. w.seen = [tokens |-> q, scores |-> w.scores] BY <1>2, <1>3
<1>6. w.seen.tokens = q BY <1>5
<1>7. w.seen = [tokens |-> w.seen.tokens, scores |-> w.scores] BY <1>5, <1>6
<1>8. \A g \in q : Shows(w.tokens, g) BY <1>3, <1>4 DEF SkullsRight
<1>9. SkullsRight(w) BY <1>3, <1>6, <1>7, <1>8 DEF SkullsRight
<1> QED BY <1>1, <1>9 DEF t

LEMMA EmptySkulls ==
  ASSUME NEW notgot
  PROVE  SkullsRight(SkullsEmpty(notgot))
<1> DEFINE s == SkullsEmpty(notgot)
           scores == [t \in Teams |-> 0]
           none == {}
           q == <<>>
<1>1. DOMAIN s = CollectFields /\ s.tokens = q /\ s.scores = scores /\ s.seen = [tokens |-> none, scores |-> scores]
  BY DEF SkullsEmpty, CollectFields
<1>2. Fcn(scores, Teams) BY DEF Fcn
<1>3. IsSequence(q) /\ DOMAIN q = {}
  <2>1. <<>> \in Seq({}) OBVIOUS
  <2> QED BY <2>1 DEF IsSequence
<1>4. \A g : g \notin none OBVIOUS
<1> HIDE DEF s, scores, none, q
<1>5. s.seen.tokens = none BY <1>1
<1>6. s.seen = [tokens |-> s.seen.tokens, scores |-> s.scores] BY <1>1, <1>5
<1> QED BY <1>1, <1>2, <1>3, <1>4, <1>5, <1>6 DEF SkullsRight, s

LEMMA SkullsTold ==
  ASSUME NEW s, SkullsRight(s)
  PROVE  s.seen.tokens \subseteq SkullView(s).tokens /\ s.seen.scores = SkullView(s).scores
<1>1. s.seen.scores = s.scores
  <2> DEFINE old == s.seen.tokens
  <2>1. s.seen = [tokens |-> old, scores |-> s.scores] BY DEF SkullsRight
  <2> HIDE DEF old
  <2> QED BY <2>1
<1>2. \A g \in s.seen.tokens : \E i \in DOMAIN s.tokens : g = TokenShown(s.tokens[i]) BY DEF SkullsRight, Shows
<1> QED BY <1>1, <1>2 DEF SkullView

-----------------------------------------------------------------------------
(* What clients are told, in every mode.                                    *)

Told(s) == (IsFlags => FlagsTold(s)) /\ (IsBases => BasesRight(s)) /\ (IsSkulls => SkullsRight(s))
TokensOK == \A c \in Clients : ci[c].tokens \in Nat
ViewsInv == TokensOK /\ Told(m)
Telling == ViewsInv'

LEMMA StillTold ==
  ASSUME smode' = smode, Told(m'), TokensOK'
  PROVE  Telling
<1>1. (IsFlags' <=> IsFlags) /\ (IsBases' <=> IsBases) /\ (IsSkulls' <=> IsSkulls) BY DEF IsFlags, IsBases, IsSkulls
<1>2. FlagsTold(m') => FlagsTold(m)' BY DEF FlagsTold, Waiting, Right, Orphaned, Sided, InvisFrom, Hold, Protect
<1>3. BasesRight(m') => BasesRight(m)' BY DEF BasesRight
<1>4. SkullsRight(m') => SkullsRight(m)' BY DEF SkullsRight
<1> QED BY <1>1, <1>2, <1>3, <1>4 DEF Telling, ViewsInv, Told

LEMMA OtherModes ==
  /\ IsBases => ~IsFlags /\ ~IsSkulls
  /\ IsSkulls => ~IsFlags /\ ~IsBases
BY DEF IsFlags, IsBases, IsSkulls, FlagModes

\* In capture the hooks are those of capture.h, in collect those of collect.h.
LEMMA BaseHooks ==
  ASSUME IsBases, NEW c, NEW actor, NEW team, NEW s, NEW r, NEW known
  PROVE  /\ LeaveGame(c, TRUE) = BasesLeaveGame(m, c) /\ Died(c, actor) = BasesDied(m, c)
         /\ ChangeTeam(c, team) = BasesChangeTeam(m, c, team) /\ Update(s, r) = BasesUpdate(s)
         /\ Setup(known, r) = IF known THEN BasesSetup ELSE BasesEmpty(TRUE)
<1>1. ~IsFlags BY OtherModes
<1>2. LeaveGame(c, TRUE) = BasesLeaveGame(m, c) BY <1>1 DEF LeaveGame
<1>3. Died(c, actor) = BasesDied(m, c) BY <1>1 DEF Died
<1>4. ChangeTeam(c, team) = BasesChangeTeam(m, c, team) BY <1>1 DEF ChangeTeam
<1>5. Update(s, r) = BasesUpdate(s) BY <1>1 DEF Update
<1>6. Setup(known, r) = IF known THEN BasesSetup ELSE BasesEmpty(TRUE) BY <1>1 DEF Setup
<1> QED BY <1>2, <1>3, <1>4, <1>5, <1>6

LEMMA SkullHooks ==
  ASSUME IsSkulls, NEW c, NEW actor, NEW team, NEW s, NEW r, NEW known
  PROVE  /\ LeaveGame(c, TRUE) = SkullsDisconnect(m, c) /\ Died(c, actor) = SkullsDied(m, c, actor)
         /\ ChangeTeam(c, team) = m /\ Update(s, r) = SkullsUpdate(s)
         /\ Setup(known, r) = SkullsEmpty(~known)
<1>1. ~IsFlags /\ ~IsBases BY OtherModes
<1>2. LeaveGame(c, TRUE) = SkullsDisconnect(m, c) BY <1>1 DEF LeaveGame
<1>3. Died(c, actor) = SkullsDied(m, c, actor) BY <1>1 DEF Died
<1>4. ChangeTeam(c, team) = m BY <1>1 DEF ChangeTeam
<1>5. Update(s, r) = SkullsUpdate(s) BY <1>1 DEF Update
<1>6. Setup(known, r) = SkullsEmpty(~known) BY <1>1 DEF Setup
<1> QED BY <1>2, <1>3, <1>4, <1>5, <1>6

LEMMA SkullsDiedTold ==
  ASSUME NEW s, SkullsRight(s), NEW c, ci[c].tokens \in Nat, NEW actor
  PROVE  SkullsRight(SkullsDied(s, c, actor))
<1> DEFINE penalty == actor = Nobody \/ IsTeam(actor, c)
<1>1. SkullsDied(s, c, actor) = DropTokens(s, c, penalty) BY DEF SkullsDied
<1> HIDE DEF penalty
<1> QED BY <1>1, DropTokensTold

\* died, in every mode.
LEMMA DiedTold ==
  ASSUME Inv, ViewsInv, NEW c \in Clients, NEW actor
  PROVE  Told(Died(c, actor))
<1>1. CASE IsFlags
  <2>1. Died(c, actor) = FlagsDied(m, c, actor) BY <1>1, FlagHooks
  <2>2. FlagsTold(FlagsDied(m, c, actor)) BY <1>1, FlagsHooksTold DEF Inv, ViewsInv, Told
  <2> QED BY <1>1, <2>1, <2>2, OneMode DEF Told
<1>2. CASE IsBases
  <2>1. Died(c, actor) = BasesDied(m, c) BY <1>2, BaseHooks
  <2>2. BasesRight(BasesDied(m, c)) BY <1>2, BaseHooksHeld DEF ViewsInv, Told, Held
  <2> QED BY <1>2, <2>1, <2>2, OtherModes DEF Told
<1>3. CASE IsSkulls
  <2>1. Died(c, actor) = SkullsDied(m, c, actor) BY <1>3, SkullHooks
  <2>2. SkullsRight(SkullsDied(m, c, actor)) BY <1>3, SkullsDiedTold DEF ViewsInv, Told, TokensOK
  <2> QED BY <1>3, <2>1, <2>2, OtherModes DEF Told
<1> QED BY <1>1, <1>2, <1>3 DEF Told

LEMMA KilledTokens ==
  ASSUME Inv, TokensOK, NEW c \in Clients
  PROVE  Killed(c).tokens \in Nat
BY DEF Inv, PlayersOK, PlayerFields, TokensOK, Killed, TokensAtDeath, TokensAfterDrop

\* One player changes.
LEMMA TokensStep ==
  ASSUME Inv, TokensOK, NEW c \in Clients, NEW p, p.tokens \in Nat, ci' = [ci EXCEPT ![c] = p]
  PROVE  TokensOK'
BY DEF Inv, PlayersOK, TokensOK

LEMMA ConnectTold ==
  ASSUME Inv, ViewsInv, NEW c \in Clients, NEW team, Connect(c, team)
  PROVE  Telling
<1>1. NewPlayer(team).tokens \in Nat BY DEF NewPlayer
<1>2. TokensOK' BY <1>1, TokensStep DEF Connect, ViewsInv
<1>3. smode' = smode /\ m' = m BY DEF Connect, Turn
<1> QED BY <1>2, <1>3, StillTold DEF ViewsInv

LEMMA SpawnTold ==
  ASSUME Inv, ViewsInv, NEW c \in Clients, NEW o, NEW clip, Spawn(c, o, clip)
  PROVE  Telling
<1> DEFINE p == [ci[c] EXCEPT !.state = "alive", !.o = o, !.clip = clip, !.tokens = 0]
<1>1. ci' = [ci EXCEPT ![c] = p] /\ p.tokens \in Nat BY DEF Spawn, Inv, PlayersOK, PlayerFields
<1> HIDE DEF p
<1>2. TokensOK' BY <1>1, TokensStep DEF ViewsInv
<1>3. smode' = smode BY DEF Spawn, Game
<1>4. m' = m \/ (IsBases /\ m' = MoveBases(m, ci[c].team, Elsewhere, o)) BY DEF Spawn
<1>5. IsBases => BasesRight(MoveBases(m, ci[c].team, Elsewhere, o)) BY MovesHeld DEF ViewsInv, Told, Held
<1>6. Told(m') BY <1>4, <1>5, OtherModes DEF ViewsInv, Told
<1> QED BY <1>2, <1>3, <1>6, StillTold

LEMMA MoveTold ==
  ASSUME Inv, ViewsInv, NEW c \in Clients, NEW o, NEW clip, Move(c, o, clip)
  PROVE  Telling
<1> DEFINE p == [ci[c] EXCEPT !.o = o, !.clip = clip]
<1>1. ci' = [ci EXCEPT ![c] = p] /\ p.tokens \in Nat BY DEF Move, Inv, PlayersOK, PlayerFields, ViewsInv, TokensOK
<1> HIDE DEF p
<1>2. TokensOK' BY <1>1, TokensStep DEF ViewsInv
<1>3. smode' = smode BY DEF Move, Game
<1>4. m' = m \/ (IsBases /\ m' = BasesMoved(m, c, o, clip)) BY DEF Move
<1>5. IsBases => BasesRight(BasesMoved(m, c, o, clip)) BY BaseHooksHeld DEF ViewsInv, Told, Held
<1>6. Told(m') BY <1>4, <1>5, OtherModes DEF ViewsInv, Told
<1> QED BY <1>2, <1>3, <1>6, StillTold

LEMMA DieTold ==
  ASSUME Inv, ViewsInv, NEW c \in Clients, NEW actor, Die(c, actor)
  PROVE  Telling
<1>1. TokensOK' BY KilledTokens, TokensStep DEF Die, ViewsInv
<1>2. smode' = smode /\ m' = Died(c, actor) BY DEF Die
<1> QED BY <1>1, <1>2, DiedTold, StillTold

LEMMA SpectateTold ==
  ASSUME Inv, ViewsInv, NEW c \in Clients, Spectate(c)
  PROVE  Telling
<1> DEFINE p == [ci[c] EXCEPT !.state = "spectator", !.tokens = 0]
           s == IF Alive(c) THEN Died(c, Nobody) ELSE m
<1>1. ci' = [ci EXCEPT ![c] = p] /\ p.tokens \in Nat BY DEF Spectate, Inv, PlayersOK, PlayerFields
<1> HIDE DEF p
<1>2. TokensOK' BY <1>1, TokensStep DEF ViewsInv
<1>3. smode' = smode BY DEF Spectate, Turn
<1>4. m' = IF IsFlags THEN FlagsLeaveGame(s, c) ELSE s BY DEF Spectate
<1>5. Told(s) BY DiedTold DEF ViewsInv
<1>6. IsFlags => FlagsOK(s)
  <2> SUFFICES ASSUME IsFlags PROVE FlagsOK(s) OBVIOUS
  <2>1. FlagsOK(m) BY DEF Inv
  <2>2. CASE Alive(c)
    <3>1. s = FlagsDied(m, c, Nobody) BY <2>2, FlagHooks
    <3>2. Loses(m, s, c, Nobody, FALSE) BY <2>1, <3>1, NobodyGuilty
    <3> HIDE DEF s
    <3> QED BY <3>2 DEF Loses
  <2> QED BY <2>1, <2>2
<1> HIDE DEF s
<1>7. IsFlags => FlagsTold(FlagsLeaveGame(s, c)) BY <1>5, <1>6, FlagsHooksTold DEF Told
<1>8. Told(m') BY <1>4, <1>5, <1>7, OneMode DEF Told
<1> QED BY <1>2, <1>3, <1>8, StillTold

LEMMA UnspectateTold ==
  ASSUME Inv, ViewsInv, NEW c \in Clients, Unspectate(c)
  PROVE  Telling
<1> DEFINE p == [ci[c] EXCEPT !.state = "dead"]
<1>1. ci' = [ci EXCEPT ![c] = p] /\ p.tokens \in Nat BY DEF Unspectate, Inv, PlayersOK, PlayerFields, ViewsInv, TokensOK
<1> HIDE DEF p
<1>2. TokensOK' BY <1>1, TokensStep DEF ViewsInv
<1>3. smode' = smode /\ m' = m BY DEF Unspectate, Game
<1> QED BY <1>2, <1>3, StillTold DEF ViewsInv

LEMMA SwitchTeamTold ==
  ASSUME Inv, ViewsInv, NEW c \in Clients, NEW team, SwitchTeam(c, team)
  PROVE  Telling
<1> DEFINE p == IF Alive(c) THEN [Killed(c) EXCEPT !.team = team] ELSE [ci[c] EXCEPT !.team = team]
<1>1. ci' = [ci EXCEPT ![c] = p] BY DEF SwitchTeam, Inv, PlayersOK
<1>2. p.tokens \in Nat
  <2>1. DOMAIN ci[c] = PlayerFields /\ ci[c].tokens \in Nat BY DEF Inv, PlayersOK, ViewsInv, TokensOK
  <2>2. DOMAIN Killed(c) = PlayerFields /\ Killed(c).tokens \in Nat BY KilledPlayer, KilledTokens DEF Inv, ViewsInv
  <2> QED BY <2>1, <2>2 DEF PlayerFields
<1> HIDE DEF p
<1>3. TokensOK' BY <1>1, <1>2, TokensStep DEF ViewsInv
<1>4. smode' = smode /\ m' = (IF Alive(c) THEN Died(c, Nobody) ELSE m) BY DEF SwitchTeam, Turn
<1>5. Told(m') BY <1>4, DiedTold DEF ViewsInv
<1> QED BY <1>3, <1>4, <1>5, StillTold

LEMMA BotChangesTeamTold ==
  ASSUME Inv, ViewsInv, NEW c \in Clients, NEW team, BotChangesTeam(c, team)
  PROVE  Telling
<1> DEFINE p == [ci[c] EXCEPT !.team = team]
<1>1. ci' = [ci EXCEPT ![c] = p] /\ p.tokens \in Nat BY DEF BotChangesTeam, Inv, PlayersOK, PlayerFields, ViewsInv, TokensOK
<1> HIDE DEF p
<1>2. TokensOK' BY <1>1, TokensStep DEF ViewsInv
<1>3. smode' = smode /\ m' = ChangeTeam(c, team) BY DEF BotChangesTeam, Turn
<1>4. CASE IsFlags
  <2>1. ChangeTeam(c, team) = DropFlag(m, c, Nobody) BY <1>4, FlagHooks
  <2>2. FlagsTold(DropFlag(m, c, Nobody)) BY <1>4, FlagsHooksTold DEF Inv, ViewsInv, Told
  <2>3. Told(m') BY <1>3, <1>4, <2>1, <2>2, OneMode DEF Told
  <2> QED BY <1>2, <1>3, <2>3, StillTold
<1>5. CASE IsBases
  <2>1. ChangeTeam(c, team) = BasesChangeTeam(m, c, team) BY <1>5, BaseHooks
  <2>2. BasesRight(BasesChangeTeam(m, c, team)) BY <1>5, BaseHooksHeld DEF ViewsInv, Told, Held
  <2>3. Told(m') BY <1>3, <1>5, <2>1, <2>2, OtherModes DEF Told
  <2> QED BY <1>2, <1>3, <2>3, StillTold
<1>6. CASE ~IsFlags /\ ~IsBases
  <2>1. ChangeTeam(c, team) = m BY <1>6 DEF ChangeTeam
  <2> QED BY <1>2, <1>3, <2>1, StillTold DEF ViewsInv
<1> QED BY <1>4, <1>5, <1>6

LEMMA DisconnectTold ==
  ASSUME Inv, ViewsInv, NEW c \in Clients, Disconnect(c)
  PROVE  Telling
<1>1. Gone.tokens \in Nat BY DEF Gone, NewPlayer
<1>2. TokensOK' BY <1>1, TokensStep DEF Disconnect, ViewsInv
<1>3. smode' = smode /\ m' = LeaveGame(c, TRUE) BY DEF Disconnect, Turn
<1>4. CASE IsFlags
  <2>1. LeaveGame(c, TRUE) = FlagsLeaveGame(m, c) BY <1>4, FlagHooks
  <2>2. FlagsTold(FlagsLeaveGame(m, c)) BY <1>4, FlagsHooksTold DEF Inv, ViewsInv, Told
  <2>3. Told(m') BY <1>3, <1>4, <2>1, <2>2, OneMode DEF Told
  <2> QED BY <1>2, <1>3, <2>3, StillTold
<1>5. CASE IsBases
  <2>1. LeaveGame(c, TRUE) = BasesLeaveGame(m, c) BY <1>5, BaseHooks
  <2>2. BasesRight(BasesLeaveGame(m, c)) BY <1>5, BaseHooksHeld DEF ViewsInv, Told, Held
  <2>3. Told(m') BY <1>3, <1>5, <2>1, <2>2, OtherModes DEF Told
  <2> QED BY <1>2, <1>3, <2>3, StillTold
<1>6. CASE IsSkulls
  <2>1. LeaveGame(c, TRUE) = SkullsDisconnect(m, c) BY <1>6, SkullHooks
  <2>2. SkullsRight(SkullsDisconnect(m, c)) BY <1>6, SkullsDisconnectTold DEF ViewsInv, Told
  <2>3. Told(m') BY <1>3, <1>6, <2>1, <2>2, OtherModes DEF Told
  <2> QED BY <1>2, <1>3, <2>3, StillTold
<1>7. CASE ~IsFlags /\ ~IsBases /\ ~IsSkulls
  <2>1. Told(m') BY <1>7 DEF Told
  <2> QED BY <1>2, <1>3, <2>1, StillTold
<1> QED BY <1>4, <1>5, <1>6, <1>7

LEMMA TakingTold ==
  ASSUME Inv, ViewsInv, NEW c \in Clients, NEW i, NEW r, TryDropFlag(c) \/ TakeFlag(c, i, r)
  PROVE  Telling
<1>1. smode' = smode /\ ci' = ci /\ IsFlags BY DEF TryDropFlag, TakeFlag, Game
<1>2. TokensOK' BY <1>1 DEF ViewsInv, TokensOK
<1>3. FlagsOK(m) /\ FlagsTold(m) BY <1>1 DEF Inv, ViewsInv, Told
<1>4. FlagsTold(DropFlag(m, c, Nobody)) BY <1>3, FlagsHooksTold
<1>5. MayTake(m, c, i) => FlagsTold(Take(m, c, i, r)) BY <1>3, FlagsTakeTold DEF Inv, PlayersOK
<1>6. FlagsTold(m') BY <1>4, <1>5 DEF TryDropFlag, TakeFlag
<1>7. Told(m') BY <1>1, <1>6, OneMode DEF Told
<1> QED BY <1>1, <1>2, <1>7, StillTold

LEMMA AskingTold ==
  ASSUME Inv, ViewsInv, NEW c \in Clients, NEW b, RepAmmo(c) \/ DepositTokens(c, b) \/ TakeSkull(c, b)
  PROVE  Telling
<1>1. smode' = smode BY DEF RepAmmo, DepositTokens, TakeSkull, Game
<1>2. \E n \in Nat : ci' = ci \/ ci' = [ci EXCEPT ![c].tokens = n]
  <2>1. DOMAIN ci = Clients /\ DOMAIN ci[c] = PlayerFields /\ ci[c].tokens \in Nat BY DEF Inv, PlayersOK, ViewsInv, TokensOK
  <2>2. CASE RepAmmo(c) BY <2>2 DEF RepAmmo
  <2>3. CASE DepositTokens(c, b)
    <3> DEFINE n == IF m'.next = m.next THEN 0 ELSE ci[c].tokens
    <3>1. ci' = [ci EXCEPT ![c].tokens = n] BY <2>1, <2>3 DEF DepositTokens, PlayerFields
    <3> QED BY <2>1, <3>1
  <2>4. CASE TakeSkull(c, b)
    <3> DEFINE n == IF Gains(m, c, b) THEN ci[c].tokens + 1 ELSE ci[c].tokens
    <3>1. ci' = [ci EXCEPT ![c].tokens = n] BY <2>1, <2>4 DEF TakeSkull, PlayerFields
    <3>2. n \in Nat BY <2>1
    <3> QED BY <3>1, <3>2
  <2> QED BY <2>2, <2>3, <2>4
<1>3. TokensOK' BY <1>2 DEF Inv, PlayersOK, PlayerFields, ViewsInv, TokensOK
<1>4. CASE RepAmmo(c)
  <2>1. IsBases /\ m' = Replenish(m, c) BY <1>4 DEF RepAmmo
  <2>2. BasesRight(m') BY <2>1, ReplenishHeld DEF ViewsInv, Told, Held
  <2>3. Told(m') BY <2>1, <2>2, OtherModes DEF Told
  <2> QED BY <1>1, <1>3, <2>3, StillTold
<1>5. CASE DepositTokens(c, b) \/ TakeSkull(c, b)
  <2>1. IsSkulls /\ (m' = Deposit(m, c, b) \/ m' = TakeToken(m, c, b)) BY <1>5 DEF DepositTokens, TakeSkull
  <2>2. SkullsRight(m') BY <2>1, DepositTold, TakeTokenTold DEF ViewsInv, Told
  <2>3. Told(m') BY <2>1, <2>2, OtherModes DEF Told
  <2> QED BY <1>1, <1>3, <2>3, StillTold
<1> QED BY <1>4, <1>5

LEMMA OrderSequence ==
  ASSUME IsBases, NEW order \in Orders
  PROVE  IsSequence(order)
<1> DEFINE n == Cardinality(Clients)
<1>1. n \in Nat BY PlayersAssumption, FS_CardinalityType
<1>2. order \in [1..n -> Clients] BY DEF Orders
<1> HIDE DEF n
<1>3. order \in Seq(Clients) BY <1>1, <1>2
<1> QED BY <1>3 DEF IsSequence

LEMMA ItemListTold ==
  ASSUME Inv, ViewsInv, NEW c \in Clients, NEW r, NEW order \in Orders, ItemList(c, r, order)
  PROVE  Telling
<1>1. smode' = smode /\ ci' = ci /\ m.notgot BY DEF ItemList, Game
<1>2. TokensOK' BY <1>1 DEF ViewsInv, TokensOK
<1>3. CASE IsFlags
  <2>1. ~IsBases BY <1>3, OneMode
  <2>2. m' = FlagsParse(m, r) BY <1>3, <2>1 DEF ItemList
  <2>3. FlagsTold(m') BY <1>1, <1>3, <2>2, FlagsParseTold DEF Inv, ViewsInv, Told
  <2>4. Told(m') BY <1>3, <2>3, OneMode DEF Told
  <2> QED BY <1>1, <1>2, <2>4, StillTold
<1>4. CASE IsBases
  <2>1. ~IsFlags BY <1>4, OtherModes
  <2>2. m' = BasesPlaced(m, order) BY <1>4, <2>1 DEF ItemList
  <2>3. BasesRight(m') BY <1>4, <2>2, OrderSequence, PlacedHeld DEF ViewsInv, Told
  <2>4. Told(m') BY <1>4, <2>3, OtherModes DEF Told
  <2> QED BY <1>1, <1>2, <2>4, StillTold
<1>5. CASE ~IsFlags /\ ~IsBases
  <2>1. m' = [m EXCEPT !.notgot = FALSE] BY <1>5 DEF ItemList
  <2>2. IsSkulls => SkullsRight(m') BY <2>1, SkullsQuiet DEF ViewsInv, Told
  <2>3. Told(m') BY <1>5, <2>2 DEF Told
  <2> QED BY <1>1, <1>2, <2>3, StillTold
<1> QED BY <1>3, <1>4, <1>5

LEMMA TickTold ==
  ASSUME Inv, ViewsInv, NEW r, Tick(r)
  PROVE  Telling
<1> DEFINE now == m.now + 1
           s == [m EXCEPT !.now = now]
<1>1. smode' = smode /\ ci' = ci BY DEF Tick
<1>2. TokensOK' BY <1>1 DEF ViewsInv, TokensOK
<1>3. CASE IsFlags
  <2>1. FlagsOK(m) /\ FlagsTold(m) BY <1>3 DEF Inv, ViewsInv, Told
  <2>2. m.now \in Nat /\ "now" \in DOMAIN m BY <2>1 DEF FlagsOK, StateFields
  <2>3. m' = FlagsUpdate(s, r) BY <1>3, <2>2, FlagHooks DEF Tick
  <2>4. now \in Nat /\ m.now <= now BY <2>2
  <2>5. Manned(m) BY <1>3 DEF Inv, HoldersAlive, Manned, Alive, Present
  <2>6. \A c \in Clients : ci[c].team \in Teams BY DEF Inv, PlayersOK
  <2> HIDE DEF now
  <2>7. FlagsTold(m') BY <2>1, <2>3, <2>4, <2>5, <2>6, FlagsTickTold
  <2>8. Told(m') BY <1>3, <2>7, OneMode DEF Told
  <2> QED BY <1>1, <1>2, <2>8, StillTold
<1>4. CASE IsBases
  <2>1. BasesRight(m) BY <1>4 DEF ViewsInv, Told
  <2>2. m' = BasesUpdate(s)
    <3>1. s = [m EXCEPT !.now = @ + 1] BY <2>1 DEF BasesRight, CaptureFields
    <3> QED BY <1>4, <3>1, BaseHooks DEF Tick
  <2>3. /\ DOMAIN s = CaptureFields /\ s.bases = m.bases /\ s.scores = m.scores /\ s.seen = m.seen
    BY <2>1 DEF BasesRight, CaptureFields
  <2> HIDE DEF s
  <2>4. BasesRight(s) BY <2>1, <2>3 DEF BasesRight, BaseView
  <2>5. BasesRight(m') BY <2>2, <2>4, BasesUpdateHeld DEF Held
  <2>6. Told(m') BY <1>4, <2>5, OtherModes DEF Told
  <2> QED BY <1>1, <1>2, <2>6, StillTold
<1>5. CASE IsSkulls
  <2>1. SkullsRight(m) BY <1>5 DEF ViewsInv, Told
  <2>2. m' = SkullsUpdate(s)
    <3>1. s = [m EXCEPT !.now = @ + 1] BY <2>1 DEF SkullsRight, CollectFields
    <3> QED BY <1>5, <3>1, SkullHooks DEF Tick
  <2> HIDE DEF now
  <2>3. SkullsRight(s) BY <2>1, SkullsQuiet
  <2> HIDE DEF s
  <2>4. SkullsRight(m') BY <2>2, <2>3, SkullsUpdateTold
  <2>5. Told(m') BY <1>5, <2>4, OtherModes DEF Told
  <2> QED BY <1>1, <1>2, <2>5, StillTold
<1>6. CASE ~IsFlags /\ ~IsBases /\ ~IsSkulls
  <2>1. Told(m') BY <1>6 DEF Told
  <2> QED BY <1>1, <1>2, <2>1, StillTold
<1> QED BY <1>3, <1>4, <1>5, <1>6

LEMMA GameEndsTold ==
  ASSUME Inv, ViewsInv, GameEnds
  PROVE  Telling
<1>1. smode' = smode /\ ci' = ci /\ m' = Intermission(m) BY DEF GameEnds, Game
<1>2. TokensOK' BY <1>1 DEF ViewsInv, TokensOK
<1>3. IsFlags => FlagsTold(Intermission(m)) BY FlagsEndTold DEF Inv, ViewsInv, Told
<1>4. IsBases => BasesRight(Intermission(m)) BY BasesEnded DEF ViewsInv, Told, Held
<1>5. IsSkulls => SkullsRight(Intermission(m)) BY SkullsQuiet DEF ViewsInv, Told
<1>6. Told(m') BY <1>1, <1>3, <1>4, <1>5 DEF Told
<1> QED BY <1>1, <1>2, <1>6, StillTold

\* What clients are told of a map.
SetupsTold == \A known \in BOOLEAN : \A r : Told(Setup(known, r))

LEMMA SetupTold == SetupsTold
<1> SUFFICES ASSUME NEW known \in BOOLEAN, NEW r PROVE Told(Setup(known, r)) BY DEF SetupsTold
<1>1. CASE IsFlags
  <2>1. Setup(known, r) = IF known THEN FlagsSetup(r) ELSE FlagsUnknown BY <1>1, FlagHooks
  <2>2. FlagsTold(Setup(known, r)) BY <2>1, FlagsSetupTold, FlagsUnknownTold
  <2> QED BY <1>1, <2>2, OneMode DEF Told
<1>2. CASE IsBases
  <2>1. Setup(known, r) = IF known THEN BasesSetup ELSE BasesEmpty(TRUE) BY <1>2, BaseHooks
  <2>2. BasesRight(BasesEmpty(TRUE)) /\ BasesRight(BasesEmpty(FALSE)) BY EmptyBases
  <2>3. BasesRight(BasesSetup)
    <3>1. <<>> \in Seq({}) OBVIOUS
    <3>2. IsSequence(<<>>) BY <3>1 DEF IsSequence
    <3> QED BY <2>2, <3>2, PlacedHeld DEF BasesSetup
  <2> QED BY <1>2, <2>1, <2>2, <2>3, OtherModes DEF Told
<1>3. CASE IsSkulls
  <2>1. Setup(known, r) = SkullsEmpty(~known) BY <1>3, SkullHooks
  <2> QED BY <1>3, <2>1, EmptySkulls, OtherModes DEF Told
<1> QED BY <1>1, <1>2, <1>3 DEF Told

LEMMA ChangeMapTold ==
  ASSUME Inv, ViewsInv, SetupsTold', NEW mode, NEW r, ChangeMap(mode, r)
  PROVE  Telling
<1>1. TokensOK'
  <2>1. ASSUME NEW c \in Clients PROVE ResetPlayer(ci[c]).tokens \in Nat
    BY DEF Inv, PlayersOK, PlayerFields, ResetPlayer, NewPlayer
  <2> QED BY <2>1 DEF ChangeMap, TokensOK
<1>2. PICK known \in BOOLEAN : m' = Setup(known, r)' BY DEF ChangeMap, Known
<1>3. Told(m)' BY <1>2 DEF SetupsTold, Told
<1> QED BY <1>1, <1>3 DEF Telling, ViewsInv

LEMMA InitTold ==
  ASSUME Init
  PROVE  ViewsInv
<1>1. TokensOK
  <2>1. ci \in [Clients -> {Gone} \cup {NewPlayer(t) : t \in Teams}] BY DEF Init
  <2>2. \A p \in {Gone} \cup {NewPlayer(t) : t \in Teams} : p.tokens \in Nat BY DEF Gone, NewPlayer
  <2> QED BY <2>1, <2>2 DEF TokensOK
<1>2. PICK known \in BOOLEAN, r \in Draws : m = Setup(known, r) BY DEF Init, Known
<1>3. Told(m) BY <1>2, SetupTold DEF SetupsTold
<1> QED BY <1>1, <1>3 DEF ViewsInv

LEMMA NextTold ==
  ASSUME Inv, ViewsInv, SetupsTold', Next
  PROVE  Telling
BY ConnectTold, SpawnTold, MoveTold, UnspectateTold, DieTold, SpectateTold, SwitchTeamTold, BotChangesTeamTold,
   TakingTold, DisconnectTold, AskingTold, ItemListTold, TickTold, GameEndsTold, ChangeMapTold
   DEF Next

LEMMA StutterTold ==
  ASSUME ViewsInv, UNCHANGED vars
  PROVE  Telling
<1>1. smode' = smode /\ m' = m /\ ci' = ci BY DEF vars
<1>2. TokensOK' BY <1>1 DEF ViewsInv, TokensOK
<1> QED BY <1>1, <1>2, StillTold DEF ViewsInv

LEMMA ToldAgree ==
  ASSUME ViewsInv
  PROVE  ViewsAgree
<1>1. IsFlags /\ ~m.notgot => m.seen = FlagsKnown(m)
  <2> SUFFICES ASSUME IsFlags, ~m.notgot PROVE m.seen = FlagsKnown(m) OBVIOUS
  <2>1. CASE Orphaned(m)
    <3>1. \A i \in DOMAIN m.flags : FlagKnown(m.flags[i]) = Hidden(m.flags[i])
      BY <2>1 DEF Orphaned, Orphan, FlagKnown, Mislaid, Hidden
    <3> QED BY <2>1, <3>1 DEF Orphaned, FlagsKnown
  <2>2. CASE Right(m) /\ Sided(m)
    <3>1. \A i \in DOMAIN m.flags : FlagKnown(m.flags[i]) = FlagShown(m.flags[i]) BY <2>2 DEF Sided, FlagKnown, Mislaid
    <3>2. m.seen = FlagView(m) BY <2>2, CopyTold DEF Right
    <3> QED BY <3>1, <3>2 DEF FlagView, FlagsKnown
  <2> QED BY <2>1, <2>2 DEF ViewsInv, Told, FlagsTold
<1>2. IsBases => m.seen = BaseView(m) BY DEF ViewsInv, Told, BasesRight
<1>3. IsSkulls => m.seen.tokens \subseteq SkullView(m).tokens /\ m.seen.scores = SkullView(m).scores
  BY SkullsTold DEF ViewsInv, Told
<1> QED BY <1>1, <1>2, <1>3 DEF ViewsAgree

\* What a player who joins is told of flags, bases, skulls and scores (initclient) is what the others put
\* together from the messages, for any clients, places, limits and draws, in every mode and wherever the
\* items came from, but for the flags of protect that parseitems gave no team (ctf.h, the call of addflag).
THEOREM Informed == Spec => []ViewsAgree
<1>1. Inv /\ ViewsInv /\ SetupsFresh' /\ SetupsTold' /\ [Next]_vars => Inv' /\ ViewsInv'
  BY NextSafe, StutterSafe, NextTold, StutterTold DEF Safe, Telling
<1>2. ViewsInv => ViewsAgree BY ToldAgree
<1>3. Init => Inv /\ ViewsInv BY InitInv, InitTold
<1> QED BY <1>1, <1>2, <1>3, SetupFresh, SetupTold, PTL DEF Spec

-----------------------------------------------------------------------------
(* Loops turn by turn: what holds after so many turns, which the turns take *)
(* in order.                                                                *)

\* The index of turn k of n, and those of the turns up to it.
TurnOf(kind, n, k) == IF Backward(kind) THEN n - k + 1 ELSE k
Past(kind, n, k) == IF Backward(kind) THEN (n - k + 1)..n ELSE 1..k

LEMMA PastTurns ==
  ASSUME NEW kind, NEW n \in Nat, NEW k \in 1..n
  PROVE  LET s == Past(kind, n, k)
         IN /\ s \in SUBSET (1..n) /\ s # {} /\ Turning(kind, s) = TurnOf(kind, n, k)
            /\ s \ {TurnOf(kind, n, k)} = Past(kind, n, k - 1) /\ TurnOf(kind, n, k) \in 1..n
<1> DEFINE s == Past(kind, n, k)
           x == TurnOf(kind, n, k)
<1>1. CASE Backward(kind)
  <2>1. s = (n - k + 1)..n /\ x = n - k + 1 /\ Past(kind, n, k - 1) = (n - (k - 1) + 1)..n BY <1>1 DEF Past, TurnOf
  <2>2. n - (k - 1) + 1 = x + 1 /\ x \in 1..n BY <2>1
  <2> HIDE DEF x, s
  <2>3. s = x..n /\ Past(kind, n, k - 1) = (x + 1)..n BY <2>1, <2>2
  <2>4. s \in SUBSET (1..n) /\ x \in s /\ \A y \in s : x <= y BY <2>2, <2>3
  <2>5. Turning(kind, s) \in s /\ \A y \in s : Turning(kind, s) <= y BY <1>1, <2>4, LowestIn DEF Turning
  <2>6. Turning(kind, s) = x
    <3> DEFINE z == Turning(kind, s)
    <3>0. z \in 1..n BY <2>4, <2>5
    <3>1. z \in Nat /\ x \in Nat /\ z <= x /\ x <= z BY <2>2, <2>4, <2>5, <3>0
    <3> HIDE DEF z
    <3>2. z = x BY <3>1
    <3> QED BY <3>2 DEF z
  <2>7. s \ {x} = (x + 1)..n BY <2>2, <2>3
  <2> QED BY <2>2, <2>3, <2>4, <2>6, <2>7 DEF s, x
<1>2. CASE ~Backward(kind)
  <2>1. s = 1..k /\ x = k /\ Past(kind, n, k - 1) = 1..(k - 1) BY <1>2 DEF Past, TurnOf
  <2> HIDE DEF x, s
  <2>2. s \in SUBSET (1..n) /\ x \in s /\ \A y \in s : x >= y BY <2>1
  <2>3. Turning(kind, s) \in s /\ \A y \in s : Turning(kind, s) >= y BY <1>2, <2>2, GreatestIn DEF Turning
  <2>4. Turning(kind, s) = x
    <3> DEFINE z == Turning(kind, s)
    <3>1. z \in Nat /\ x \in Nat /\ z <= x /\ x <= z BY <2>1, <2>2, <2>3
    <3> HIDE DEF z
    <3>2. z = x BY <3>1
    <3> QED BY <3>2 DEF z
  <2>5. s \ {x} = 1..(k - 1) BY <2>1
  <2> QED BY <2>1, <2>2, <2>4, <2>5 DEF s, x
<1> QED BY <1>1, <1>2

-----------------------------------------------------------------------------
(* Counting skulls.                                                         *)

Drops(q, d) == {i \in DOMAIN q : q[i].dropper = d}
\* Those of d behind the first k, of team and of other kinds.
Own(q, k, d, team) == {j \in (k + 1)..Len(q) : q[j].dropper = d /\ q[j].team = team}
Other(q, k, d, team) == {j \in (k + 1)..Len(q) : q[j].dropper = d /\ q[j].team # team}
Fewer(q, r, d) == Cardinality(Drops(r, d)) <= Cardinality(Drops(q, d))

LEMMA SmallSets ==
  ASSUME NEW q, IsSequence(q), NEW d, NEW k \in Nat, NEW team
  PROVE  /\ IsFiniteSet(Drops(q, d)) /\ Cardinality(Drops(q, d)) \in Nat
         /\ IsFiniteSet(Own(q, k, d, team)) /\ Cardinality(Own(q, k, d, team)) \in Nat
         /\ IsFiniteSet(Other(q, k, d, team)) /\ Cardinality(Other(q, k, d, team)) \in Nat
<1>1. DOMAIN q = 1..Len(q) /\ Len(q) \in Nat BY IndexSets
<1> DEFINE n == Len(q)
<1>2. (k + 1)..n \subseteq 1..n BY <1>1
<1>3. Drops(q, d) \in SUBSET DOMAIN q /\ Own(q, k, d, team) \in SUBSET DOMAIN q /\ Other(q, k, d, team) \in SUBSET DOMAIN q
  BY <1>1, <1>2 DEF Drops, Own, Other
<1> QED BY <1>3, IndexSets

\* One index taken away, another put in its place.
LEMMA Replaced ==
  ASSUME NEW S, IsFiniteSet(S), NEW R, NEW i, NEW z, R \subseteq (S \ {z}) \cup {i}, i \in R => z \in S \/ i \in S
  PROVE  Cardinality(R) <= Cardinality(S)
<1>1. Cardinality(S) \in Nat BY FS_CardinalityType
<1>2. CASE i \notin R \/ i \in S
  <2>1. R \subseteq S BY <1>2
  <2> QED BY <2>1, FS_Subset
<1>3. CASE i \in R /\ i \notin S
  <2> DEFINE T == S \ {z}
  <2>1. z \in S BY <1>3
  <2>2. IsFiniteSet(T) /\ Cardinality(T) = Cardinality(S) - 1 BY <2>1, FS_RemoveElement
  <2>3. i \notin T BY <1>3
  <2> HIDE DEF T
  <2>4. IsFiniteSet(T \cup {i}) /\ Cardinality(T \cup {i}) = Cardinality(T) + 1 BY <2>2, <2>3, FS_AddElement
  <2>5. Cardinality(R) <= Cardinality(T \cup {i}) BY <2>4, FS_Subset DEF T
  <2>6. Cardinality(T \cup {i}) = Cardinality(S) BY <1>1, <2>2, <2>4
  <2> QED BY <2>5, <2>6
<1> QED BY <1>2, <1>3

\* What takes the place of a removed skull comes from behind.
LEMMA RemovedPlaces ==
  ASSUME NEW q, IsSequence(q), NEW i \in DOMAIN q
  PROVE  LET r == RemoveUnordered(q, i)
         IN IsSequence(r) /\ Len(r) = Len(q) - 1 /\ \A j \in 1..(Len(q) - 1) : r[j] = IF j = i THEN q[Len(q)] ELSE q[j]
<1> DEFINE n == Len(q)
           f == Front(q)
           r == RemoveUnordered(q, i)
<1>0. IsSequence(r) /\ Len(r) = Len(q) - 1 BY RemovedToken
<1>1. DOMAIN q = 1..n /\ n \in Nat BY IndexSets
<1>2. n - 1 \in Nat BY <1>1
<1>3. f = SubSeq(q, 1, n - 1) BY DEF Front
<1>6. r = IF i = n THEN f ELSE [f EXCEPT ![i] = q[n]] BY DEF RemoveUnordered, Last
<1> HIDE DEF n, r
<1>4. f = [k \in 1..(n - 1) |-> q[k]]
  <2>1. SubSeq(q, 1, n - 1) = [k \in 1..((n - 1) - 1 + 1) |-> q[1 + k - 1]] BY <1>2
  <2>2. (n - 1) - 1 + 1 = n - 1 BY <1>1
  <2>3. \A k \in 1..(n - 1) : 1 + k - 1 = k OBVIOUS
  <2> QED BY <1>3, <2>1, <2>2, <2>3
<1> HIDE DEF f
<1>5. \A j \in 1..(n - 1) : r[j] = IF j = i THEN q[n] ELSE q[j] BY <1>1, <1>4, <1>6
<1> QED BY <1>0, <1>5 DEF r, n

LEMMA RemovedCounts ==
  ASSUME NEW q, IsSequence(q), NEW i \in DOMAIN q, NEW r, r = RemoveUnordered(q, i), NEW d, NEW team
  PROVE  /\ Fewer(q, r, d)
         /\ Cardinality(Own(r, i - 1, d, team)) <= Cardinality(Own(q, i, d, team))
         /\ Cardinality(Other(r, i - 1, d, team)) <= Cardinality(Other(q, i, d, team))
<1> DEFINE n == Len(q)
<1>1. DOMAIN q = 1..n /\ n \in Nat /\ i \in 1..n BY IndexSets
<1>0. i \in Nat BY <1>1
<1>2. IsSequence(r) /\ Len(r) = n - 1 /\ \A j \in 1..(n - 1) : r[j] = IF j = i THEN q[n] ELSE q[j] BY RemovedPlaces
<1>3. DOMAIN r = 1..(n - 1) BY <1>2, IndexSets
<1> HIDE DEF n
<1>4. i - 1 + 1 = i BY <1>1
<1>5. Fewer(q, r, d)
  <2> DEFINE S == Drops(q, d)
             R == Drops(r, d)
  <2>1. \A j \in 1..(n - 1) : j \in 1..n /\ j # n BY <1>1
  <2>2. R \subseteq (S \ {n}) \cup {i} BY <1>1, <1>2, <1>3, <2>1 DEF Drops
  <2>3. i \in R => n \in S BY <1>1, <1>2, <1>3 DEF Drops
  <2>4. IsFiniteSet(S) BY <1>0, SmallSets
  <2> HIDE DEF S, R
  <2>5. Cardinality(R) <= Cardinality(S) BY <2>2, <2>3, <2>4, Replaced
  <2> QED BY <2>5 DEF Fewer, S, R
<1>6. Cardinality(Own(r, i - 1, d, team)) <= Cardinality(Own(q, i, d, team))
  <2> DEFINE S == Own(q, i, d, team)
             R == Own(r, i - 1, d, team)
  <2>1. S = {j \in (i + 1)..n : q[j].dropper = d /\ q[j].team = team} BY DEF Own, n
  <2>2. R = {j \in i..(n - 1) : r[j].dropper = d /\ r[j].team = team} BY <1>2, <1>4 DEF Own
  <2>3. IsFiniteSet(S) BY <1>0, SmallSets
  <2> HIDE DEF S, R
  <2>4. \A j \in i..(n - 1) : j \in 1..(n - 1) /\ j # n /\ (j # i => j \in (i + 1)..n) BY <1>1
  <2>5. R \subseteq (S \ {n}) \cup {i} BY <1>2, <2>1, <2>2, <2>4
  <2>6. i \in R => n \in S
    <3> SUFFICES ASSUME i \in R PROVE n \in S OBVIOUS
    <3>1. i \in 1..(n - 1) /\ n \in (i + 1)..n BY <1>1, <2>2
    <3> QED BY <1>2, <2>1, <2>2, <3>1
  <2>7. Cardinality(R) <= Cardinality(S) BY <2>3, <2>5, <2>6, Replaced
  <2> QED BY <2>7 DEF S, R
<1>7. Cardinality(Other(r, i - 1, d, team)) <= Cardinality(Other(q, i, d, team))
  <2> DEFINE S == Other(q, i, d, team)
             R == Other(r, i - 1, d, team)
  <2>1. S = {j \in (i + 1)..n : q[j].dropper = d /\ q[j].team # team} BY DEF Other, n
  <2>2. R = {j \in i..(n - 1) : r[j].dropper = d /\ r[j].team # team} BY <1>2, <1>4 DEF Other
  <2>3. IsFiniteSet(S) BY <1>0, SmallSets
  <2> HIDE DEF S, R
  <2>4. \A j \in i..(n - 1) : j \in 1..(n - 1) /\ j # n /\ (j # i => j \in (i + 1)..n) BY <1>1
  <2>5. R \subseteq (S \ {n}) \cup {i} BY <1>2, <2>1, <2>2, <2>4
  <2>6. i \in R => n \in S
    <3> SUFFICES ASSUME i \in R PROVE n \in S OBVIOUS
    <3>1. i \in 1..(n - 1) /\ n \in (i + 1)..n BY <1>1, <2>2
    <3> QED BY <1>2, <2>1, <2>2, <3>1
  <2>7. Cardinality(R) <= Cardinality(S) BY <2>3, <2>5, <2>6, Replaced
  <2> QED BY <2>7 DEF S, R
<1> QED BY <1>5, <1>6, <1>7

\* The next skull to look at, i, adds to those behind it what it is.
LEMMA CountedNext ==
  ASSUME NEW q, IsSequence(q), NEW i \in DOMAIN q, NEW d, NEW team
  PROVE  /\ Cardinality(Own(q, i - 1, d, team)) =
              Cardinality(Own(q, i, d, team)) + IF q[i].dropper = d /\ q[i].team = team THEN 1 ELSE 0
         /\ Cardinality(Other(q, i - 1, d, team)) =
              Cardinality(Other(q, i, d, team)) + IF q[i].dropper = d /\ q[i].team # team THEN 1 ELSE 0
<1> DEFINE n == Len(q)
           S == Own(q, i, d, team)
           T == Other(q, i, d, team)
<1>1. DOMAIN q = 1..n /\ n \in Nat /\ i \in 1..n BY IndexSets
<1>0. i \in Nat BY <1>1
<1>2. i - 1 + 1 = i /\ (i..n = {i} \cup (i + 1)..n) /\ i \notin (i + 1)..n BY <1>1
<1>3. Own(q, i - 1, d, team) = S \cup IF q[i].dropper = d /\ q[i].team = team THEN {i} ELSE {} BY <1>2 DEF Own
<1>4. Other(q, i - 1, d, team) = T \cup IF q[i].dropper = d /\ q[i].team # team THEN {i} ELSE {} BY <1>2 DEF Other
<1>5. i \notin S /\ i \notin T BY <1>2 DEF Own, Other
<1>6. IsFiniteSet(S) /\ Cardinality(S) \in Nat /\ IsFiniteSet(T) /\ Cardinality(T) \in Nat BY <1>0, SmallSets
<1> HIDE DEF S, T
<1>7. Cardinality(S \cup {i}) = Cardinality(S) + 1 /\ Cardinality(T \cup {i}) = Cardinality(T) + 1
  BY <1>5, <1>6, FS_AddElement
<1>8. S \cup {} = S /\ T \cup {} = T OBVIOUS
<1>9. Cardinality(S) + 0 = Cardinality(S) /\ Cardinality(T) + 0 = Cardinality(T) BY <1>6
<1> QED BY <1>3, <1>4, <1>7, <1>8, <1>9 DEF S, T

\* A skull more.
LEMMA AppendedCounts ==
  ASSUME NEW q, IsSequence(q), NEW x, NEW d
  PROVE  Cardinality(Drops(Append(q, x), d)) = Cardinality(Drops(q, d)) + IF x.dropper = d THEN 1 ELSE 0
<1> DEFINE n == Len(q)
           r == Append(q, x)
           S == Drops(q, d)
<1>1. /\ IsSequence(r) /\ DOMAIN r = 1..(n + 1) /\ DOMAIN q = 1..n /\ n \in Nat
      /\ r[n + 1] = x /\ \A i \in DOMAIN q : r[i] = q[i]
  BY AppendedTokens
<1>2. IsFiniteSet(S) /\ Cardinality(S) \in Nat BY SmallSets
<1> HIDE DEF n, r
<1>3. 1..(n + 1) = 1..n \cup {n + 1} /\ n + 1 \notin 1..n BY <1>1
<1>4. Drops(r, d) = S \cup IF x.dropper = d THEN {n + 1} ELSE {} BY <1>1, <1>3 DEF Drops
<1>5. n + 1 \notin S BY <1>1, <1>3 DEF Drops
<1> HIDE DEF S
<1>6. Cardinality(S \cup {n + 1}) = Cardinality(S) + 1 BY <1>2, <1>5, FS_AddElement
<1>7. S \cup {} = S /\ Cardinality(S) + 0 = Cardinality(S) BY <1>2
<1> QED BY <1>4, <1>6, <1>7 DEF S, r

\* What holds at 0, and after each turn if before it, holds after any number of turns.
LEMMA AllTurns ==
  ASSUME NEW n \in Nat, NEW G, 0 \in G, ASSUME NEW k \in 1..n, k - 1 \in G PROVE k \in G
  PROVE  \A k \in 0..n : k \in G
<1> DEFINE Bad == {k \in Nat : k <= n /\ k \notin G}
<1>1. Bad = {}
  <2> SUFFICES ASSUME Bad # {} PROVE FALSE OBVIOUS
  <2>1. PICK k \in Bad : \A j \in Bad : k <= j BY LeastNat
  <2>2. k \in Nat /\ k <= n /\ k \notin G OBVIOUS
  <2>3. k # 0 BY <2>2
  <2>4. k \in 1..n /\ k - 1 \in Nat /\ k - 1 <= n /\ ~(k <= k - 1) BY <2>2, <2>3
  <2>5. k - 1 \in G BY <2>1, <2>4
  <2> QED BY <2>2, <2>4, <2>5
<1> QED BY <1>1

\* f goes through the turns of a loop.
LoopRun(f, kind, p, base, seq) ==
  /\ f[0] = base /\ f[Len(seq)] = Looped(kind, p, base, seq)
  /\ \A k \in 1..Len(seq) : /\ TurnOf(kind, Len(seq), k) \in DOMAIN seq
                            /\ f[k] = Step(kind, p, f[k - 1], seq[TurnOf(kind, Len(seq), k)])

\* A loop goes through its turns one by one.
LEMMA LoopTurns ==
  ASSUME NEW kind, NEW p, NEW base, NEW seq, IsSequence(seq)
  PROVE  \E f : LoopRun(f, kind, p, base, seq)
<1> DEFINE n == Len(seq)
           t == CHOOSE u : IsLoop(u, kind, p, base, seq)
           f == [k \in 0..n |-> t[Past(kind, n, k)]]
<1>1. DOMAIN seq = 1..n /\ n \in Nat BY IndexSets
<1>2. IsLoop(t, kind, p, base, seq) BY LoopExists
<1>3. Looped(kind, p, base, seq) = t[1..n] BY <1>1 DEF Looped
<1> HIDE DEF t, n
<1>4. \A s \in SUBSET (1..n) : t[s] = IF s = {} THEN base ELSE LET x == Turning(kind, s) IN Step(kind, p, t[s \ {x}], seq[x])
  BY <1>1, <1>2 DEF IsLoop
<1>5. Past(kind, n, 0) = {} /\ Past(kind, n, n) = 1..n
  <2>1. (n - 0 + 1)..n = {} /\ (n - n + 1)..n = 1..n /\ 1..0 = {} BY <1>1
  <2> QED BY <2>1 DEF Past
<1>6. f[0] = base /\ f[n] = Looped(kind, p, base, seq)
  <2>1. 0 \in 0..n /\ n \in 0..n BY <1>1
  <2>2. f[0] = t[{}] /\ f[n] = t[1..n] BY <1>5, <2>1
  <2>3. t[{}] = base BY <1>4
  <2> QED BY <1>3, <2>2, <2>3
<1>7. ASSUME NEW k \in 1..n PROVE TurnOf(kind, n, k) \in 1..n /\ f[k] = Step(kind, p, f[k - 1], seq[TurnOf(kind, n, k)])
  <2> DEFINE s == Past(kind, n, k)
             x == TurnOf(kind, n, k)
  <2>1. /\ s \in SUBSET (1..n) /\ s # {} /\ Turning(kind, s) = x /\ s \ {x} = Past(kind, n, k - 1) /\ x \in 1..n
    BY <1>1, PastTurns
  <2>2. k \in 0..n /\ k - 1 \in 0..n BY <1>1
  <2>3. f[k] = t[s] /\ f[k - 1] = t[Past(kind, n, k - 1)] BY <2>2
  <2> HIDE DEF s, x, f
  <2>4. t[s] = Step(kind, p, t[s \ {x}], seq[x]) BY <1>4, <2>1
  <2>5. f[k] = Step(kind, p, f[k - 1], seq[x]) BY <2>1, <2>3, <2>4
  <2> QED BY <2>1, <2>5 DEF x
<1> HIDE DEF f
<1>8. LoopRun(f, kind, p, base, seq) BY <1>1, <1>6, <1>7 DEF LoopRun, n
<1> QED BY <1>8

-----------------------------------------------------------------------------
(* What a sweep leaves of the skulls it counts.                             *)

\* Of the skulls behind the first k those of d number at most what l counted since x and y, within the limit.
Tally(l, k, d, team, x, y, limit) ==
  /\ l.own \in Nat /\ l.other \in Nat
  /\ Cardinality(Own(l.tokens, k, d, team)) + x <= l.own /\ Cardinality(Own(l.tokens, k, d, team)) + x <= limit
  /\ Cardinality(Other(l.tokens, k, d, team)) + y <= l.other /\ Cardinality(Other(l.tokens, k, d, team)) + y <= limit

LEMMA SkippedTally ==
  ASSUME NEW l, IsSequence(l.tokens), NEW i \in DOMAIN l.tokens, NEW d, NEW team, NEW x, NEW y, NEW limit,
         Tally(l, i, d, team, x, y, limit), l.tokens[i].dropper # d
  PROVE  Tally(l, i - 1, d, team, x, y, limit)
<1> DEFINE q == l.tokens
           a == Cardinality(Own(q, i, d, team))
           b == Cardinality(Other(q, i, d, team))
           c == Cardinality(Own(q, i - 1, d, team))
           e == Cardinality(Other(q, i - 1, d, team))
<1>1. c = a + (IF q[i].dropper = d /\ q[i].team = team THEN 1 ELSE 0) /\ e = b + (IF q[i].dropper = d /\ q[i].team # team THEN 1 ELSE 0)
  BY CountedNext
<1>2. i \in Nat BY IndexSets
<1>3. a \in Nat /\ b \in Nat BY <1>2, SmallSets
<1>4. c = a /\ e = b
  <2> HIDE DEF a, b, c, e
  <2> QED BY <1>1, <1>3
<1> QED BY <1>4 DEF Tally

LEMMA SweptTally ==
  ASSUME NEW l, DOMAIN l = SweepFields, IsSequence(l.tokens), NEW i \in DOMAIN l.tokens, NEW d, NEW team,
         NEW x \in Nat, NEW y \in Nat, NEW limit \in Nat, Tally(l, i, d, team, x, y, limit), l.tokens[i].dropper = d
  PROVE  LET u == Swept(l, i, l.tokens[i].team = team, limit)
         IN Tally(u, i - 1, d, team, x, y, limit) /\ \A e : Fewer(l.tokens, u.tokens, e)
<1> DEFINE q == l.tokens
           r == RemoveUnordered(q, i)
           own == q[i].team = team
           c == Counted(l, own)
           u == Swept(l, i, own, limit)
<1>1. /\ c.tokens = q /\ c.own = l.own + (IF own THEN 1 ELSE 0) /\ c.other = l.other + (IF own THEN 0 ELSE 1)
      /\ DOMAIN c = SweepFields
  BY DEF Counted, SweepFields
<1>2. /\ Expire(c, i).tokens = r /\ Expire(c, i).own = c.own /\ Expire(c, i).other = c.other
  <2> HIDE DEF c, r
  <2> QED BY <1>1 DEF Expire, SweepFields, r
<1>3. u = IF (IF own THEN c.own ELSE c.other) > limit THEN Expire(c, i) ELSE c BY DEF Swept
<1>4. i \in Nat BY IndexSets
<1> DEFINE a == Cardinality(Own(q, i, d, team))
           b == Cardinality(Other(q, i, d, team))
           a1 == Cardinality(Own(q, i - 1, d, team))
           b1 == Cardinality(Other(q, i - 1, d, team))
           a2 == Cardinality(Own(r, i - 1, d, team))
           b2 == Cardinality(Other(r, i - 1, d, team))
<1>5. a1 = a + (IF own THEN 1 ELSE 0) /\ b1 = b + (IF own THEN 0 ELSE 1)
  <2>1. a1 = a + (IF q[i].dropper = d /\ q[i].team = team THEN 1 ELSE 0) /\ b1 = b + (IF q[i].dropper = d /\ q[i].team # team THEN 1 ELSE 0)
    BY CountedNext
  <2> QED BY <2>1
<1>6. a2 <= a /\ b2 <= b /\ \A e : Fewer(q, r, e) BY RemovedCounts
<1>7. a \in Nat /\ b \in Nat BY <1>4, SmallSets
<1>8. a2 \in Nat /\ b2 \in Nat
  <2>1. IsSequence(r) BY RemovedToken
  <2>2. i - 1 \in Nat BY IndexSets
  <2> HIDE DEF r
  <2> QED BY <2>1, <2>2, SmallSets
<1>9. l.own \in Nat /\ l.other \in Nat /\ a + x <= l.own /\ a + x <= limit /\ b + y <= l.other /\ b + y <= limit BY DEF Tally
<1>10. CASE (IF own THEN c.own ELSE c.other) > limit
  <2>1. u.tokens = r /\ u.own = c.own /\ u.other = c.other BY <1>2, <1>3, <1>10
  <2> HIDE DEF u, c, own, a, b, a1, b1, a2, b2, q, r
  <2>2. c.own \in Nat /\ c.other \in Nat /\ l.own <= c.own /\ l.other <= c.other BY <1>1, <1>9
  <2>3. a2 + x <= c.own /\ a2 + x <= limit /\ b2 + y <= c.other /\ b2 + y <= limit BY <1>6, <1>7, <1>8, <1>9, <2>2
  <2> QED BY <1>6, <2>1, <2>2, <2>3 DEF Tally, u, own, a2, b2, q
<1>11. CASE ~((IF own THEN c.own ELSE c.other) > limit)
  <2>1. u.tokens = q /\ u.own = c.own /\ u.other = c.other BY <1>1, <1>3, <1>11
  <2>2. \A e : Fewer(q, q, e)
    <3> SUFFICES ASSUME NEW e PROVE Cardinality(Drops(q, e)) <= Cardinality(Drops(q, e)) BY DEF Fewer
    <3>1. Cardinality(Drops(q, e)) \in Nat BY <1>4, SmallSets
    <3> QED BY <3>1
  <2> HIDE DEF u, c, own, a, b, a1, b1, q
  <2>3. c.own \in Nat /\ c.other \in Nat BY <1>1, <1>9
  <2>4. a1 + x <= c.own /\ a1 + x <= limit /\ b1 + y <= c.other /\ b1 + y <= limit BY <1>1, <1>5, <1>7, <1>9, <1>11, <2>3
  <2> QED BY <2>1, <2>2, <2>3, <2>4 DEF Tally, u, own, a1, b1, q
<1> QED BY <1>10, <1>11

LEMMA FewerTwice ==
  ASSUME NEW q, IsSequence(q), NEW r, IsSequence(r), NEW s, IsSequence(s), NEW e, Fewer(q, r, e), Fewer(r, s, e)
  PROVE  Fewer(q, s, e)
<1> DEFINE a == Cardinality(Drops(q, e))
           b == Cardinality(Drops(r, e))
           c == Cardinality(Drops(s, e))
<1>1. 0 \in Nat OBVIOUS
<1>2. a \in Nat /\ b \in Nat /\ c \in Nat BY <1>1, SmallSets
<1>3. b <= a /\ c <= b BY DEF Fewer
<1> HIDE DEF a, b, c
<1>4. c <= a BY <1>2, <1>3
<1> QED BY <1>4 DEF Fewer, a, c

LEMMA FewerSelf ==
  ASSUME NEW q, IsSequence(q)
  PROVE  \A e : Fewer(q, q, e)
<1> SUFFICES ASSUME NEW e PROVE Cardinality(Drops(q, e)) <= Cardinality(Drops(q, e)) BY DEF Fewer
<1>1. 0 \in Nat OBVIOUS
<1>2. Cardinality(Drops(q, e)) \in Nat BY <1>1, SmallSets
<1> QED BY <1>2

\* One turn of each sweep at skull i.
Visited(kind, l, i, p) == IF kind = "crowds" THEN Crowding(l, i, p) ELSE IF kind = "disowns" THEN Disowned(l, i, p) ELSE Aged(l, i, p)

\* f goes through the turns of such a sweep of the n skulls of base.
SweepRun(f, kind, p, base, n) ==
  /\ f[0] = base
  /\ \A k \in 1..n : LET i == n - k + 1 IN
       /\ SweptRight(base, f[k - 1]) /\ i \in DOMAIN f[k - 1].tokens /\ SweptRight(base, f[k])
       /\ f[k] = Visited(kind, f[k - 1], i, p)

\* A sweep visits what is left of the skulls from the last to the first.
LEMMA SweepTurns ==
  ASSUME NEW kind \in Sweeps, NEW p, NEW s, SkullsRight(s), NEW own, NEW other
  PROVE  LET base == Started(s, own, other)
             n == Len(s.tokens)
         IN n \in Nat /\ \E f : SweepRun(f, kind, p, base, n) /\ f[n] = Looped(kind, p, base, [i \in DOMAIN s.tokens |-> i])
<1> DEFINE seq == [i \in DOMAIN s.tokens |-> i]
           base == Started(s, own, other)
           n == Len(s.tokens)
<1>1. SweptRight(base, base) /\ base.tokens = s.tokens BY StartSwept
<1>2. IsSequence(seq) /\ Len(seq) = n /\ DOMAIN seq = DOMAIN s.tokens /\ \A i \in DOMAIN seq : seq[i] = i
  BY SkullIndices
<1>3. n \in Nat BY IndexSets DEF SkullsRight
<1> HIDE DEF seq, base, n
<1>4. Backward(kind) /\ kind \notin BaseLoops /\ kind # "drops" BY DEF Backward, BaseLoops, Sweeps
<1> PICK f : LoopRun(f, kind, p, base, seq) BY <1>2, LoopTurns
<1>5. /\ f[0] = base /\ f[n] = Looped(kind, p, base, seq)
      /\ \A k \in 1..n : TurnOf(kind, n, k) \in DOMAIN seq /\ f[k] = Step(kind, p, f[k - 1], seq[TurnOf(kind, n, k)])
  BY <1>2 DEF LoopRun
<1>6. ASSUME NEW k \in 1..n PROVE n - k + 1 \in 1..n /\ f[k] = Visited(kind, f[k - 1], n - k + 1, p)
  <2> DEFINE i == n - k + 1
  <2>1. TurnOf(kind, n, k) = i BY <1>4 DEF TurnOf
  <2>2. i \in 1..n BY <1>3
  <2> HIDE DEF i
  <2>3. f[k] = Step(kind, p, f[k - 1], i) BY <1>2, <1>5, <2>1
  <2>4. Step(kind, p, f[k - 1], i) = Visited(kind, f[k - 1], i, p) BY <1>4 DEF Step, BaseLoops, Visited
  <2> QED BY <2>2, <2>3, <2>4 DEF i
<1> DEFINE G == {k \in 0..n : SweptRight(base, f[k]) /\ Len(f[k].tokens) + k >= n}
<1>7. 0 \in G
  <2>1. Len(base.tokens) + 0 >= n BY <1>1, <1>3 DEF n
  <2> QED BY <1>1, <1>3, <1>5, <2>1
<1>8. ASSUME NEW k \in 1..n, k - 1 \in G PROVE k \in G /\ n - k + 1 \in DOMAIN f[k - 1].tokens
  <2> DEFINE l == f[k - 1]
             v == f[k]
             i == n - k + 1
             x == Len(l.tokens)
             y == Len(v.tokens)
  <2>1. SweptRight(base, l) /\ x + (k - 1) >= n BY <1>8
  <2>2. i \in 1..n /\ v = Visited(kind, l, i, p) BY <1>6
  <2> HIDE DEF l, v
  <2>3. DOMAIN l.tokens = 1..x /\ x \in Nat BY <2>1, IndexSets DEF SweptRight
  <2> HIDE DEF x
  <2>4. i \in 1..x BY <1>3, <2>1, <2>2, <2>3
  <2> HIDE DEF i
  <2>5. Turned(l, v) BY <2>1, <2>2, <2>3, <2>4, CrowdingTurned, DisownedTurned, AgedTurned DEF Visited
  <2>6. SweptRight(base, v) BY <2>1, <2>5, TurnSwept
  <2>7. y \in Nat BY <2>6, IndexSets DEF SweptRight
  <2>8. y + 1 >= x BY <2>5 DEF Turned, x
  <2> HIDE DEF y
  <2>9. y + k >= n /\ k \in 0..n BY <1>3, <2>1, <2>3, <2>7, <2>8
  <2> QED BY <2>3, <2>4, <2>6, <2>9 DEF l, v, i, y
<1>9. \A k \in 0..n : k \in G
  <2> HIDE DEF G
  <2> QED BY <1>3, <1>7, <1>8, AllTurns
<1>10. \A k \in 1..n : k - 1 \in 0..n /\ k \in 0..n BY <1>3
<1>11. \A k \in 1..n : SweptRight(base, f[k - 1]) /\ n - k + 1 \in DOMAIN f[k - 1].tokens /\ SweptRight(base, f[k])
  BY <1>8, <1>9, <1>10
<1> HIDE DEF G
<1>12. SweepRun(f, kind, p, base, n) BY <1>5, <1>6, <1>11 DEF SweepRun
<1> QED BY <1>3, <1>5, <1>12 DEF seq, base, n

-----------------------------------------------------------------------------
(* What the sweeps leave.                                                   *)

\* The skulls to look at, from the last: with i of them left, the next is the ith.
LEMMA TurnPlace ==
  ASSUME NEW n \in Nat, NEW k \in 1..n
  PROVE  n - (k - 1) = n - k + 1 /\ n - k = (n - k + 1) - 1 /\ n - n = 0 /\ n - 0 = n
OBVIOUS

LEMMA AgesFewer ==
  ASSUME NEW p, NEW s, SkullsRight(s), NEW own, NEW other
  PROVE  LET l == Looped("ages", p, Started(s, own, other), [i \in DOMAIN s.tokens |-> i]) IN \A e : Fewer(s.tokens, l.tokens, e)
<1> DEFINE n == Len(s.tokens)
           base == Started(s, own, other)
           ages == "ages"
<1>1. base.tokens = s.tokens /\ IsSequence(s.tokens) BY DEF Started, SkullsRight
<1>2. ages \in Sweeps BY DEF Sweeps
<1>3. \A l, i : Visited(ages, l, i, p) = Aged(l, i, p) BY DEF Visited
<1> HIDE DEF ages
<1>4. n \in Nat /\ \E f : SweepRun(f, ages, p, base, n) /\ f[n] = Looped(ages, p, base, [i \in DOMAIN s.tokens |-> i])
  BY <1>2, SweepTurns
<1> PICK f : SweepRun(f, ages, p, base, n) /\ f[n] = Looped(ages, p, base, [i \in DOMAIN s.tokens |-> i]) BY <1>4
<1> HIDE DEF base, n
<1> DEFINE G == {k \in 0..n : \A e : Fewer(s.tokens, f[k].tokens, e)}
<1>5. 0 \in G BY <1>1, <1>4, FewerSelf DEF SweepRun
<1>6. ASSUME NEW k \in 1..n, k - 1 \in G PROVE k \in G
  <2> DEFINE l == f[k - 1]
             i == n - k + 1
             v == f[k]
  <2>1. SweptRight(base, l) /\ i \in DOMAIN l.tokens /\ v = Aged(l, i, p) /\ SweptRight(base, v) BY <1>3 DEF SweepRun
  <2>2. \A e : Fewer(s.tokens, l.tokens, e) BY <1>6
  <2> HIDE DEF l, i, v
  <2>3. IsSequence(l.tokens) /\ IsSequence(v.tokens) /\ DOMAIN l = SweepFields BY <2>1 DEF SweptRight
  <2>4. Expire(l, i).tokens = RemoveUnordered(l.tokens, i) BY <2>3 DEF Expire, SweepFields
  <2>5. \A e : Fewer(l.tokens, v.tokens, e)
    <3>1. CASE v = l BY <2>3, <3>1, FewerSelf
    <3>2. CASE v = Expire(l, i) BY <2>1, <2>3, <2>4, <3>2, RemovedCounts
    <3> QED BY <2>1, <3>1, <3>2 DEF Aged
  <2>6. \A e : Fewer(s.tokens, v.tokens, e) BY <1>1, <2>2, <2>3, <2>5, FewerTwice
  <2>7. k \in 0..n BY <1>4
  <2> QED BY <2>6, <2>7 DEF v
<1> HIDE DEF G
<1>7. \A k \in 0..n : k \in G BY <1>4, <1>5, <1>6, AllTurns
<1>8. n \in 0..n BY <1>4
<1> QED BY <1>7, <1>8 DEF G, base, ages

\* Whose skulls a sweep counts, and how many of each kind it leaves.
Target(kind, p) == IF kind = "crowds" THEN p ELSE Left
Allowed(kind) == IF kind = "crowds" THEN TokenLimit ELSE UnownedTokenLimit
Thinned(q, r, d) == \A e : e # d => Fewer(q, r, e)

LEMMA CrowdingTally ==
  ASSUME NEW l, DOMAIN l = SweepFields, IsSequence(l.tokens), NEW i \in DOMAIN l.tokens, NEW c,
         NEW x \in Nat, NEW y \in Nat, Tally(l, i, c, ci[c].team, x, y, TokenLimit)
  PROVE  Tally(Crowding(l, i, c), i - 1, c, ci[c].team, x, y, TokenLimit) /\ Thinned(l.tokens, Crowding(l, i, c).tokens, c)
<1> DEFINE team == ci[c].team
           limit == TokenLimit
           u == Swept(l, i, l.tokens[i].team = team, limit)
           v == Crowding(l, i, c)
<1>1. limit \in Nat BY SkullsAssumption
<1>2. CASE l.tokens[i].dropper = c
  <2>1. v = u BY <1>2 DEF Crowding
  <2>2. Tally(u, i - 1, c, team, x, y, limit) /\ \A e : Fewer(l.tokens, u.tokens, e)
    <3> HIDE DEF team, limit
    <3>1. Tally(l, i, c, team, x, y, limit) BY DEF team, limit
    <3> QED BY <1>1, <1>2, <3>1, SweptTally
  <2> HIDE DEF u, v
  <2> QED BY <2>1, <2>2 DEF Thinned, v
<1>3. CASE l.tokens[i].dropper # c
  <2>1. v = l BY <1>3 DEF Crowding
  <2>2. Tally(l, i - 1, c, team, x, y, limit)
    <3> HIDE DEF team, limit
    <3>1. Tally(l, i, c, team, x, y, limit) BY DEF team, limit
    <3> QED BY <1>3, <3>1, SkippedTally
  <2> HIDE DEF v
  <2> QED BY <2>1, <2>2, FewerSelf DEF Thinned, v
<1> QED BY <1>2, <1>3

LEMMA DisownedTally ==
  ASSUME NEW l, DOMAIN l = SweepFields, IsSequence(l.tokens), NEW i \in DOMAIN l.tokens, NEW c \in Clients, DOMAIN l.tokens[i] = TokenFields,
         NEW x \in Nat, NEW y \in Nat, Tally(l, i, Left, ci[c].team, x, y, UnownedTokenLimit)
  PROVE  Tally(Disowned(l, i, c), i - 1, Left, ci[c].team, x, y, UnownedTokenLimit) /\ Thinned(l.tokens, Disowned(l, i, c).tokens, Left)
<1> DEFINE team == ci[c].team
           limit == UnownedTokenLimit
           v == Disowned(l, i, c)
           q == l.tokens
           d == q[i].dropper
           g == [q[i] EXCEPT !.dropper = Left]
           r == [q EXCEPT ![i] = g]
           a == [l EXCEPT !.tokens = r]
           left == Left
           own == q[i].team = team
<1>1. limit \in Nat /\ left # c BY SkullsAssumption
<1>2. CASE d \notin {c, Left}
  <2>1. v = l BY <1>2 DEF Disowned
  <2>2. Tally(l, i - 1, left, team, x, y, limit)
    <3> HIDE DEF team, limit, left
    <3>1. Tally(l, i, left, team, x, y, limit) BY DEF team, limit, left
    <3>2. l.tokens[i].dropper # left BY <1>2 DEF left
    <3> QED BY <3>1, <3>2, SkippedTally
  <2> HIDE DEF v
  <2> QED BY <2>1, <2>2, FewerSelf DEF Thinned, v, left
<1>3. CASE d = Left
  <2>1. d # c BY <1>1, <1>3
  <2> DEFINE u == Swept(l, i, l.tokens[i].team = team, limit)
  <2>2. v = u BY <1>3, <2>1 DEF Disowned
  <2>3. Tally(u, i - 1, left, team, x, y, limit) /\ \A e : Fewer(l.tokens, u.tokens, e)
    <3> HIDE DEF team, limit
    <3>1. Tally(l, i, left, team, x, y, limit) BY DEF team, limit
    <3>2. l.tokens[i].dropper = left BY <1>3
    <3> HIDE DEF left
    <3> QED BY <1>1, <3>1, <3>2, SweptTally
  <2> HIDE DEF u, v
  <2> QED BY <2>2, <2>3 DEF Thinned, v, left
<1>4. CASE d = c
  <2> DEFINE u == Swept(a, i, a.tokens[i].team = team, limit)
  <2>1. d # Left /\ d \in {c, Left} BY <1>1, <1>4
  <2>2. [l EXCEPT !.tokens[i].dropper = Left] = a BY DEF SweepFields
  <2>3. DOMAIN a = SweepFields /\ a.tokens = r /\ a.own = l.own /\ a.other = l.other BY DEF SweepFields
  <2>4. DOMAIN r = DOMAIN q /\ r[i] = g /\ g.team = q[i].team /\ g.dropper = left /\ \A j \in DOMAIN q : j # i => r[j] = q[j]
    BY DEF TokenFields
  <2>5. v = u
    <3>1. v = Swept([l EXCEPT !.tokens[i].dropper = Left], i, q[i].team = ci[c].team, UnownedTokenLimit) BY <1>4, <2>1 DEF Disowned
    <3> HIDE DEF v, a, r, g, q
    <3> QED BY <2>2, <2>3, <2>4, <3>1
  <2>6. IsSequence(r) /\ Len(r) = Len(q)
    <3> HIDE DEF g
    <3>1. IsSequence(q) OBVIOUS
    <3> HIDE DEF q
    <3> PICK S : q \in Seq(S) BY <3>1 DEF IsSequence
    <3> DEFINE T == S \cup {g}
    <3>2. DOMAIN q = 1 .. Len(q) /\ Len(q) \in Nat /\ \A j \in 1 .. Len(q) : q[j] \in T OBVIOUS
    <3>3. q \in Seq(T) /\ g \in T BY <3>2
    <3>4. i \in DOMAIN q BY DEF q
    <3> HIDE DEF T
    <3>5. [q EXCEPT ![i] = g] \in Seq(T) /\ Len([q EXCEPT ![i] = g]) = Len(q) BY <3>3, <3>4
    <3> QED BY <3>5 DEF IsSequence
  <2> HIDE DEF u, v, a, r, g
  <2>7. Own(r, i, left, team) = Own(q, i, left, team) /\ Other(r, i, left, team) = Other(q, i, left, team)
    <3>1. DOMAIN q = 1..Len(q) /\ Len(q) \in Nat BY IndexSets
    <3>2. \A j \in (i + 1)..Len(q) : j # i /\ j \in DOMAIN q BY <3>1
    <3>3. \A j \in (i + 1)..Len(q) : r[j] = q[j] BY <2>4, <3>2
    <3> HIDE DEF q, left, team
    <3> QED BY <2>6, <3>3 DEF Own, Other
  <2>8. Tally(a, i, left, team, x, y, limit)
    <3>1. Tally(l, i, left, team, x, y, limit) OBVIOUS
    <3> HIDE DEF left, team, limit
    <3> QED BY <2>3, <2>7, <3>1 DEF Tally, q
  <2>9. i \in DOMAIN a.tokens /\ a.tokens[i].dropper = left BY <2>3, <2>4
  <2>10. Tally(u, i - 1, left, team, x, y, limit) /\ \A e : Fewer(a.tokens, u.tokens, e)
    <3> HIDE DEF left, team, limit
    <3> QED BY <1>1, <2>3, <2>6, <2>8, <2>9, SweptTally DEF u
  <2>11. ASSUME NEW e, e # Left PROVE Fewer(q, u.tokens, e)
    <3>1. Drops(r, e) \subseteq Drops(q, e) BY <2>4, <2>11 DEF Drops
    <3>2. 0 \in Nat OBVIOUS
    <3>3. IsFiniteSet(Drops(q, e)) /\ Cardinality(Drops(q, e)) \in Nat BY <3>2, SmallSets
    <3>4. Cardinality(Drops(r, e)) \in Nat BY <2>6, <3>2, SmallSets
    <3>5. Cardinality(Drops(r, e)) <= Cardinality(Drops(q, e)) BY <3>1, <3>3, FS_Subset
    <3>6. Fewer(q, r, e) BY <3>5 DEF Fewer
    <3>7. Fewer(r, u.tokens, e) BY <2>3, <2>10
    <3>8. IsSequence(u.tokens)
      <4> DEFINE z == Counted(a, a.tokens[i].team = team)
      <4>1. DOMAIN z = SweepFields /\ z.tokens = r BY <2>3 DEF Counted, SweepFields
      <4>2. u = z \/ u = Expire(z, i) BY DEF u, Swept
      <4> HIDE DEF z
      <4>3. Expire(z, i).tokens = RemoveUnordered(r, i) BY <4>1 DEF Expire, SweepFields
      <4>4. IsSequence(RemoveUnordered(r, i)) BY <2>3, <2>6, <2>9, RemovedToken
      <4> QED BY <2>6, <4>1, <4>2, <4>3, <4>4
    <3> HIDE DEF q
    <3>9. IsSequence(q) BY DEF q
    <3> QED BY <2>6, <3>6, <3>7, <3>8, <3>9, FewerTwice
  <2> QED BY <2>5, <2>10, <2>11 DEF Thinned, v
<1> QED BY <1>2, <1>3, <1>4

LEMMA SplitDrops ==
  ASSUME NEW q, IsSequence(q), NEW d, NEW team
  PROVE  Cardinality(Drops(q, d)) = Cardinality(Own(q, 0, d, team)) + Cardinality(Other(q, 0, d, team))
<1> DEFINE zero == 0
<1>1. zero \in Nat /\ DOMAIN q = 1..Len(q) /\ zero + 1 = 1 BY IndexSets
<1> HIDE DEF zero
<1>2. Drops(q, d) = Own(q, zero, d, team) \cup Other(q, zero, d, team) BY <1>1 DEF Drops, Own, Other
<1>3. Own(q, zero, d, team) \cap Other(q, zero, d, team) = {} BY DEF Own, Other
<1>4. IsFiniteSet(Own(q, zero, d, team)) /\ IsFiniteSet(Other(q, zero, d, team)) BY <1>1, SmallSets
<1> DEFINE A == Own(q, zero, d, team)
           B == Other(q, zero, d, team)
           a == Cardinality(A)
           b == Cardinality(B)
<1>5. a \in Nat /\ b \in Nat BY <1>1, SmallSets
<1>6. Cardinality(A \cap B) = 0 BY <1>3, FS_EmptySet
<1>7. Cardinality(A \cup B) = a + b - Cardinality(A \cap B) BY <1>4, FS_Union
<1> HIDE DEF a, b
<1>8. a + b - 0 = a + b BY <1>5
<1> QED BY <1>2, <1>6, <1>7, <1>8 DEF a, b, zero

\* A sweep leaves skulls of its target within the limit of each kind, and no more of others.
LEMMA SweptLeaves ==
  ASSUME NEW kind \in {"crowds", "disowns"}, NEW c \in Clients, NEW s, SkullsRight(s), NEW x \in Nat, NEW y \in Nat,
         x <= Allowed(kind), y <= Allowed(kind)
  PROVE  LET l == Looped(kind, c, Started(s, x, y), [i \in DOMAIN s.tokens |-> i])
             d == Target(kind, c)
         IN /\ Cardinality(Drops(l.tokens, d)) + x + y <= 2 * Allowed(kind)
            /\ Thinned(s.tokens, l.tokens, d)
<1> DEFINE n == Len(s.tokens)
           base == Started(s, x, y)
           d == Target(kind, c)
           limit == Allowed(kind)
           team == ci[c].team
<1>0. limit \in Nat BY SkullsAssumption DEF Allowed
<1>1. base.tokens = s.tokens /\ IsSequence(s.tokens) /\ base.own = x /\ base.other = y BY DEF Started, SkullsRight
<1>2. kind \in Sweeps BY DEF Sweeps
<1>3. n \in Nat /\ \E f : SweepRun(f, kind, c, base, n) /\ f[n] = Looped(kind, c, base, [i \in DOMAIN s.tokens |-> i])
  BY <1>2, SweepTurns
<1> PICK f : SweepRun(f, kind, c, base, n) /\ f[n] = Looped(kind, c, base, [i \in DOMAIN s.tokens |-> i]) BY <1>3
<1>4. \A l : \A i \in DOMAIN l.tokens : DOMAIN l = SweepFields /\ IsSequence(l.tokens) /\ DOMAIN l.tokens[i] = TokenFields
                /\ Tally(l, i, d, team, x, y, limit)
         => /\ Tally(Visited(kind, l, i, c), i - 1, d, team, x, y, limit)
            /\ Thinned(l.tokens, Visited(kind, l, i, c).tokens, d)
  <2>1. CASE kind = "crowds"
    <3>1. d = c /\ limit = TokenLimit /\ \A l, i : Visited(kind, l, i, c) = Crowding(l, i, c)
      BY <2>1 DEF Target, Allowed, Visited
    <3> HIDE DEF d, limit
    <3> QED BY <3>1, CrowdingTally
  <2>2. CASE kind = "disowns"
    <3> DEFINE left == Left
    <3>1. d = left /\ limit = UnownedTokenLimit /\ \A l, i : Visited(kind, l, i, c) = Disowned(l, i, c)
      BY <2>2 DEF Target, Allowed, Visited
    <3> HIDE DEF d, limit
    <3>2. ASSUME NEW l, NEW i \in DOMAIN l.tokens, DOMAIN l = SweepFields, IsSequence(l.tokens), DOMAIN l.tokens[i] = TokenFields,
                 Tally(l, i, left, team, x, y, UnownedTokenLimit)
          PROVE  /\ Tally(Disowned(l, i, c), i - 1, left, team, x, y, UnownedTokenLimit)
                 /\ Thinned(l.tokens, Disowned(l, i, c).tokens, left)
      BY <3>2, DisownedTally
    <3> HIDE DEF left
    <3> QED BY <3>1, <3>2
  <2> QED BY <2>1, <2>2
<1> HIDE DEF base, n, d, limit, team
<1> DEFINE G == {k \in 0..n : Tally(f[k], n - k, d, team, x, y, limit) /\ Thinned(s.tokens, f[k].tokens, d)}
<1>5. 0 \in G
  <2>1. f[0] = base /\ n - 0 = n BY <1>3 DEF SweepRun
  <2>2. Own(s.tokens, n, d, team) = {} /\ Other(s.tokens, n, d, team) = {}
    <3>1. (n + 1)..n = {} BY <1>3
    <3> QED BY <3>1 DEF Own, Other, n
  <2>3. Cardinality({}) = 0 BY FS_EmptySet
  <2>4. Tally(base, n, d, team, x, y, limit) BY <1>0, <1>1, <2>2, <2>3 DEF Tally, limit
  <2>5. Thinned(s.tokens, base.tokens, d) BY <1>1, FewerSelf DEF Thinned
  <2> QED BY <1>3, <2>1, <2>4, <2>5
<1>6. ASSUME NEW k \in 1..n, k - 1 \in G PROVE k \in G
  <2> DEFINE l == f[k - 1]
             i == n - k + 1
             v == f[k]
  <2>1. SweptRight(base, l) /\ i \in DOMAIN l.tokens /\ v = Visited(kind, l, i, c) /\ SweptRight(base, v) BY DEF SweepRun
  <2>2. n - (k - 1) = i /\ n - k = i - 1 /\ k \in 0..n BY <1>3
  <2>3. Tally(l, i, d, team, x, y, limit) /\ Thinned(s.tokens, l.tokens, d) BY <1>6, <2>2
  <2> HIDE DEF l, i, v
  <2>4. IsSequence(l.tokens) /\ IsSequence(v.tokens) /\ DOMAIN l = SweepFields /\ DOMAIN l.tokens[i] = TokenFields BY <2>1 DEF SweptRight
  <2>5. Tally(v, i - 1, d, team, x, y, limit) /\ Thinned(l.tokens, v.tokens, d) BY <1>4, <2>1, <2>3, <2>4
  <2>6. Thinned(s.tokens, v.tokens, d) BY <1>1, <2>3, <2>4, <2>5, FewerTwice DEF Thinned
  <2> QED BY <2>2, <2>5, <2>6 DEF v
<1>7. \A k \in 0..n : k \in G
  <2> HIDE DEF G
  <2> QED BY <1>3, <1>5, <1>6, AllTurns
<1>8. n \in 0..n /\ n - n = 0 BY <1>3
<1> DEFINE l == f[n]
<1>9. Tally(l, 0, d, team, x, y, limit) /\ Thinned(s.tokens, l.tokens, d) BY <1>7, <1>8
<1>10. IsSequence(l.tokens)
  <2>1. CASE n = 0 BY <1>1, <2>1 DEF SweepRun
  <2>2. CASE n # 0
    <3>1. n \in 1..n BY <1>3, <2>2
    <3> QED BY <3>1 DEF SweepRun, SweptRight
  <2> QED BY <2>1, <2>2
<1> HIDE DEF G, l
<1> DEFINE a == Cardinality(Own(l.tokens, 0, d, team))
           b == Cardinality(Other(l.tokens, 0, d, team))
<1>11. Cardinality(Drops(l.tokens, d)) = a + b BY <1>10, SplitDrops
<1>12. a \in Nat /\ b \in Nat
  <2> DEFINE zero == 0
  <2>1. zero \in Nat OBVIOUS
  <2> HIDE DEF zero
  <2>2. Cardinality(Own(l.tokens, zero, d, team)) \in Nat /\ Cardinality(Other(l.tokens, zero, d, team)) \in Nat
    BY <1>10, <2>1, SmallSets
  <2> QED BY <2>2 DEF zero
<1>13. a + x <= limit /\ b + y <= limit BY <1>9 DEF Tally
<1> HIDE DEF a, b
<1>14. a + b + x + y <= 2 * limit BY <1>0, <1>12, <1>13
<1> QED BY <1>9, <1>11, <1>14 DEF l, d, limit, base

\* Who leaves skulls, and how many of them may lie.
Droppers == Clients \cup {Left} \cup {OfBase(b) : b \in Teams}
Cap(d) == IF d \in Clients THEN 2 * TokenLimit ELSE IF d = Left THEN 2 * UnownedTokenLimit ELSE TokenLimit
Bounded(q) == \A d \in Droppers : Cardinality(Drops(q, d)) <= Cap(d)

LEMMA Caps ==
  /\ \A c \in Clients : c \in Droppers /\ Cap(c) = 2 * TokenLimit /\ c # Left
  /\ Left \in Droppers /\ Cap(Left) = 2 * UnownedTokenLimit
  /\ \A b \in Teams : OfBase(b) \in Droppers /\ Cap(OfBase(b)) = TokenLimit
  /\ \A d \in Droppers : Cap(d) \in Nat
<1>1. TokenLimit \in Nat /\ UnownedTokenLimit \in Nat /\ Left \notin Clients /\ \A b \in Teams : OfBase(b) \notin Clients
  BY SkullsAssumption
<1>2. \A b \in Teams : OfBase(b) # Left BY DEF Teams, Good, Evil, OfBase, Left
<1>3. 2 * TokenLimit \in Nat /\ 2 * UnownedTokenLimit \in Nat BY <1>1
<1> QED BY <1>1, <1>2, <1>3 DEF Droppers, Cap

LEMMA BoundedThinned ==
  ASSUME NEW q, IsSequence(q), Bounded(q), NEW r, IsSequence(r), NEW d, Thinned(q, r, d), d \in Droppers => Cardinality(Drops(r, d)) <= Cap(d)
  PROVE  Bounded(r)
<1> SUFFICES ASSUME NEW e \in Droppers PROVE Cardinality(Drops(r, e)) <= Cap(e) BY DEF Bounded
<1>1. CASE e = d BY <1>1
<1>2. CASE e # d
  <2> DEFINE a == Cardinality(Drops(q, e))
             b == Cardinality(Drops(r, e))
             cap == Cap(e)
  <2>1. b <= a /\ a <= cap BY <1>2 DEF Thinned, Fewer, Bounded
  <2>2. a \in Nat /\ b \in Nat
    <3>1. 0 \in Nat OBVIOUS
    <3> QED BY <3>1, SmallSets
  <2>3. cap \in Nat BY Caps
  <2> HIDE DEF a, b, cap
  <2>4. b <= cap BY <2>1, <2>2, <2>3
  <2> QED BY <2>4 DEF b, cap
<1> QED BY <1>1, <1>2

LEMMA DroppedTokens ==
  ASSUME NEW s, SkullsRight(s), NEW o, NEW team, NEW dropper
  PROVE  LET t == DropToken(s, o, team, dropper)
         IN /\ SkullsRight(t) /\ Thinned(s.tokens, t.tokens, dropper)
            /\ Cardinality(Drops(t.tokens, dropper)) = Cardinality(Drops(s.tokens, dropper)) + 1
<1> DEFINE x == Token(s.next + 1, team, o, dropper, s.now)
           t == DropToken(s, o, team, dropper)
           q == s.tokens
           r == Append(q, x)
<1>1. SkullsRight(t) BY DropTokenTold
<1>2. DOMAIN s = CollectFields /\ IsSequence(q) BY DEF SkullsRight
<1>3. x.dropper = dropper BY DEF Token
<1>4. t = [s EXCEPT !.next = @ + 1, !.tokens = Append(@, x), !.seen.tokens = @ \cup {TokenShown(x)}] BY DEF DropToken
<1> HIDE DEF x, t
<1>5. t.tokens = r BY <1>2, <1>4 DEF CollectFields
<1> HIDE DEF q
<1>6. \A d : Cardinality(Drops(r, d)) = Cardinality(Drops(q, d)) + IF x.dropper = d THEN 1 ELSE 0 BY <1>2, AppendedCounts
<1>7. \A d : Cardinality(Drops(q, d)) \in Nat
  <2>1. 0 \in Nat OBVIOUS
  <2> QED BY <1>2, <2>1, SmallSets
<1> HIDE DEF r
<1>8. ASSUME NEW e, e # dropper PROVE Fewer(q, r, e)
  <2> DEFINE a == Cardinality(Drops(q, e))
             b == Cardinality(Drops(r, e))
  <2>1. b = a + (IF x.dropper = e THEN 1 ELSE 0) /\ a \in Nat BY <1>6, <1>7
  <2> HIDE DEF a, b
  <2>2. b <= a BY <1>3, <1>8, <2>1
  <2> QED BY <2>2 DEF Fewer, a, b
<1>9. Cardinality(Drops(r, dropper)) = Cardinality(Drops(q, dropper)) + 1 BY <1>3, <1>6
<1> QED BY <1>1, <1>5, <1>8, <1>9 DEF Thinned, t, q

\* A loop that drops skulls of one player leaves that many more.
LEMMA DropsCounted ==
  ASSUME NEW p, NEW s, SkullsRight(s), NEW n \in Nat
  PROVE  LET l == Looped("drops", p, s, [i \in 1..n |-> i])
         IN Cardinality(Drops(l.tokens, p[3])) = Cardinality(Drops(s.tokens, p[3])) + n /\ Thinned(s.tokens, l.tokens, p[3])
<1> DEFINE seq == [i \in 1..n |-> i]
           drops == "drops"
           d == p[3]
           b == Cardinality(Drops(s.tokens, d))
<1>1. IsSequence(seq) /\ Len(seq) = n
  <2>1. seq \in Seq(1..n) OBVIOUS
  <2>2. DOMAIN seq = 1..n OBVIOUS
  <2> HIDE DEF seq
  <2>3. IsSequence(seq) BY <2>1 DEF IsSequence
  <2>4. Len(seq) = n BY <2>1, <2>2
  <2> QED BY <2>3, <2>4
<1>2. \A u : \A k \in 1..n : Step(drops, p, u, seq[k]) = DropToken(u, p[1], IF k = 1 THEN p[2] ELSE -p[2], d)
  BY DEF Step
<1>3. \A k : TurnOf(drops, n, k) = k BY DEF TurnOf, Backward, Sweeps
<1>4. IsSequence(s.tokens) BY DEF SkullsRight
<1>5. b \in Nat
  <2>1. 0 \in Nat OBVIOUS
  <2> QED BY <1>4, <2>1, SmallSets
<1> HIDE DEF seq, drops
<1> PICK f : LoopRun(f, drops, p, s, seq) BY <1>1, LoopTurns
<1>6. f[0] = s /\ f[n] = Looped(drops, p, s, seq) BY <1>1 DEF LoopRun
<1>7. ASSUME NEW k \in 1..n PROVE \E team : f[k] = DropToken(f[k - 1], p[1], team, d)
  <2>1. f[k] = Step(drops, p, f[k - 1], seq[k]) BY <1>1, <1>3 DEF LoopRun
  <2>2. f[k] = DropToken(f[k - 1], p[1], IF k = 1 THEN p[2] ELSE -p[2], d) BY <1>2, <2>1
  <2> QED BY <2>2
<1> HIDE DEF d, b
<1> DEFINE G == {k \in 0..n : SkullsRight(f[k]) /\ Cardinality(Drops(f[k].tokens, d)) = b + k /\ Thinned(s.tokens, f[k].tokens, d)}
<1>8. 0 \in G
  <2>1. b = b + 0 BY <1>5
  <2>2. Thinned(s.tokens, s.tokens, d) BY <1>4, FewerSelf DEF Thinned
  <2> QED BY <1>6, <2>1, <2>2 DEF b
<1>9. ASSUME NEW k \in 1..n, k - 1 \in G PROVE k \in G
  <2> DEFINE l == f[k - 1]
             v == f[k]
             y == Cardinality(Drops(l.tokens, d))
             z == Cardinality(Drops(v.tokens, d))
  <2>1. SkullsRight(l) /\ y = b + (k - 1) /\ Thinned(s.tokens, l.tokens, d) BY <1>9
  <2>2. \E team : v = DropToken(l, p[1], team, d) BY <1>7
  <2> HIDE DEF l, v
  <2>3. SkullsRight(v) /\ Thinned(l.tokens, v.tokens, d) /\ z = y + 1 BY <2>1, <2>2, DroppedTokens
  <2>4. IsSequence(l.tokens) /\ IsSequence(v.tokens) BY <2>1, <2>3 DEF SkullsRight
  <2>5. Thinned(s.tokens, v.tokens, d) BY <1>4, <2>1, <2>3, <2>4, FewerTwice DEF Thinned
  <2> HIDE DEF y, z
  <2>6. z = b + k /\ k \in 0..n BY <1>5, <2>1, <2>3
  <2> QED BY <2>3, <2>5, <2>6 DEF v, z
<1>10. \A k \in 0..n : k \in G
  <2> HIDE DEF G
  <2> QED BY <1>8, <1>9, AllTurns
<1>11. n \in 0..n OBVIOUS
<1> QED BY <1>6, <1>10, <1>11 DEF drops, seq, d, b

\* What a sweep leaves is what lies, told or not.
LEMMA SweptAway ==
  ASSUME NEW s, SkullsRight(s), NEW l
  PROVE  SeeGone([s EXCEPT !.tokens = l.tokens], l.gone).tokens = l.tokens
<1> DEFINE a == [s EXCEPT !.tokens = l.tokens]
<1>1. DOMAIN a = CollectFields /\ a.tokens = l.tokens BY DEF SkullsRight, CollectFields
<1> HIDE DEF a
<1>2. SeeGone(a, l.gone).tokens = l.tokens BY <1>1 DEF SeeGone, CollectFields
<1> QED BY <1>2 DEF a

LEMMA DropTokensBounded ==
  ASSUME NEW s, SkullsRight(s), Bounded(s.tokens), NEW c \in Clients, ci[c].tokens \in 0..TokenLimit, NEW penalty
  PROVE  Bounded(DropTokens(s, c, penalty).tokens)
<1> DEFINE team == ci[c].team
           carried == IF penalty THEN 0 ELSE ci[c].tokens
           swept == Sweep(s, LAMBDA l, i : Crowding(l, i, c), 1, carried)
           a == SeeGone([s EXCEPT !.tokens = swept.tokens], swept.gone)
           p == <<ci[c].o, team, c>>
           n == 1 + carried
           t == DropTokens(s, c, penalty)
           d == FoldLeft(LAMBDA u, i : DropToken(u, ci[c].o, IF i = 1 THEN team ELSE -team, c), a, [i \in 1..n |-> i])
           l == Looped("crowds", c, Started(s, 1, carried), [i \in DOMAIN s.tokens |-> i])
<1>1. t = IF s.notgot THEN s ELSE d BY DEF DropTokens
<1>2. swept = l
  BY DEF Sweep, Started, Looped, IsLoop, Turning, Backward, Sweeps, Step, FoldRight, MapThenFoldSet
<1>3. carried \in Nat /\ carried <= TokenLimit /\ n \in Nat /\ TokenLimit \in Nat /\ 1 <= TokenLimit BY SkullsAssumption
<1>4. p[3] = c OBVIOUS
<1> HIDE DEF t
<1>5. d = Looped("drops", p, a, [i \in 1..n |-> i])
  <2> HIDE DEF swept, n, a
  <2> QED BY DEF Looped, IsLoop, Turning, Backward, Sweeps, Step, FoldLeft, MapThenFoldSet
<1> HIDE DEF d, p, swept
<1>6. SweptRight(Started(s, 1, carried), l)
  <2> DEFINE crowds == "crowds"
             u == Looped(crowds, c, Started(s, 1, carried), [i \in DOMAIN s.tokens |-> i])
  <2>1. crowds \in Sweeps BY DEF Sweeps
  <2> HIDE DEF crowds, carried
  <2>2. SweptRight(Started(s, 1, carried), u) BY <2>1, SweepLoop
  <2> QED BY <2>2 DEF crowds
<1>7. Cardinality(Drops(l.tokens, c)) + 1 + carried <= 2 * TokenLimit /\ Thinned(s.tokens, l.tokens, c)
  <2> DEFINE crowds == "crowds"
             one == 1
             u == Looped(crowds, c, Started(s, one, carried), [i \in DOMAIN s.tokens |-> i])
  <2>1. crowds \in {"crowds", "disowns"} /\ Target(crowds, c) = c /\ Allowed(crowds) = TokenLimit BY DEF Target, Allowed
  <2>2. one \in Nat /\ carried \in Nat /\ one <= TokenLimit /\ carried <= TokenLimit BY <1>3
  <2> HIDE DEF crowds, carried, one
  <2>3. /\ Cardinality(Drops(u.tokens, Target(crowds, c))) + one + carried <= 2 * Allowed(crowds)
        /\ Thinned(s.tokens, u.tokens, Target(crowds, c))
    BY <2>1, <2>2, SweptLeaves
  <2> QED BY <2>1, <2>3 DEF crowds, one
<1> HIDE DEF l
<1>8. SkullsRight(a) /\ a.tokens = l.tokens
  <2> HIDE DEF carried
  <2> QED BY <1>2, <1>6, SweptTold, SweptAway
<1> HIDE DEF a, carried, n
<1>9. SkullsRight(d) /\ Cardinality(Drops(d.tokens, c)) = Cardinality(Drops(a.tokens, c)) + n /\ Thinned(a.tokens, d.tokens, c)
  BY <1>3, <1>4, <1>5, <1>8, DropLoop, DropsCounted
<1>10. IsSequence(s.tokens) /\ IsSequence(a.tokens) /\ IsSequence(d.tokens) BY <1>8, <1>9 DEF SkullsRight
<1>11. Thinned(s.tokens, d.tokens, c) BY <1>7, <1>8, <1>9, <1>10, FewerTwice DEF Thinned
<1>12. Cardinality(Drops(d.tokens, c)) <= Cap(c)
  <2> DEFINE x == Cardinality(Drops(a.tokens, c))
             y == Cardinality(Drops(d.tokens, c))
  <2>1. x \in Nat
    <3>1. 0 \in Nat OBVIOUS
    <3> QED BY <1>10, <3>1, SmallSets
  <2>2. x + 1 + carried <= 2 * TokenLimit /\ y = x + n BY <1>7, <1>8, <1>9
  <2> HIDE DEF x, y
  <2>3. y <= 2 * TokenLimit BY <1>3, <2>1, <2>2 DEF n
  <2> QED BY <2>3, Caps DEF y
<1>13. Bounded(d.tokens) BY <1>10, <1>11, <1>12, BoundedThinned
<1> QED BY <1>1, <1>13 DEF t

LEMMA SkullsDisconnectBounded ==
  ASSUME NEW s, SkullsRight(s), Bounded(s.tokens), NEW c \in Clients
  PROVE  Bounded(SkullsDisconnect(s, c).tokens)
<1> DEFINE swept == Sweep(s, LAMBDA l, i : Disowned(l, i, c), 0, 0)
           l == Looped("disowns", c, Started(s, 0, 0), [i \in DOMAIN s.tokens |-> i])
           a == SeeGone([s EXCEPT !.tokens = swept.tokens], swept.gone)
           left == Left
<1>1. SkullsDisconnect(s, c) = a BY DEF SkullsDisconnect
<1>2. swept = l
  BY DEF Sweep, Started, Looped, IsLoop, Turning, Backward, Sweeps, Step, FoldRight, MapThenFoldSet
<1> HIDE DEF swept
<1>3. Cardinality(Drops(l.tokens, left)) + 0 + 0 <= 2 * UnownedTokenLimit /\ Thinned(s.tokens, l.tokens, left)
      /\ SweptRight(Started(s, 0, 0), l)
  <2> DEFINE disowns == "disowns"
             zero == 0
             u == Looped(disowns, c, Started(s, zero, zero), [i \in DOMAIN s.tokens |-> i])
  <2>1. /\ disowns \in {"crowds", "disowns"} /\ disowns \in Sweeps
        /\ Target(disowns, c) = left /\ Allowed(disowns) = UnownedTokenLimit
    BY DEF Target, Allowed, Sweeps
  <2>2. zero \in Nat /\ zero <= UnownedTokenLimit BY SkullsAssumption
  <2> HIDE DEF disowns, zero, left
  <2>3. /\ Cardinality(Drops(u.tokens, Target(disowns, c))) + zero + zero <= 2 * Allowed(disowns)
        /\ Thinned(s.tokens, u.tokens, Target(disowns, c))
    BY <2>1, <2>2, SweptLeaves
  <2>4. SweptRight(Started(s, zero, zero), u) BY <2>1, SweepLoop
  <2> QED BY <2>1, <2>3, <2>4 DEF disowns, zero
<1> HIDE DEF l, left
<1>4. a.tokens = l.tokens BY <1>2, SweptAway
<1>5. IsSequence(s.tokens) /\ IsSequence(l.tokens) BY <1>3 DEF SkullsRight, SweptRight
<1>6. Cardinality(Drops(l.tokens, left)) <= Cap(left)
  <2> DEFINE x == Cardinality(Drops(l.tokens, left))
  <2>1. x \in Nat
    <3>1. 0 \in Nat OBVIOUS
    <3> QED BY <1>5, <3>1, SmallSets
  <2>2. x + 0 + 0 <= 2 * UnownedTokenLimit BY <1>3
  <2> HIDE DEF x
  <2>3. x <= 2 * UnownedTokenLimit BY <2>1, <2>2, SkullsAssumption
  <2>4. Cap(left) = 2 * UnownedTokenLimit BY Caps DEF left
  <2> QED BY <2>3, <2>4 DEF x
<1>7. Bounded(l.tokens) BY <1>3, <1>5, <1>6, BoundedThinned
<1> QED BY <1>1, <1>4, <1>7

LEMMA SkullsUpdateBounded ==
  ASSUME NEW s, SkullsRight(s), Bounded(s.tokens)
  PROVE  Bounded(SkullsUpdate(s).tokens)
<1> DEFINE swept == Sweep(s, LAMBDA l, i : Aged(l, i, s.now), 0, 0)
           l == Looped("ages", s.now, Started(s, 0, 0), [i \in DOMAIN s.tokens |-> i])
           a == SeeGone([s EXCEPT !.tokens = swept.tokens], swept.gone)
<1>1. SkullsUpdate(s) = a \/ SkullsUpdate(s) = s BY DEF SkullsUpdate
<1>2. swept = l
  BY DEF Sweep, Started, Looped, IsLoop, Turning, Backward, Sweeps, Step, FoldRight, MapThenFoldSet
<1> HIDE DEF swept
<1>3. SweptRight(Started(s, 0, 0), l) /\ \A e : Fewer(s.tokens, l.tokens, e)
  <2> DEFINE ages == "ages"
             now == s.now
             zero == 0
             u == Looped(ages, now, Started(s, zero, zero), [i \in DOMAIN s.tokens |-> i])
  <2>1. ages \in Sweeps BY DEF Sweeps
  <2>2. \A e : Fewer(s.tokens, u.tokens, e)
    <3> HIDE DEF now, zero
    <3> QED BY AgesFewer
  <2> HIDE DEF ages, now, zero
  <2>3. SweptRight(Started(s, zero, zero), u) BY <2>1, SweepLoop
  <2> QED BY <2>2, <2>3 DEF ages, now, zero
<1> HIDE DEF l
<1>4. a.tokens = l.tokens BY <1>2, SweptAway
<1>5. IsSequence(s.tokens) /\ IsSequence(l.tokens) BY <1>3 DEF SkullsRight, SweptRight
<1> DEFINE left == Left
<1>6. left \in Droppers /\ Cap(left) \in Nat BY Caps
<1>7. Cardinality(Drops(l.tokens, left)) <= Cap(left)
  <2> HIDE DEF left
  <2> DEFINE x == Cardinality(Drops(s.tokens, left))
             y == Cardinality(Drops(l.tokens, left))
             cap == Cap(left)
  <2>1. x \in Nat /\ y \in Nat
    <3>1. 0 \in Nat OBVIOUS
    <3> QED BY <1>5, <3>1, SmallSets
  <2>2. y <= x /\ x <= cap /\ cap \in Nat BY <1>3, <1>6 DEF Fewer, Bounded
  <2> HIDE DEF x, y, cap
  <2>3. y <= cap BY <2>1, <2>2
  <2> QED BY <2>3 DEF y, cap
<1> HIDE DEF left
<1>8. Bounded(l.tokens) BY <1>3, <1>5, <1>7, BoundedThinned DEF Thinned
<1> QED BY <1>1, <1>4, <1>8

\* Nothing but skulls is touched.
LEMMA SameTokens ==
  ASSUME NEW s, SkullsRight(s)
  PROVE  /\ Intermission(s).tokens = s.tokens
         /\ \A now : [s EXCEPT !.now = now].tokens = s.tokens
         /\ [s EXCEPT !.notgot = FALSE].tokens = s.tokens
         /\ \A c, id : TakeToken(s, c, id).tokens = s.tokens
         /\ \A b, now : [s EXCEPT !.laststeal[b] = now].tokens = s.tokens
         /\ \A team, k : SeeScore(AddScore(s, team, k), team).tokens = s.tokens
<1>1. DOMAIN s = CollectFields BY DEF SkullsRight
<1>2. \A c, id : TakeToken(s, c, id).tokens = s.tokens
  <2>1. \A ids : SeeGone(s, ids).tokens = s.tokens BY <1>1 DEF SeeGone, CollectFields
  <2> QED BY <2>1 DEF TakeToken
<1>3. Intermission(s).tokens = s.tokens BY <1>1 DEF CollectFields, Intermission
<1>4. /\ \A now : [s EXCEPT !.now = now].tokens = s.tokens
      /\ [s EXCEPT !.notgot = FALSE].tokens = s.tokens
      /\ \A b, now : [s EXCEPT !.laststeal[b] = now].tokens = s.tokens
  BY <1>1 DEF CollectFields
<1>5. ASSUME NEW team, NEW k PROVE SeeScore(AddScore(s, team, k), team).tokens = s.tokens
  <2> DEFINE a == AddScore(s, team, k)
  <2>1. DOMAIN a = CollectFields /\ a.tokens = s.tokens BY <1>1 DEF AddScore, CollectFields
  <2> HIDE DEF a
  <2>2. SeeScore(a, team).tokens = a.tokens BY <2>1 DEF SeeScore, CollectFields
  <2> QED BY <2>1, <2>2 DEF a
<1> QED BY <1>2, <1>3, <1>4, <1>5

LEMMA DepositBounded ==
  ASSUME NEW s, SkullsRight(s), Bounded(s.tokens), NEW c, NEW b \in Teams
  PROVE  Bounded(Deposit(s, c, b).tokens)
<1> DEFINE team == ci[c].team
           z == [s EXCEPT !.laststeal[b] = s.now]
           scored == SeeScore(AddScore(z, team, ci[c].tokens), team)
           robbed == SeeScore(AddScore(z, b, -1), b)
           d == OfBase(b)
           stolen == DropToken(robbed, b, team, d)
           count == Cardinality({i \in DOMAIN s.tokens : s.tokens[i].dropper = d})
           t == Deposit(s, c, b)
<1>1. t = s \/ t = Intermission(scored) \/ t = scored \/ (t = stolen /\ ~(count >= TokenLimit)) BY DEF Deposit
<1>2. SkullsRight(z) /\ z.tokens = s.tokens
  <2>1. SkullsRight(z) BY SkullsQuiet
  <2>2. z.tokens = s.tokens BY SameTokens
  <2> QED BY <2>1, <2>2
<1>3. count = Cardinality(Drops(s.tokens, d)) BY DEF Drops
<1>4. d \in Droppers /\ Cap(d) = TokenLimit /\ TokenLimit \in Nat BY Caps, SkullsAssumption
<1> HIDE DEF z, t, d, count
<1>5. SkullsRight(scored) /\ SkullsRight(robbed) /\ scored.tokens = s.tokens /\ robbed.tokens = s.tokens
  <2>1. SkullsRight(scored) /\ SkullsRight(robbed) BY <1>2, AddScoreSkulls
  <2>2. \A x, k : SeeScore(AddScore(z, x, k), x).tokens = s.tokens BY <1>2, SameTokens
  <2> QED BY <2>1, <2>2
<1> HIDE DEF scored, robbed
<1>6. Intermission(scored).tokens = s.tokens BY <1>5, SameTokens
<1>7. /\ SkullsRight(stolen) /\ Thinned(robbed.tokens, stolen.tokens, d)
      /\ Cardinality(Drops(stolen.tokens, d)) = Cardinality(Drops(robbed.tokens, d)) + 1
  BY <1>5, DroppedTokens
<1> HIDE DEF stolen
<1>8. ASSUME ~(count >= TokenLimit) PROVE Bounded(stolen.tokens)
  <2>1. IsSequence(s.tokens) /\ IsSequence(stolen.tokens) BY <1>7 DEF SkullsRight
  <2>2. count \in Nat
    <3>1. 0 \in Nat OBVIOUS
    <3> QED BY <1>3, <2>1, <3>1, SmallSets
  <2>3. Cardinality(Drops(stolen.tokens, d)) = count + 1 BY <1>3, <1>5, <1>7
  <2>4. Cardinality(Drops(stolen.tokens, d)) <= Cap(d) BY <1>4, <1>8, <2>2, <2>3
  <2> QED BY <1>5, <1>7, <2>1, <2>4, BoundedThinned
<1> QED BY <1>1, <1>5, <1>6, <1>8 DEF t

LEMMA EmptyBounded ==
  ASSUME NEW notgot
  PROVE  Bounded(SkullsEmpty(notgot).tokens)
<1>1. SkullsEmpty(notgot).tokens = <<>> BY DEF SkullsEmpty
<1>2. ASSUME NEW d \in Droppers PROVE Cardinality(Drops(<<>>, d)) <= Cap(d)
  <2>1. Drops(<<>>, d) = {} BY DEF Drops
  <2>2. Cardinality({}) = 0 BY FS_EmptySet
  <2> QED BY <2>1, <2>2, Caps
<1> QED BY <1>1, <1>2 DEF Bounded

-----------------------------------------------------------------------------
(* The skulls that players carry, and those that lie, in every game.        *)

Laden == \A c \in Clients : ci[c].tokens \in 0..TokenLimit
Shaped == ~IsFlags => Told(m)
SkullsInv == Laden /\ Shaped /\ (IsSkulls => Bounded(m.tokens))
SetupsShaped == \A known \in BOOLEAN : \A r : ~IsFlags => Told(Setup(known, r))

LEMMA LadenOK ==
  ASSUME Laden
  PROVE  TokensOK
BY DEF Laden, TokensOK

LEMMA LadenStep ==
  ASSUME Inv, Laden, NEW c \in Clients, NEW p, p.tokens \in 0..TokenLimit, ci' = [ci EXCEPT ![c] = p]
  PROVE  Laden'
BY DEF Inv, PlayersOK, Laden

LEMMA KilledLaden ==
  ASSUME Inv, Laden, NEW c \in Clients
  PROVE  Killed(c).tokens \in 0..TokenLimit
<1>1. ci[c].tokens \in 0..TokenLimit /\ 0 \in 0..TokenLimit BY SkullsAssumption DEF Laden
<1>2. TokensAtDeath(c) \in 0..TokenLimit BY <1>1 DEF TokensAtDeath, TokensAfterDrop
<1>3. Killed(c).tokens = TokensAtDeath(c) BY DEF Inv, PlayersOK, PlayerFields, Killed
<1> QED BY <1>2, <1>3

\* The player each action changes carries no more than the limit.
LEMMA PlayersLaden ==
  ASSUME Inv, Laden, NEW c \in Clients,
         \/ \E t : Connect(c, t) \/ SwitchTeam(c, t) \/ BotChangesTeam(c, t)
         \/ \E o, clip : Spawn(c, o, clip) \/ Move(c, o, clip)
         \/ \E actor : Die(c, actor)
         \/ Spectate(c) \/ Unspectate(c) \/ Disconnect(c)
  PROVE  Laden'
<1>1. ci[c].tokens \in 0..TokenLimit /\ 0 \in 0..TokenLimit BY SkullsAssumption DEF Laden
<1>2. Killed(c).tokens \in 0..TokenLimit /\ DOMAIN Killed(c) = PlayerFields BY KilledLaden, KilledPlayer DEF Inv
<1>3. DOMAIN ci = Clients /\ DOMAIN ci[c] = PlayerFields BY DEF Inv, PlayersOK
<1>4. CASE \E t : Connect(c, t)
  <2>1. PICK t : ci' = [ci EXCEPT ![c] = NewPlayer(t)] BY <1>4 DEF Connect
  <2>2. NewPlayer(t).tokens = 0 BY DEF NewPlayer
  <2> QED BY <1>1, <2>1, <2>2, LadenStep
<1>5. CASE \E t : SwitchTeam(c, t)
  <2>1. PICK t : SwitchTeam(c, t) BY <1>5
  <2> DEFINE p == IF Alive(c) THEN [Killed(c) EXCEPT !.team = t] ELSE [ci[c] EXCEPT !.team = t]
  <2>2. ci' = [ci EXCEPT ![c] = p] BY <1>3, <2>1 DEF SwitchTeam
  <2>3. p.tokens \in 0..TokenLimit BY <1>1, <1>2, <1>3 DEF PlayerFields
  <2> HIDE DEF p
  <2> QED BY <2>2, <2>3, LadenStep
<1>6. CASE \E t : BotChangesTeam(c, t)
  <2>1. PICK t : ci' = [ci EXCEPT ![c].team = t] BY <1>6 DEF BotChangesTeam
  <2> DEFINE p == [ci[c] EXCEPT !.team = t]
  <2>2. ci' = [ci EXCEPT ![c] = p] /\ p.tokens \in 0..TokenLimit BY <1>1, <1>3, <2>1 DEF PlayerFields
  <2> HIDE DEF p
  <2> QED BY <2>2, LadenStep
<1>7. CASE \E o, clip : Spawn(c, o, clip)
  <2>1. PICK o, clip : ci' = [ci EXCEPT ![c].state = "alive", ![c].o = o, ![c].clip = clip, ![c].tokens = 0] BY <1>7 DEF Spawn
  <2> DEFINE p == [ci[c] EXCEPT !.state = "alive", !.o = o, !.clip = clip, !.tokens = 0]
  <2>2. ci' = [ci EXCEPT ![c] = p] /\ p.tokens \in 0..TokenLimit BY <1>1, <1>3, <2>1 DEF PlayerFields
  <2> HIDE DEF p
  <2> QED BY <2>2, LadenStep
<1>8. CASE \E o, clip : Move(c, o, clip)
  <2>1. PICK o, clip : ci' = [ci EXCEPT ![c].o = o, ![c].clip = clip] BY <1>8 DEF Move
  <2> DEFINE p == [ci[c] EXCEPT !.o = o, !.clip = clip]
  <2>2. ci' = [ci EXCEPT ![c] = p] /\ p.tokens \in 0..TokenLimit BY <1>1, <1>3, <2>1 DEF PlayerFields
  <2> HIDE DEF p
  <2> QED BY <2>2, LadenStep
<1>9. CASE \E actor : Die(c, actor)
  <2>1. ci' = [ci EXCEPT ![c] = Killed(c)] BY <1>9 DEF Die
  <2> QED BY <1>2, <2>1, LadenStep
<1>10. CASE Spectate(c)
  <2> DEFINE p == [ci[c] EXCEPT !.state = "spectator", !.tokens = 0]
  <2>2. ci' = [ci EXCEPT ![c] = p] /\ p.tokens \in 0..TokenLimit BY <1>1, <1>3, <1>10 DEF PlayerFields, Spectate
  <2> HIDE DEF p
  <2> QED BY <2>2, LadenStep
<1>11. CASE Unspectate(c)
  <2> DEFINE p == [ci[c] EXCEPT !.state = "dead"]
  <2>2. ci' = [ci EXCEPT ![c] = p] /\ p.tokens \in 0..TokenLimit BY <1>1, <1>3, <1>11 DEF PlayerFields, Unspectate
  <2> HIDE DEF p
  <2> QED BY <2>2, LadenStep
<1>12. CASE Disconnect(c)
  <2>1. ci' = [ci EXCEPT ![c] = Gone] /\ Gone.tokens = 0 BY <1>12 DEF Disconnect, Gone, NewPlayer
  <2> QED BY <1>1, <2>1, LadenStep
<1> QED BY <1>4, <1>5, <1>6, <1>7, <1>8, <1>9, <1>10, <1>11, <1>12

LEMMA NextLaden ==
  ASSUME Inv, Laden, Next
  PROVE  Laden'
<1>1. ASSUME NEW c \in Clients, NEW b, DepositTokens(c, b) PROVE Laden'
  <2>1. ci[c].tokens \in 0..TokenLimit /\ 0 \in 0..TokenLimit BY SkullsAssumption DEF Laden
  <2>2. DOMAIN ci = Clients /\ DOMAIN ci[c] = PlayerFields BY DEF Inv, PlayersOK
  <2> DEFINE n == IF m'.next = m.next THEN 0 ELSE ci[c].tokens
             p == [ci[c] EXCEPT !.tokens = n]
  <2>3. ci' = [ci EXCEPT ![c] = p] /\ p.tokens \in 0..TokenLimit BY <1>1, <2>1, <2>2 DEF DepositTokens, PlayerFields
  <2> HIDE DEF p
  <2> QED BY <2>3, LadenStep
<1>2. ASSUME NEW c \in Clients, NEW id, TakeSkull(c, id) PROVE Laden'
  <2>1. ci[c].tokens \in 0..TokenLimit /\ TokenLimit \in Nat BY SkullsAssumption DEF Laden
  <2>2. DOMAIN ci = Clients /\ DOMAIN ci[c] = PlayerFields BY DEF Inv, PlayersOK
  <2> DEFINE n == IF Gains(m, c, id) THEN ci[c].tokens + 1 ELSE ci[c].tokens
             p == [ci[c] EXCEPT !.tokens = n]
  <2>3. ci' = [ci EXCEPT ![c] = p] /\ p.tokens = n BY <1>2, <2>2 DEF TakeSkull, PlayerFields
  <2>4. Gains(m, c, id) => ci[c].tokens < TokenLimit BY DEF Gains
  <2>5. n \in 0..TokenLimit BY <2>1, <2>4
  <2> HIDE DEF p, n
  <2> QED BY <2>3, <2>5, LadenStep
<1>3. ASSUME NEW mode, NEW r, ChangeMap(mode, r) PROVE Laden'
  <2>1. ci' = [c \in Clients |-> ResetPlayer(ci[c])] BY <1>3 DEF ChangeMap
  <2>2. ASSUME NEW c \in Clients PROVE ResetPlayer(ci[c]).tokens = 0
    BY DEF Inv, PlayersOK, PlayerFields, ResetPlayer, NewPlayer
  <2> QED BY <2>1, <2>2, SkullsAssumption DEF Laden
<1>4. ASSUME ci' = ci PROVE Laden' BY <1>4 DEF Laden
<1>5. \A c \in Clients : TryDropFlag(c) \/ RepAmmo(c) \/ (\E i, r : TakeFlag(c, i, r)) \/ (\E r, order : ItemList(c, r, order)) => ci' = ci
  BY DEF TryDropFlag, RepAmmo, TakeFlag, ItemList
<1>6. (\E r : Tick(r)) \/ GameEnds => ci' = ci BY DEF Tick, GameEnds
<1> QED BY <1>1, <1>2, <1>3, <1>4, <1>5, <1>6, PlayersLaden DEF Next

LEMMA SetupShaped == SetupsShaped
<1>1. \A known \in BOOLEAN : \A r : ~IsFlags => Told(Setup(known, r))
  BY SetupTold DEF SetupsTold, IsFlags, FlagModes, Protect
<1> QED BY <1>1 DEF SetupsShaped

\* In one game: what is told in a mode without flags.
LEMMA GameShaped ==
  ASSUME Inv, Laden, Shaped, Next, smode' = smode,
         \A mode, r : ~ChangeMap(mode, r)
  PROVE  Shaped'
<1>1. CASE IsFlags BY <1>1 DEF Shaped, IsFlags
<1>2. CASE ~IsFlags
  <2>1. ViewsInv BY <1>2, LadenOK DEF ViewsInv, Shaped
  <2>2. Telling
    BY <2>1, ConnectTold, SpawnTold, MoveTold, UnspectateTold, DieTold, SpectateTold, SwitchTeamTold, BotChangesTeamTold,
       TakingTold, DisconnectTold, AskingTold, ItemListTold, TickTold, GameEndsTold
       DEF Next
  <2> QED BY <2>2 DEF Telling, ViewsInv, Shaped
<1> QED BY <1>1, <1>2

LEMMA MapShaped ==
  ASSUME SetupsShaped', NEW mode, NEW r, ChangeMap(mode, r)
  PROVE  Shaped'
<1>1. PICK known \in BOOLEAN : m' = Setup(known, r)' BY DEF ChangeMap, Known
<1> QED BY <1>1 DEF SetupsShaped, Shaped, Told

\* died, in collect.
LEMMA DiedBounded ==
  ASSUME SkullsInv, IsSkulls, NEW c \in Clients, NEW actor
  PROVE  Bounded(Died(c, actor).tokens)
<1> DEFINE penalty == actor = Nobody \/ IsTeam(actor, c)
<1>1. Died(c, actor) = DropTokens(m, c, penalty)
  <2>1. Died(c, actor) = SkullsDied(m, c, actor) BY SkullHooks
  <2> QED BY <2>1 DEF SkullsDied
<1>2. SkullsRight(m) /\ Bounded(m.tokens) /\ ci[c].tokens \in 0..TokenLimit BY OtherModes DEF SkullsInv, Shaped, Told, Laden
<1> HIDE DEF penalty
<1> QED BY <1>1, <1>2, DropTokensBounded

\* The skulls of collect, at every step of one game.
LEMMA GameBounded ==
  ASSUME Inv, SkullsInv, Next, IsSkulls, \A mode, r : ~ChangeMap(mode, r)
  PROVE  Bounded(m'.tokens)
<1>1. SkullsRight(m) /\ Bounded(m.tokens) /\ ~IsFlags /\ ~IsBases BY OtherModes DEF SkullsInv, Shaped, Told
<1>2. ASSUME m' = m PROVE Bounded(m'.tokens) BY <1>1, <1>2
<1>3. ASSUME NEW c \in Clients
      PROVE  /\ \A t : Connect(c, t) => m' = m
             /\ \A o, clip : Spawn(c, o, clip) \/ Move(c, o, clip) => m' = m
             /\ Unspectate(c) => m' = m
             /\ \A t : BotChangesTeam(c, t) => m' = m
             /\ ~TryDropFlag(c) /\ ~RepAmmo(c) /\ \A i, r : ~TakeFlag(c, i, r)
  <2>1. \A t : ChangeTeam(c, t) = m BY <1>1 DEF ChangeTeam
  <2> QED BY <1>1, <2>1 DEF Connect, Spawn, Move, Unspectate, BotChangesTeam, TryDropFlag, RepAmmo, TakeFlag
<1>4. ASSUME NEW c \in Clients
      PROVE  /\ \A actor : Die(c, actor) => m' = Died(c, actor)
             /\ Spectate(c) => m' = m \/ m' = Died(c, Nobody)
             /\ \A t : SwitchTeam(c, t) => m' = m \/ m' = Died(c, Nobody)
  BY <1>1 DEF Die, Spectate, SwitchTeam
<1>5. ASSUME NEW c \in Clients, Disconnect(c) PROVE Bounded(m'.tokens)
  <2>1. m' = SkullsDisconnect(m, c) BY <1>5, SkullHooks DEF Disconnect
  <2> QED BY <1>1, <2>1, SkullsDisconnectBounded
<1>6. ASSUME NEW c \in Clients, NEW b \in Teams, DepositTokens(c, b) PROVE Bounded(m'.tokens)
  <2>1. m' = Deposit(m, c, b) BY <1>6 DEF DepositTokens
  <2> QED BY <1>1, <2>1, DepositBounded
<1>7. ASSUME NEW c \in Clients, NEW id, TakeSkull(c, id) PROVE Bounded(m'.tokens)
  <2>1. m' = TakeToken(m, c, id) BY <1>7 DEF TakeSkull
  <2>2. m'.tokens = m.tokens BY <1>1, <2>1, SameTokens
  <2> QED BY <1>1, <2>2
<1>8. ASSUME NEW c \in Clients, NEW r, NEW order, ItemList(c, r, order) PROVE Bounded(m'.tokens)
  <2>1. m' = [m EXCEPT !.notgot = FALSE] BY <1>1, <1>8 DEF ItemList
  <2>2. [m EXCEPT !.notgot = FALSE].tokens = m.tokens BY <1>1, SameTokens
  <2> QED BY <1>1, <2>1, <2>2
<1>9. ASSUME NEW r, Tick(r) PROVE Bounded(m'.tokens)
  <2> DEFINE now == m.now + 1
             s == [m EXCEPT !.now = now]
  <2>1. m' = SkullsUpdate(s)
    <3>1. s = [m EXCEPT !.now = @ + 1] BY <1>1 DEF SkullsRight, CollectFields
    <3> QED BY <1>9, <3>1, SkullHooks DEF Tick
  <2> HIDE DEF now
  <2>2. SkullsRight(s) BY <1>1, SkullsQuiet
  <2>3. s.tokens = m.tokens BY <1>1, SameTokens
  <2> HIDE DEF s
  <2> QED BY <1>1, <2>1, <2>2, <2>3, SkullsUpdateBounded
<1>10. ASSUME GameEnds PROVE Bounded(m'.tokens)
  <2>1. m' = Intermission(m) BY <1>10 DEF GameEnds
  <2>2. m'.tokens = m.tokens BY <1>1, <2>1, SameTokens
  <2> QED BY <1>1, <2>2
<1>11. \A c \in Clients : \A actor : Bounded(Died(c, actor).tokens) BY DiedBounded
<1> QED BY <1>2, <1>3, <1>4, <1>5, <1>6, <1>7, <1>8, <1>9, <1>10, <1>11 DEF Next

\* Only a change of map changes the mode.
LEMMA SameMode ==
  ASSUME Next, \A mode, r : ~ChangeMap(mode, r)
  PROVE  smode' = smode
<1>1. \A c : \A t : Connect(c, t) \/ SwitchTeam(c, t) \/ BotChangesTeam(c, t) => smode' = smode
  BY DEF Connect, SwitchTeam, BotChangesTeam, Turn
<1>2. \A c : \A o, clip : Spawn(c, o, clip) \/ Move(c, o, clip) => smode' = smode BY DEF Spawn, Move, Game
<1>3. \A c : (\E actor : Die(c, actor)) \/ Spectate(c) \/ Unspectate(c) \/ Disconnect(c) => smode' = smode
  BY DEF Die, Spectate, Unspectate, Disconnect, Game, Turn
<1>4. \A c : \/ TryDropFlag(c) \/ RepAmmo(c) \/ \E b : DepositTokens(c, b) \/ TakeSkull(c, b)
             \/ \E i, r : TakeFlag(c, i, r) \/ ItemList(c, i, r)
             => smode' = smode
  BY DEF TryDropFlag, RepAmmo, DepositTokens, TakeSkull, TakeFlag, ItemList, Game
<1>5. (\E r : Tick(r)) \/ GameEnds => smode' = smode BY DEF Tick, GameEnds, Game
<1> QED BY <1>1, <1>2, <1>3, <1>4, <1>5 DEF Next

LEMMA SkullsNext ==
  ASSUME Inv, SkullsInv, SetupsShaped', Next
  PROVE  SkullsInv'
<1>1. Laden' BY NextLaden DEF SkullsInv
<1>2. CASE \E mode, r : ChangeMap(mode, r)
  <2>1. PICK mode, r : ChangeMap(mode, r) BY <1>2
  <2>2. Shaped' BY <2>1, MapShaped
  <2>3. IsSkulls' => Bounded(m'.tokens)
    <3> SUFFICES ASSUME IsSkulls' PROVE Bounded(m'.tokens) OBVIOUS
    <3>1. PICK known \in BOOLEAN : smode' = "collect" /\ m' = Setup(known, r)' BY <2>1 DEF ChangeMap, IsSkulls, Known
    <3>2. Setup(known, r)' = SkullsEmpty(~known) BY <3>1 DEF Setup, IsFlags, IsBases, FlagModes
    <3> QED BY <3>1, <3>2, EmptyBounded
  <2> QED BY <1>1, <2>2, <2>3 DEF SkullsInv
<1>3. CASE \A mode, r : ~ChangeMap(mode, r)
  <2>1. smode' = smode BY <1>3, SameMode
  <2>2. Shaped' BY <1>3, <2>1, GameShaped DEF SkullsInv
  <2>3. IsSkulls' => Bounded(m'.tokens) BY <1>3, <2>1, GameBounded DEF IsSkulls
  <2> QED BY <1>1, <2>2, <2>3 DEF SkullsInv
<1> QED BY <1>2, <1>3

LEMMA SkullsStutter ==
  ASSUME SkullsInv, UNCHANGED vars
  PROVE  SkullsInv'
<1>1. ci' = ci /\ smode' = smode /\ m' = m BY DEF vars
<1>2. Laden' BY <1>1 DEF SkullsInv, Laden
<1>3. Shaped'
  <2>1. CASE IsFlags BY <1>1, <2>1 DEF Shaped, IsFlags
  <2>2. CASE ~IsFlags
    <3>1. ViewsInv BY <2>2, LadenOK DEF ViewsInv, Shaped, SkullsInv
    <3>2. Telling BY <3>1, StutterTold
    <3> QED BY <3>2 DEF Telling, ViewsInv, Shaped
  <2> QED BY <2>1, <2>2
<1>4. IsSkulls' => Bounded(m'.tokens) BY <1>1 DEF SkullsInv, IsSkulls
<1> QED BY <1>2, <1>3, <1>4 DEF SkullsInv

LEMMA SkullsInit ==
  ASSUME Init
  PROVE  SkullsInv
<1>1. Laden
  <2>1. ci \in [Clients -> {Gone} \cup {NewPlayer(t) : t \in Teams}] BY DEF Init
  <2>2. \A p \in {Gone} \cup {NewPlayer(t) : t \in Teams} : p.tokens = 0 BY DEF Gone, NewPlayer
  <2> QED BY <2>1, <2>2, SkullsAssumption DEF Laden
<1>2. PICK known \in BOOLEAN, r \in Draws : m = Setup(known, r) BY DEF Init, Known
<1>3. Shaped BY <1>2, SetupShaped DEF SetupsShaped, Shaped
<1>4. IsSkulls => Bounded(m.tokens)
  <2> SUFFICES ASSUME IsSkulls PROVE Bounded(m.tokens) OBVIOUS
  <2>1. m = SkullsEmpty(~known) BY <1>2, SkullHooks
  <2> QED BY <2>1, EmptyBounded
<1> QED BY <1>1, <1>3, <1>4 DEF SkullsInv

LEMMA SkullsFew ==
  ASSUME SkullsInv
  PROVE  SkullsBounded
<1> SUFFICES ASSUME IsSkulls
             PROVE  /\ \A c \in Clients : Cardinality(Drops(m.tokens, c)) <= 2 * TokenLimit
                    /\ \A b \in Teams : Cardinality(Drops(m.tokens, OfBase(b))) <= TokenLimit
                    /\ Cardinality(Drops(m.tokens, Left)) <= 2 * UnownedTokenLimit
  BY DEF SkullsBounded, Drops
<1>1. Bounded(m.tokens) BY DEF SkullsInv
<1>2. \A d \in Droppers : Cardinality(Drops(m.tokens, d)) <= Cap(d) BY <1>1 DEF Bounded
<1> QED BY <1>2, Caps

\* However players die, leave and steal, the skulls of each that lie are within twice the limit.
THEOREM SkullsLimited == Spec => []SkullsBounded
<1>1. Inv /\ SkullsInv /\ SetupsFresh' /\ SetupsShaped' /\ [Next]_vars => Inv' /\ SkullsInv'
  BY NextSafe, StutterSafe, SkullsNext, SkullsStutter DEF Safe
<1>2. Init => Inv /\ SkullsInv BY InitInv, SkullsInit
<1> QED BY <1>1, <1>2, SkullsFew, SetupFresh, SetupShaped, PTL DEF Spec

-----------------------------------------------------------------------------
(* Players in bases.                                                        *)

\* Base b counts no more owners and enemies than pop says of their teams, but for its strays.
In(pop, team) == IF team \in Teams THEN pop[team] ELSE 0
Fit(b, pop) ==
  /\ DOMAIN b = BaseFields
  /\ b.owners \in Nat /\ b.enemies \in Nat /\ b.strays \in Nat
  /\ b.owner \in Teams \cup {NoTeam} /\ b.enemy \in Teams \cup {NoTeam} /\ (b.owner = b.enemy => b.owner = NoTeam)
  /\ b.owners <= In(pop, b.owner) + b.strays /\ b.enemies <= In(pop, b.enemy) + b.strays
\* One of team left, or came; others of its teams may have come too.
Shift(old, new, team, left, came) ==
  \A t \in Teams : old[t] + (IF came /\ ~left /\ t = team THEN 1 ELSE 0) <= new[t] + (IF left /\ ~came /\ t = team THEN 1 ELSE 0)

LEMMA NoTeamApart == NoTeam \notin Teams
BY DEF NoTeam, Teams, Good, Evil

LEMMA FitMore ==
  ASSUME NEW b, NEW old \in [Teams -> Nat], Fit(b, old), NEW new \in [Teams -> Nat], \A t \in Teams : old[t] <= new[t]
  PROVE  Fit(b, new)
<1>1. \A t : In(old, t) \in Nat /\ In(new, t) \in Nat /\ In(old, t) <= In(new, t) BY DEF In
<1> DEFINE x == In(old, b.owner)
           y == In(old, b.enemy)
           v == In(new, b.owner)
           w == In(new, b.enemy)
<1>2. x \in Nat /\ y \in Nat /\ v \in Nat /\ w \in Nat /\ x <= v /\ y <= w BY <1>1
<1>3. /\ b.owners \in Nat /\ b.enemies \in Nat /\ b.strays \in Nat
      /\ b.owners <= x + b.strays /\ b.enemies <= y + b.strays
  BY DEF Fit
<1> HIDE DEF x, y, v, w
<1>4. b.owners <= v + b.strays /\ b.enemies <= w + b.strays BY <1>2, <1>3
<1> QED BY <1>4 DEF Fit, v, w

LEMMA LeaveFit ==
  ASSUME NEW b, NEW old \in [Teams -> Nat], Fit(b, old), NEW team \in Teams, NEW new \in [Teams -> Nat],
         Shift(old, new, team, TRUE, FALSE)
  PROVE  Fit(Leave(b, team), new)
<1> DEFINE e == Leave(b, team)
<1>1. DOMAIN b = BaseFields /\ b.owners \in Nat /\ b.enemies \in Nat /\ b.strays \in Nat /\ team # NoTeam BY NoTeamApart DEF Fit
<1>2. \A t \in Teams : old[t] <= new[t] + (IF t = team THEN 1 ELSE 0) BY DEF Shift
<1>3. \A t \in Teams : old[t] \in Nat /\ new[t] \in Nat OBVIOUS
<1>4. b.owners <= In(old, b.owner) + b.strays /\ b.enemies <= In(old, b.enemy) + b.strays BY DEF Fit
<1>5. CASE b.owner = team /\ b.owners > 0
  <2>1. e = [b EXCEPT !.owners = b.owners - 1] BY <1>1, <1>5 DEF Leave, BaseFields
  <2> HIDE DEF e
  <2>2. /\ DOMAIN e = BaseFields /\ e.strays = b.strays /\ e.owners = b.owners - 1 /\ e.enemies = b.enemies /\ e.owner = b.owner /\ e.enemy = b.enemy
    BY <1>1, <2>1 DEF BaseFields
  <2>3. e.owners \in Nat /\ e.owners <= In(new, e.owner) + e.strays BY <1>1, <1>2, <1>3, <1>4, <1>5, <2>2 DEF In
  <2>4. e.enemies <= In(new, e.enemy) + e.strays
    <3>1. b.enemy # team BY <1>1, <1>5 DEF Fit
    <3> QED BY <1>1, <1>2, <1>3, <1>4, <2>2, <3>1 DEF In
  <2> QED BY <2>2, <2>3, <2>4 DEF Fit, e
<1>6. CASE ~(b.owner = team /\ b.owners > 0) /\ b.enemy = team /\ b.enemies > 0
  <2>1. e = [b EXCEPT !.enemies = b.enemies - 1] BY <1>1, <1>6 DEF Leave, BaseFields
  <2> HIDE DEF e
  <2>2. /\ DOMAIN e = BaseFields /\ e.strays = b.strays /\ e.owners = b.owners /\ e.enemies = b.enemies - 1 /\ e.owner = b.owner /\ e.enemy = b.enemy
    BY <1>1, <2>1 DEF BaseFields
  <2>3. e.enemies \in Nat /\ e.enemies <= In(new, e.enemy) + e.strays BY <1>1, <1>2, <1>3, <1>4, <1>6, <2>2 DEF In
  <2>4. e.owners <= In(new, e.owner) + e.strays
    <3>1. b.owner # team BY <1>1, <1>6 DEF Fit
    <3> QED BY <1>1, <1>2, <1>3, <1>4, <2>2, <3>1 DEF In
  <2> QED BY <2>2, <2>3, <2>4 DEF Fit, e
<1>7. CASE ~(b.owner = team /\ b.owners > 0) /\ ~(b.enemy = team /\ b.enemies > 0)
  <2>1. e = b BY <1>1, <1>7 DEF Leave
  <2>2. b.owners <= In(new, b.owner) + b.strays BY <1>1, <1>2, <1>3, <1>4, <1>7 DEF In
  <2>3. b.enemies <= In(new, b.enemy) + b.strays BY <1>1, <1>2, <1>3, <1>4, <1>7 DEF In
  <2> HIDE DEF e
  <2> QED BY <2>1, <2>2, <2>3 DEF Fit, e
<1> QED BY <1>5, <1>6, <1>7

LEMMA EnterFit ==
  ASSUME NEW b, NEW old \in [Teams -> Nat], Fit(b, old), NEW team \in Teams, NEW new \in [Teams -> Nat],
         Shift(old, new, team, FALSE, TRUE)
  PROVE  Fit(Enter(b, team), new)
<1> DEFINE e == Enter(b, team)
<1>1. DOMAIN b = BaseFields /\ b.owners \in Nat /\ b.enemies \in Nat /\ b.strays \in Nat /\ team # NoTeam BY NoTeamApart DEF Fit
<1>2. \A t \in Teams : old[t] + (IF t = team THEN 1 ELSE 0) <= new[t] BY DEF Shift
<1>3. \A t \in Teams : old[t] \in Nat /\ new[t] \in Nat OBVIOUS
<1>4. b.owners <= In(old, b.owner) + b.strays /\ b.enemies <= In(old, b.enemy) + b.strays BY DEF Fit
<1>5. CASE b.owner = team
  <2>1. e = [b EXCEPT !.owners = @ + 1] BY <1>5 DEF Enter
  <2> HIDE DEF e
  <2>2. /\ DOMAIN e = BaseFields /\ e.strays = b.strays /\ e.owners = b.owners + 1 /\ e.enemies = b.enemies /\ e.owner = b.owner /\ e.enemy = b.enemy
    BY <1>1, <2>1 DEF BaseFields
  <2>3. e.owners \in Nat /\ e.owners <= In(new, e.owner) + e.strays BY <1>1, <1>2, <1>3, <1>4, <1>5, <2>2 DEF In
  <2>4. e.enemies <= In(new, e.enemy) + e.strays
    <3>1. b.enemy # team BY <1>1, <1>5 DEF Fit
    <3> QED BY <1>1, <1>2, <1>3, <1>4, <2>2, <3>1 DEF In
  <2> QED BY <2>2, <2>3, <2>4 DEF Fit, e
<1>6. CASE b.owner /= team /\ b.enemies = 0
  <2>1. \E v : e = [b EXCEPT !.enemy = team, !.enemies = 1, !.converted = v]
    <3>1. e = [b EXCEPT !.enemy = team, !.enemies = 1, !.converted = IF b.enemy = team THEN @ ELSE 0] BY <1>6 DEF Enter
    <3> HIDE DEF e
    <3>2. e = [b EXCEPT !.enemy = team, !.enemies = 1, !.converted = IF b.enemy = team THEN b.converted ELSE 0] BY <1>1, <3>1 DEF BaseFields
    <3> QED BY <3>2
  <2> HIDE DEF e
  <2>2. /\ DOMAIN e = BaseFields /\ e.strays = b.strays /\ e.owners = b.owners /\ e.enemies = 1 /\ e.owner = b.owner /\ e.enemy = team
    BY <1>1, <2>1 DEF BaseFields
  <2>3. e.enemies <= In(new, e.enemy) + e.strays BY <1>1, <1>2, <1>3, <2>2 DEF In
  <2>4. e.owners <= In(new, e.owner) + e.strays BY <1>1, <1>2, <1>3, <1>4, <1>6, <2>2 DEF In
  <2>5. e.owner # e.enemy BY <1>6, <2>2
  <2> QED BY <2>2, <2>3, <2>4, <2>5 DEF Fit, e
<1>7. CASE b.owner /= team /\ b.enemies # 0
  <2>1. e = IF b.enemy = team THEN [b EXCEPT !.enemies = @ + 1] ELSE b BY <1>7 DEF Enter
  <2> HIDE DEF e
  <2>2. CASE b.enemy = team
    <3>1. /\ DOMAIN e = BaseFields /\ e.strays = b.strays /\ e.owners = b.owners /\ e.enemies = b.enemies + 1
          /\ e.owner = b.owner /\ e.enemy = b.enemy
      BY <1>1, <2>1, <2>2 DEF BaseFields
    <3>2. e.enemies \in Nat /\ e.enemies <= In(new, e.enemy) + e.strays BY <1>1, <1>2, <1>3, <1>4, <2>2, <3>1 DEF In
    <3>3. e.owners <= In(new, e.owner) + e.strays BY <1>1, <1>2, <1>3, <1>4, <1>7, <3>1 DEF In
    <3> QED BY <3>1, <3>2, <3>3 DEF Fit, e
  <2>3. CASE b.enemy # team
    <3>1. e = b BY <2>1, <2>3
    <3>2. b.owners <= In(new, b.owner) + b.strays BY <1>1, <1>2, <1>3, <1>4, <1>7 DEF In
    <3>3. b.enemies <= In(new, b.enemy) + b.strays BY <1>1, <1>2, <1>3, <1>4, <2>3 DEF In
    <3> QED BY <3>1, <3>2, <3>3 DEF Fit, e
  <2> QED BY <2>2, <2>3
<1> QED BY <1>5, <1>6, <1>7

LEMMA StealFit ==
  ASSUME NEW b, NEW old \in [Teams -> Nat], Fit(b, old), NEW team \in Teams, NEW n \in Nat, NEW k \in Nat, n <= old[team] + k,
         Steal(b, team)
  PROVE  Fit(IF n = 0 THEN b ELSE [Enter(b, team) EXCEPT !.enemies = n, !.strays = IF @ < k THEN k ELSE @], old)
<1> DEFINE once == Enter(b, team)
           y == IF once.strays < k THEN k ELSE once.strays
           e == [once EXCEPT !.enemies = n, !.strays = IF @ < k THEN k ELSE @]
<1>1. DOMAIN b = BaseFields /\ b.owner /= team /\ b.enemies = 0 /\ b.strays \in Nat BY DEF Fit, Steal
<1>2. \E v : once = [b EXCEPT !.enemy = team, !.enemies = 1, !.converted = v]
  <2>1. once = [b EXCEPT !.enemy = team, !.enemies = 1, !.converted = IF b.enemy = team THEN @ ELSE 0] BY <1>1 DEF Enter
  <2> HIDE DEF once
  <2>2. once = [b EXCEPT !.enemy = team, !.enemies = 1, !.converted = IF b.enemy = team THEN b.converted ELSE 0] BY <1>1, <2>1 DEF BaseFields
  <2> QED BY <2>2
<1> HIDE DEF once
<1>3. /\ DOMAIN once = BaseFields /\ once.owner = b.owner /\ once.enemy = team /\ once.owners = b.owners
      /\ once.strays = b.strays
  BY <1>1, <1>2 DEF BaseFields
<1>4. /\ DOMAIN e = BaseFields /\ e.owner = b.owner /\ e.enemy = team /\ e.owners = b.owners /\ e.enemies = n
      /\ e.strays = y
  BY <1>3 DEF BaseFields
<1>5. y \in Nat /\ b.strays <= y /\ k <= y BY <1>1, <1>3
<1> HIDE DEF e, y
<1> DEFINE x == old[team]
           z == In(old, b.owner)
<1>6. x \in Nat /\ z \in Nat /\ b.owners \in Nat /\ b.owners <= z + b.strays BY DEF Fit, In
<1>7. In(old, team) = x /\ n <= x + k BY DEF In
<1> HIDE DEF x, z
<1>8. n <= x + y /\ b.owners <= z + y BY <1>1, <1>5, <1>6, <1>7
<1>9. e.enemies <= In(old, e.enemy) + e.strays /\ e.owners <= In(old, e.owner) + e.strays BY <1>4, <1>7, <1>8 DEF z
<1>10. Fit(e, old) BY <1>1, <1>4, <1>5, <1>6, <1>9 DEF Fit
<1> QED BY <1>10 DEF e, once

LEMMA NoEnemyFit ==
  ASSUME NEW b, NEW pop \in [Teams -> Nat], DOMAIN b = BaseFields, b.owners \in Nat, b.owner \in Teams \cup {NoTeam},
         b.strays \in Nat, b.owners <= In(pop, b.owner) + b.strays
  PROVE  Fit(NoEnemy(b), pop)
<1> DEFINE e == NoEnemy(b)
<1>1. DOMAIN e = BaseFields /\ e.owner = b.owner /\ e.owners = b.owners /\ e.enemy = NoTeam /\ e.enemies = 0
      /\ e.strays = b.strays
  BY DEF NoEnemy, BaseFields
<1> HIDE DEF e
<1>2. In(pop, NoTeam) = 0 BY NoTeamApart DEF In
<1> QED BY <1>1, <1>2 DEF Fit, e

\* What occupy may leave.
Converted(b, units) == [b EXCEPT !.converted = b.converted + units]
Freed(c, team) == [c EXCEPT !.owner = NoTeam, !.converted = 0, !.enemy = team]
Seized(c, team) == NoEnemy([c EXCEPT !.owner = team, !.ammo = 0, !.capturetime = 0, !.owners = c.enemies])

LEMMA OccupyForms ==
  ASSUME NEW b, DOMAIN b = BaseFields, NEW team, NEW units
  PROVE  LET c == Converted(b, units)
             o == Occupy(b, team, units)
         IN o = b \/ o = c \/ o = NoEnemy(c) \/ o = Seized(c, team) \/ (units >= 0 /\ o = Freed(c, team))
<1> DEFINE c == Converted(b, units)
           o == Occupy(b, team, units)
           seized == NoEnemy([c EXCEPT !.owner = team, !.ammo = 0, !.capturetime = 0, !.owners = b.enemies])
<1>1. c.enemies = b.enemies BY DEF Converted, BaseFields
<1>2. seized = Seized(c, team) BY <1>1 DEF Seized
<1>3. CASE units >= 0
  <2>1. o = b \/ o = c \/ o = NoEnemy(c) \/ o = Freed(c, team) \/ o = seized BY DEF Occupy, Converted, Freed
  <2> HIDE DEF o, c, seized
  <2> QED BY <1>2, <1>3, <2>1 DEF o, c
<1>4. CASE ~(units >= 0)
  <2>1. o = b \/ o = c \/ o = NoEnemy(c) \/ o = seized BY <1>4 DEF Occupy, Converted
  <2> HIDE DEF o, c, seized
  <2> QED BY <1>2, <2>1 DEF o, c
<1> QED BY <1>3, <1>4

\* Time takes a base from nobody but those in it.
LEMMA OccupiedFit ==
  ASSUME NEW b, NEW pop \in [Teams -> Nat], Fit(b, pop), b.enemy # NoTeam, b.owners = 0 \/ b.enemies = 0
  PROVE  Fit(Occupy(b, b.enemy, OccupyUnits(b)), pop)
<1> DEFINE team == b.enemy
           units == OccupyUnits(b)
           c == Converted(b, units)
           o == Occupy(b, team, units)
<1>1. /\ DOMAIN b = BaseFields /\ b.owners \in Nat /\ b.enemies \in Nat /\ b.owner \in Teams \cup {NoTeam} /\ team \in Teams
      /\ b.owner # team /\ b.strays \in Nat /\ b.owners <= In(pop, b.owner) + b.strays /\ b.enemies <= In(pop, team) + b.strays
  BY DEF Fit
<1>2. In(pop, NoTeam) = 0 /\ In(pop, team) \in Nat /\ In(pop, b.owner) \in Nat BY <1>1, NoTeamApart DEF In
<1>3. /\ DOMAIN c = BaseFields /\ c.owner = b.owner /\ c.owners = b.owners /\ c.enemy = b.enemy /\ c.enemies = b.enemies
      /\ c.strays = b.strays
  BY <1>1 DEF Converted, BaseFields
<1>6. units >= 0 => b.enemies > 0 /\ b.owners = 0
  BY <1>1 DEF OccupyUnits, OccupyBonus, OccupyPoints
<1>9. o = b \/ o = c \/ o = NoEnemy(c) \/ o = Seized(c, team) \/ (units >= 0 /\ o = Freed(c, team))
  BY <1>1, OccupyForms
<1> HIDE DEF o, c, units
<1>4. Fit(c, pop) BY <1>1, <1>3 DEF Fit
<1>5. Fit(NoEnemy(c), pop) BY <1>1, <1>3, NoEnemyFit
<1>7. b.owners = 0 => Fit(Freed(c, team), pop)
  <2> DEFINE free == Freed(c, team)
  <2>1. /\ DOMAIN free = BaseFields /\ free.owner = NoTeam /\ free.owners = b.owners /\ free.enemy = team /\ free.enemies = b.enemies
        /\ free.strays = b.strays
    BY <1>3 DEF Freed, BaseFields
  <2> HIDE DEF free, team
  <2>2. team # NoTeam BY <1>1, NoTeamApart
  <2>3. b.owners = 0 => Fit(free, pop) BY <1>1, <1>2, <2>1, <2>2 DEF Fit
  <2> QED BY <2>3 DEF free, team
<1>8. Fit(Seized(c, team), pop)
  <2> DEFINE taken == [c EXCEPT !.owner = team, !.ammo = 0, !.capturetime = 0, !.owners = c.enemies]
  <2>1. DOMAIN taken = BaseFields /\ taken.owner = team /\ taken.owners = b.enemies /\ taken.strays = b.strays BY <1>3 DEF BaseFields
  <2>2. Seized(c, team) = NoEnemy(taken) BY DEF Seized
  <2> HIDE DEF taken
  <2>3. Fit(NoEnemy(taken), pop) BY <1>1, <2>1, NoEnemyFit
  <2> QED BY <2>2, <2>3
<1>10. Fit(o, pop) BY <1>4, <1>5, <1>6, <1>7, <1>8, <1>9
<1> QED BY <1>10 DEF o, units

\* Points, time and ammunition count nobody.
LEMMA AmmoFit ==
  ASSUME NEW b, NEW pop, Fit(b, pop), NEW i
  PROVE  Fit(AddAmmo(b, i), pop) /\ Fit(TakeAmmo(b), pop) /\ Fit([b EXCEPT !.capturetime = i], pop)
<1>1. DOMAIN b = BaseFields BY DEF Fit
<1>2. \A e : DOMAIN e = BaseFields /\ e.owner = b.owner /\ e.owners = b.owners /\ e.enemy = b.enemy /\ e.enemies = b.enemies
           /\ e.strays = b.strays => Fit(e, pop)
  BY DEF Fit
<1>3. Fit(AddAmmo(b, i), pop)
  <2> DEFINE e == AddAmmo(b, i)
  <2>1. /\ DOMAIN e = BaseFields /\ e.owner = b.owner /\ e.owners = b.owners /\ e.enemy = b.enemy /\ e.enemies = b.enemies
        /\ e.strays = b.strays
    BY <1>1 DEF AddAmmo, BaseFields
  <2> QED BY <1>2, <2>1
<1>4. Fit(TakeAmmo(b), pop)
  <2> DEFINE e == TakeAmmo(b)
  <2>1. /\ DOMAIN e = BaseFields /\ e.owner = b.owner /\ e.owners = b.owners /\ e.enemy = b.enemy /\ e.enemies = b.enemies
        /\ e.strays = b.strays
    BY <1>1 DEF TakeAmmo, BaseFields
  <2> QED BY <1>2, <2>1
<1>5. Fit([b EXCEPT !.capturetime = i], pop)
  <2> DEFINE e == [b EXCEPT !.capturetime = i]
  <2>1. /\ DOMAIN e = BaseFields /\ e.owner = b.owner /\ e.owners = b.owners /\ e.enemy = b.enemy /\ e.enemies = b.enemies
        /\ e.strays = b.strays
    BY <1>1 DEF BaseFields
  <2> QED BY <1>2, <2>1
<1> QED BY <1>3, <1>4, <1>5

-----------------------------------------------------------------------------
(* movebases, base by base.                                                 *)

\* s with base b changed to x, whatever was told.
Put(s, b, x) == [s EXCEPT !.bases[b] = x]
Alters(s, t, b, x) ==
  /\ Held(s, t) /\ t.ended = s.ended /\ t.bases[b] = x
  /\ \A d \in DOMAIN s.bases : d # b => t.bases[d] = s.bases[d]

LEMMA PutAlters ==
  ASSUME NEW s, BasesRight(s), NEW b \in DOMAIN s.bases, NEW x, NEW t, Held(s, t), t = SendBase(Put(s, b, x), b) \/ t = Put(s, b, x)
  PROVE  Alters(s, t, b, x)
<1> DEFINE a == Put(s, b, x)
           v == SendBase(a, b)
<1>1. DOMAIN s = CaptureFields BY DEF BasesRight
<1>2. DOMAIN a = CaptureFields /\ a.bases = [s.bases EXCEPT ![b] = x] /\ a.ended = s.ended
  BY <1>1 DEF Put, CaptureFields
<1>3. a.bases[b] = x /\ \A d \in DOMAIN s.bases : d # b => a.bases[d] = s.bases[d] BY <1>2
<1> HIDE DEF a
<1>4. v.bases = a.bases /\ v.ended = a.ended BY <1>2 DEF SendBase, CaptureFields
<1> HIDE DEF v
<1>5. t = v \/ t = a BY DEF a, v
<1> QED BY <1>2, <1>3, <1>4, <1>5 DEF Alters

LEMMA StraysOK ==
  ASSUME NEW b, NEW team
  PROVE  Strays(b, team) \in Nat
<1>1. IsFiniteSet({c \in Clients : Inside(c, b, team) /\ ci[c].clip}) BY PlayersAssumption, FS_Subset
<1> QED BY <1>1, FS_CardinalityType DEF Strays

\* Base b after one player of team left it, entered it, or stayed: only it changes, and it counts those in it now.
LEMMA MoveBaseFit ==
  ASSUME NEW s, BasesRight(s), NEW b \in DOMAIN s.bases, NEW team \in Teams, NEW from, NEW to,
         NEW old \in [Teams -> Nat], NEW new \in [Teams -> Nat], Fit(s.bases[b], old), Shift(old, new, team, from = b, to = b),
         from = b /\ to = b => Cardinality({c \in Clients : Inside(c, b, team)}) <= old[team] + Strays(b, team)
  PROVE  \E x : Fit(x, new) /\ Alters(s, MoveBase(s, b, team, from, to), b, x)
<1> DEFINE t == MoveBase(s, b, team, from, to)
           bs == s.bases[b]
           l == [s EXCEPT !.bases[b] = Leave(@, team)]
           e == [s EXCEPT !.bases[b] = Enter(@, team)]
<1>1. DOMAIN bs = BaseFields /\ DOMAIN s = CaptureFields BY DEF BasesRight
<1>2. l = Put(s, b, Leave(bs, team)) /\ e = Put(s, b, Enter(bs, team)) BY <1>1 DEF CaptureFields, Put
<1>3. Held(s, t) BY MoveHeld
<1>0. \A u \in Teams : old[u] \in Nat /\ new[u] \in Nat OBVIOUS
<1>4. CASE from = b /\ to # b
  <2>1. t = IF LeaveTells(bs, team) THEN SendBase(l, b) ELSE l BY <1>4 DEF MoveBase, SendBaseIf
  <2> HIDE DEF l, t
  <2>2. Alters(s, t, b, Leave(bs, team)) BY <1>2, <1>3, <2>1, PutAlters
  <2>3. Shift(old, new, team, TRUE, FALSE) BY <1>4 DEF Shift
  <2>4. Fit(Leave(bs, team), new) BY <2>3, LeaveFit
  <2> QED BY <2>2, <2>4 DEF t
<1>5. CASE from # b /\ to = b
  <2>1. t = IF EnterTells(bs, team) THEN SendBase(e, b) ELSE e BY <1>5 DEF MoveBase, SendBaseIf
  <2> HIDE DEF e, t
  <2>2. Alters(s, t, b, Enter(bs, team)) BY <1>2, <1>3, <2>1, PutAlters
  <2>3. Shift(old, new, team, FALSE, TRUE) BY <1>5 DEF Shift
  <2>4. Fit(Enter(bs, team), new) BY <2>3, EnterFit
  <2> QED BY <2>2, <2>4 DEF t
<1>6. ASSUME (from = b) = (to = b) PROVE \A u \in Teams : old[u] <= new[u]
  <2> SUFFICES ASSUME NEW u \in Teams PROVE old[u] <= new[u] OBVIOUS
  <2>1. old[u] + 0 <= new[u] + 0 \/ old[u] + 0 <= new[u] + 0 BY <1>6 DEF Shift
  <2> QED BY <1>0, <2>1
<1>7. (Fit(bs, new) /\ Alters(s, s, b, bs)) \/ (from = b) # (to = b)
  <2>1. Alters(s, s, b, bs) BY DEF Alters, Held
  <2> QED BY <1>6, <2>1, FitMore
<1>8. CASE from = b /\ to = b
  <2> DEFINE n == Cardinality({c \in Clients : Inside(c, b, team)})
             once == Enter(bs, team)
             k == Strays(b, team)
             x == IF n = 0 THEN bs ELSE [once EXCEPT !.enemies = n, !.strays = IF @ < k THEN k ELSE @]
  <2>1. t = IF Steal(bs, team) THEN SendBase(Put(s, b, x), b) ELSE s BY <1>8 DEF MoveBase, StealBase, Put
  <2>2. n \in Nat /\ k \in Nat /\ n <= old[team] + k
    <3>1. IsFiniteSet({c \in Clients : Inside(c, b, team)}) BY PlayersAssumption, FS_Subset
    <3>2. n \in Nat BY <3>1, FS_CardinalityType
    <3> QED BY <1>8, <3>2, StraysOK
  <2> HIDE DEF n, k, t
  <2>3. CASE Steal(bs, team)
    <3>1. Fit(x, old) BY <2>2, <2>3, StealFit
    <3>2. \A u \in Teams : old[u] <= new[u] BY <1>6, <1>8
    <3> HIDE DEF x
    <3>3. Fit(x, new) BY <3>1, <3>2, FitMore
    <3>4. Alters(s, t, b, x) BY <1>3, <2>1, <2>3, PutAlters DEF t
    <3> QED BY <3>3, <3>4 DEF t
  <2>4. CASE ~Steal(bs, team) BY <1>7, <1>8, <2>1, <2>4 DEF t
  <2> QED BY <2>3, <2>4
<1>9. CASE from # b /\ to # b
  <2>1. t = s BY <1>9 DEF MoveBase
  <2> HIDE DEF t
  <2> QED BY <1>7, <1>9, <2>1 DEF t
<1> QED BY <1>4, <1>5, <1>8, <1>9

\* The bases of s count no more than pops says are in each.
Peopled(s, pops) == \A i \in DOMAIN s.bases : pops[i] \in [Teams -> Nat] /\ Fit(s.bases[i], pops[i])
\* k bases are done.
Partly(s, u, new, k) ==
  /\ Held(s, u) /\ u.ended = s.ended
  /\ \A i \in DOMAIN s.bases : /\ i <= k => Fit(u.bases[i], new[i])
                               /\ ~(i <= k) => u.bases[i] = s.bases[i]
\* One of team left from, or came to to.
Shifts(s, team, from, to, old, new) ==
  \A i \in DOMAIN s.bases : /\ new[i] \in [Teams -> Nat] /\ Shift(old[i], new[i], team, from = i, to = i)
                            /\ from = i /\ to = i => Cardinality({c \in Clients : Inside(c, i, team)}) <= old[i][team] + Strays(i, team)

LEMMA PartlyNext ==
  ASSUME NEW s, NEW n \in Nat, DOMAIN s.bases = 1..n, NEW team \in Teams, NEW from, NEW to, NEW old, NEW new, Peopled(s, old),
         Shifts(s, team, from, to, old, new), NEW u, NEW k \in 1..n, Partly(s, u, new, k - 1)
  PROVE  Partly(s, MoveBase(u, k, team, from, to), new, k)
<1> DEFINE v == MoveBase(u, k, team, from, to)
<1>1. /\ Held(s, u) /\ u.ended = s.ended /\ BasesRight(u) /\ DOMAIN u.bases = 1..n /\ k \in DOMAIN u.bases
  BY DEF Partly, Held
<1>2. u.bases[k] = s.bases[k] /\ ~(k <= k - 1) BY DEF Partly
<1>3. /\ old[k] \in [Teams -> Nat] /\ new[k] \in [Teams -> Nat] /\ Fit(u.bases[k], old[k])
      /\ Shift(old[k], new[k], team, from = k, to = k)
      /\ from = k /\ to = k => Cardinality({c \in Clients : Inside(c, k, team)}) <= old[k][team] + Strays(k, team)
  BY <1>2 DEF Peopled, Shifts
<1>4. PICK x : Fit(x, new[k]) /\ Alters(u, v, k, x) BY <1>1, <1>3, MoveBaseFit
<1> HIDE DEF v
<1>5. Held(s, v) /\ v.ended = s.ended BY <1>1, <1>4, HeldTwice DEF Alters
<1>6. v.bases[k] = x /\ \A i \in 1..n : i # k => v.bases[i] = u.bases[i] BY <1>1, <1>4 DEF Alters
<1>7. ASSUME NEW i \in 1..n PROVE (i <= k => Fit(v.bases[i], new[i])) /\ (~(i <= k) => v.bases[i] = s.bases[i])
  <2>1. CASE i = k BY <1>4, <1>6, <2>1
  <2>2. CASE i # k
    <3>1. (i <= k - 1) <=> (i <= k) BY <2>2
    <3> QED BY <1>6, <2>2, <3>1 DEF Partly
  <2> QED BY <2>1, <2>2
<1> QED BY <1>5, <1>7 DEF Partly, v

\* movebases keeps the bases' counts right when those in the bases change as it is told.
LEMMA MovesFit ==
  ASSUME NEW s, BasesRight(s), ~s.ended, NEW team \in Teams, NEW from, NEW to, NEW old, NEW new, Peopled(s, old),
         Shifts(s, team, from, to, old, new)
  PROVE  LET t == MoveBases(s, team, from, to) IN Held(s, t) /\ t.ended = s.ended /\ Peopled(t, new)
<1> DEFINE seq == [b \in DOMAIN s.bases |-> b]
           p == <<team, from, to>>
           t == MoveBases(s, team, from, to)
<1>1. t = Looped("moves", p, s, seq)
  BY DEF MoveBases, Looped, IsLoop, Turning, Backward, Sweeps, Step, FoldLeft, MapThenFoldSet
<1>2. PICK n \in Nat : DOMAIN s.bases = 1..n BY DEF BasesRight
<1>3. IsSequence(seq) /\ DOMAIN seq = 1..n /\ \A i \in 1..n : seq[i] = i BY <1>2, BaseIndices
<1> HIDE DEF seq, t
<1>4. Len(seq) = n BY <1>3, IndexSets
<1> DEFINE moves == "moves"
<1>5. \A k : TurnOf(moves, n, k) = k BY DEF TurnOf, Backward, Sweeps
<1>6. \A u, k : Step(moves, p, u, k) = MoveBase(u, k, team, from, to) BY DEF Step
<1> HIDE DEF p
<1>7. t = Looped(moves, p, s, seq) BY <1>1
<1> HIDE DEF moves
<1>8. PICK f : LoopRun(f, moves, p, s, seq) BY <1>3, LoopTurns
<1>9. f[0] = s /\ f[n] = t /\ \A k \in 1..n : f[k] = MoveBase(f[k - 1], k, team, from, to)
  BY <1>3, <1>4, <1>5, <1>6, <1>7, <1>8 DEF LoopRun
<1> DEFINE G == {k \in 0..n : Partly(s, f[k], new, k)}
<1>10. 0 \in G
  <2>1. Held(s, s) BY DEF Held
  <2>2. \A i \in 1..n : ~(i <= 0) OBVIOUS
  <2>3. Partly(s, f[0], new, 0) BY <1>2, <1>9, <2>1, <2>2 DEF Partly
  <2> QED BY <2>3
<1>11. ASSUME NEW k \in 1..n, k - 1 \in G PROVE k \in G
  <2>1. Partly(s, f[k - 1], new, k - 1) BY <1>11
  <2>2. Partly(s, MoveBase(f[k - 1], k, team, from, to), new, k) BY <1>2, <2>1, PartlyNext
  <2>3. k \in 0..n OBVIOUS
  <2> QED BY <1>9, <2>2, <2>3
<1> HIDE DEF G
<1>12. \A k \in 0..n : k \in G BY <1>10, <1>11, AllTurns
<1>13. n \in 0..n BY <1>2
<1>14. Partly(s, t, new, n) BY <1>9, <1>12, <1>13 DEF G
<1>15. Peopled(t, new)
  <2>1. DOMAIN t.bases = 1..n BY <1>2, <1>14 DEF Partly, Held
  <2>2. \A i \in 1..n : i <= n OBVIOUS
  <2>3. \A i \in 1..n : Fit(t.bases[i], new[i]) BY <1>2, <1>14, <2>2 DEF Partly
  <2>4. \A i \in 1..n : new[i] \in [Teams -> Nat] BY <1>2 DEF Shifts
  <2> QED BY <2>1, <2>3, <2>4 DEF Peopled
<1> QED BY <1>14, <1>15 DEF Partly, t

-----------------------------------------------------------------------------
(* Who is in a base.                                                        *)

Counts(q, c, i, t) == q[c].state = "alive" /\ ~q[c].clip /\ q[c].team = t /\ q[c].o = i
Crowd(D, q, i, t) == {c \in D : Counts(q, c, i, t)}
Pops(D, q) == [i \in Nat |-> [t \in Teams |-> Cardinality(Crowd(D, q, i, t))]]
Fits(s, q) == s.ended \/ Peopled(s, Pops(Clients, q))
\* c counts for team in base x and nowhere else; in none when x is Elsewhere.
Where(q, c, team, x) == \A i \in Nat, t \in Teams : i # Elsewhere => (Counts(q, c, i, t) <=> t = team /\ i = x)

LEMMA PopsOK ==
  ASSUME NEW D \in SUBSET Clients, NEW q, NEW i \in Nat
  PROVE  Pops(D, q)[i] \in [Teams -> Nat] /\ \A t \in Teams : Pops(D, q)[i][t] = Cardinality(Crowd(D, q, i, t))
<1>1. \A t : Crowd(D, q, i, t) \subseteq Clients BY DEF Crowd
<1>2. \A t : IsFiniteSet(Crowd(D, q, i, t)) BY <1>1, PlayersAssumption, FS_Subset
<1>3. \A t : Cardinality(Crowd(D, q, i, t)) \in Nat BY <1>2, FS_CardinalityType
<1> QED BY <1>3 DEF Pops

OneMore(D, c, q, i, t) == Pops(D, q)[i][t] = Pops(D \ {c}, q)[i][t] + IF Counts(q, c, i, t) THEN 1 ELSE 0

LEMMA PopsMore ==
  ASSUME NEW D \in SUBSET Clients, NEW c \in D, NEW q, NEW i \in Nat, NEW t \in Teams
  PROVE  OneMore(D, c, q, i, t)
<1> DEFINE a == Crowd(D \ {c}, q, i, t)
           b == Crowd(D, q, i, t)
<1>1. D \ {c} \in SUBSET Clients OBVIOUS
<1>2. Pops(D, q)[i][t] = Cardinality(b) /\ Pops(D \ {c}, q)[i][t] = Cardinality(a) BY <1>1, PopsOK
<1>3. a \subseteq Clients /\ c \notin a BY DEF Crowd
<1>4. b = IF Counts(q, c, i, t) THEN a \cup {c} ELSE a BY DEF Crowd
<1>5. IsFiniteSet(a) /\ Cardinality(a) \in Nat BY <1>3, PlayersAssumption, FS_Subset, FS_CardinalityType
<1> HIDE DEF a, b
<1>6. Cardinality(a \cup {c}) = Cardinality(a) + 1 BY <1>3, <1>5, FS_AddElement
<1>7. Cardinality(b) = Cardinality(a) + IF Counts(q, c, i, t) THEN 1 ELSE 0 BY <1>4, <1>5, <1>6
<1> QED BY <1>2, <1>7 DEF OneMore

LEMMA PopsAlike ==
  ASSUME NEW D, NEW q, NEW r, \A d \in D : r[d] = q[d]
  PROVE  Pops(D, r) = Pops(D, q)
<1>1. \A i, t : Crowd(D, r, i, t) = Crowd(D, q, i, t) BY DEF Crowd, Counts
<1> QED BY <1>1 DEF Pops

\* The bases are at places 1 to n, none of them Elsewhere.
LEMMA BasePlaces ==
  ASSUME NEW s, BasesRight(s)
  PROVE  \A i \in DOMAIN s.bases : i \in Nat /\ i # Elsewhere
BY DEF BasesRight, Elsewhere

\* old and new count alike but for one player of team.
Differ(rest, old, new, team, from, to) ==
  \A i \in Nat : /\ rest[i] \in [Teams -> Nat] /\ old[i] \in [Teams -> Nat] /\ new[i] \in [Teams -> Nat]
                 /\ i # Elsewhere => \A t \in Teams : /\ old[i][t] = rest[i][t] + (IF t = team /\ i = from THEN 1 ELSE 0)
                                                      /\ new[i][t] = rest[i][t] + (IF t = team /\ i = to THEN 1 ELSE 0)

LEMMA DifferShifts ==
  ASSUME NEW s, BasesRight(s), NEW team \in Teams, NEW from, NEW to, NEW rest, NEW old, NEW new,
         Differ(rest, old, new, team, from, to), from = to => from = Elsewhere \/ old = Pops(Clients, ci)
  PROVE  Shifts(s, team, from, to, old, new)
<1> SUFFICES ASSUME NEW i \in DOMAIN s.bases
             PROVE  /\ new[i] \in [Teams -> Nat] /\ Shift(old[i], new[i], team, from = i, to = i)
                    /\ from = i /\ to = i => Cardinality({c \in Clients : Inside(c, i, team)}) <= old[i][team] + Strays(i, team)
  BY DEF Shifts
<1>1. i \in Nat /\ i # Elsewhere BY BasePlaces
<1>2. /\ rest[i] \in [Teams -> Nat] /\ old[i] \in [Teams -> Nat] /\ new[i] \in [Teams -> Nat]
      /\ \A t \in Teams : /\ old[i][t] = rest[i][t] + (IF t = team /\ i = from THEN 1 ELSE 0)
                          /\ new[i][t] = rest[i][t] + (IF t = team /\ i = to THEN 1 ELSE 0)
  BY <1>1 DEF Differ
<1>3. Shift(old[i], new[i], team, from = i, to = i)
  <2> SUFFICES ASSUME NEW t \in Teams
               PROVE  old[i][t] + (IF to = i /\ ~(from = i) /\ t = team THEN 1 ELSE 0)
                        <= new[i][t] + (IF from = i /\ ~(to = i) /\ t = team THEN 1 ELSE 0)
    BY DEF Shift
  <2> DEFINE x == rest[i][t]
             y == old[i][t]
             z == new[i][t]
  <2>1. x \in Nat /\ y = x + (IF t = team /\ i = from THEN 1 ELSE 0) /\ z = x + (IF t = team /\ i = to THEN 1 ELSE 0) BY <1>2
  <2> HIDE DEF x, y, z
  <2>2. y + (IF to = i /\ ~(from = i) /\ t = team THEN 1 ELSE 0) <= z + (IF from = i /\ ~(to = i) /\ t = team THEN 1 ELSE 0)
    BY <2>1
  <2> QED BY <2>2 DEF y, z
<1>4. ASSUME from = i, to = i PROVE Cardinality({c \in Clients : Inside(c, i, team)}) <= old[i][team] + Strays(i, team)
  <2>1. old = Pops(Clients, ci) BY <1>1, <1>4
  <2> DEFINE S == Crowd(Clients, ci, i, team)
             T == {c \in Clients : Inside(c, i, team) /\ ci[c].clip}
             U == {c \in Clients : Inside(c, i, team)}
             x == old[i][team]
             k == Strays(i, team)
  <2>2. U = S \cup T /\ S \cap T = {} BY DEF Inside, Alive, Crowd, Counts
  <2>3. x = Cardinality(S) /\ k = Cardinality(T) BY <1>1, <2>1, PopsOK DEF Strays
  <2>4. IsFiniteSet(S) /\ IsFiniteSet(T)
    <3>1. S \subseteq Clients /\ T \subseteq Clients BY DEF Crowd
    <3> HIDE DEF S, T
    <3> QED BY <3>1, PlayersAssumption, FS_Subset
  <2>5. x \in Nat /\ k \in Nat BY <1>2, StraysOK
  <2> HIDE DEF S, T, U
  <2>6. Cardinality(S \cup T) = Cardinality(S) + Cardinality(T) - Cardinality({}) /\ Cardinality({}) = 0
    BY <2>2, <2>4, FS_Union, FS_EmptySet
  <2> HIDE DEF x, k
  <2>7. Cardinality(U) <= x + k BY <2>2, <2>3, <2>5, <2>6
  <2> QED BY <2>7 DEF U, x, k
<1> QED BY <1>2, <1>3, <1>4

\* One player, c, changes from q to r.
LEMMA PlayerDiffers ==
  ASSUME NEW c \in Clients, NEW q, NEW r, \A d \in Clients \ {c} : r[d] = q[d], NEW team, NEW from, NEW to,
         Where(q, c, team, from), Where(r, c, team, to)
  PROVE  Differ(Pops(Clients \ {c}, q), Pops(Clients, q), Pops(Clients, r), team, from, to)
<1> DEFINE D == Clients \ {c}
<1>1. D \in SUBSET Clients /\ c \notin D /\ D \cup {c} = Clients OBVIOUS
<1>2. Pops(D, r) = Pops(D, q) BY PopsAlike
<1> HIDE DEF D
<1>3. \A i \in Nat : Pops(D, q)[i] \in [Teams -> Nat] /\ Pops(Clients, q)[i] \in [Teams -> Nat] /\ Pops(Clients, r)[i] \in [Teams -> Nat]
  BY <1>1, PopsOK
<1>4. \A i \in Nat : \A t \in Teams : /\ Pops(Clients, q)[i][t] = Pops(D, q)[i][t] + (IF Counts(q, c, i, t) THEN 1 ELSE 0)
                                      /\ Pops(Clients, r)[i][t] = Pops(D, q)[i][t] + (IF Counts(r, c, i, t) THEN 1 ELSE 0)
  <2> SUFFICES ASSUME NEW i \in Nat, NEW t \in Teams
               PROVE  /\ Pops(Clients, q)[i][t] = Pops(D, q)[i][t] + (IF Counts(q, c, i, t) THEN 1 ELSE 0)
                      /\ Pops(Clients, r)[i][t] = Pops(D, q)[i][t] + (IF Counts(r, c, i, t) THEN 1 ELSE 0)
    OBVIOUS
  <2>1. OneMore(Clients, c, q, i, t) /\ OneMore(Clients, c, r, i, t) BY PopsMore
  <2> QED BY <1>2, <2>1 DEF D, OneMore
<1> DEFINE rest == Pops(D, q)
           old == Pops(Clients, q)
           new == Pops(Clients, r)
<1> HIDE DEF rest, old, new
<1>5. \A i \in Nat : rest[i] \in [Teams -> Nat] /\ old[i] \in [Teams -> Nat] /\ new[i] \in [Teams -> Nat] BY <1>3 DEF rest, old, new
<1>6. \A i \in Nat : \A t \in Teams : /\ old[i][t] = rest[i][t] + (IF Counts(q, c, i, t) THEN 1 ELSE 0)
                                      /\ new[i][t] = rest[i][t] + (IF Counts(r, c, i, t) THEN 1 ELSE 0)
  BY <1>4 DEF rest, old, new
<1>7. ASSUME NEW i \in Nat, i # Elsewhere, NEW t \in Teams
      PROVE  /\ old[i][t] = rest[i][t] + (IF t = team /\ i = from THEN 1 ELSE 0)
             /\ new[i][t] = rest[i][t] + (IF t = team /\ i = to THEN 1 ELSE 0)
  <2>1. (Counts(q, c, i, t) <=> t = team /\ i = from) /\ (Counts(r, c, i, t) <=> t = team /\ i = to) BY <1>7 DEF Where
  <2> QED BY <1>6, <2>1
<1> QED BY <1>5, <1>7 DEF Differ, rest, old, new, D

\* The hooks: c moves, comes or goes, and movebases is told.
LEMMA HookFits ==
  ASSUME NEW s, BasesRight(s), NEW c \in Clients, NEW q, NEW r, \A d \in Clients \ {c} : r[d] = q[d], Fits(s, q),
         NEW team \in Teams, NEW from, NEW to, Where(q, c, team, from), Where(r, c, team, to),
         from = to => from = Elsewhere \/ q = ci
  PROVE  LET t == MoveBases(s, team, from, to) IN BasesRight(t) /\ Fits(t, r)
<1> DEFINE t == MoveBases(s, team, from, to)
<1>1. BasesRight(t) BY MovesHeld DEF Held
<1>2. CASE s.ended
  <2>1. t = s BY <1>2 DEF MoveBases
  <2> QED BY <1>1, <1>2, <2>1 DEF Fits
<1>3. CASE ~s.ended
  <2> DEFINE old == Pops(Clients, q)
             new == Pops(Clients, r)
             rest == Pops(Clients \ {c}, q)
  <2>1. Differ(rest, old, new, team, from, to) BY PlayerDiffers
  <2>2. from = to => from = Elsewhere \/ old = Pops(Clients, ci) OBVIOUS
  <2>3. Peopled(s, old) BY <1>3 DEF Fits
  <2> HIDE DEF old, new, rest, t
  <2>4. Shifts(s, team, from, to, old, new) BY <2>1, <2>2, DifferShifts
  <2>5. Peopled(t, new) BY <1>3, <2>3, <2>4, MovesFit DEF t
  <2> QED BY <1>1, <2>5 DEF Fits, new, t
<1> QED BY <1>2, <1>3

\* More players, none fewer.
LEMMA PeopledMore ==
  ASSUME NEW s, BasesRight(s), NEW old, NEW new, Peopled(s, old),
         \A i \in Nat : i # Elsewhere => new[i] \in [Teams -> Nat] /\ \A t \in Teams : old[i][t] <= new[i][t]
  PROVE  Peopled(s, new)
<1> SUFFICES ASSUME NEW i \in DOMAIN s.bases PROVE new[i] \in [Teams -> Nat] /\ Fit(s.bases[i], new[i]) BY DEF Peopled
<1>1. i \in Nat /\ i # Elsewhere BY BasePlaces
<1> DEFINE b == s.bases[i]
           x == old[i]
           y == new[i]
<1>2. x \in [Teams -> Nat] /\ y \in [Teams -> Nat] /\ Fit(b, x) /\ \A t \in Teams : x[t] <= y[t] BY <1>1 DEF Peopled
<1> HIDE DEF b, x, y
<1>3. Fit(b, y) BY <1>2, FitMore
<1> QED BY <1>2, <1>3 DEF b, y

\* One of D enters.
LEMMA EnterFits ==
  ASSUME NEW u, BasesRight(u), ~u.notgot, ~u.ended, NEW D \in SUBSET Clients, NEW c \in D, ci[c].team \in Teams,
         Peopled(u, Pops(D \ {c}, ci))
  PROVE  LET t == BasesEnterGame(u, c) IN t.ended = u.ended /\ Peopled(t, Pops(D, ci))
<1> DEFINE old == Pops(D \ {c}, ci)
           new == Pops(D, ci)
           t == BasesEnterGame(u, c)
<1>1. D \ {c} \in SUBSET Clients OBVIOUS
<1>2. \A i \in Nat : old[i] \in [Teams -> Nat] /\ new[i] \in [Teams -> Nat] BY <1>1, PopsOK
<1>3. ASSUME NEW i \in Nat, NEW a \in Teams PROVE new[i][a] = old[i][a] + IF Counts(ci, c, i, a) THEN 1 ELSE 0
  <2>1. OneMore(D, c, ci, i, a) BY PopsMore
  <2> QED BY <2>1 DEF OneMore
<1>4. Peopled(u, old) OBVIOUS
<1> HIDE DEF old, new
<1>5. CASE ~Alive(c) \/ ci[c].clip
  <2>1. t = u BY <1>5 DEF BasesEnterGame
  <2>2. \A i, a : ~Counts(ci, c, i, a) BY <1>5 DEF Counts, Alive
  <2>3. ASSUME NEW i \in Nat, NEW a \in Teams PROVE old[i][a] <= new[i][a]
    <3> DEFINE x == old[i][a]
               y == new[i][a]
    <3>1. x \in Nat /\ y \in Nat /\ y = x + 0 BY <1>2, <1>3, <2>2
    <3> HIDE DEF x, y
    <3>2. x <= y BY <3>1
    <3> QED BY <3>2 DEF x, y
  <2>4. Peopled(u, new) BY <1>2, <1>4, <2>3, PeopledMore
  <2> HIDE DEF t
  <2> QED BY <2>1, <2>4 DEF t, new
<1>6. CASE Alive(c) /\ ~ci[c].clip
  <2> DEFINE team == ci[c].team
             from == Elsewhere
             to == ci[c].o
  <2>1. t = MoveBases(u, team, from, to) BY <1>6 DEF BasesEnterGame
  <2>2. \A i, a : Counts(ci, c, i, a) <=> a = team /\ i = to BY <1>6 DEF Counts, Alive
  <2>3. team \in Teams OBVIOUS
  <2> HIDE DEF team, to
  <2>4. ASSUME NEW i \in Nat, i # Elsewhere, NEW a \in Teams
        PROVE  /\ old[i][a] = old[i][a] + (IF a = team /\ i = from THEN 1 ELSE 0)
               /\ new[i][a] = old[i][a] + (IF a = team /\ i = to THEN 1 ELSE 0)
    <3>1. old[i][a] \in Nat BY <1>2
    <3>2. new[i][a] = old[i][a] + IF Counts(ci, c, i, a) THEN 1 ELSE 0 BY <1>3
    <3> QED BY <2>2, <2>4, <3>1, <3>2
  <2> HIDE DEF from
  <2>5. Differ(old, old, new, team, from, to) BY <1>2, <2>4 DEF Differ
  <2>6. from = to => from = Elsewhere \/ old = Pops(Clients, ci) BY DEF from
  <2>7. Shifts(u, team, from, to, old, new) BY <2>3, <2>5, <2>6, DifferShifts
  <2>8. t.ended = u.ended /\ Peopled(t, new)
    <3> HIDE DEF t
    <3> QED BY <1>4, <2>1, <2>3, <2>7, MovesFit
  <2> QED BY <2>8 DEF new
<1> QED BY <1>5, <1>6

\* An order of living and dead, nobody twice.
Entering(order) ==
  /\ IsSequence(order)
  /\ \A i \in DOMAIN order : order[i] \in Clients /\ ci[order[i]].team \in Teams
  /\ \A i, j \in DOMAIN order : order[i] = order[j] => i = j
Entered(order, k) == {order[j] : j \in 1..k}
EnteredFit(s, order, u, k) == Held(s, u) /\ u.ended = s.ended /\ (u.ended \/ Peopled(u, Pops(Entered(order, k), ci)))

LEMMA EnteredNext ==
  ASSUME NEW s, ~s.notgot, NEW order, Entering(order), NEW k \in DOMAIN order, NEW u, EnteredFit(s, order, u, k - 1)
  PROVE  EnteredFit(s, order, BasesEnterGame(u, order[k]), k)
<1> DEFINE D == Entered(order, k)
           c == order[k]
           t == BasesEnterGame(u, c)
<1>1. DOMAIN order = 1..Len(order) /\ Len(order) \in Nat BY IndexSets DEF Entering
<1>2. k \in Nat /\ k - 1 \in 0..Len(order) /\ 1..k \subseteq DOMAIN order BY <1>1
<1>3. D \in SUBSET Clients /\ c \in D
  <2>1. k \in 1..k BY <1>1
  <2> QED BY <1>2, <2>1 DEF Entered, Entering
<1>4. Entered(order, k - 1) = D \ {c}
  <2>1. 1..k = 1..(k - 1) \cup {k} /\ k \notin 1..(k - 1) BY <1>2
  <2>2. \A j \in 1..(k - 1) : order[j] # c BY <1>2, <2>1 DEF Entering
  <2> QED BY <2>1, <2>2 DEF Entered
<1>5. ci[c].team \in Teams BY DEF Entering
<1> HIDE DEF D, c
<1>6. /\ BasesRight(u) /\ ~u.notgot /\ Held(s, u) /\ u.ended = s.ended /\ (u.ended \/ Peopled(u, Pops(D \ {c}, ci)))
  BY <1>4 DEF EnteredFit, Held
<1>7. Held(s, t)
  <2>1. Held(u, t) BY <1>6, BaseHooksHeld
  <2> QED BY <1>6, <2>1, HeldTwice
<1>8. t.ended = u.ended /\ (u.ended \/ Peopled(t, Pops(D, ci)))
  <2>1. CASE u.ended
    <3>1. t = u BY <2>1 DEF BasesEnterGame, MoveBases
    <3> QED BY <2>1, <3>1
  <2>2. CASE ~u.ended BY <1>3, <1>5, <1>6, <2>2, EnterFits
  <2> QED BY <2>1, <2>2
<1> HIDE DEF t
<1> QED BY <1>6, <1>7, <1>8 DEF EnteredFit, t, c, D

LEMMA NewFit ==
  ASSUME NEW pop \in [Teams -> Nat]
  PROVE  Fit(NewBase, pop)
<1>1. /\ DOMAIN NewBase = BaseFields /\ NewBase.owner = NoTeam /\ NewBase.enemy = NoTeam
      /\ NewBase.owners = 0 /\ NewBase.enemies = 0 /\ NewBase.strays = 0
  BY DEF NewBase, BaseFields
<1>2. In(pop, NoTeam) = 0 BY NoTeamApart DEF In
<1> QED BY <1>1, <1>2 DEF Fit

\* parseitems: each base counts those of the order that are in it.
LEMMA PlacedFits ==
  ASSUME NEW s, BasesRight(s), NEW order, Entering(order)
  PROVE  LET t == BasesPlaced(s, order) IN t.ended \/ Peopled(t, Pops(Entered(order, Len(order)), ci))
<1> DEFINE a == Bare(s)
           t == BasesPlaced(s, order)
           n == Len(order)
           p == 0
           enters == "enters"
<1>1. t = Looped(enters, p, a, order) BY PlacedLoop
<1>2. BasesRight(a) /\ ~a.notgot /\ \A i \in DOMAIN a.bases : a.bases[i] = NewBase BY BareRight
<1>3. DOMAIN order = 1..n /\ n \in Nat /\ IsSequence(order) BY IndexSets DEF Entering
<1>4. \A k : TurnOf(enters, n, k) = k BY DEF TurnOf, Backward, Sweeps
<1>5. \A u, c : Step(enters, p, u, c) = BasesEnterGame(u, c) BY DEF Step
<1> HIDE DEF enters, p, a, t
<1>6. PICK f : LoopRun(f, enters, p, a, order) BY <1>3, LoopTurns
<1>7. f[0] = a /\ f[n] = t /\ \A k \in 1..n : f[k] = BasesEnterGame(f[k - 1], order[k])
  BY <1>1, <1>3, <1>4, <1>5, <1>6 DEF LoopRun
<1> HIDE DEF n
<1> DEFINE G == {k \in 0..n : EnteredFit(a, order, f[k], k)}
<1>8. 0 \in G
  <2> DEFINE none == Pops({}, ci)
  <2>1. Entered(order, 0) = {} BY DEF Entered
  <2>2. \A i \in Nat : none[i] \in [Teams -> Nat] BY PopsOK
  <2> HIDE DEF none
  <2>3. ASSUME NEW i \in DOMAIN a.bases PROVE none[i] \in [Teams -> Nat] /\ Fit(a.bases[i], none[i])
    <3>1. i \in Nat BY <1>2, BasePlaces
    <3>2. none[i] \in [Teams -> Nat] /\ a.bases[i] = NewBase BY <1>2, <2>2, <3>1
    <3> QED BY <3>2, NewFit
  <2>4. Peopled(a, none) BY <2>3 DEF Peopled
  <2>5. Held(a, a) BY <1>2 DEF Held
  <2>6. EnteredFit(a, order, f[0], 0) BY <1>7, <2>1, <2>4, <2>5 DEF EnteredFit, none
  <2>7. 0 \in 0..n BY <1>3 DEF n
  <2> QED BY <2>6, <2>7
<1>9. ASSUME NEW k \in 1..n, k - 1 \in G PROVE k \in G
  <2>1. EnteredFit(a, order, f[k - 1], k - 1) /\ k \in DOMAIN order BY <1>3, <1>9 DEF n
  <2>2. EnteredFit(a, order, BasesEnterGame(f[k - 1], order[k]), k) BY <1>2, <2>1, EnteredNext
  <2>3. k \in 0..n OBVIOUS
  <2> QED BY <1>7, <2>2, <2>3
<1> HIDE DEF G
<1>10. n \in Nat BY <1>3 DEF n
<1>11. \A k \in 0..n : k \in G BY <1>8, <1>9, <1>10, AllTurns
<1>12. n \in 0..n BY <1>10
<1>13. EnteredFit(a, order, t, n) BY <1>7, <1>11, <1>12 DEF G
<1> QED BY <1>13 DEF EnteredFit, t, n

-----------------------------------------------------------------------------
(* What does not move players.                                              *)

\* The base changed still counts those in it.
LEMMA AlteredFits ==
  ASSUME NEW s, NEW q, Fits(s, q), NEW b \in DOMAIN s.bases, NEW t, NEW x, Alters(s, t, b, x),
         \A pop \in [Teams -> Nat] : Fit(s.bases[b], pop) => Fit(x, pop)
  PROVE  Fits(t, q)
<1>1. DOMAIN t.bases = DOMAIN s.bases /\ t.ended = s.ended /\ t.bases[b] = x
      /\ \A d \in DOMAIN s.bases : d # b => t.bases[d] = s.bases[d]
  BY DEF Alters, Held
<1>2. CASE s.ended BY <1>1, <1>2 DEF Fits
<1>3. CASE ~s.ended
  <2> DEFINE pops == Pops(Clients, q)
  <2>1. Peopled(s, pops) BY <1>3 DEF Fits
  <2> HIDE DEF pops
  <2>2. ASSUME NEW d \in DOMAIN s.bases PROVE pops[d] \in [Teams -> Nat] /\ Fit(t.bases[d], pops[d])
    <3>1. pops[d] \in [Teams -> Nat] /\ Fit(s.bases[d], pops[d]) BY <2>1 DEF Peopled
    <3> QED BY <1>1, <3>1
  <2>3. Peopled(t, pops) BY <1>1, <2>2 DEF Peopled
  <2> QED BY <2>3 DEF Fits, pops
<1> QED BY <1>2, <1>3

LEMMA ReplenishFits ==
  ASSUME NEW s, BasesRight(s), NEW q, Fits(s, q), NEW c
  PROVE  Fits(Replenish(s, c), q)
<1> DEFINE giving == {b \in DOMAIN s.bases : ci[c].o = b /\ MayTakeAmmo(s.bases[b], ci[c].team)}
           b == CHOOSE b \in giving : \A d \in giving : b <= d
           t == Replenish(s, c)
           x == TakeAmmo(s.bases[b])
           w == SendBase([s EXCEPT !.bases[b] = TakeAmmo(@)], b)
<1>1. t = s \/ (giving # {} /\ t = w) BY DEF Replenish
<1>2. giving # {} => b \in DOMAIN s.bases
  <2>1. PICK n \in Nat : DOMAIN s.bases = 1..n BY DEF BasesRight
  <2>2. giving \subseteq Nat
    <3>1. 1..n \subseteq Nat OBVIOUS
    <3> QED BY <2>1, <3>1
  <2>3. giving \subseteq DOMAIN s.bases OBVIOUS
  <2> HIDE DEF giving
  <2>4. giving # {} => \E k \in giving : \A d \in giving : k <= d BY <2>2, LeastNat
  <2> QED BY <2>3, <2>4
<1> HIDE DEF giving, b
<1>3. giving # {} => w = SendBase(Put(s, b, x), b)
  BY <1>2 DEF BasesRight, CaptureFields, Put
<1>4. Held(s, t) BY ReplenishHeld
<1>5. \A pop : Fit(s.bases[b], pop) => Fit(x, pop) BY AmmoFit
<1> HIDE DEF t, x, w
<1>6. CASE giving # {} /\ t = w
  <2>1. Alters(s, t, b, x) BY <1>2, <1>3, <1>4, <1>6, PutAlters
  <2>2. Fits(t, q) BY <1>2, <1>5, <1>6, <2>1, AlteredFits
  <2> QED BY <2>2 DEF t
<1> QED BY <1>1, <1>6 DEF t

LEMMA SameFits ==
  ASSUME NEW s, NEW q, Fits(s, q), NEW t, t.bases = s.bases, t.ended = s.ended \/ t.ended
  PROVE  Fits(t, q)
BY DEF Fits, Peopled

LEMMA ScoreFits ==
  ASSUME NEW s, BasesRight(s), NEW q, Fits(s, q), NEW team, NEW n
  PROVE  Fits(AddBaseScore(s, team, n), q)
<1> DEFINE t == AddBaseScore(s, team, n)
           a == AddScore(s, team, n)
           u == SeeScore(a, team)
<1>1. t.bases = s.bases BY AddScoreHeld
<1>2. t = IF n = 0 THEN s ELSE u BY DEF AddBaseScore
<1>3. DOMAIN a = CaptureFields /\ a.ended = s.ended BY DEF BasesRight, CaptureFields, AddScore
<1> HIDE DEF a
<1>4. u.ended = s.ended BY <1>3 DEF CaptureFields, SeeScore
<1> HIDE DEF u, t
<1>5. t.ended = s.ended BY <1>2, <1>4
<1>6. Fits(t, q) BY <1>1, <1>5, SameFits DEF t
<1> QED BY <1>6 DEF t

LEMMA UpdateBaseFits ==
  ASSUME NEW s, BasesRight(s), NEW q, Fits(s, q), NEW i \in DOMAIN s.bases
  PROVE  Fits(UpdateBase(s, i), q)
<1> DEFINE u == UpdateBase(s, i)
           b == s.bases[i]
           held == [b EXCEPT !.capturetime = @ + 1]
           ammo == held.capturetime \div AmmoSecs - b.capturetime \div AmmoSecs
           n == held.capturetime \div ScoreSecs - b.capturetime \div ScoreSecs
<1>0. Held(s, u) BY UpdateBaseHeld
<1>1. DOMAIN b = BaseFields /\ DOMAIN s = CaptureFields BY DEF BasesRight
<1>2. CASE b.enemy /= NoTeam
  <2> DEFINE o == Occupy(b, b.enemy, OccupyUnits(b))
             x == IF b.owners = 0 \/ b.enemies = 0 THEN o ELSE b
  <2>1. u = SendBase(Put(s, i, x), i) BY <1>2 DEF UpdateBase, Put
  <2>2. ASSUME NEW pop \in [Teams -> Nat], Fit(b, pop) PROVE Fit(x, pop)
    <3>1. b.owners = 0 \/ b.enemies = 0 => Fit(o, pop) BY <1>2, <2>2, OccupiedFit
    <3> HIDE DEF o
    <3> QED BY <2>2, <3>1
  <2> HIDE DEF x, u
  <2>3. Alters(s, u, i, x) BY <1>0, <2>1, PutAlters
  <2> HIDE DEF b
  <2>4. Fits(u, q) BY <2>2, <2>3, AlteredFits DEF b
  <2> QED BY <2>4 DEF u
<1>3. CASE b.enemy = NoTeam /\ b.owner /= NoTeam
  <2> DEFINE a == [s EXCEPT !.bases[i] = held]
             t == AddBaseScore(a, b.owner, n)
             w == SendBase([t EXCEPT !.bases[i] = AddAmmo(@, ammo)], i)
  <2>1. u = IF ammo > 0 /\ AddAmmoTells(b) THEN w ELSE t BY <1>3 DEF UpdateBase
  <2>2. DOMAIN held = BaseFields /\ BaseShown(held) = BaseShown(b) BY <1>1 DEF BaseFields, BaseShown
  <2>3. \A pop : Fit(b, pop) => Fit(held, pop)
    <3>1. held = [b EXCEPT !.capturetime = b.capturetime + 1] BY <1>1 DEF BaseFields
    <3> QED BY <3>1, AmmoFit
  <2> HIDE DEF held, ammo, n
  <2>4. Held(s, a) BY <2>2, BaseQuiet
  <2>5. a = Put(s, i, held) BY DEF Put
  <2> HIDE DEF a
  <2>6. Alters(s, a, i, held) BY <2>4, <2>5, PutAlters
  <2>7. Fits(a, q) BY <2>3, <2>6, AlteredFits
  <2>8. Held(a, t) /\ t.bases = a.bases /\ Fits(t, q) BY <2>4, <2>7, AddScoreHeld, ScoreFits DEF Held
  <2> HIDE DEF t
  <2>9. BasesRight(t) /\ DOMAIN t = CaptureFields /\ i \in DOMAIN t.bases BY <2>4, <2>8 DEF Held, BasesRight
  <2> DEFINE x == AddAmmo(t.bases[i], ammo)
  <2>10. w = SendBase(Put(t, i, x), i) BY <2>9 DEF CaptureFields, Put
  <2>11. DOMAIN x = BaseFields BY <2>9 DEF AddAmmo, BasesRight
  <2>12. \A pop : Fit(t.bases[i], pop) => Fit(x, pop) BY AmmoFit
  <2>13. w = SendBase([t EXCEPT !.bases[i] = x], i) BY <2>10 DEF Put
  <2> HIDE DEF w, x
  <2>14. Held(t, w) BY <2>9, <2>11, <2>13, BaseSent
  <2>15. Alters(t, w, i, x) BY <2>9, <2>10, <2>14, PutAlters
  <2>16. Fits(w, q) BY <2>8, <2>9, <2>12, <2>15, AlteredFits
  <2> HIDE DEF u
  <2> QED BY <2>1, <2>8, <2>16 DEF u
<1>4. CASE b.enemy = NoTeam /\ b.owner = NoTeam
  <2>1. u = s BY <1>4 DEF UpdateBase
  <2> HIDE DEF u
  <2> QED BY <2>1 DEF u
<1> QED BY <1>2, <1>3, <1>4

LEMMA EndCheckFits ==
  ASSUME NEW s, BasesRight(s), NEW q, Fits(s, q)
  PROVE  Fits(EndCheck(s), q)
<1> DEFINE t == EndCheck(s)
           team == s.bases[1].owner
           a == SeeScore([s EXCEPT !.scores[team] = AllBases], team)
<1>1. t = Intermission(a) \/ t = s BY DEF EndCheck
<1>2. t.bases = s.bases BY EndCheckHeld
<1> HIDE DEF team
<1>3. Held(s, a) BY BaseScored
<1> HIDE DEF a
<1>4. Intermission(a).ended BY <1>3 DEF Held, BasesRight, CaptureFields, Intermission
<1> HIDE DEF t
<1>5. Fits(t, q) BY <1>1, <1>2, <1>4, SameFits
<1> QED BY <1>5 DEF t

LEMMA BasesUpdateFits ==
  ASSUME NEW s, BasesRight(s), NEW q, Fits(s, q)
  PROVE  Fits(BasesUpdate(s), q)
<1> DEFINE seq == [b \in DOMAIN s.bases |-> b]
           e == EndCheck(s)
           t == BasesUpdate(s)
<1>1. CASE s.ended BY <1>1 DEF BasesUpdate
<1>2. CASE ~s.ended
  <2>1. t = Looped("updates", 0, e, seq)
    BY <1>2 DEF BasesUpdate, Looped, IsLoop, Turning, Backward, Sweeps, Step, FoldLeft, MapThenFoldSet
  <2>2. PICK n \in Nat : DOMAIN s.bases = 1..n BY DEF BasesRight
  <2>3. IsSequence(seq) /\ DOMAIN seq = 1..n /\ \A i \in 1..n : seq[i] = i BY <2>2, BaseIndices
  <2>4. BasesRight(e) /\ DOMAIN e.bases = 1..n /\ Fits(e, q) BY <2>2, EndCheckHeld, EndCheckFits DEF Held
  <2> HIDE DEF seq, e, t
  <2>5. Len(seq) = n BY <2>3, IndexSets
  <2> DEFINE updates == "updates"
             p == 0
  <2>6. \A k : TurnOf(updates, n, k) = k BY DEF TurnOf, Backward, Sweeps
  <2>7. \A u, k : Step(updates, p, u, k) = UpdateBase(u, k) BY DEF Step
  <2>8. t = Looped(updates, p, e, seq) BY <2>1
  <2> HIDE DEF updates, p
  <2>9. PICK f : LoopRun(f, updates, p, e, seq) BY <2>3, LoopTurns
  <2>10. f[0] = e /\ f[n] = t /\ \A k \in 1..n : f[k] = UpdateBase(f[k - 1], k)
    BY <2>3, <2>5, <2>6, <2>7, <2>8, <2>9 DEF LoopRun
  <2> DEFINE G == {k \in 0..n : Held(e, f[k]) /\ Fits(f[k], q)}
  <2>11. 0 \in G
    <3>1. Held(e, e) /\ 0 \in 0..n BY <2>4 DEF Held
    <3> QED BY <2>4, <2>10, <3>1
  <2>12. ASSUME NEW k \in 1..n, k - 1 \in G PROVE k \in G
    <3> DEFINE u == f[k - 1]
    <3>1. Held(e, u) /\ Fits(u, q) BY <2>12
    <3>2. BasesRight(u) /\ k \in DOMAIN u.bases BY <2>4, <3>1 DEF Held
    <3> HIDE DEF u
    <3>3. Held(u, UpdateBase(u, k)) /\ Fits(UpdateBase(u, k), q) BY <3>1, <3>2, UpdateBaseHeld, UpdateBaseFits
    <3>4. Held(e, UpdateBase(u, k)) BY <3>1, <3>3, HeldTwice
    <3>5. f[k] = UpdateBase(u, k) /\ k \in 0..n BY <2>10 DEF u
    <3> QED BY <3>3, <3>4, <3>5
  <2> HIDE DEF G
  <2>13. \A k \in 0..n : k \in G BY <2>11, <2>12, AllTurns
  <2>14. n \in 0..n OBVIOUS
  <2>15. Fits(t, q) BY <2>10, <2>13, <2>14 DEF G
  <2> QED BY <2>15 DEF t
<1> QED BY <1>1, <1>2

-----------------------------------------------------------------------------
(* Nobody is a ghost, in every game.                                        *)

Settled(s) == s.notgot => DOMAIN s.bases = {}
Ghostless(s, q) == Fits(s, q) /\ Settled(s)
GhostInv == IsBases => Ghostless(m, ci)
SetupsGhostless == IsBases => \A known \in BOOLEAN : \A r, q : Ghostless(Setup(known, r), q)

\* c counts in no base before: nothing is told.
LEMMA AwayFits ==
  ASSUME NEW s, BasesRight(s), NEW c \in Clients, NEW q, NEW r, \A d \in Clients \ {c} : r[d] = q[d],
         Ghostless(s, q), q[c].state # "alive" \/ q[c].clip
  PROVE  Ghostless(s, r)
<1> DEFINE old == Pops(Clients, q)
           new == Pops(Clients, r)
           rest == Pops(Clients \ {c}, q)
<1>1. Pops(Clients \ {c}, r) = rest
  <2>1. \A d \in Clients \ {c} : r[d] = q[d] OBVIOUS
  <2> DEFINE D == Clients \ {c}
  <2>2. \A d \in D : r[d] = q[d] BY <2>1
  <2> HIDE DEF D
  <2>3. Pops(D, r) = Pops(D, q) BY <2>2, PopsAlike
  <2> QED BY <2>3 DEF D
<1>2. Clients \ {c} \in SUBSET Clients OBVIOUS
<1>3. \A i \in Nat : rest[i] \in [Teams -> Nat] /\ old[i] \in [Teams -> Nat] /\ new[i] \in [Teams -> Nat] BY <1>2, PopsOK
<1>4. ASSUME NEW i \in Nat, NEW t \in Teams PROVE old[i][t] <= new[i][t]
  <2>1. OneMore(Clients, c, q, i, t) /\ OneMore(Clients, c, r, i, t) BY PopsMore
  <2>2. ~Counts(q, c, i, t) BY DEF Counts
  <2> DEFINE x == old[i][t]
             y == new[i][t]
             z == rest[i][t]
  <2>3. x = z + 0 /\ y = z + IF Counts(r, c, i, t) THEN 1 ELSE 0 BY <1>1, <2>1, <2>2 DEF OneMore
  <2>4. z \in Nat BY <1>3
  <2> HIDE DEF x, y, z
  <2>5. x <= y BY <2>3, <2>4
  <2> QED BY <2>5 DEF x, y
<1>5. CASE s.ended BY <1>5 DEF Ghostless, Fits
<1>6. CASE ~s.ended
  <2>1. Peopled(s, old) BY <1>6 DEF Ghostless, Fits
  <2> HIDE DEF old, new, rest
  <2>2. Peopled(s, new) BY <1>3, <1>4, <2>1, PeopledMore
  <2> QED BY <2>2 DEF Ghostless, Fits, new
<1> QED BY <1>5, <1>6

\* Without the list there are no bases to count in.
LEMMA NoneFit ==
  ASSUME NEW s, DOMAIN s.bases = {}, NEW q
  PROVE  Ghostless(s, q)
BY DEF Ghostless, Settled, Fits, Peopled

\* A hook that tells movebases, once the list is known.
LEMMA HookGhostless ==
  ASSUME NEW s, BasesRight(s), NEW c \in Clients, NEW q, NEW r, \A d \in Clients \ {c} : r[d] = q[d], Ghostless(s, q),
         NEW team \in Teams, NEW from, NEW to, Where(q, c, team, from), Where(r, c, team, to),
         from = to => from = Elsewhere \/ q = ci
  PROVE  LET t == IF s.notgot THEN s ELSE MoveBases(s, team, from, to) IN BasesRight(t) /\ Ghostless(t, r)
<1> DEFINE t == MoveBases(s, team, from, to)
<1>1. CASE s.notgot BY <1>1, NoneFit DEF Ghostless, Settled
<1>2. CASE ~s.notgot
  <2>1. Held(s, t) BY MovesHeld
  <2>2. Fits(t, r) BY HookFits DEF Ghostless
  <2> HIDE DEF t
  <2>3. Ghostless(t, r) /\ BasesRight(t) BY <1>2, <2>1, <2>2 DEF Ghostless, Settled, Held
  <2> QED BY <1>2, <2>3 DEF t
<1> QED BY <1>1, <1>2

\* Where a player is.
LEMMA WhereIs ==
  ASSUME NEW q, NEW c, NEW team
  PROVE  /\ q[c].state # "alive" \/ q[c].clip => Where(q, c, team, Elsewhere)
         /\ q[c].state = "alive" /\ ~q[c].clip /\ q[c].team = team => Where(q, c, team, q[c].o)
BY DEF Where, Counts

\* died: whoever c is afterwards, it is not alive.
LEMMA DiedGhostless ==
  ASSUME Inv, GhostInv, IsBases, BasesRight(m), NEW c \in Clients, Alive(c), NEW r, \A d \in Clients \ {c} : r[d] = ci[d],
         r[c].state # "alive"
  PROVE  Ghostless(BasesDied(m, c), r)
<1> DEFINE team == ci[c].team
           from == ci[c].o
           to == Elsewhere
<1>1. team \in Teams BY DEF Inv, PlayersOK
<1>2. Ghostless(m, ci) BY DEF GhostInv
<1>3. CASE ci[c].clip
  <2>1. BasesDied(m, c) = m BY <1>3 DEF BasesDied
  <2>2. Ghostless(m, r) BY <1>2, <1>3, AwayFits
  <2> QED BY <2>1, <2>2
<1>4. CASE ~ci[c].clip
  <2>1. Where(ci, c, team, from) /\ Where(r, c, team, to) BY <1>4, WhereIs DEF Alive
  <2>2. BasesDied(m, c) = IF m.notgot THEN m ELSE MoveBases(m, team, from, to) BY <1>4 DEF BasesDied
  <2>3. from = to => from = Elsewhere \/ ci = ci OBVIOUS
  <2> HIDE DEF team, from, to
  <2>4. Ghostless(IF m.notgot THEN m ELSE MoveBases(m, team, from, to), r) BY <1>1, <1>2, <2>1, <2>3, HookGhostless
  <2> QED BY <2>2, <2>4
<1> QED BY <1>3, <1>4

\* The players' steps, in capture.
Lone(c, p) == ci' = [ci EXCEPT ![c] = p]
LEMMA LoneOthers ==
  ASSUME Inv, NEW c \in Clients, NEW p, Lone(c, p)
  PROVE  ci'[c] = p /\ \A d \in Clients \ {c} : ci'[d] = ci[d]
BY DEF Inv, PlayersOK, Lone

LEMMA SpawnGhostless ==
  ASSUME Inv, GhostInv, IsBases, BasesRight(m), NEW c \in Clients, NEW o, NEW clip, Spawn(c, o, clip)
  PROVE  Ghostless(m', ci')
<1> DEFINE p == [ci[c] EXCEPT !.state = "alive", !.o = o, !.clip = clip, !.tokens = 0]
           team == ci[c].team
           from == Elsewhere
<1>1. Lone(c, p) /\ p.state = "alive" /\ p.team = team /\ p.o = o /\ p.clip = clip
  BY DEF Spawn, Inv, PlayersOK, PlayerFields, Lone
<1> HIDE DEF p
<1>2. ci'[c] = p /\ \A d \in Clients \ {c} : ci'[d] = ci[d] BY <1>1, LoneOthers
<1>3. team \in Teams /\ ci[c].state # "alive" BY DEF Inv, PlayersOK, Spawn
<1>4. Ghostless(m, ci) BY DEF GhostInv
<1>5. CASE clip
  <2>1. m' = m BY <1>5 DEF Spawn
  <2>2. Ghostless(m, ci') BY <1>2, <1>3, <1>4, AwayFits
  <2> QED BY <2>1, <2>2
<1>6. CASE ~clip
  <2>1. Where(ci, c, team, from) BY <1>3, WhereIs
  <2>2. Where(ci', c, team, o) BY <1>1, <1>2, <1>6, WhereIs
  <2>3. m' = IF m.notgot THEN m ELSE MoveBases(m, team, from, o) BY <1>6 DEF Spawn
  <2>4. from = o => from = Elsewhere \/ ci = ci OBVIOUS
  <2> HIDE DEF team, from
  <2> QED BY <1>2, <1>3, <1>4, <2>1, <2>2, <2>3, <2>4, HookGhostless
<1> QED BY <1>5, <1>6

LEMMA MoveGhostless ==
  ASSUME Inv, GhostInv, IsBases, BasesRight(m), NEW c \in Clients, NEW o, NEW clip, Move(c, o, clip)
  PROVE  Ghostless(m', ci')
<1> DEFINE p == [ci[c] EXCEPT !.o = o, !.clip = clip]
           team == ci[c].team
           from == At(c)
           to == IF clip THEN Elsewhere ELSE o
<1>0. ci[c].state = "alive" BY DEF Move, Alive
<1>1. Lone(c, p) /\ p.state = "alive" /\ p.team = team /\ p.o = o /\ p.clip = clip
  BY <1>0 DEF Move, Inv, PlayersOK, PlayerFields, Lone
<1> HIDE DEF p
<1>2. ci'[c] = p /\ \A d \in Clients \ {c} : ci'[d] = ci[d] BY <1>1, LoneOthers
<1>3. team \in Teams BY DEF Inv, PlayersOK
<1>4. Where(ci, c, team, from)
  <2>1. CASE ci[c].clip BY <2>1, WhereIs DEF At
  <2>2. CASE ~ci[c].clip BY <1>0, <2>2, WhereIs DEF At
  <2> QED BY <2>1, <2>2
<1>5. Where(ci', c, team, to)
  <2>1. CASE clip BY <1>1, <1>2, <2>1, WhereIs
  <2>2. CASE ~clip BY <1>1, <1>2, <2>2, WhereIs
  <2> QED BY <2>1, <2>2
<1>6. m' = IF m.notgot THEN m ELSE MoveBases(m, team, from, to) BY DEF Move, BasesMoved
<1>7. Ghostless(m, ci) /\ (from = to => from = Elsewhere \/ ci = ci) BY DEF GhostInv
<1> HIDE DEF team, from, to
<1> QED BY <1>2, <1>3, <1>4, <1>5, <1>6, <1>7, HookGhostless

LEMMA BotGhostless ==
  ASSUME Inv, GhostInv, IsBases, BasesRight(m), NEW c \in Clients, NEW team \in Teams, BotChangesTeam(c, team)
  PROVE  Ghostless(m', ci')
<1> DEFINE p == [ci[c] EXCEPT !.team = team]
           x == [ci[c] EXCEPT !.state = "dead"]
           q == [ci EXCEPT ![c] = x]
           old == ci[c].team
           o == ci[c].o
           none == Elsewhere
           s == IF m.notgot THEN m ELSE MoveBases(m, old, o, none)
           t == IF s.notgot THEN s ELSE MoveBases(s, team, none, o)
<1>0. ci[c].state = "alive" BY DEF BotChangesTeam, Alive
<1>1. Lone(c, p) /\ p.state = "alive" /\ p.team = team /\ p.o = o BY <1>0 DEF BotChangesTeam, Inv, PlayersOK, PlayerFields, Lone
<1>2. x.state = "dead" BY DEF Inv, PlayersOK, PlayerFields
<1> HIDE DEF p, x
<1>3. ci'[c] = p /\ \A d \in Clients \ {c} : ci'[d] = ci[d] BY <1>1, LoneOthers
<1>4. q[c] = x /\ \A d \in Clients \ {c} : q[d] = ci[d] BY DEF Inv, PlayersOK
<1> HIDE DEF q
<1>5. old \in Teams /\ p.clip = ci[c].clip /\ Ghostless(m, ci)
  BY DEF Inv, PlayersOK, PlayerFields, GhostInv, p
<1>6. m' = BasesChangeTeam(m, c, team)
  <2>1. ChangeTeam(c, team) = BasesChangeTeam(m, c, team) BY BaseHooks
  <2> QED BY <2>1 DEF BotChangesTeam
<1>7. CASE ci[c].clip
  <2>1. m' = m BY <1>6, <1>7 DEF BasesChangeTeam
  <2>2. Ghostless(m, ci') BY <1>3, <1>5, <1>7, AwayFits
  <2> QED BY <2>1, <2>2
<1>8. CASE ~ci[c].clip
  <2>1. Where(ci, c, old, o) BY <1>0, <1>8, WhereIs
  <2>2. Where(q, c, old, none) /\ Where(q, c, team, none)
    <3>1. q[c].state # "alive" BY <1>2, <1>4
    <3> QED BY <3>1, WhereIs
  <2>3. Where(ci', c, team, o) BY <1>1, <1>3, <1>5, <1>8, WhereIs
  <2>4. (o = none => o = Elsewhere \/ ci = ci) /\ (none = o => none = Elsewhere \/ q = ci) OBVIOUS
  <2>5. m' = t
    <3>1. BasesChangeTeam(m, c, team) = IF m.notgot THEN m ELSE MoveBases(MoveBases(m, old, o, none), team, none, o)
      BY <1>8 DEF BasesChangeTeam
    <3>2. Held(m, MoveBases(m, old, o, none)) BY MovesHeld
    <3> HIDE DEF old, o, none
    <3> QED BY <1>6, <3>1, <3>2 DEF Held
  <2> HIDE DEF old, o, none, t
  <2>6. BasesRight(s) /\ Ghostless(s, q) BY <1>4, <1>5, <2>1, <2>2, <2>4, HookGhostless
  <2>7. \A d \in Clients \ {c} : ci'[d] = q[d] BY <1>3, <1>4
  <2> HIDE DEF s
  <2>8. Ghostless(t, ci') BY <2>2, <2>3, <2>4, <2>6, <2>7, HookGhostless DEF t
  <2> QED BY <2>5, <2>8
<1> QED BY <1>7, <1>8

LEMMA PopsFewer ==
  ASSUME NEW D \in SUBSET Clients, NEW q, NEW i \in Nat, NEW t \in Teams
  PROVE  Pops(D, q)[i][t] <= Pops(Clients, q)[i][t]
<1> DEFINE a == Crowd(D, q, i, t)
           b == Crowd(Clients, q, i, t)
<1>1. a \subseteq b /\ b \subseteq Clients BY DEF Crowd
<1>2. IsFiniteSet(b) BY <1>1, PlayersAssumption, FS_Subset
<1>3. Cardinality(a) <= Cardinality(b) BY <1>1, <1>2, FS_Subset
<1>4. Pops(D, q)[i][t] = Cardinality(a) /\ Pops(Clients, q)[i][t] = Cardinality(b) BY PopsOK
<1> QED BY <1>3, <1>4

\* The list, from a client or the map's file: whoever order names enters.
LEMMA PlacedGhostless ==
  ASSUME NEW s, BasesRight(s), NEW order, Entering(order), NEW q, order = <<>> \/ q = ci
  PROVE  Ghostless(BasesPlaced(s, order), q)
<1> DEFINE t == BasesPlaced(s, order)
           D == Entered(order, Len(order))
           old == Pops(D, ci)
           new == Pops(Clients, q)
<1>1. BasesRight(t) /\ ~t.notgot BY PlacedHeld DEF Entering
<1>2. t.ended \/ Peopled(t, old) BY PlacedFits
<1>3. D \in SUBSET Clients
  <2>1. DOMAIN order = 1..Len(order) BY IndexSets DEF Entering
  <2> QED BY <2>1 DEF Entered, Entering
<1>4. \A i \in Nat : old[i] \in [Teams -> Nat] /\ new[i] \in [Teams -> Nat] BY <1>3, PopsOK
<1>5. ASSUME NEW i \in Nat, NEW a \in Teams PROVE old[i][a] <= new[i][a]
  <2>1. CASE order = <<>>
    <3>1. Len(order) = 0 BY <2>1
    <3>2. D = {} BY <3>1 DEF Entered
    <3>3. Crowd(D, ci, i, a) = {} BY <3>2 DEF Crowd
    <3>4. old[i][a] = Cardinality({}) BY <1>3, <3>3, PopsOK
    <3>5. old[i][a] = 0 BY <3>4, FS_EmptySet
    <3> DEFINE x == new[i][a]
    <3>6. x \in Nat BY <1>4
    <3> HIDE DEF x
    <3>7. 0 <= x BY <3>6
    <3> QED BY <3>5, <3>7 DEF x
  <2>2. CASE q = ci BY <1>3, <2>2, PopsFewer
  <2> QED BY <2>1, <2>2
<1> HIDE DEF t, old, new
<1>6. Peopled(t, old) => Peopled(t, new) BY <1>1, <1>4, <1>5, PeopledMore
<1>7. Ghostless(t, q) BY <1>1, <1>2, <1>6 DEF Ghostless, Fits, Settled, new
<1> QED BY <1>7 DEF t

LEMMA SetupGhostless == SetupsGhostless
<1> SUFFICES ASSUME IsBases, NEW known \in BOOLEAN, NEW r, NEW q PROVE Ghostless(Setup(known, r), q) BY DEF SetupsGhostless
<1>1. Setup(known, r) = IF known THEN BasesSetup ELSE BasesEmpty(TRUE) BY BaseHooks
<1>2. Ghostless(BasesEmpty(TRUE), q)
  <2>1. DOMAIN BasesEmpty(TRUE).bases = {} BY DEF BasesEmpty
  <2> QED BY <2>1, NoneFit
<1>3. Ghostless(BasesSetup, q)
  <2> DEFINE order == <<>>
  <2>1. <<>> \in Seq({}) OBVIOUS
  <2>2. Entering(order) BY <2>1 DEF Entering, IsSequence
  <2>3. BasesRight(BasesEmpty(FALSE)) BY EmptyBases
  <2> DEFINE s == BasesEmpty(FALSE)
  <2>4. BasesSetup = BasesPlaced(s, order) BY DEF BasesSetup
  <2>5. order = <<>> \/ q = ci OBVIOUS
  <2> HIDE DEF s
  <2> QED BY <2>2, <2>3, <2>4, <2>5, PlacedGhostless DEF s
<1> QED BY <1>1, <1>2, <1>3

LEMMA LeaversGhostless ==
  ASSUME Inv, GhostInv, IsBases, BasesRight(m), NEW c \in Clients,
         \/ \E t : Connect(c, t) \/ SwitchTeam(c, t)
         \/ \E actor : Die(c, actor)
         \/ Spectate(c) \/ Unspectate(c) \/ Disconnect(c)
  PROVE  Ghostless(m', ci')
<1>1. Ghostless(m, ci) BY DEF GhostInv
<1>2. DOMAIN ci = Clients /\ DOMAIN ci[c] = PlayerFields BY DEF Inv, PlayersOK
<1>3. DOMAIN Killed(c) = PlayerFields /\ Killed(c).state = "dead" BY KilledPlayer DEF Inv
<1>4. \A actor : Died(c, actor) = BasesDied(m, c) BY BaseHooks
<1>5. ASSUME NEW p, Lone(c, p), p.state # "alive", m' = IF Alive(c) THEN BasesDied(m, c) ELSE m
      PROVE  Ghostless(m', ci')
  <2>1. ci'[c] = p /\ \A d \in Clients \ {c} : ci'[d] = ci[d] BY <1>5, LoneOthers
  <2>2. CASE Alive(c)
    <3>1. Ghostless(BasesDied(m, c), ci') BY <1>5, <2>1, <2>2, DiedGhostless
    <3> QED BY <1>5, <2>2, <3>1
  <2>3. CASE ~Alive(c)
    <3>1. Ghostless(m, ci') BY <1>1, <1>5, <2>1, <2>3, AwayFits DEF Alive
    <3> QED BY <1>5, <2>3, <3>1
  <2> QED BY <2>2, <2>3
<1>6. CASE \E t : Connect(c, t)
  <2>1. PICK t : Connect(c, t) BY <1>6
  <2>2. Lone(c, NewPlayer(t)) /\ NewPlayer(t).state # "alive" /\ ~Alive(c) /\ m' = m
    BY <2>1 DEF Connect, Lone, NewPlayer, Present, Alive
  <2> QED BY <1>5, <2>2
<1>7. CASE \E t : SwitchTeam(c, t)
  <2>1. PICK t : SwitchTeam(c, t) BY <1>7
  <2> DEFINE p == IF Alive(c) THEN [Killed(c) EXCEPT !.team = t] ELSE [ci[c] EXCEPT !.team = t]
  <2>2. Lone(c, p) BY <1>2, <2>1 DEF SwitchTeam, Lone
  <2>3. p.state # "alive" BY <1>2, <1>3 DEF PlayerFields, Alive
  <2>4. m' = IF Alive(c) THEN BasesDied(m, c) ELSE m BY <1>4, <2>1 DEF SwitchTeam
  <2> HIDE DEF p
  <2> QED BY <1>5, <2>2, <2>3, <2>4
<1>8. CASE \E actor : Die(c, actor)
  <2>1. Lone(c, Killed(c)) /\ Alive(c) /\ m' = BasesDied(m, c) BY <1>4, <1>8 DEF Die, Lone
  <2> QED BY <1>3, <1>5, <2>1
<1>9. CASE Spectate(c)
  <2> DEFINE p == [ci[c] EXCEPT !.state = "spectator", !.tokens = 0]
  <2>1. Lone(c, p) /\ p.state = "spectator" BY <1>2, <1>9 DEF PlayerFields, Spectate, Lone
  <2>2. m' = IF Alive(c) THEN BasesDied(m, c) ELSE m BY <1>4, <1>9, OtherModes DEF Spectate
  <2> HIDE DEF p
  <2> QED BY <1>5, <2>1, <2>2
<1>10. CASE Unspectate(c)
  <2> DEFINE p == [ci[c] EXCEPT !.state = "dead"]
  <2>1. Lone(c, p) /\ p.state = "dead" /\ ~Alive(c) /\ m' = m BY <1>2, <1>10 DEF PlayerFields, Unspectate, Lone, Alive
  <2> HIDE DEF p
  <2> QED BY <1>5, <2>1
<1>11. CASE Disconnect(c)
  <2>1. Lone(c, Gone) /\ Gone.state = "gone" BY <1>11 DEF Disconnect, Lone, Gone, NewPlayer
  <2>2. m' = BasesLeaveGame(m, c) BY <1>11, BaseHooks DEF Disconnect
  <2>3. m' = IF Alive(c) THEN BasesDied(m, c) ELSE m BY <2>2 DEF BasesLeaveGame, BasesDied
  <2> QED BY <1>5, <2>1, <2>3
<1> QED BY <1>6, <1>7, <1>8, <1>9, <1>10, <1>11

\* What does not move players, in capture.
LEMMA RestGhostless ==
  ASSUME Inv, GhostInv, IsBases, BasesRight(m),
         \/ \E c \in Clients : RepAmmo(c) \/ \E r : \E order \in Orders : ItemList(c, r, order)
         \/ \E r : Tick(r)
         \/ GameEnds
  PROVE  Ghostless(m', ci')
<1>1. Ghostless(m, ci) /\ ~IsFlags BY OtherModes DEF GhostInv
<1>2. CASE \E c \in Clients : RepAmmo(c)
  <2>1. PICK c \in Clients : ci' = ci /\ m' = Replenish(m, c) BY <1>2 DEF RepAmmo
  <2>2. Held(m, m') BY <2>1, ReplenishHeld
  <2>3. Fits(m', ci) BY <1>1, <2>1, ReplenishFits DEF Ghostless
  <2> QED BY <1>1, <2>1, <2>2, <2>3 DEF Ghostless, Settled, Held
<1>3. CASE \E c \in Clients : \E r : \E order \in Orders : ItemList(c, r, order)
  <2>1. PICK order \in Orders : ci' = ci /\ m' = BasesPlaced(m, order) BY <1>1, <1>3 DEF ItemList
  <2>2. IsSequence(order) BY OrderSequence
  <2> DEFINE n == Cardinality(Clients)
  <2>3. order \in [1..n -> Clients] /\ \A i, j \in DOMAIN order : order[i] = order[j] => i = j BY DEF Orders, IsInjective
  <2> HIDE DEF n
  <2>4. Entering(order) BY <1>1, <2>2, <2>3 DEF Entering, Inv, PlayersOK
  <2> DEFINE q == ci
  <2>5. order = <<>> \/ q = ci OBVIOUS
  <2>6. Ghostless(BasesPlaced(m, order), q) BY <2>4, <2>5, PlacedGhostless
  <2> QED BY <2>1, <2>6
<1>4. CASE \E r : Tick(r)
  <2> DEFINE now == m.now + 1
             s == [m EXCEPT !.now = now]
  <2>1. m' = BasesUpdate(s) /\ ci' = ci
    <3>1. s = [m EXCEPT !.now = @ + 1] BY DEF BasesRight, CaptureFields
    <3> QED BY <1>4, <3>1, BaseHooks DEF Tick
  <2>2. /\ DOMAIN s = CaptureFields /\ s.bases = m.bases /\ s.scores = m.scores /\ s.seen = m.seen
        /\ s.ended = m.ended /\ s.notgot = m.notgot
    BY DEF BasesRight, CaptureFields
  <2> HIDE DEF s
  <2>3. BasesRight(s) BY <2>2 DEF BasesRight, BaseView
  <2>4. Fits(s, ci) BY <1>1, <2>2, SameFits DEF Ghostless
  <2>5. Held(s, m') /\ Fits(m', ci) BY <2>1, <2>3, <2>4, BasesUpdateHeld, BasesUpdateFits
  <2> QED BY <1>1, <2>1, <2>2, <2>5 DEF Ghostless, Settled, Held
<1>5. CASE GameEnds
  <2>1. m' = Intermission(m) /\ ci' = ci BY <1>5 DEF GameEnds
  <2>2. m'.ended BY <2>1 DEF BasesRight, CaptureFields, Intermission
  <2>3. Held(m, m') BY <2>1, BasesEnded
  <2> QED BY <1>1, <2>1, <2>2, <2>3 DEF Ghostless, Fits, Settled, Held
<1> QED BY <1>2, <1>3, <1>4, <1>5

LEMMA GhostNext ==
  ASSUME Inv, SkullsInv, GhostInv, SetupsGhostless', Next
  PROVE  GhostInv'
<1>1. CASE \E mode, r : ChangeMap(mode, r)
  <2>1. PICK mode, r : ChangeMap(mode, r) BY <1>1
  <2>2. PICK known \in BOOLEAN : m' = Setup(known, r)' BY <2>1 DEF ChangeMap, Known
  <2>3. IsBases' => \A q : Ghostless(m', q) BY <2>2 DEF SetupsGhostless
  <2>4. (IsBases => Ghostless(m, ci))' BY <2>3
  <2> QED BY <2>4 DEF GhostInv
<1>2. CASE \A mode, r : ~ChangeMap(mode, r)
  <2>1. smode' = smode BY <1>2, SameMode
  <2>2. CASE ~IsBases BY <2>1, <2>2 DEF GhostInv, IsBases
  <2>3. CASE IsBases
    <3>1. BasesRight(m) /\ ~IsFlags /\ ~IsSkulls BY <2>3, OtherModes DEF SkullsInv, Shaped, Told
    <3>2. \A c : ~TryDropFlag(c) /\ (\A i, r : ~TakeFlag(c, i, r)) /\ \A b : ~DepositTokens(c, b) /\ ~TakeSkull(c, b)
      BY <3>1 DEF TryDropFlag, TakeFlag, DepositTokens, TakeSkull
    <3>3. Ghostless(m', ci')
      BY <1>2, <2>3, <3>1, <3>2, SpawnGhostless, MoveGhostless, BotGhostless, LeaversGhostless, RestGhostless DEF Next
    <3> QED BY <3>3 DEF GhostInv
  <2> QED BY <2>2, <2>3
<1> QED BY <1>1, <1>2

LEMMA GhostStutter ==
  ASSUME GhostInv, UNCHANGED vars
  PROVE  GhostInv'
<1>1. ci' = ci /\ smode' = smode /\ m' = m BY DEF vars
<1>2. IsBases => Ghostless(m', ci') BY <1>1 DEF GhostInv
<1> QED BY <1>1, <1>2 DEF GhostInv, IsBases

LEMMA GhostInit ==
  ASSUME Init
  PROVE  GhostInv
<1>1. PICK known \in BOOLEAN, r \in Draws : m = Setup(known, r) BY DEF Init, Known
<1>2. IsBases => Ghostless(m, ci) BY <1>1, SetupGhostless DEF SetupsGhostless
<1> QED BY <1>2 DEF GhostInv

LEMMA NobodyMissing ==
  ASSUME SkullsInv, GhostInv
  PROVE  NoGhosts
<1> SUFFICES ASSUME IsBases, ~m.ended, NEW i \in DOMAIN m.bases
             PROVE  /\ m.bases[i].owners <= Occupants(m.bases[i].owner, i) + m.bases[i].strays
                    /\ m.bases[i].enemies <= Occupants(m.bases[i].enemy, i) + m.bases[i].strays
  BY DEF NoGhosts
<1>1. BasesRight(m) BY DEF SkullsInv, Shaped, Told, IsBases, IsFlags, FlagModes
<1> DEFINE b == m.bases[i]
           pop == Pops(Clients, ci)[i]
<1>2. i \in Nat BY <1>1, BasePlaces
<1>3. Fit(b, pop) BY DEF GhostInv, Ghostless, Fits, Peopled
<1>4. ASSUME NEW t PROVE Occupants(t, i) \in Nat /\ In(pop, t) <= Occupants(t, i)
  <2> DEFINE S == {c \in Clients : Inside(c, i, t) /\ ~ci[c].clip}
  <2>1. S = Crowd(Clients, ci, i, t) BY DEF Inside, Alive, Crowd, Counts
  <2>2. IsFiniteSet(S) BY PlayersAssumption, FS_Subset
  <2>3. Cardinality(S) \in Nat BY <2>2, FS_CardinalityType
  <2>4. t \in Teams => pop[t] = Cardinality(S)
    <3>1. Clients \in SUBSET Clients OBVIOUS
    <3>2. \A u \in Teams : pop[u] = Cardinality(Crowd(Clients, ci, i, u)) BY <1>2, <3>1, PopsOK
    <3> HIDE DEF pop, S
    <3> QED BY <2>1, <3>2
  <2>5. Occupants(t, i) = Cardinality(S) BY DEF Occupants
  <2> HIDE DEF S, pop
  <2>6. In(pop, t) <= Cardinality(S) BY <2>3, <2>4 DEF In
  <2> QED BY <2>3, <2>5, <2>6
<1>5. pop \in [Teams -> Nat] BY <1>2, PopsOK
<1> DEFINE x == In(pop, b.owner)
           y == In(pop, b.enemy)
           v == Occupants(b.owner, i)
           w == Occupants(b.enemy, i)
<1>6. /\ b.owners \in Nat /\ b.enemies \in Nat /\ b.strays \in Nat
      /\ b.owners <= x + b.strays /\ b.enemies <= y + b.strays
  BY <1>3 DEF Fit
<1>7. x \in Nat /\ y \in Nat BY <1>5 DEF In
<1>8. v \in Nat /\ w \in Nat /\ x <= v /\ y <= w BY <1>4
<1> HIDE DEF x, y, v, w
<1>9. b.owners <= v + b.strays /\ b.enemies <= w + b.strays BY <1>6, <1>7, <1>8
<1> QED BY <1>9 DEF v, w

\* However players come, move in and out of bounds, die, change side and leave, bases count only living players
\* of their teams who are in them, but for as many as stealbase once counted out of bounds; and the skulls of
\* each that lie stay within the limits.
THEOREM Headcount == Spec => []PlacesCounted
<1>1. Inv /\ SkullsInv /\ GhostInv /\ SetupsFresh' /\ SetupsShaped' /\ SetupsGhostless' /\ [Next]_vars
        => Inv' /\ SkullsInv' /\ GhostInv'
  BY NextSafe, StutterSafe, SkullsNext, SkullsStutter, GhostNext, GhostStutter DEF Safe
<1>2. Init => Inv /\ SkullsInv /\ GhostInv BY InitInv, SkullsInit, GhostInit
<1>3. SkullsInv /\ GhostInv => PlacesCounted BY NobodyMissing, SkullsFew DEF PlacesCounted
<1>4. SetupsFresh /\ SetupsShaped /\ SetupsGhostless BY SetupFresh, SetupShaped, SetupGhostless
<1> QED BY <1>1, <1>2, <1>3, <1>4, PTL DEF Spec
=============================================================================
