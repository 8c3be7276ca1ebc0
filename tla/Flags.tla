------------------------------- MODULE Flags -------------------------------
(* Capture the flag, protect and hold: ctfservmode of fpsgame/ctf.h, and the *)
(* handlers of the same header that keep a client's copy of the flags.       *)
(* A hook of the server is an operator from the mode's state to its new      *)
(* state; what it sends has reached the clients' copy, s.seen (the transport *)
(* keeps the order, module EnetOrder). Times are in ticks.                   *)
EXTENDS Players

CONSTANTS
  FlagLimit,          \* FLAGLIMIT: captures that end the game
  HoldSecs,           \* HOLDSECS
  HoldDeathPenalty,   \* HOLDDEATHPENALTY
  ResetFlagTime,      \* RESETFLAGTIME
  InvisFlagTime,      \* INVISFLAGTIME
  MaxDrops            \* the literal 3 in takeflag

ASSUME FlagsAssumption ==
  {FlagLimit, HoldSecs, HoldDeathPenalty, ResetFlagTime, InvisFlagTime, MaxDrops} \subseteq Nat

FlagModes == {"ctf", "protect", "hold"}
NoSpawn == 0
Protect == smode = "protect"
Hold == smode = "hold"

-----------------------------------------------------------------------------
(* The server's flags and the clients' copy of them: one flag in hold, one   *)
(* for each team in ctf and protect, which the loops visit in turn.          *)

NewFlag(team, o, invistime) ==
  [version |-> 0, spawnindex |-> NoSpawn, droploc |-> Elsewhere, spawnloc |-> o, team |-> team, droptime |-> 0,
   holdtime |-> 0, owner |-> Nobody, dropcount |-> 0, dropper |-> Nobody, invistime |-> invistime]

\* What initclient tells of a flag, and what a client's handlers keep of it.
FlagShown(f) ==
  [version |-> f.version, spawnindex |-> f.spawnindex, owner |-> f.owner, invis |-> f.invistime /= 0,
   dropped |-> f.owner = Nobody /\ f.droptime /= 0,
   droploc |-> IF f.owner = Nobody /\ f.droptime /= 0 THEN f.droploc ELSE Elsewhere]
FlagView(s) == [flags |-> [i \in DOMAIN s.flags |-> FlagShown(s.flags[i])], scores |-> s.scores]

FlagsEmpty(notgot) ==
  [flags |-> <<>>, spawns |-> <<>>, scores |-> [t \in Teams |-> 0], notgot |-> notgot, now |-> 1, ended |-> FALSE,
   seen |-> [flags |-> <<>>, scores |-> [t \in Teams |-> 0]]]

\* Client handlers: N_TAKEFLAG, N_DROPFLAG, N_RETURNFLAG, N_RESETFLAG and N_SCOREFLAG, N_INVISFLAG.
SeeTake(s, i) ==
  [s EXCEPT !.seen.flags[i] = [@ EXCEPT !.version = s.flags[i].version, !.owner = s.flags[i].owner, !.invis = FALSE,
                                        !.dropped = FALSE, !.droploc = Elsewhere]]
SeeDrop(s, i) ==
  [s EXCEPT !.seen.flags[i] = [@ EXCEPT !.version = s.flags[i].version, !.owner = Nobody, !.invis = FALSE,
                                        !.dropped = TRUE, !.droploc = s.flags[i].droploc]]
SeeReturn(s, i, invis) ==
  [s EXCEPT !.seen.flags[i] = [@ EXCEPT !.version = s.flags[i].version, !.owner = Nobody, !.invis = invis,
                                        !.dropped = FALSE, !.droploc = Elsewhere]]
SeeReset(s, i) == [SeeReturn(s, i, Protect) EXCEPT !.seen.flags[i].spawnindex = s.flags[i].spawnindex]
SeeScored(s, i) ==
  [s EXCEPT !.seen.flags[i] = [@ EXCEPT !.version = s.flags[i].version, !.spawnindex = s.flags[i].spawnindex]]
SeeInvis(s, i) == [s EXCEPT !.seen.flags[i].invis = FALSE]

-----------------------------------------------------------------------------
(* The flag operations.                                                     *)

Bumped(s, i) == [s EXCEPT !.flags[i].version = @ + 1]

\* ownflag: a hold team that retakes its flag pays twice the time it lay.
Owned(f, c, ownteam, now) ==
  LET retaken == f.holdtime /= 0 /\ f.team = ownteam
      late == IF f.droptime /= 0 /\ f.droptime < now THEN 2 * (now - f.droptime) ELSE 0
      held == f.holdtime + late
  IN [f EXCEPT !.owner = c, !.holdtime = IF ~retaken THEN now ELSE IF held < now THEN held ELSE now,
               !.team = IF ~retaken /\ ownteam /= Nobody THEN ownteam ELSE @,
               !.dropcount = IF c /= f.dropper THEN 0 ELSE IF @ < MaxDrops THEN @ + 1 ELSE @,
               !.dropper = Nobody, !.invistime = 0]
\* dropflag(i, o, droptime, dropper, penalty)
Dropped(f, o, dropper, penalty, now) ==
  [f EXCEPT !.droploc = o, !.droptime = now, !.dropper = dropper, !.owner = Nobody, !.invistime = 0,
            !.dropcount = IF dropper = Nobody THEN 0 ELSE IF penalty THEN MaxDrops ELSE @]

\* returnflag(i, invistime)
Returned(f, invistime) ==
  [f EXCEPT !.droptime = 0, !.holdtime = 0, !.dropcount = 0, !.owner = Nobody, !.dropper = Nobody, !.invistime = invistime]
InvisFrom(now) == IF Protect THEN now ELSE 0

\* deadflag: a carrier's death costs the hold.
Deadflag(f, now) ==
  IF f.holdtime = 0 THEN f
  ELSE LET limit == IF f.owner = Nobody /\ f.droptime /= 0 /\ f.droptime >= f.holdtime THEN f.droptime ELSE now
           held == f.holdtime + HoldDeathPenalty
       IN [f EXCEPT !.holdtime = IF held >= limit THEN 0 ELSE held]

\* spawnflag: any hold spawn; four draws may all give the one it is at.
Spawned(s, i, r) == IF Len(s.spawns) = 0 THEN s ELSE [s EXCEPT !.flags[i].spawnindex = r]

\* dropflag(ci, dropper): what ci carries is dropped where it is, or returned in its own base in protect.
InsideBase(f, o) == f.spawnloc = o
DropOne(s, c, dropper, i) ==
  IF s.flags[i].owner /= c THEN s
  ELSE IF Protect /\ InsideBase(s.flags[i], ci[c].o)
       THEN SeeReturn(Bumped([s EXCEPT !.flags[i] = Returned(@, 0)], i), i, FALSE)
       ELSE SeeDrop(Bumped([s EXCEPT !.flags[i] = Dropped(@, ci[c].o, IF dropper = Nobody THEN c ELSE dropper,
                                                          dropper \notin {Nobody, c}, s.now)], i), i)
\* Wrong on purpose, to be put in the place of the next definition: nobody is told.
DropFlagUnseen(s, c, dropper) ==
  IF s.notgot THEN s
  ELSE [s EXCEPT !.flags = [i \in DOMAIN s.flags |-> IF s.flags[i].owner /= c THEN s.flags[i]
                                                     ELSE Dropped(s.flags[i], ci[c].o, c, FALSE, s.now)]]
DropFlag(s, c, dropper) ==
  LET first == DropOne(s, c, dropper, 1)
  IN IF s.notgot THEN s ELSE IF 2 \in DOMAIN s.flags THEN DropOne(first, c, dropper, 2) ELSE first
ForgetDropper(s, c) ==
  [s EXCEPT !.flags = [i \in DOMAIN s.flags |->
      IF s.flags[i].dropper = c THEN [s.flags[i] EXCEPT !.dropper = Nobody, !.dropcount = 0] ELSE s.flags[i]]]

-----------------------------------------------------------------------------
(* The hooks of servmode.                                                   *)

\* Wrong on purpose, to be put in the place of the next definition: flags are kept.
FlagsLeaveGameHolding(s, c) == ForgetDropper(s, c)
FlagsLeaveGame(s, c) == ForgetDropper(DropFlag(s, c, Nobody), c)
\* Wrong on purpose, to be put in the place of the next definition: team kills have no penalty.
FlagsDiedBlameless(s, c, actor) == IF s.notgot THEN s ELSE DropFlag(s, c, Nobody)
\* A team mate who kills the carrier (ctftkpenalty) counts as the dropper, at the limit of drops.
FlagsDied(s, c, actor) ==
  LET dead == IF ~Hold THEN s
              ELSE [s EXCEPT !.flags = [i \in DOMAIN s.flags |->
                      IF s.flags[i].owner = c THEN Deadflag(s.flags[i], s.now) ELSE s.flags[i]]]
      guilty == actor \notin {Nobody, c} /\ IsTeam(actor, c)
  IN IF s.notgot THEN s ELSE ForgetDropper(DropFlag(dead, c, IF guilty THEN actor ELSE Nobody), c)
\* scoreflag(ci, goal, relay)
Score(s, c, goal, relay, r) ==
  LET back == IF relay = Nobody THEN goal ELSE relay
      team == ci[c].team
      a == AddScore([s EXCEPT !.flags[back] = Returned(@, InvisFrom(s.now))], team, 1)
      b == IF Hold THEN Spawned(a, goal, r) ELSE a
      d == IF relay = Nobody THEN b ELSE Bumped(b, relay)
      g == SeeScored(SeeReturn(SeeScore(Bumped(d, goal), team), back, Protect), goal)
  IN IF g.scores[team] >= FlagLimit THEN Intermission(g) ELSE g

\* takeflag(ci, i, version), with the version ci last saw.
MayTake(s, c, i) ==
  /\ ~s.notgot /\ i \in DOMAIN s.flags /\ Alive(c)
  /\ IF Hold THEN s.flags[i].spawnindex /= NoSpawn ELSE s.flags[i].team \in Teams
  /\ s.flags[i].owner = Nobody
  /\ ~(s.flags[i].droptime /= 0 /\ s.flags[i].dropper = c /\ s.flags[i].dropcount >= MaxDrops)
Carries(s, c, j) == j \in DOMAIN s.flags /\ s.flags[j].owner = c
PickUp(s, c, i) ==
  SeeTake(Bumped([s EXCEPT !.flags[i] = Owned(@, c, IF Hold THEN ci[c].team ELSE Nobody, s.now)], i), i)
BringBack(s, i) == SeeReturn(Bumped([s EXCEPT !.flags[i] = Returned(@, 0)], i), i, FALSE)
FirstCarried(s, c) == CHOOSE j \in DOMAIN s.flags : Carries(s, c, j) /\ \A k \in 1..(j - 1) : ~Carries(s, c, k)
Take(s, c, i, r) ==
  LET f == s.flags[i]
      carries == \E j \in DOMAIN s.flags : Carries(s, c, j)
  IN IF Hold \/ (Protect <=> f.team = ci[c].team) THEN IF carries THEN s ELSE PickUp(s, c, i)
     ELSE IF Protect THEN IF f.invistime /= 0 THEN s ELSE Score(s, c, i, Nobody, r)
     ELSE IF f.droptime /= 0 THEN BringBack(s, i)
     ELSE IF carries THEN Score(s, c, i, FirstCarried(s, c), r) ELSE s

\* update, flag by flag: a dropped flag is reset, an invisible one shown, a held one scores.
ResetFlag(s, i, r) ==
  LET b == [s EXCEPT !.flags[i] = Returned(@, InvisFrom(s.now))]
      d == Bumped(IF Hold THEN Spawned(b, i, r) ELSE b, i)
      e == IF Hold THEN d ELSE AddScore(d, d.flags[i].team, IF Protect THEN -1 ELSE 0)
  IN SeeReset(IF Hold THEN e ELSE SeeScore(e, e.flags[i].team), i)
TickDropped(s, i, r) ==
  IF s.flags[i].owner = Nobody /\ s.flags[i].droptime /= 0 /\ s.now - s.flags[i].droptime >= ResetFlagTime
  THEN ResetFlag(s, i, r) ELSE s
TickInvisible(s, i) ==
  IF s.flags[i].invistime /= 0 /\ s.now - s.flags[i].invistime >= InvisFlagTime
  THEN SeeInvis([s EXCEPT !.flags[i].invistime = 0], i) ELSE s
TickHeld(s, i, r) ==
  LET f == s.flags[i]
  IN IF ~(Hold /\ f.owner /= Nobody /\ s.now - f.holdtime >= HoldSecs) THEN s
     ELSE IF Present(f.owner) THEN Score(s, f.owner, i, Nobody, r)
          ELSE SeeReset(Bumped(Spawned(s, i, r), i), i)
UpdateFlag(s, i, r) == TickHeld(TickInvisible(TickDropped(s, i, r), i), i, r)
FlagsUpdate(s, r) ==
  LET first == UpdateFlag(s, 1, r)
  IN IF s.ended \/ s.notgot THEN s ELSE IF 2 \in DOMAIN s.flags THEN UpdateFlag(first, 2, r) ELSE first

-----------------------------------------------------------------------------
(* Where the flags are: from the map's file, or from the first client's list.*)

SetupHold(s, n, r) ==
  LET a == [s EXCEPT !.spawns = [i \in 1..n |-> i], !.flags = <<NewFlag(0, Elsewhere, 0)>>,
                     !.seen.flags = <<FlagShown(NewFlag(0, Elsewhere, 0))>>]
  IN SeeReset(Bumped(Spawned(a, 1, r), 1), 1)
\* setup from the map's entities: a flag for each team in its base, or the hold spawns.
FlagsSetup(r) ==
  LET s == FlagsEmpty(FALSE)
      flags == [i \in 1..2 |-> NewFlag(i, i, InvisFrom(1))]
  IN IF Hold THEN SetupHold(s, Cardinality(Places), r)
     ELSE [s EXCEPT !.flags = flags, !.seen.flags = [i \in 1..2 |-> FlagShown(flags[i])]]
\* The clients know their own map: their copy has the flags the server has not.
FlagsUnknown ==
  LET flags == [i \in 1..2 |-> NewFlag(i, i, InvisFrom(1))]
  IN IF Hold THEN FlagsEmpty(TRUE)
     ELSE [FlagsEmpty(TRUE) EXCEPT !.seen.flags = [i \in 1..2 |-> FlagShown(flags[i])]]
\* parseitems passes the time as the team, so that these flags belong to none.
FlagsParse(s, r) ==
  IF Hold THEN SetupHold([s EXCEPT !.notgot = FALSE], Cardinality(Places), r)
  ELSE [s EXCEPT !.notgot = FALSE, !.flags = [i \in 1..2 |-> NewFlag(IF Protect THEN s.now + 2 ELSE 0, i, 0)]]
=============================================================================
