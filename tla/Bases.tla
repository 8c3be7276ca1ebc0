------------------------------- MODULE Bases -------------------------------
(* Base capture: captureservmode of fpsgame/capture.h, and the handlers of   *)
(* the same header that keep a client's copy of the bases. Base b is at      *)
(* place b. The ammunition and health a base gives its owners are left out.  *)
(* strays is history: the most players out of bounds that stealbase counted. *)
EXTENDS Players

CONSTANTS
  EnemyLimit,      \* OCCUPYENEMYLIMIT: points that clear an owner
  NeutralLimit,    \* OCCUPYNEUTRALLIMIT: points that take a neutral base
  ScoreSecs,       \* SCORESECS
  AmmoSecs,        \* AMMOSECS
  MaxAmmo,         \* MAXAMMO
  AllBases         \* the literal 10000 in endcheck

OccupyBonus == 1   \* OCCUPYBONUS
OccupyPoints == 1  \* OCCUPYPOINTS
NoTeam == 0

NewBase == [owner |-> NoTeam, enemy |-> NoTeam, owners |-> 0, enemies |-> 0, converted |-> 0, capturetime |-> -1, ammo |-> 0,
            strays |-> 0]

\* What N_BASEINFO tells of a base, and N_BASES a newcomer as far as it shows.
BaseShown(b) == [owner |-> b.owner, enemy |-> b.enemy, converted |-> IF b.enemy = NoTeam THEN 0 ELSE b.converted,
                 ammo |-> IF b.owner = NoTeam THEN 0 ELSE b.ammo]
BaseView(s) == [bases |-> [b \in DOMAIN s.bases |-> BaseShown(s.bases[b])], scores |-> s.scores]
SendBase(s, b) == [s EXCEPT !.seen.bases[b] = BaseShown(s.bases[b])]
SendBaseIf(cond, s, b) == IF cond THEN SendBase(s, b) ELSE s

BasesEmpty(notgot) ==
  [bases |-> <<>>, scores |-> [t \in Teams |-> 0], notgot |-> notgot, now |-> 1, ended |-> FALSE,
   seen |-> [bases |-> <<>>, scores |-> [t \in Teams |-> 0]]]

-----------------------------------------------------------------------------
(* A base as players of a team come, stay and go (struct baseinfo).         *)

NoEnemy(b) == [b EXCEPT !.enemy = NoTeam, !.enemies = 0, !.converted = 0]
Enter(b, team) ==
  CASE b.owner = team -> [b EXCEPT !.owners = @ + 1]
    [] b.owner /= team /\ b.enemies = 0 ->
         [b EXCEPT !.enemy = team, !.enemies = 1, !.converted = IF b.enemy = team THEN @ ELSE 0]
    [] OTHER -> IF b.enemy = team THEN [b EXCEPT !.enemies = @ + 1] ELSE b
EnterTells(b, team) == b.owner /= team /\ b.enemies = 0
Steal(b, team) == b.enemies = 0 /\ b.owner /= team
\* Wrong on purpose, to be put in the place of the next definition: owners stay counted.
LeaveKeepingOwner(b, team) == IF b.enemy /= team \/ b.enemies <= 0 THEN b ELSE [b EXCEPT !.enemies = @ - 1]
Leave(b, team) ==
  IF b.owner = team /\ b.owners > 0 THEN [b EXCEPT !.owners = @ - 1]
  ELSE IF b.enemy /= team \/ b.enemies <= 0 THEN b ELSE [b EXCEPT !.enemies = @ - 1]
LeaveTells(b, team) == ~(b.owner = team /\ b.owners > 0) /\ b.enemy = team /\ b.enemies = 1
Occupy(b, team, units) ==
  LET done == b.converted + units
      c == [b EXCEPT !.converted = done]
  IN CASE b.enemy /= team -> b
       [] b.enemy = team /\ units < 0 -> IF done <= 0 THEN NoEnemy(c) ELSE c
       [] b.enemy = team /\ units >= 0 /\ b.owner /= NoTeam ->
            IF done < EnemyLimit THEN c ELSE [c EXCEPT !.owner = NoTeam, !.converted = 0, !.enemy = team]
       [] OTHER -> IF done < NeutralLimit THEN c
                   ELSE NoEnemy([c EXCEPT !.owner = team, !.ammo = 0, !.capturetime = 0, !.owners = b.enemies])
\* addammo and takeammo
AddAmmo(b, i) == [b EXCEPT !.ammo = IF @ + i < MaxAmmo THEN @ + i ELSE MaxAmmo]
AddAmmoTells(b) == b.ammo < MaxAmmo
TakeAmmo(b) == [b EXCEPT !.ammo = @ - 1]
MayTakeAmmo(b, team) == b.owner = team /\ b.ammo > 0
-----------------------------------------------------------------------------
(* movebases and its callers.                                               *)

Inside(c, b, team) == Alive(c) /\ ci[c].team = team /\ ci[c].o = b
Strays(b, team) == Cardinality({c \in Clients : Inside(c, b, team) /\ ci[c].clip})
\* stealbase counts the team's living players in the base, who have moved to pos already or not (ci[c].o),
\* and never asks whether they are out of bounds (gameclip).
StealBase(s, b, team) ==
  LET n == Cardinality({c \in Clients : Inside(c, b, team)})
      once == Enter(s.bases[b], team)
      bs == IF n = 0 THEN s.bases[b] ELSE [once EXCEPT !.enemies = n, !.strays = IF @ < Strays(b, team) THEN Strays(b, team) ELSE @]
  IN SendBase([s EXCEPT !.bases[b] = bs], b)
MoveBase(s, b, team, from, to) ==
  LET leave == from = b
      enter == to = b
      bs == s.bases[b]
  IN CASE leave /\ ~enter -> SendBaseIf(LeaveTells(bs, team), [s EXCEPT !.bases[b] = Leave(@, team)], b)
       [] enter /\ ~leave -> SendBaseIf(EnterTells(bs, team), [s EXCEPT !.bases[b] = Enter(@, team)], b)
       [] leave /\ enter -> IF Steal(bs, team) THEN StealBase(s, b, team) ELSE s
       [] OTHER -> s
MoveBases(s, team, from, to) ==
  IF s.ended THEN s
  ELSE FoldLeft(LAMBDA t, b : MoveBase(t, b, team, from, to), s, [b \in DOMAIN s.bases |-> b])
\* A player out of bounds (gameclip) is in no base.
At(c) == IF ci[c].clip THEN Elsewhere ELSE ci[c].o

BasesEnterGame(s, c) == IF s.notgot \/ ~Alive(c) \/ ci[c].clip THEN s ELSE MoveBases(s, ci[c].team, Elsewhere, ci[c].o)
BasesSpawned(s, c) == IF s.notgot \/ ci[c].clip THEN s ELSE MoveBases(s, ci[c].team, Elsewhere, ci[c].o)
BasesLeaveGame(s, c) == IF s.notgot \/ ~Alive(c) \/ ci[c].clip THEN s ELSE MoveBases(s, ci[c].team, ci[c].o, Elsewhere)
BasesDied(s, c) == IF s.notgot \/ ci[c].clip THEN s ELSE MoveBases(s, ci[c].team, ci[c].o, Elsewhere)
BasesMoved(s, c, o, clip) == IF s.notgot THEN s ELSE MoveBases(s, ci[c].team, At(c), IF clip THEN Elsewhere ELSE o)
BasesChangeTeam(s, c, team) ==
  IF s.notgot \/ ci[c].clip THEN s
  ELSE MoveBases(MoveBases(s, ci[c].team, ci[c].o, Elsewhere), team, Elsewhere, ci[c].o)

-----------------------------------------------------------------------------
(* Every second: endcheck, then occupation, points and ammunition.          *)

AddBaseScore(s, team, n) == IF n = 0 THEN s ELSE SeeScore(AddScore(s, team, n), team)
EndCheck(s) ==
  IF \E t \in Teams : DOMAIN s.bases /= {} /\ \A b \in DOMAIN s.bases : s.bases[b].owner = t
  THEN LET t == s.bases[1].owner
       IN Intermission(SeeScore([s EXCEPT !.scores[t] = AllBases], t))
  ELSE s
OccupyUnits(b) ==
  IF b.enemies > 0 THEN OccupyBonus + OccupyPoints * b.enemies ELSE -OccupyBonus - OccupyPoints * (1 + b.owners)
UpdateBase(s, i) ==
  LET b == s.bases[i]
      held == [b EXCEPT !.capturetime = @ + 1]
      ammo == held.capturetime \div AmmoSecs - b.capturetime \div AmmoSecs
  IN CASE b.enemy /= NoTeam ->
            SendBase([s EXCEPT !.bases[i] = IF b.owners = 0 \/ b.enemies = 0 THEN Occupy(b, b.enemy, OccupyUnits(b)) ELSE b], i)
       [] b.enemy = NoTeam /\ b.owner /= NoTeam ->
            LET t == AddBaseScore([s EXCEPT !.bases[i] = held], b.owner,
                                  held.capturetime \div ScoreSecs - b.capturetime \div ScoreSecs)
            IN IF ammo > 0 /\ AddAmmoTells(b) THEN SendBase([t EXCEPT !.bases[i] = AddAmmo(@, ammo)], i) ELSE t
       [] OTHER -> s
\* update returns only before endcheck when the game is over: the loop runs on once it has ended the game.
BasesUpdate(s) ==
  IF s.ended THEN s
  ELSE FoldLeft(UpdateBase, EndCheck(s), [b \in DOMAIN s.bases |-> b])

\* replenishammo: the first base here with ammunition of the player's team gives one.
Replenish(s, c) ==
  LET giving == {b \in DOMAIN s.bases : ci[c].o = b /\ MayTakeAmmo(s.bases[b], ci[c].team)}
  IN IF s.notgot \/ ~Alive(c) \/ giving = {} THEN s
     ELSE LET b == CHOOSE b \in giving : \A d \in giving : b <= d
          IN SendBase([s EXCEPT !.bases[b] = TakeAmmo(@)], b)

\* setup, when nobody is alive, and parseitems: the living enter the bases they are in, in the order of clients.
BasesPlaced(s, order) ==
  LET n == Cardinality(Places)
      a == [s EXCEPT !.bases = [i \in 1..n |-> NewBase], !.notgot = FALSE, !.seen.bases = [i \in 1..n |-> BaseShown(NewBase)]]
  IN FoldLeft(BasesEnterGame, a, order)
BasesSetup == BasesPlaced(BasesEmpty(FALSE), <<>>)
=============================================================================
