------------------------------ MODULE Rotation ------------------------------
(* The map rotation of fpsgame/server.cpp: a list of maps with the modes     *)
(* each may be played in; entries without modes separate its blocks. The    *)
(* list is configuration, the place in it (curmaprotation) the server's.    *)
(* Entries count from 1, and NoEntry stands for the -1 of the code.         *)
EXTENDS Naturals, Sequences, FiniteSets, SequencesExt

CONSTANTS
  MapRotation,   \* sequence of [modes : SUBSET Modes, map : a map or NewMap]
  ModeOrder      \* the modes in the order of gamemodes

NewMap == "none"   \* the empty map name
NoEntry == 0
Entries == DOMAIN MapRotation
Separates(i) == MapRotation[i].modes = {}

\* maprotation::findmode: the mode played if the entry has it, else its first.
FindMode(rot, mode) ==
  IF mode \in rot.modes THEN mode ELSE ModeOrder[CHOOSE i \in DOMAIN ModeOrder :
    ModeOrder[i] \in rot.modes /\ \A j \in 1..(i - 1) : ModeOrder[j] \notin rot.modes]
Matches(rot, mode, map) == mode \in rot.modes /\ (NewMap \in {rot.map, map} \/ rot.map = map)
Includes(rot, other) ==
  IF other.modes = rot.modes THEN other.map /= NewMap /\ rot.map = NewMap ELSE other.modes \subseteq rot.modes

\* nextmaprotation: the next entry of the block, or its first.
NextRotation(cur) ==
  IF cur + 1 \in Entries /\ ~Separates(cur + 1) THEN cur + 1
  ELSE CHOOSE i \in 1..(cur + 1) : (\A k \in i..cur : k \in Entries /\ ~Separates(k))
                                   /\ (i = 1 \/ (i - 1) \notin Entries \/ Separates(i - 1))

\* findmaprotation: from the place on in its block, then before it, then the closest match anywhere.
FindRotation(cur, mode, map) ==
  LET from == IF cur < 1 THEN 1 ELSE cur
      ok(i) == Matches(MapRotation[i], mode, map)
      ahead == {i \in from..Len(MapRotation) : ok(i) /\ \A k \in from..i : ~Separates(k)}
      behind == {i \in 1..(cur - 1) : ok(i) /\ i \in Entries /\ \A k \in i..(cur - 1) : k \in Entries /\ ~Separates(k)}
      First(S) == CHOOSE i \in S : \A j \in S : i <= j
      Better(best, i) == IF ok(i) /\ (best = NoEntry \/ Includes(MapRotation[best], MapRotation[i])) THEN i ELSE best
  IN IF ahead /= {} THEN First(ahead) ELSE IF behind /= {} THEN First(behind)
     ELSE FoldLeft(Better, NoEntry, [i \in Entries |-> i])
=============================================================================
