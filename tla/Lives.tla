-------------------------------- MODULE Lives --------------------------------
(***************************************************************************)
(* What the server promises about the lives of the players, whatever       *)
(* happens in the fights: a player comes to life only by taking up a spawn *)
(* it was granted, takes up each grant once, and each life ends in one     *)
(* death.  Combat implements this.                                         *)
(***************************************************************************)
EXTENDS Integers

CONSTANT Players

VARIABLES
    phase,      \* "gone", "spectator", "dead", "granted" or "alive"
    spawns,     \* lives begun since the player or the map arrived
    deaths      \* deaths since then

vars == <<phase, spawns, deaths>>

Phases == {"gone", "spectator", "dead", "granted", "alive"}

Init ==
    /\ phase = [p \in Players |-> "gone"]
    /\ spawns = [p \in Players |-> 0] /\ deaths = [p \in Players |-> 0]

Enter(p, ph) ==
    /\ phase[p] = "gone" /\ ph \in {"granted", "spectator"}
    /\ phase' = [phase EXCEPT ![p] = ph]
    /\ spawns' = [spawns EXCEPT ![p] = 0] /\ deaths' = [deaths EXCEPT ![p] = 0]

Leave(p) ==
    /\ phase[p] # "gone"
    /\ phase' = [phase EXCEPT ![p] = "gone"]
    /\ spawns' = [spawns EXCEPT ![p] = 0] /\ deaths' = [deaths EXCEPT ![p] = 0]

Grant(p) ==
    /\ phase[p] = "dead"
    /\ phase' = [phase EXCEPT ![p] = "granted"]
    /\ UNCHANGED <<spawns, deaths>>

Spawn(p) ==
    /\ phase[p] = "granted"
    /\ phase' = [phase EXCEPT ![p] = "alive"]
    /\ spawns' = [spawns EXCEPT ![p] = @ + 1]
    /\ UNCHANGED deaths

\* A life ends, by death or because its player stops playing.
End(p, ph) ==
    /\ phase[p] = "alive" /\ ph \in {"dead", "spectator"}
    /\ phase' = [phase EXCEPT ![p] = ph]
    /\ deaths' = [deaths EXCEPT ![p] = @ + 1]
    /\ UNCHANGED spawns

Watch(p) ==
    /\ phase[p] \in {"dead", "granted"}
    /\ phase' = [phase EXCEPT ![p] = "spectator"]
    /\ UNCHANGED <<spawns, deaths>>

Play(p) ==
    /\ phase[p] = "spectator"
    /\ phase' = [phase EXCEPT ![p] = "dead"]
    /\ UNCHANGED <<spawns, deaths>>

\* A new map, on which a player may have come in or come back from watching.
NewMap(p, ph) ==
    LET now == [phase EXCEPT ![p] = ph]
    IN  /\ \/ ph = phase[p]
           \/ phase[p] = "gone" /\ ph \in {"granted", "spectator"}
           \/ phase[p] = "spectator" /\ ph = "granted"
        /\ phase' = [q \in Players |->
                       IF now[q] \in {"gone", "spectator"} THEN now[q] ELSE "granted"]
        /\ spawns' = [q \in Players |-> 0] /\ deaths' = [q \in Players |-> 0]

Next == \E p \in Players :
    \/ Leave(p) \/ Grant(p) \/ Spawn(p) \/ Watch(p) \/ Play(p)
    \/ \E ph \in Phases : Enter(p, ph) \/ End(p, ph) \/ NewMap(p, ph)

Spec == Init /\ [][Next]_vars

\* Each life ends once: no death is counted twice and no player is revived
\* without a new life being counted.
LivesEndOnce == \A p \in Players : spawns[p] - deaths[p] = IF phase[p] = "alive" THEN 1 ELSE 0
=============================================================================
