-------------------------------- MODULE MCBots --------------------------------
(* Instances of Bots for TLC. *)
EXTENDS Bots, TLC

GoodEvil == <<2, 1>>
Symmetry == Permutations(Humans)
=============================================================================
