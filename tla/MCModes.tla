------------------------------ MODULE MCModes ------------------------------
(* Instances of Modes for TLC. Clients are interchangeable: no definition    *)
(* orders them.                                                             *)
EXTENDS Modes, TLC

CONSTANTS c1, c2, c3

Symmetry == Permutations(Clients)
=============================================================================
