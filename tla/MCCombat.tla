------------------------------ MODULE MCCombat ------------------------------
(* Instances of Combat for TLC. *)
EXTENDS Combat, TLC

CONSTANTS p1, p2

\* Players are interchangeable: the clients list orders them, the definitions do not.
PlayerSymmetry == Permutations({p1, p2})
=============================================================================
