----------------------------- MODULE MCSessions -----------------------------
(* Instances of Sessions for TLC: two peers, so two client numbers that the *)
(* sessions of a behaviour share.                                          *)
EXTENDS Sessions, TLC

CONSTANTS p1, p2, a1, a2

\* Peers and addresses are interchangeable: no definition orders them.
PeerSymmetry == Permutations({p1, p2})
PeerAddressSymmetry == PeerSymmetry \cup Permutations({a1, a2})
=============================================================================
