------------------------------ MODULE MCMatch ------------------------------
(* An instance of Match for TLC: a rotation of two blocks. Clients are not  *)
(* symmetric under the liveness property.                                   *)
EXTENDS Match

Rotations == <<[modes |-> {"ffa"}, map |-> "a"], [modes |-> {"team", "ctf"}, map |-> "b"],
               [modes |-> {}, map |-> NewMap], [modes |-> {"team"}, map |-> "a"]>>
Wanted == {<<"a", "team">>, <<"b", "ffa">>, <<NewMap, "ctf">>, <<"a", "coop">>}
Here == <<"i", "j">>
Order == <<"ffa", "coop", "team", "ctf">>
=============================================================================
