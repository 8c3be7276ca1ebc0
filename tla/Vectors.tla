-------------------------------- MODULE Vectors --------------------------------
(***************************************************************************)
(* The vectors of shared/tools.h that several components keep, as          *)
(* sequences.                                                              *)
(***************************************************************************)
EXTENDS Integers, Sequences, Functions

\* The elements of s that are in S, in their order.
Within(s, S) ==
    LET kept[n \in 0 .. Len(s)] ==
          IF n = 0 THEN <<>>
          ELSE IF s[n] \in S THEN Append(kept[n - 1], s[n]) ELSE kept[n - 1]
    IN  kept[Len(s)]

\* vector::removeobj
Removed(s, x) == Within(s, Range(s) \ {x})

\* vector::removeunordered: the last one takes the place.
RemovedUnordered(s, i) == SubSeq([s EXCEPT ![i] = s[Len(s)]], 1, Len(s) - 1)
=============================================================================
