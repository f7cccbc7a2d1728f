--------------------------- MODULE MCWriteBehind ---------------------------
(* WriteBehind on small instances. *)
EXTENDS WriteBehindInvariant, TLC

Symmetry ==
  Permutations(Instances) \cup Permutations(Requests) \cup Permutations(Partitions)
    \cup Permutations(Values)
=============================================================================
