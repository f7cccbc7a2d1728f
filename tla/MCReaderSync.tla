---------------------------- MODULE MCReaderSync ----------------------------
(* ReaderSync on small instances: all keys in one partition. *)
EXTENDS ReaderSync

MCPartitionOf == [k \in Keys |-> "p"]

Symmetry ==
  Permutations(Instances) \cup Permutations(Writers) \cup Permutations(Sessions)
=============================================================================
