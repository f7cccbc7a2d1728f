---------------------------- MODULE MCDataPage ----------------------------
EXTENDS DataPage, TLC

CONSTANTS t1, t2

(* A table of two partitions that share their keys, and one of a single partition, *)
(* which the page opens by itself.                                                 *)
TwoTables == (t1 :> (1 :> {1, 2} @@ 2 :> {1})) @@ (t2 :> (1 :> {1}))

=============================================================================
