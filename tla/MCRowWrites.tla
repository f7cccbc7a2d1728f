---------------------------- MODULE MCRowWrites ----------------------------
(* The instances of RowWrites that are checked.  In one of them a client     *)
(* sends other bytes under the id of the first schema and moments tell       *)
(* little apart; in the other rows are of one shape and moments are many.    *)
EXTENDS RowWrites, TLC

CONSTANTS x, y
TwoIdsThreeShapes == {<<1, x>>, <<1, y>>, <<2, x>>}
OneShape == {<<1, x>>}

AnyCallIsAsAnyOther == Permutations(Calls)
=============================================================================
