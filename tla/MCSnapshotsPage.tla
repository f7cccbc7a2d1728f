-------------------------- MODULE MCSnapshotsPage --------------------------
EXTENDS SnapshotsPage

CONSTANTS t, p, n1, n2

(* An archive of one table of one partition: two levels below the file. *)
OneTable == {<<t>>, <<t, p>>}

=============================================================================
