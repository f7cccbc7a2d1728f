---------------------------- MODULE MCPageFiles ----------------------------
(* PageFiles on small instances: "small" fits the one-sector class c512,     *)
(* "big" needs c1024.                                                        *)
EXTENDS PageFiles, TLC

CONSTANTS small, big, c512, c1024

MCValues == {small, big}
MCSkipBroken == BOOLEAN
MCClasses == {c512, c1024}
MCSectorClasses == {c512}
MCClassOf == [v \in Values |-> IF v = small THEN c512 ELSE c1024]

Symmetry == Permutations(Keys)
=============================================================================
