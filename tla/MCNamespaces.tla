---- MODULE MCNamespaces ----
EXTENDS Namespaces, TLC

Symmetry == Permutations(Requests)
====
