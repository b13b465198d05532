------------------------- MODULE MCLeastConnections -------------------------
(* Values for the constants of LeastConnections.                           *)
EXTENDS LeastConnections, TLC

\* Every target is an upstream of its own.
Distinct == {<<"a", "b">>}

\* Or the two configured URLs differ in their path only.
DistinctOrShared == Distinct \cup {<<"a", "a">>}

Symmetry == Permutations(Requests)
=============================================================================
