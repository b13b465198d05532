--------------------------- MODULE MCBalancerSwitch ---------------------------
(* Requests and targets are interchangeable.                               *)
EXTENDS BalancerSwitch, TLC

Symmetry == Permutations(Requests) \cup Permutations(Targets)
=============================================================================
