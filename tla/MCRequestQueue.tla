--------------------------- MODULE MCRequestQueue ---------------------------
(* Model values for RequestQueue: requests are interchangeable.            *)
EXTENDS RequestQueue, TLC

Symmetry == Permutations(Requests)
=============================================================================
