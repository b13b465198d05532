------------------------------- MODULE MCItems -------------------------------
(* Values for the constants of Items.                                      *)
EXTENDS Items, TLC

Op(method, path, id, body) ==
  [method |-> method, path |-> path, id |-> id, body |-> body]

\* Reads and writes of item 1 and of the collection, the two kinds of update,
\* and the requests each handler turns down.
ItemOperations ==
  {Op("GET", "items", 0, "none"), Op("POST", "items", 0, "named"),
   Op("POST", "items", 0, "blank"), Op("PATCH", "items", 0, "named"),
   Op("GET", "item", 1, "none"), Op("GET", "item", 0, "none"),
   Op("PUT", "item", 1, "named"), Op("PUT", "item", 1, "blank"),
   Op("PUT", "item", 1, "long"), Op("DELETE", "item", 1, "none"),
   Op("PATCH", "item", 1, "none")}

Symmetry == Permutations(Requests \ Scrapes)
=============================================================================
