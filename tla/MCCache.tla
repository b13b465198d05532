------------------------------ MODULE MCCache ------------------------------
(***************************************************************************)
(* The cache and its policy in one run.  The decision is taken for every   *)
(* exchange; the operations of the cache never look at a header, so they   *)
(* are explored after the decision on one of the exchanges only.           *)
(***************************************************************************)
EXTENDS LRUCacheHistory, CachePolicy

Symmetry == Permutations(Keys) \cup Permutations(Writers)

\* A request and a response with no header that the cache looks at.
PlainExchange ==
  /\ request = [cacheControl |-> <<<<>>>>, authorization |-> FALSE,
                pragmaNoCache |-> FALSE]
  /\ response = [cacheControl |-> <<<<>>>>, status |-> 200, expires |-> 0]

CacheInit == HInit /\ PolicyInit

CacheNext ==
  \/ PolicyNext /\ UNCHANGED historyVars
  \/ PlainExchange /\ verdict # Undecided /\ HNext /\ UNCHANGED policyVars

CacheSpec == CacheInit /\ [][CacheNext]_<<historyVars, policyVars>>
=============================================================================
