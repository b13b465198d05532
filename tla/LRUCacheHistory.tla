--------------------------- MODULE LRUCacheHistory ---------------------------
(***************************************************************************)
(* LRUCache with history variables: when each cached key was last used,    *)
(* and what became of the entries that are no longer in the map.           *)
(***************************************************************************)
EXTENDS LRUCache

CONSTANTS MaxLookups,   \* bound on the counted lookups
          MaxUses       \* bound on the uses counted by the history

VARIABLES lastUse,   \* lastUse[k]: number of the last use of k
          uses,      \* uses of any key so far
          pushedOut, \* entries a Set of another key has removed so far
          removed    \* entries Delete and Purge have removed so far

historyVars == <<lruList, items, stats, now, setting, lastUse, uses, pushedOut,
                 removed>>

HInit ==
  /\ Init
  /\ lastUse = [k \in Keys |-> 0]
  /\ uses = 0
  /\ pushedOut = 0
  /\ removed = 0

\* Key k is used: looked up and found, or stored.
Uses(k) ==
  /\ uses' = uses + 1
  /\ lastUse' = [lastUse EXCEPT ![k] = uses + 1]

\* The entries that leave the map in this step.
Gone == Cardinality(Cached \ DOMAIN items')

HNext ==
  \/ \E k \in Keys :
       /\ stats.hits + stats.misses < MaxLookups /\ uses < MaxUses
       /\ Lookup(k)
       /\ IF k \in Cached THEN Uses(k) ELSE UNCHANGED <<lastUse, uses>>
       /\ UNCHANGED <<pushedOut, removed>>
  \/ \E w \in Writers :
       /\ EndSet(w)
       /\ Uses(setting[w].key)
       /\ pushedOut' = pushedOut + Gone
       /\ UNCHANGED removed
  \/ /\ PurgeAll \/ \E k \in Keys : DeleteKey(k)
     /\ removed' = removed + Gone
     /\ UNCHANGED <<lastUse, uses, pushedOut>>
  \/ /\ \/ \E w \in Writers, k \in Keys, ttl \in TTLs : BeginSet(w, k, ttl)
        \/ Tick
     /\ UNCHANGED <<lastUse, uses, pushedOut, removed>>

HSpec == HInit /\ [][HNext]_historyVars

-----------------------------------------------------------------------------
Promise == INSTANCE ResponseMap
             WITH Room <- Capacity, held <- items,
                  hits <- stats.hits, misses <- stats.misses

\* The cache is a bounded map: whatever a Set finds when it gets the mutex, it
\* takes effect at once, with the lifetime counted from its call, costs one
\* other entry at most, and that only when the cache is full.
ImplementsResponseMap == Promise!Spec

\* The entry pushed out of a full cache is the one used longest ago.
EvictsLeastRecent ==
  [][\A k \in Cached \ DOMAIN items' :
       stats'.stores = stats.stores + 1 =>
         \A j \in Cached : lastUse[k] <= lastUse[j]]_historyVars

\* The statistics account for every entry: what Stores counted is still among
\* the Entries or was pushed out, deleted or purged, and no entry is pushed out
\* by a Set without being counted in Evictions (cache.go:141, 173).
StoresBalance ==
  /\ stats.stores = stats.entries + pushedOut + removed
  /\ stats.evictions >= pushedOut
=============================================================================
