------------------------------ MODULE LRUCache ------------------------------
(***************************************************************************)
(* internal/proxy/cache.go: the response cache.  Get, Delete, Purge and    *)
(* the storing half of Set run under the mutex and are one action each;    *)
(* Set computes the expiry time before it takes the mutex, so a Set is two *)
(* actions of the goroutine that calls it.                                 *)
(***************************************************************************)
EXTENDS CacheLifetime, Sequences, FiniteSets, Functions, SequencesExt

CONSTANTS Keys,         \* cache keys
          Writers,      \* goroutines that call Set, once each
          MaxEntries,   \* NewLRUCache's argument
          TTLs,         \* ttl arguments of Set
          MaxTime       \* bound on the clock

Capacity == IF MaxEntries <= 0 THEN 1024 ELSE MaxEntries

ASSUME LRUAssumption ==
  MaxEntries \in Int /\ TTLs \subseteq Int /\ MaxTime \in Nat

VARIABLES
  lruList,   \* keys, most recently used first
  items,     \* the map: key |-> [resp, expiresAt]
  stats,     \* CacheStats
  now,       \* the wall clock
  setting    \* setting[w]: the Set in progress, between clock and mutex

cacheVars == <<lruList, items, stats>>
vars == <<lruList, items, stats, now, setting>>

Idle == [phase |-> "idle"]
Done == [phase |-> "done"]

Init ==
  /\ lruList = <<>>
  /\ items = [k \in {} |-> {}]
  /\ stats = [entries |-> 0, hits |-> 0, misses |-> 0, stores |-> 0,
              evictions |-> 0]
  /\ now = 0
  /\ setting = [w \in Writers |-> Idle]

Cached == DOMAIN items

\* The list without the element of k: the map holds a pointer to it.
Without(k) == RemoveAt(lruList, CHOOSE i \in DOMAIN lruList : lruList[i] = k)

\* list.MoveToFront of the element of k
ToFront(k) == <<k>> \o Without(k)

-----------------------------------------------------------------------------
(* Get.                                                                    *)

\* time.Now().After(ExpiresAt)
Expired(k) == now > items[k].expiresAt

\* A fresh entry: touched, counted as a hit and returned.
GetHit(k) ==
  /\ k \in Cached
  /\ ~Expired(k)
  /\ lruList' = ToFront(k)
  /\ stats' = [stats EXCEPT !.hits = @ + 1]
  /\ UNCHANGED items

\* Mutant: a stale lookup does not touch the entry.
GetStaleUntouched(k) ==
  /\ k \in Cached
  /\ Expired(k)
  /\ UNCHANGED <<lruList, items, stats>>

\* An expired entry: touched, reported stale, counted nowhere.
GetStale(k) ==
  /\ k \in Cached
  /\ Expired(k)
  /\ lruList' = ToFront(k)
  /\ UNCHANGED <<items, stats>>

GetMiss(k) ==
  /\ k \notin Cached
  /\ stats' = [stats EXCEPT !.misses = @ + 1]
  /\ UNCHANGED <<lruList, items>>

-----------------------------------------------------------------------------
(* Set.                                                                    *)

\* response.ExpiresAt = time.Now().Add(ttl), with the default for ttl <= 0
Expiry(ttl) == now + SetTTL(ttl)

\* Mutant: a replacement counts as a store.
ReplaceCounted(k, entry) ==
  /\ k \in Cached
  /\ items' = [items EXCEPT ![k] = entry]
  /\ lruList' = ToFront(k)
  /\ stats' = [stats EXCEPT !.stores = @ + 1, !.entries = Len(lruList')]

\* The key is cached: replace its response and touch it.
Replace(k, entry) ==
  /\ k \in Cached
  /\ items' = [items EXCEPT ![k] = entry]
  /\ lruList' = ToFront(k)
  /\ stats' = [stats EXCEPT !.entries = Len(lruList')]

\* Mutant: room for one more.
InsertOffByOne(k, entry) ==
  /\ k \notin Cached
  /\ Len(lruList) <= Capacity
  /\ lruList' = <<k>> \o lruList
  /\ items' = [j \in Cached \cup {k} |-> IF j = k THEN entry ELSE items[j]]
  /\ stats' = [stats EXCEPT !.stores = @ + 1, !.entries = Len(lruList')]

\* It is not, and there is room.
Insert(k, entry) ==
  /\ k \notin Cached
  /\ Len(lruList) + 1 <= Capacity
  /\ lruList' = <<k>> \o lruList
  /\ items' = [j \in Cached \cup {k} |-> IF j = k THEN entry ELSE items[j]]
  /\ stats' = [stats EXCEPT !.stores = @ + 1, !.entries = Len(lruList')]

\* It is not, and the list grows past its capacity: the back goes.
InsertEvicting(k, entry) ==
  LET pushed == <<k>> \o lruList
      oldest == Last(pushed)
      all == [j \in Cached \cup {k} |-> IF j = k THEN entry ELSE items[j]]
  IN /\ k \notin Cached
     /\ Len(pushed) > Capacity
     /\ lruList' = Front(pushed)
     /\ items' = Restrict(all, DOMAIN all \ {oldest})
     /\ stats' = [stats EXCEPT !.stores = @ + 1, !.evictions = @ + 1,
                               !.entries = Len(lruList')]

Store(k, entry) == Replace(k, entry) \/ Insert(k, entry) \/ InsertEvicting(k, entry)

-----------------------------------------------------------------------------
(* Delete and Purge.                                                       *)

\* removeElement counts an eviction here too; an absent key changes nothing.
Delete(k) ==
  /\ k \in Cached
  /\ lruList' = Without(k)
  /\ items' = Restrict(items, Cached \ {k})
  /\ stats' = [stats EXCEPT !.evictions = @ + 1, !.entries = Len(lruList')]

\* Mutant: the list is cleared and the map is not.
PurgeListOnly ==
  /\ lruList' = <<>>
  /\ stats' = [stats EXCEPT !.entries = 0]
  /\ UNCHANGED items

\* Purge keeps every counter but Entries.
Purge ==
  /\ lruList' = <<>>
  /\ items' = [k \in {} |-> {}]
  /\ stats' = [stats EXCEPT !.entries = 0]

-----------------------------------------------------------------------------
(* Callers.  A response is named after the goroutine that stores it.       *)

Lookup(k) ==
  /\ GetHit(k) \/ GetStale(k) \/ GetMiss(k)
  /\ UNCHANGED <<now, setting>>

BeginSet(w, k, ttl) ==
  /\ setting[w] = Idle
  /\ setting' = [setting EXCEPT ![w] =
                   [phase |-> "storing", key |-> k,
                    entry |-> [resp |-> w, expiresAt |-> Expiry(ttl)]]]
  /\ UNCHANGED <<lruList, items, stats, now>>

EndSet(w) ==
  /\ setting[w].phase = "storing"
  /\ Store(setting[w].key, setting[w].entry)
  /\ setting' = [setting EXCEPT ![w] = Done]
  /\ UNCHANGED now

DeleteKey(k) == Delete(k) /\ UNCHANGED <<now, setting>>

PurgeAll == Purge /\ UNCHANGED <<now, setting>>

Tick == now < MaxTime /\ now' = now + 1 /\ UNCHANGED <<lruList, items, stats, setting>>

Next ==
  \/ \E k \in Keys : Lookup(k) \/ DeleteKey(k)
  \/ \E w \in Writers, k \in Keys, ttl \in TTLs : BeginSet(w, k, ttl)
  \/ \E w \in Writers : EndSet(w)
  \/ PurgeAll
  \/ Tick

Spec == Init /\ [][Next]_vars

-----------------------------------------------------------------------------
(* Properties.                                                             *)

\* List, map and "Entries: Current number of items in the cache" describe the
\* same cache: every cached key is in the list exactly once, so every entry can
\* be evicted and none is unreachable.
ListMatchesMap ==
  /\ IsInjective(lruList)
  /\ Range(lruList) = Cached
  /\ stats.entries = Cardinality(Cached)

\* The cache never holds more than its capacity.
WithinCapacity == Cardinality(Cached) <= Capacity
=============================================================================
