---------------------------- MODULE ResponseMap ----------------------------
(***************************************************************************)
(* What the cache promises to the proxy, with no list, no order of use and *)
(* no mutex: a map of at most Room responses.  A lookup is a hit only if   *)
(* it finds a fresh response.  A Set is one step; it counts the lifetime   *)
(* of the response from when it was called, puts the response under its    *)
(* key and, if the map is full, costs one other entry.  Nothing else is    *)
(* lost but by Delete and Purge, and what a key holds is never changed but *)
(* by a Set of that key.  LRUCache implements this specification.          *)
(***************************************************************************)
EXTENDS CacheLifetime, FiniteSets, Functions

CONSTANTS Keys,      \* cache keys
          Writers,   \* goroutines that call Set, naming the responses
          TTLs,      \* ttl arguments of Set
          Room       \* how many responses the map has room for

VARIABLES held,           \* held[k]: the response under key k and its expiry
          hits, misses,   \* CacheStats: lookups that found, and did not find
          now             \* the clock

vars == <<held, hits, misses, now>>

Held == DOMAIN held

Init == held = [k \in {} |-> {}] /\ hits = 0 /\ misses = 0 /\ now = 0

\* A stale response is found and is neither a hit nor a miss: no step.
Hit(k) ==
  /\ k \in Held /\ now <= held[k].expiresAt
  /\ hits' = hits + 1
  /\ UNCHANGED <<held, misses, now>>

Miss(k) ==
  /\ k \notin Held
  /\ misses' = misses + 1
  /\ UNCHANGED <<held, hits, now>>

With(k, entry) == [j \in Held \cup {k} |-> IF j = k THEN entry ELSE held[j]]

\* Set, called at time called, with room for the response or without.
Set(k, w, ttl, called) ==
  LET new == With(k, [resp |-> w, expiresAt |-> called + SetTTL(ttl)])
  IN /\ \/ /\ k \in Held \/ Cardinality(Held) < Room
           /\ held' = new
        \/ /\ k \notin Held /\ Cardinality(Held) = Room
           /\ \E victim \in Held : held' = Restrict(new, DOMAIN new \ {victim})
     /\ UNCHANGED <<hits, misses, now>>

Delete(k) ==
  /\ k \in Held
  /\ held' = Restrict(held, Held \ {k})
  /\ UNCHANGED <<hits, misses, now>>

Purge == held' = [k \in {} |-> {}] /\ UNCHANGED <<hits, misses, now>>

Tick == now' = now + 1 /\ UNCHANGED <<held, hits, misses>>

Next ==
  \/ \E k \in Keys : Hit(k) \/ Miss(k) \/ Delete(k)
  \/ \E k \in Keys, w \in Writers, ttl \in TTLs, called \in 0..now :
       Set(k, w, ttl, called)
  \/ Purge
  \/ Tick

Spec == Init /\ [][Next]_vars
=============================================================================
