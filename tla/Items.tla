-------------------------------- MODULE Items --------------------------------
(***************************************************************************)
(* The example upstream (module ItemStore) behind the proxy's response     *)
(* cache (module LRUCache).  The upstream marks every answer "public,      *)
(* max-age=10, s-maxage=10", whatever the method, and the proxy caches any *)
(* method, so reads and writes alike may be answered from the cache.       *)
(* There is one upstream, with the cache on, and no request asks for       *)
(* no-cache; queue, balancer and failures of the connection are those of   *)
(* module ReverseProxy and left out here.                                  *)
(***************************************************************************)
EXTENDS ItemStore, Sequences

CONSTANTS MaxAge,       \* s-maxage of every answer
          MaxEntries,   \* capacity of the cache
          MaxTime       \* bound on the clock

ASSUME MaxAgeAssumption == MaxAge \in Nat \ {0}

VARIABLES
  pc,         \* pc[r]: where the proxy stands with request r
  answer,     \* answer[r]: what the client got: X-Cache and whose answer it is
  storedAt,   \* history, storedAt[r]: when cache.Set took the answer to r
  readAt,     \* history, readAt[r]: number of writes when r was handled
  lruList, items, stats, now, setting   \* the cache

cacheVars == <<lruList, items, stats, now, setting>>
vars == <<upstreamVars, pc, answer, storedAt, readAt, cacheVars>>

\* Mutant: the body is not part of the key.
keyWithoutBody(o) == [o EXCEPT !.body = "none"]

\* Method, URL and body hash.
cacheKey(o) == o

Cache == INSTANCE LRUCache
           WITH Keys <- Operations, Writers <- Requests, DefaultTTL <- 60,
                TTLs <- {MaxAge}

CacheableStatus == {200, 203, 204, 300, 301, 404, 410}

Init ==
  /\ StoreInit
  /\ pc = [r \in Requests |-> "arriving"]
  /\ answer = [r \in Requests |-> <<>>]
  /\ storedAt = [r \in Requests |-> 0]
  /\ readAt = [r \in Requests |-> 0]
  /\ Cache!Init

Goto(r, from, to) ==
  /\ pc[r] = from
  /\ pc' = [pc EXCEPT ![r] = to]

\* The client of r gets the upstream's answer to q.
Answer(r, xCache, q) == answer' = [answer EXCEPT ![r] = [cache |-> xCache, of |-> q]]

\* Mutant: a stale entry is served too.
HitStale(r) ==
  /\ Goto(r, "arriving", "done")
  /\ Cache!GetHit(cacheKey(op[r])) \/ Cache!GetStale(cacheKey(op[r]))
  /\ Answer(r, "HIT", items[cacheKey(op[r])].resp)
  /\ UNCHANGED <<upstreamVars, storedAt, readAt, now, setting>>

\* cache.Get finds a fresh entry.
Hit(r) ==
  /\ Goto(r, "arriving", "done")
  /\ Cache!GetHit(cacheKey(op[r]))
  /\ Answer(r, "HIT", items[cacheKey(op[r])].resp)
  /\ UNCHANGED <<upstreamVars, storedAt, readAt, now, setting>>

\* It does not, and the request goes upstream.
Miss(r) ==
  /\ Goto(r, "arriving", "upstream")
  /\ Cache!GetStale(cacheKey(op[r])) \/ Cache!GetMiss(cacheKey(op[r]))
  /\ UNCHANGED <<upstreamVars, answer, storedAt, readAt, now, setting>>

\* The upstream's steps for r.
AtUpstream(r) ==
  /\ pc[r] = "upstream"
  /\ Enter(r) \/ Handle(r) \/ Leave(r)
  /\ readAt' = [readAt EXCEPT ![r] = IF stage[r] = "inside" THEN writes' ELSE @]
  /\ UNCHANGED <<pc, answer, storedAt, cacheVars>>

\* The answer is relayed, as a MISS if it will be stored.
Relay(r) ==
  LET store == reply[r].status \in CacheableStatus
  IN /\ stage[r] = "left"
     /\ Goto(r, "upstream", IF store THEN "caching" ELSE "done")
     /\ Answer(r, IF store THEN "MISS" ELSE "BYPASS", r)
     /\ UNCHANGED <<upstreamVars, storedAt, readAt, cacheVars>>

\* cache.Set: the expiry is computed, then the entry is stored.
BeginStore(r) ==
  /\ pc[r] = "caching"
  /\ Cache!BeginSet(r, cacheKey(op[r]), MaxAge)
  /\ storedAt' = [storedAt EXCEPT ![r] = now]
  /\ UNCHANGED <<upstreamVars, pc, answer, readAt>>

EndStore(r) ==
  /\ Goto(r, "caching", "done")
  /\ Cache!EndSet(r)
  /\ UNCHANGED <<upstreamVars, answer, storedAt, readAt>>

Tick == Cache!Tick /\ UNCHANGED <<upstreamVars, pc, answer, storedAt, readAt>>

Steps(r) ==
  \/ Hit(r) \/ Miss(r) \/ AtUpstream(r) \/ Relay(r) \/ BeginStore(r) \/ EndStore(r)

AllAnswered == (\A r \in Requests : pc[r] = "done") /\ UNCHANGED vars

Next == (\E r \in Requests : Steps(r)) \/ Tick \/ AllAnswered

Spec == Init /\ [][Next]_vars

-----------------------------------------------------------------------------
(* Properties.                                                             *)

Answered(r) == answer[r] # <<>>
StatusOf(r) == reply[answer[r].of].status

\* What a read would be answered by the store as it is.
Current(o) ==
  CASE o.path = "items" -> [status |-> 200, body |-> data]
    [] o.path = "item" /\ o.id \in DOMAIN data ->
         [status |-> 200, body |-> Restrict(data, {o.id})]
    [] OTHER -> [status |-> 404, body |-> None]

\* A read answered from the cache is what the store held when the answer was
\* made: it differs from the store only if the store changed since, and only
\* for the lifetime that began when the answer was cached.  This bounds the
\* damage when two misses overtake each other and the older answer replaces
\* the newer one.
HitReflectsStore ==
  [][\A r \in Requests : (Hit(r) /\ op[r].method = "GET") =>
       LET p == answer'[r].of
       IN /\ now <= storedAt[p] + MaxAge
          /\ readAt[p] = writes => reply[p] = Current(op[r])]_vars

\* Every creation that is acknowledged happened, for this request alone, and
\* got an id that no other item had before, deleted ones included.
CreatesExact ==
  \A r \in Requests :
    (Answered(r) /\ op[r].method = "POST" /\ StatusOf(r) = 201) =>
      /\ answer[r].of = r
      /\ DOMAIN reply[r].body \cap {1, 2} = {}
      /\ \A q \in Requests \ {r} :
           (stage[q] = "left" /\ reply[q].status = 201) =>
             DOMAIN reply[q].body \cap DOMAIN reply[r].body = {}

\* The body of p has a name, and the handler of p gets it as it was sent.
NamesInFull(p) == op[p].body = "named" \/ (op[p].body = "long" /\ p \in Scrapes)

\* An update or a deletion that is acknowledged was carried out: if not for
\* this request, then for one with the same method, URL and body, whose client
\* got the acknowledgement as a MISS.  The update is the one that was sent,
\* unless its body is longer than the middleware replays in full; then it is
\* the one that was sent if the request that made it was taken for a scrape,
\* whose body the middleware leaves alone.  A deletion
\* is carried out once: the upstream tells every other request for it that
\* there is no such item.
\* (Nothing says that an acknowledged update is still there: an update
\* answered from the cache does not undo another one made in between.)
AckedWritesApplied ==
  \A r \in Requests :
    (Answered(r) /\ op[r].method \in {"PUT", "DELETE"} /\ StatusOf(r) < 400) =>
      LET p == answer[r].of
      IN /\ op[p] = op[r]
         /\ answer[p] = [cache |-> "MISS", of |-> p]
         /\ op[r].method = "PUT" =>
              /\ reply[p].body[op[r].id].value = p
              /\ NamesInFull(p) => reply[p].body[op[r].id].name = p
         /\ op[r].method = "DELETE" =>
              \A q \in Requests \ {p} :
                (op[q] = op[p] /\ stage[q] = "left") => reply[q].status = 404

\* The upstream's own metrics agree with what happened to the requests that
\* are not taken for scrapes (isMetricsScrape), and never count another: the
\* gauge counts the ones inside on every path, and each is observed once, with
\* the status it was answered with.  A client that names itself Prometheus
\* changes the store and shows in no metric.
UpstreamMetricsExact ==
  LET Seen == Requests \ Scrapes
  IN /\ upInflight = Cardinality({r \in Seen : stage[r] \in {"inside", "handled"}})
     /\ \A s \in Statuses :
          upRequestsTotal[s] =
            Cardinality({r \in Seen : stage[r] = "left" /\ reply[r].status = s})
=============================================================================
