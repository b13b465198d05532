---------------------------- MODULE ReverseProxy ----------------------------
(***************************************************************************)
(* internal/proxy/proxy.go: ServeHTTP and serveUpstream, with the cache of *)
(* module LRUCache and the admission queue as its abstract specification   *)
(* Admission.  The balancer is any balancer: a pick returns some target or *)
(* none, and two picks need not agree (RoundRobin and LeastConnections     *)
(* model the two real ones).                                               *)
(*                                                                         *)
(* A request is a health check, a request with a method that is not        *)
(* allowed, or a proxied one, whose client directives do or do not let the *)
(* cache take part.  The status of an upstream answer is "origin", its     *)
(* body the name of the request it answers; its status and directives make *)
(* it cacheable with some TTL or not (module CachePolicy).  It may say in  *)
(* X-Upstream what the upstream calls itself.                              *)
(*                                                                         *)
(* The URL of a request is a record: site is its method and Host, raw the  *)
(* path as the client wrote it, path what that decodes to, and suffix the  *)
(* text that query, Accept and Accept-Encoding add to the cache key.  Path *)
(* and suffix are sequences of pieces of text.                             *)
(***************************************************************************)
EXTENDS CacheLifetime, Sequences, FiniteSets

CONSTANTS Requests,      \* requests of all clients
          Arrivals,      \* what they may be: kind, URL, body and X-Request-ID
          Urls,          \* the URLs they may have
          Bodies,        \* the bodies they may have
          Targets,       \* configured upstream targets
          Shape,         \* Shape[t]: scheme and base path of target t
          XUpstream,     \* values of X-Upstream in upstream answers
          QueueCap,      \* the queue's limits
          SlotCap,
          MaxEntries, TTLs, MaxTime   \* the cache's, with DefaultTTL

NoTarget == "no target"   \* the nil URL
NoID == "no id"           \* no X-Request-ID
NoBody == "no body"       \* an empty body
NoName == ""              \* no X-Upstream, or a blank one

Kinds == {"healthz", "badMethod", "cacheable", "uncacheable"}

ASSUME ProxyAssumption ==
  /\ IsFiniteSet(Requests)
  /\ \A a \in Arrivals, r \in Requests :
       /\ a[r].kind \in Kinds /\ a[r].named \in BOOLEAN
       /\ a[r].url \in Urls /\ a[r].body \in Bodies
  /\ NoTarget \notin Targets
  /\ NoID \notin Requests
  /\ DOMAIN Shape = Targets
  /\ NoBody \in Bodies
  /\ NoName \in XUpstream
  /\ SlotCap \in Nat \ {0}

ASSUME ProxyCacheAssumption ==
  MaxEntries \in Int /\ TTLs \subseteq Int /\ MaxTime \in Nat

VARIABLES
  cacheOn,    \* the proxy uses its cache
  arrival,    \* arrival[r]: kind, url, body, and whether the client named it
  pc,         \* pc[r]: where ServeHTTP and serveUpstream of r stand
  key,        \* key[r]: the cache key stashed in its context
  target,     \* target[r]: selectedTarget, of the preview and then of the pick
  answer,     \* answer[r]: status, body, X-Cache, X-Request-ID and X-Upstream
  observed,   \* observed[r]: status and cache label ObserveProxyResponse got
  upObserved, \* upObserved[r]: label and status of the upstream observation
  inflight,   \* inflight[t]: the gauge proxy_upstream_inflight
  gone,       \* requests whose client went away
  phase,      \* the admission queue
  lruList, items, stats, now, setting   \* the cache

context == <<cacheOn, arrival, key, target>>
metrics == <<observed, upObserved, inflight>>
cacheVars == <<lruList, items, stats, now, setting>>
vars == <<context, pc, answer, metrics, gone, phase, cacheVars>>

Unanswered ==
  [status |-> "none", cache |-> "", body |-> "", id |-> NoID, upstream |-> NoName]
Unobserved == <<>>

\* Two things make up a path: the base path of the target, which directRequest
\* puts in front, and the client's path as URL.Path has it, decoded.
upstreamPath(u, t) == IF t = NoTarget THEN u.path ELSE Shape[t].base \o u.path

\* buildCacheKey of a request for u redirected to t, with the client's host put
\* back and the hash of the body added.  From the path on, the key is one text:
\* requests for different URLs may have the same key.
CacheKey(u, t, body) ==
  <<u.site,
    IF t = NoTarget THEN "no scheme" ELSE Shape[t].scheme,
    upstreamPath(u, t) \o u.suffix \o (IF body = NoBody THEN <<>> ELSE <<body>>)>>

CacheKeys ==
  {CacheKey(u, t, body) : u \in Urls, t \in Targets \cup {NoTarget}, body \in Bodies}

Queue == INSTANCE Admission
Cache == INSTANCE LRUCache WITH Keys <- CacheKeys, Writers <- Requests

Init ==
  /\ cacheOn \in BOOLEAN
  /\ arrival \in Arrivals
  /\ pc = [r \in Requests |-> "arriving"]
  /\ key = [r \in Requests |-> <<>>]
  /\ target = [r \in Requests |-> NoTarget]
  /\ answer = [r \in Requests |-> Unanswered]
  /\ observed = [r \in Requests |-> Unobserved]
  /\ upObserved = [r \in Requests |-> Unobserved]
  /\ inflight = [t \in Targets |-> 0]
  /\ gone = {}
  /\ Queue!Init
  /\ Cache!Init

Goto(r, from, to) ==
  /\ pc[r] = from
  /\ pc' = [pc EXCEPT ![r] = to]

\* Request ids: generated ones are unique, so an id is the request it names.
getRequestID(r) == IF arrival[r].named THEN r ELSE NoID
ensureRequestID(r) == r

Respond(r, status, cache, body, id, name) ==
  answer' = [answer EXCEPT ![r] =
               [status |-> status, cache |-> cache, body |-> body, id |-> id,
                upstream |-> name]]

\* A status of the proxy's own, with X-Cache or X-Upstream never set.
Error(r, status, id) == Respond(r, status, "", "error", id, NoName)

\* The metrics.
normCacheLabel(cache) == IF cache = "" THEN "BYPASS" ELSE cache

ObserveProxyResponse(r, status, cache) ==
  observed' = [observed EXCEPT ![r] = <<status, normCacheLabel(cache)>>]

ObserveProxyUpstreamResponse(r, label, status) ==
  upObserved' = [upObserved EXCEPT ![r] = <<label, status>>]

\* What the upstream calls itself, or else the target's host.
upstreamLabel(r, name) == IF name = NoName THEN target[r] ELSE name

IncProxyUpstreamInflight(t) == inflight' = [inflight EXCEPT ![t] = @ + 1]
DecProxyUpstreamInflight(t) == inflight' = [inflight EXCEPT ![t] = @ - 1]

-----------------------------------------------------------------------------
(* ServeHTTP.                                                              *)

\* /healthz bypasses everything, the metrics included.
Healthz(r) ==
  /\ arrival[r].kind = "healthz"
  /\ Goto(r, "arriving", "done")
  /\ Respond(r, "200", "", "ok", getRequestID(r), NoName)
  /\ UNCHANGED <<context, metrics, gone, phase, cacheVars>>

MethodNotAllowed(r) ==
  /\ arrival[r].kind = "badMethod"
  /\ Goto(r, "arriving", "done")
  /\ ObserveProxyResponse(r, "405", "BYPASS")
  /\ Error(r, "405", getRequestID(r))
  /\ UNCHANGED <<context, upObserved, inflight, gone, phase, cacheVars>>

\* Pick(true).
Preview(r, t) ==
  /\ arrival[r].kind \in {"cacheable", "uncacheable"}
  /\ Goto(r, "arriving", IF cacheOn THEN "buffering" ELSE "pick")
  /\ target' = [target EXCEPT ![r] = t]
  /\ UNCHANGED <<cacheOn, arrival, key, answer, metrics, gone, phase, cacheVars>>

\* With the body in the buffer, the key if the cache may take part.
Keyed(r, body) ==
  LET cacheable == arrival[r].kind = "cacheable"
  IN /\ Goto(r, "buffering", IF cacheable THEN "lookup" ELSE "pick")
     /\ key' = [key EXCEPT ![r] =
                  IF cacheable THEN CacheKey(arrival[r].url, target[r], body) ELSE @]
     /\ UNCHANGED <<cacheOn, arrival, target, answer, metrics, gone, phase, cacheVars>>

\* The whole body is read and hashed.
BufferBody(r) == Keyed(r, arrival[r].body)

\* Reading fails: the request goes on, with what is left of its body and as if
\* it had none for the key.
BufferBodyFails(r) == arrival[r].body # NoBody /\ Keyed(r, NoBody)

\* Mutant: the answer carries the id of the request it is sent to.
HitRenamed(r) ==
  /\ Goto(r, "lookup", "done")
  /\ Cache!GetHit(key[r])
  /\ LET producer == items[key[r]].resp
     IN Respond(r, "origin", "HIT", producer, ensureRequestID(r), answer[producer].upstream)
  /\ ObserveProxyResponse(r, "origin", "HIT")
  /\ UNCHANGED <<context, upObserved, inflight, gone, phase, now, setting>>

\* cache.Get finds a fresh entry, which is the answer, with the id of the
\* request that produced it and the headers that were sent to it.
Hit(r) ==
  /\ Goto(r, "lookup", "done")
  /\ Cache!GetHit(key[r])
  /\ LET producer == items[key[r]].resp
     IN Respond(r, "origin", "HIT", producer, ensureRequestID(producer),
                answer[producer].upstream)
  /\ ObserveProxyResponse(r, "origin", "HIT")
  /\ UNCHANGED <<context, upObserved, inflight, gone, phase, now, setting>>

Miss(r) ==
  /\ Goto(r, "lookup", "pick")
  /\ Cache!GetStale(key[r]) \/ Cache!GetMiss(key[r])
  /\ UNCHANGED <<context, answer, metrics, gone, phase, now, setting>>

\* Pick(false) finds no healthy target.
NoHealthyTarget(r) ==
  /\ Goto(r, "pick", "done")
  /\ target' = [target EXCEPT ![r] = NoTarget]
  /\ ObserveProxyResponse(r, "503", "BYPASS")
  /\ Error(r, "503", getRequestID(r))
  /\ UNCHANGED <<cacheOn, arrival, key, upObserved, inflight, gone, phase, cacheVars>>

\* Pick(false) returns t, and the handler (the queue) takes over.
Pick(r, t) ==
  /\ Goto(r, "pick", "admission")
  /\ target' = [target EXCEPT ![r] = t]
  /\ UNCHANGED <<cacheOn, arrival, key, answer, metrics, gone, phase, cacheVars>>

-----------------------------------------------------------------------------
(* The queue around serveUpstream.  The answer already has the id.         *)

Admitted(r) ==
  /\ Goto(r, "admission", "queued")
  /\ Queue!Admit(r)
  /\ UNCHANGED <<context, answer, metrics, gone, cacheVars>>

QueueFull(r) ==
  /\ Goto(r, "admission", "done")
  /\ Queue!Refuse(r)
  /\ Error(r, "429", ensureRequestID(r))
  /\ UNCHANGED <<context, metrics, gone, cacheVars>>

\* Mutant: only a client's departure ends the wait.
QueueExpiredIfGone(r) ==
  /\ r \in gone
  /\ Goto(r, "queued", "done")
  /\ Queue!Expire(r)
  /\ Error(r, "503", ensureRequestID(r))
  /\ UNCHANGED <<context, metrics, gone, cacheVars>>

QueueExpired(r) ==
  /\ Goto(r, "queued", "done")
  /\ Queue!Expire(r)
  /\ Error(r, "503", ensureRequestID(r))
  /\ UNCHANGED <<context, metrics, gone, cacheVars>>

-----------------------------------------------------------------------------
(* serveUpstream.                                                          *)

\* A slot is granted: Acquire, count the request in flight, send it.
Forward(r) ==
  /\ Goto(r, "queued", "upstream")
  /\ Queue!Start(r)
  /\ IncProxyUpstreamInflight(target[r])
  /\ UNCHANGED <<context, answer, observed, upObserved, gone, cacheVars>>

\* RoundTrip fails: the status that is observed looks at the context now.
RoundTripFails(r) ==
  LET statusCode == IF r \in gone THEN "408" ELSE "502"
  IN /\ Goto(r, "upstream", "failing")
     /\ ObserveProxyUpstreamResponse(r, target[r], statusCode)
     /\ ObserveProxyResponse(r, statusCode, "BYPASS")
     /\ UNCHANGED <<context, answer, inflight, gone, phase, cacheVars>>

\* The status that is written looks at it again.
WriteError(r) ==
  /\ Goto(r, "failing", "leaving")
  /\ Error(r, IF r \in gone THEN "408" ELSE "502", ensureRequestID(r))
  /\ UNCHANGED <<context, metrics, gone, phase, cacheVars>>

RoundTripSucceeds(r) ==
  /\ Goto(r, "upstream", "reading")
  /\ UNCHANGED <<context, answer, metrics, gone, phase, cacheVars>>

\* Mutant: the error path forgets the gauge.
ReadFailsUncounted(r) ==
  /\ Goto(r, "reading", "done")
  /\ Error(r, "502", ensureRequestID(r))
  /\ Queue!Finish(r)
  /\ UNCHANGED <<context, metrics, gone, cacheVars>>

\* Reading the body fails: 502, with no metric.
ReadFails(r) ==
  /\ Goto(r, "reading", "leaving")
  /\ Error(r, "502", ensureRequestID(r))
  /\ UNCHANGED <<context, metrics, gone, phase, cacheVars>>

\* Mutant: the answer is counted for the target's host, whatever its name is.
RelayByHost(r, xCacheState, name) ==
  /\ xCacheState = "MISS" => cacheOn /\ arrival[r].kind = "cacheable"
  /\ Goto(r, "reading", IF xCacheState = "MISS" THEN "caching" ELSE "leaving")
  /\ Respond(r, "origin", xCacheState, r, ensureRequestID(r), name)
  /\ ObserveProxyUpstreamResponse(r, target[r], "origin")
  /\ ObserveProxyResponse(r, "origin", xCacheState)
  /\ UNCHANGED <<context, inflight, gone, phase, cacheVars>>

\* The answer is relayed, X-Upstream and all.  isRequestEligibleForCache and
\* isCacheableResponse decide between MISS, which is cached next, and BYPASS,
\* which is not.
Relay(r, xCacheState, name) ==
  /\ xCacheState = "MISS" => cacheOn /\ arrival[r].kind = "cacheable"
  /\ Goto(r, "reading", IF xCacheState = "MISS" THEN "caching" ELSE "leaving")
  /\ Respond(r, "origin", xCacheState, r, ensureRequestID(r), name)
  /\ ObserveProxyUpstreamResponse(r, upstreamLabel(r, name), "origin")
  /\ ObserveProxyResponse(r, "origin", xCacheState)
  /\ UNCHANGED <<context, inflight, gone, phase, cacheVars>>

\* cache.Set reads the clock, then stores under the mutex.  The key is the one
\* of the context: a request that may be cached has one, so that the key built
\* without the body in its stead is never needed.
BeginStore(r, ttl) ==
  /\ pc[r] = "caching"
  /\ Cache!BeginSet(r, key[r], ttl)
  /\ UNCHANGED <<context, pc, answer, metrics, gone, phase>>

EndStore(r) ==
  /\ Goto(r, "caching", "leaving")
  /\ Cache!EndSet(r)
  /\ UNCHANGED <<context, answer, metrics, gone, phase>>

\* The deferred calls: the gauge, the release function, the slot.
Leave(r) ==
  /\ Goto(r, "leaving", "done")
  /\ DecProxyUpstreamInflight(target[r])
  /\ Queue!Finish(r)
  /\ UNCHANGED <<context, answer, observed, upObserved, gone, cacheVars>>

-----------------------------------------------------------------------------
\* The client disconnects; in the queue, this is one more way to expire.
ClientCancels(r) ==
  /\ pc[r] \in {"upstream", "failing"}
  /\ r \notin gone
  /\ gone' = gone \cup {r}
  /\ UNCHANGED <<context, pc, answer, metrics, phase, cacheVars>>

\* The clock matters to what is cached, or about to be.
Tick ==
  /\ Cache!Cached # {} \/ \E r \in Requests : setting[r] \notin {Cache!Idle, Cache!Done}
  /\ Cache!Tick
  /\ UNCHANGED <<context, pc, answer, metrics, gone, phase>>

\* Steps of the proxy's own goroutine for r.
Proxy(r) ==
  \/ Healthz(r) \/ MethodNotAllowed(r)
  \/ \E t \in Targets \cup {NoTarget} : Preview(r, t)
  \/ Hit(r) \/ Miss(r)
  \/ NoHealthyTarget(r)
  \/ \E t \in Targets : Pick(r, t)
  \/ Admitted(r) \/ QueueFull(r) \/ QueueExpired(r) \/ Forward(r)
  \/ WriteError(r)
  \/ \E ttl \in TTLs : BeginStore(r, ttl)
  \/ EndStore(r)
  \/ Leave(r)

\* Steps that wait for the client's body.
Client(r) == BufferBody(r) \/ BufferBodyFails(r) \/ ClientCancels(r)

\* Steps that wait for the upstream.
Upstream(r) ==
  \/ RoundTripFails(r) \/ RoundTripSucceeds(r)
  \/ ReadFails(r)
  \/ \E xCacheState \in {"MISS", "BYPASS"}, name \in XUpstream :
       Relay(r, xCacheState, name)

AllAnswered == (\A r \in Requests : pc[r] = "done") /\ UNCHANGED vars

Next ==
  \/ \E r \in Requests : Proxy(r) \/ Upstream(r) \/ Client(r)
  \/ Tick
  \/ AllAnswered

Spec == Init /\ [][Next]_vars

\* The proxy's goroutines run and the queue's timers fire.  Upstreams may hang,
\* for the transport has no response timeout, and so may clients in the middle
\* of a body, for a plain HTTP server has no read timeout.
FairSpec == Spec /\ \A r \in Requests : WF_vars(Proxy(r))

-----------------------------------------------------------------------------
(* Properties.                                                             *)

AtUpstream(t) ==
  {r \in Requests : /\ target[r] = t
                    /\ pc[r] \in {"upstream", "failing", "reading", "caching",
                                  "leaving"}}

\* A HIT is an answer some upstream really gave, relayed in full as a MISS to
\* another request that allowed caching and had the same key, and carries that
\* request's id and X-Upstream: no error and no truncated answer is served from
\* the cache, nor one that was made for a request with no-store, with another
\* method or for another host.  (It may be the answer to another URL: the key
\* does not tell apart paths that decode alike, nor a base path from a client's
\* path, nor a body that could not be read from none.)
HitProvenance ==
  \A r \in Requests : answer[r].cache = "HIT" =>
    \E q \in Requests \ {r} :
      /\ answer[r] = [answer[q] EXCEPT !.cache = "HIT"]
      /\ answer[q].status = "origin" /\ answer[q].cache = "MISS"
      /\ answer[q].body = q /\ answer[q].id = q
      /\ arrival[q].kind = "cacheable"
      /\ arrival[q].url.site = arrival[r].url.site
      /\ key[q] = key[r]

\* The in-flight gauge of a target counts the requests upstream there on every
\* path out of serveUpstream, so it returns to zero (README.md: "in-flight");
\* and all targets together never see more requests than the queue's
\* concurrency limit, whatever the cache and the balancer do.
InflightAccounting ==
  /\ \A t \in Targets : inflight[t] = Cardinality(AtUpstream(t))
  /\ Cardinality(UNION {AtUpstream(t) : t \in Targets}) <= SlotCap

\* The client left when the failed round trip had been counted as a 502 and
\* before the status was written.
LeftInBetween(r) ==
  r \in gone /\ observed[r] = <<"502", "BYPASS">> /\ answer[r].status = "408"

\* The metrics are right whenever they are fed: status and cache label counted
\* are those written, but for a client that leaves between the two looks at the
\* context, and then they are a 502 for a 408.  What is counted for an upstream
\* is the request that went upstream, with the same status, under the name the
\* answer gives the upstream in X-Upstream; under the target's host if it gives
\* none, and always for a failure: one upstream may have two labels.  (The
\* queue's answers and a failed read are not counted.)
ObservedIsSent ==
  \A r \in Requests : (pc[r] = "done" /\ observed[r] # Unobserved) =>
    /\ \/ observed[r] = <<answer[r].status, normCacheLabel(answer[r].cache)>>
       \/ LeftInBetween(r)
    /\ (upObserved[r] # Unobserved) <=> phase[r] = "served"
    /\ upObserved[r] # Unobserved =>
         upObserved[r] = <<upstreamLabel(r, answer[r].upstream), observed[r][1]>>

\* With clients that may stop in the middle of a body and upstreams that may
\* hang, both for ever, every request, whether the cache takes part or not, ends
\* up answered and gone or waits for its own client or upstream: nobody hangs
\* because somebody else does, and a failed or relayed round trip is always
\* brought to its end.
AnsweredOrUpstream ==
  \A r \in Requests :
    []<>(pc[r] \in {"buffering", "upstream", "reading", "done"})
=============================================================================
