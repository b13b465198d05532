------------------------- MODULE ReverseProxyProofs -------------------------
(***************************************************************************)
(* Proofs about ReverseProxy for every finite set of requests, any targets *)
(* and URLs, every size of the queue and of the cache, and a balancer that *)
(* may pick anything.                                                      *)
(***************************************************************************)
EXTENDS ReverseProxy, FiniteSetTheorems, TLAPS

-----------------------------------------------------------------------------
(* The inductive invariant.                                                *)

\* Before the queue, behind it, and upstream.
Before == {"arriving", "buffering", "lookup", "pick", "admission"}
Upstreams == {"upstream", "failing", "reading", "caching", "leaving"}
Locations == Before \cup {"queued", "done"} \cup Upstreams

Statuses == {"none", "200", "405", "408", "429", "502", "503", "origin"}
Answers ==
  [status : Statuses, cache : {"", "HIT", "MISS", "BYPASS"},
   body : Requests \cup {"", "ok", "error"}, id : Requests \cup {NoID},
   upstream : XUpstream]
UpstreamLabels == Targets \cup {NoTarget} \cup XUpstream

TypeOK ==
  /\ cacheOn \in BOOLEAN
  /\ arrival \in Arrivals
  /\ pc \in [Requests -> Locations]
  /\ key \in [Requests -> CacheKeys \cup {<<>>}]
  /\ target \in [Requests -> Targets \cup {NoTarget}]
  /\ answer \in [Requests -> Answers]
  /\ observed \in [Requests -> {Unobserved} \cup (Statuses \X {"HIT", "MISS", "BYPASS"})]
  /\ upObserved \in [Requests -> {Unobserved} \cup (UpstreamLabels \X Statuses)]
  /\ inflight \in [Targets -> Int]
  /\ gone \subseteq Requests
  /\ phase \in [Requests -> Queue!Phases]
  /\ DOMAIN setting = Requests

\* Where a request stands with the queue, and whether it has a target.
Placed(r) ==
  /\ pc[r] \in Before => phase[r] = "outside"
  /\ pc[r] = "queued" <=> phase[r] = "queued"
  /\ pc[r] \in Upstreams <=> phase[r] = "running"
  /\ pc[r] \in {"admission", "queued"} \cup Upstreams => target[r] \in Targets

\* What a request has been sent and what was counted for it, on the way.
Untold(r) ==
  answer[r] = Unanswered /\ observed[r] = Unobserved /\ upObserved[r] = Unobserved

\* The cache key of a request is for its own method and host.
OwnKey(r) == key[r] \in CacheKeys /\ key[r][1] = arrival[r].url.site

\* The relayed answer that may enter the cache.
Missed(r) ==
  /\ answer[r] = [status |-> "origin", cache |-> "MISS", body |-> r, id |-> r,
                   upstream |-> answer[r].upstream]
  /\ arrival[r].kind = "cacheable"
  /\ OwnKey(r)

\* Both metrics were fed with the answer, or neither was.
Counted(r) ==
  /\ observed[r] = Unobserved <=> upObserved[r] = Unobserved
  /\ observed[r] # Unobserved =>
       /\ upObserved[r] = <<upstreamLabel(r, answer[r].upstream), observed[r][1]>>
       /\ \/ observed[r] = <<answer[r].status, normCacheLabel(answer[r].cache)>>
          \/ LeftInBetween(r)

Told(r) ==
  /\ pc[r] \in Before \cup {"queued", "upstream", "reading"} => Untold(r)
  /\ pc[r] = "failing" =>
       /\ answer[r] = Unanswered
       /\ \/ observed[r] = <<"502", "BYPASS">>
          \/ observed[r] = <<"408", "BYPASS">> /\ r \in gone
       /\ upObserved[r] = <<target[r], observed[r][1]>>
  /\ pc[r] = "caching" => Missed(r)
  /\ pc[r] \in {"caching", "leaving"} => Counted(r)
  /\ pc[r] = "buffering" => cacheOn
  /\ pc[r] = "lookup" => arrival[r].kind = "cacheable" /\ cacheOn
  /\ arrival[r].kind = "cacheable" /\ cacheOn /\ pc[r] \notin {"arriving", "buffering"}
       => OwnKey(r)
  /\ setting[r].phase = "storing" =>
       pc[r] = "caching" /\ setting[r].key = key[r] /\ setting[r].entry.resp = r

\* Every cached response was relayed as a MISS by the request that stored it.
CacheHoldsMisses ==
  \A k \in DOMAIN items :
    LET q == items[k].resp
    IN q \in Requests /\ pc[q] \in {"leaving", "done"} /\ Missed(q) /\ key[q] = k

IInv ==
  /\ TypeOK
  /\ \A r \in Requests : Placed(r) /\ Told(r)
  /\ CacheHoldsMisses
  /\ Cardinality(Queue!In("running")) <= SlotCap
  /\ HitProvenance
  /\ InflightAccounting
  /\ ObservedIsSent

-----------------------------------------------------------------------------
(* A step concerns one request.                                            *)

\* Nothing of request q changes.
Untouched(q) ==
  /\ pc'[q] = pc[q] /\ key'[q] = key[q] /\ target'[q] = target[q]
  /\ answer'[q] = answer[q] /\ observed'[q] = observed[q]
  /\ upObserved'[q] = upObserved[q]
  /\ phase'[q] = phase[q] /\ setting'[q] = setting[q]
  /\ q \in gone' <=> q \in gone

\* What a client makes of its request: a body or none, or its absence.
LEMMA ClientStep ==
  ASSUME TypeOK, NEW r \in Requests, Client(r)
  PROVE  ClientCancels(r) \/ \E body \in Bodies : Keyed(r, body)
  BY ProxyAssumption, Zenon DEF TypeOK, Client, BufferBody, BufferBodyFails

\* Every step of a request leaves the others alone, and nobody is mistaken
\* for somebody else later.
LEMMA OthersUntouched ==
  ASSUME TypeOK, NEW r \in Requests, Proxy(r) \/ Upstream(r) \/ Client(r)
  PROVE  UNCHANGED <<arrival, cacheOn>> /\ \A q \in Requests \ {r} : Untouched(q)
  <1> USE DEF TypeOK, Untouched, context, metrics, cacheVars, Goto, Respond, Error,
              ObserveProxyResponse, ObserveProxyUpstreamResponse
  <1>1. CASE Healthz(r) \/ MethodNotAllowed(r) \/ NoHealthyTarget(r)
    BY <1>1 DEF Healthz, MethodNotAllowed, NoHealthyTarget
  <1>2. ASSUME NEW t, Preview(r, t) \/ Pick(r, t)
        PROVE  UNCHANGED <<arrival, cacheOn>> /\ \A q \in Requests \ {r} : Untouched(q)
    BY <1>2 DEF Preview, Pick
  <1>3. CASE Hit(r) \/ Miss(r)
    BY <1>3 DEF Hit, Miss
  <1>4. CASE Admitted(r) \/ QueueFull(r) \/ QueueExpired(r)
    BY <1>4 DEF Admitted, QueueFull, QueueExpired, Queue!Admit, Queue!Refuse,
                Queue!Expire, Queue!Move
  <1>5. CASE Forward(r) \/ Leave(r)
    BY <1>5 DEF Forward, Leave, Queue!Start, Queue!Finish, Queue!Move,
                IncProxyUpstreamInflight, DecProxyUpstreamInflight
  <1>6. CASE WriteError(r) \/ RoundTripFails(r) \/ RoundTripSucceeds(r) \/ ReadFails(r)
    BY <1>6 DEF WriteError, RoundTripFails, RoundTripSucceeds, ReadFails
  <1>7. ASSUME NEW xCacheState, NEW name, Relay(r, xCacheState, name)
        PROVE  UNCHANGED <<arrival, cacheOn>> /\ \A q \in Requests \ {r} : Untouched(q)
    BY <1>7 DEF Relay
  <1>8. ASSUME NEW ttl, BeginStore(r, ttl)
        PROVE  UNCHANGED <<arrival, cacheOn>> /\ \A q \in Requests \ {r} : Untouched(q)
    BY <1>8 DEF BeginStore, Cache!BeginSet
  <1>9. CASE EndStore(r)
    BY <1>9 DEF EndStore, Cache!EndSet
  <1>10. CASE ClientCancels(r)
    BY <1>10 DEF ClientCancels
  <1>11. ASSUME NEW body \in Bodies, Keyed(r, body)
         PROVE  UNCHANGED <<arrival, cacheOn>> /\ \A q \in Requests \ {r} : Untouched(q)
    BY <1>11 DEF Keyed
  <1> QED
    BY <1>1, <1>2, <1>3, <1>4, <1>5, <1>6, <1>7, <1>8, <1>9, <1>10, <1>11, ClientStep
    DEF Proxy, Upstream

\* A step that leaves a request alone leaves alone what is known of it.
LEMMA UntouchedStays ==
  ASSUME NEW q \in Requests, UNCHANGED <<arrival, cacheOn>>, Untouched(q)
  PROVE  /\ Placed(q) => Placed(q)'
         /\ Told(q) => Told(q)'
         /\ Missed(q) => Missed(q)'
  <1> USE DEF Untouched
  <1>1. Placed(q) => Placed(q)'
    BY DEF Placed
  <1>2. Missed(q)' <=> Missed(q)
    BY DEF Missed, OwnKey
  <1>3. Counted(q)' <=> Counted(q)
    BY DEF Counted, LeftInBetween, upstreamLabel, normCacheLabel
  <1>4. Untold(q)' <=> Untold(q)
    BY DEF Untold
  <1>5. Told(q) => Told(q)'
    BY <1>2, <1>3, <1>4 DEF Told, OwnKey
  <1> QED
    BY <1>1, <1>2, <1>5

\* The two looks at the metrics' tuples.
LEMMA Tuples ==
  \A a, b : <<a, b>> # Unobserved /\ <<a, b>>[1] = a /\ <<a, b>>[2] = b
  BY DEF Unobserved

-----------------------------------------------------------------------------
(* Types.                                                                  *)

\* The key of a request is a cache key, and for its own method and host.
LEMMA CacheKeyType ==
  ASSUME NEW u \in Urls, NEW t \in Targets \cup {NoTarget}, NEW body \in Bodies
  PROVE  CacheKey(u, t, body) \in CacheKeys /\ CacheKey(u, t, body)[1] = u.site
  <1>1. CacheKey(u, t, body) \in CacheKeys
    BY DEF CacheKeys
  <1>2. \E scheme, text : CacheKey(u, t, body) = <<u.site, scheme, text>>
    BY Zenon DEF CacheKey
  <1> QED
    BY <1>1, <1>2

\* The proxy starts well typed.
LEMMA TypeInit == Init => TypeOK
  <1> SUFFICES ASSUME Init PROVE TypeOK
    OBVIOUS
  <1>1. answer \in [Requests -> Answers]
    BY ProxyAssumption DEF Init, Unanswered, Answers, Statuses
  <1>2. pc \in [Requests -> Locations] /\ phase \in [Requests -> Queue!Phases]
    BY DEF Init, Locations, Before, Queue!Init, Queue!Phases
  <1> QED
    BY <1>1, <1>2 DEF Init, TypeOK, Cache!Init

\* Answers have the parts that Respond gives them.
LEMMA RespondType ==
  ASSUME TypeOK, NEW r \in Requests,
         NEW status \in Statuses, NEW cache \in {"", "HIT", "MISS", "BYPASS"},
         NEW body \in Requests \cup {"", "ok", "error"}, NEW id \in Requests \cup {NoID},
         NEW name \in XUpstream, Respond(r, status, cache, body, id, name)
  PROVE  answer' \in [Requests -> Answers]
  BY DEF TypeOK, Respond, Answers

\* So have the proxy's own.
LEMMA ErrorType ==
  ASSUME TypeOK, NEW r \in Requests, NEW status \in Statuses,
         NEW id \in Requests \cup {NoID}, Error(r, status, id)
  PROVE  answer' \in [Requests -> Answers]
  <1>1. NoName \in XUpstream /\ "error" \in Requests \cup {"", "ok", "error"}
    BY ProxyAssumption
  <1> QED
    BY <1>1, RespondType DEF Error

\* Observations have the parts that the metrics give them.
LEMMA ObserveType ==
  ASSUME TypeOK, NEW r \in Requests, NEW status \in Statuses,
         NEW cache \in {"HIT", "MISS", "BYPASS"}, ObserveProxyResponse(r, status, cache)
  PROVE  observed' \in [Requests -> {Unobserved} \cup (Statuses \X {"HIT", "MISS", "BYPASS"})]
  BY DEF TypeOK, ObserveProxyResponse, normCacheLabel

LEMMA UpObserveType ==
  ASSUME TypeOK, NEW r \in Requests, NEW label \in UpstreamLabels,
         NEW status \in Statuses, ObserveProxyUpstreamResponse(r, label, status)
  PROVE  upObserved' \in [Requests -> {Unobserved} \cup (UpstreamLabels \X Statuses)]
  BY DEF TypeOK, ObserveProxyUpstreamResponse

\* Every step of ServeHTTP and serveUpstream keeps the types; the answer of a
\* hit is one that a request produced.
LEMMA TypeNext == TypeOK /\ CacheHoldsMisses /\ [Next]_vars => TypeOK'
  <1> SUFFICES ASSUME TypeOK, CacheHoldsMisses, [Next]_vars PROVE TypeOK'
    OBVIOUS
  <1> USE DEF TypeOK, context, metrics, cacheVars
  <1>1. CASE UNCHANGED vars
    BY <1>1 DEF vars
  <1>2. ASSUME NEW r \in Requests, NEW to \in Locations, NEW from, Goto(r, from, to)
        PROVE  pc' \in [Requests -> Locations]
    BY <1>2 DEF Goto
  <1>3. ASSUME NEW r \in Requests
        PROVE  getRequestID(r) \in Requests \cup {NoID}
    BY DEF getRequestID
  <1>4. ASSUME NEW r \in Requests,
               Healthz(r) \/ MethodNotAllowed(r) \/ NoHealthyTarget(r)
        PROVE  TypeOK'
    <2>1. pc' \in [Requests -> Locations]
      BY <1>2, <1>4 DEF Healthz, MethodNotAllowed, NoHealthyTarget, Locations
    <2>2. answer' \in [Requests -> Answers]
      <3>1. NoName \in XUpstream /\ "ok" \in Requests \cup {"", "ok", "error"}
        BY ProxyAssumption
      <3>2. \/ Respond(r, "200", "", "ok", getRequestID(r), NoName)
            \/ Error(r, "405", getRequestID(r))
            \/ Error(r, "503", getRequestID(r))
        BY <1>4 DEF Healthz, MethodNotAllowed, NoHealthyTarget
      <3>3. "200" \in Statuses /\ "405" \in Statuses /\ "503" \in Statuses
        BY DEF Statuses
      <3> QED
        BY <1>3, <3>1, <3>2, <3>3, RespondType, ErrorType
    <2>3. observed' \in [Requests -> {Unobserved} \cup (Statuses \X {"HIT", "MISS", "BYPASS"})]
      BY <1>4, ObserveType DEF Healthz, MethodNotAllowed, NoHealthyTarget, Statuses
    <2> QED
      BY <1>4, <2>1, <2>2, <2>3 DEF Healthz, MethodNotAllowed, NoHealthyTarget
  <1>5. ASSUME NEW r \in Requests, NEW t \in Targets \cup {NoTarget}, Preview(r, t)
        PROVE  TypeOK'
    <2>1. pc' \in [Requests -> Locations]
      BY <1>5 DEF Preview, Goto, Locations, Before
    <2> QED
      BY <1>5, <2>1 DEF Preview
  <1>6. ASSUME NEW r \in Requests, Hit(r) PROVE TypeOK'
    <2>1. key[r] \in DOMAIN items
      BY <1>6 DEF Hit, Cache!GetHit, Cache!Cached
    <2>2. items[key[r]].resp \in Requests
      BY <2>1 DEF CacheHoldsMisses
    <2>3. answer' \in [Requests -> Answers]
      <3> DEFINE q == items[key[r]].resp
      <3>1. q \in Requests /\ answer[q].upstream \in XUpstream
        BY <2>2 DEF Answers
      <3>2. Respond(r, "origin", "HIT", q, q, answer[q].upstream)
        BY <1>6 DEF Hit, ensureRequestID
      <3>3. "origin" \in Statuses
        BY DEF Statuses
      <3> HIDE DEF q
      <3> QED
        BY <3>1, <3>2, <3>3, RespondType
    <2>4. observed' \in [Requests -> {Unobserved} \cup (Statuses \X {"HIT", "MISS", "BYPASS"})]
      BY <1>6, ObserveType DEF Hit, Statuses
    <2>5. pc' \in [Requests -> Locations]
      BY <1>2, <1>6 DEF Hit, Locations
    <2> QED
      BY <1>6, <2>3, <2>4, <2>5 DEF Hit
  <1>7. ASSUME NEW r \in Requests, Miss(r) PROVE TypeOK'
    BY <1>2, <1>7 DEF Miss, Locations, Before
  <1>8. ASSUME NEW r \in Requests, NEW t \in Targets, Pick(r, t) PROVE TypeOK'
    BY <1>2, <1>8 DEF Pick, Locations, Before
  <1>9. ASSUME NEW r \in Requests, NEW from, NEW to \in Queue!Phases, Queue!Move(r, from, to)
        PROVE  phase' \in [Requests -> Queue!Phases]
    BY <1>9 DEF Queue!Move
  <1>10. ASSUME NEW r \in Requests, Admitted(r) \/ QueueFull(r) \/ QueueExpired(r)
         PROVE  TypeOK'
    <2>1. pc' \in [Requests -> Locations]
      BY <1>2, <1>10 DEF Admitted, QueueFull, QueueExpired, Locations
    <2>2. phase' \in [Requests -> Queue!Phases]
      BY <1>9, <1>10 DEF Admitted, QueueFull, QueueExpired, Queue!Admit, Queue!Refuse,
                         Queue!Expire, Queue!Phases
    <2>3. answer' \in [Requests -> Answers]
      BY <1>10, ErrorType DEF Admitted, QueueFull, QueueExpired, Statuses, ensureRequestID
    <2> QED
      BY <1>10, <2>1, <2>2, <2>3 DEF Admitted, QueueFull, QueueExpired
  <1>11. ASSUME NEW r \in Requests, Forward(r) \/ Leave(r) PROVE TypeOK'
    <2>1. pc' \in [Requests -> Locations]
      BY <1>2, <1>11 DEF Forward, Leave, Locations, Upstreams
    <2>2. phase' \in [Requests -> Queue!Phases]
      BY <1>9, <1>11 DEF Forward, Leave, Queue!Start, Queue!Finish, Queue!Phases
    <2>3. inflight' \in [Targets -> Int]
      BY <1>11 DEF Forward, Leave, IncProxyUpstreamInflight, DecProxyUpstreamInflight
    <2> QED
      BY <1>11, <2>1, <2>2, <2>3 DEF Forward, Leave
  <1>12. ASSUME NEW r \in Requests, RoundTripFails(r) PROVE TypeOK'
    <2> DEFINE statusCode == IF r \in gone THEN "408" ELSE "502"
    <2>1. statusCode \in Statuses
      BY DEF Statuses
    <2>2. /\ ObserveProxyUpstreamResponse(r, target[r], statusCode)
          /\ target[r] \in UpstreamLabels
          /\ ObserveProxyResponse(r, statusCode, "BYPASS")
          /\ pc' \in [Requests -> Locations]
      BY <1>2, <1>12 DEF RoundTripFails, Locations, Upstreams, UpstreamLabels
    <2> HIDE DEF statusCode
    <2> QED
      BY <1>12, <2>1, <2>2, ObserveType, UpObserveType DEF RoundTripFails
  <1>13. ASSUME NEW r \in Requests, WriteError(r) \/ RoundTripSucceeds(r) \/ ReadFails(r)
         PROVE  TypeOK'
    <2>1. pc' \in [Requests -> Locations]
      BY <1>2, <1>13 DEF WriteError, RoundTripSucceeds, ReadFails, Locations, Upstreams
    <2>2. answer' \in [Requests -> Answers]
      <3> DEFINE statusCode == IF r \in gone THEN "408" ELSE "502"
      <3>1. statusCode \in Statuses /\ "502" \in Statuses
        BY DEF Statuses
      <3>2. \/ Error(r, statusCode, r)
            \/ Error(r, "502", r)
            \/ answer' = answer
        BY <1>13 DEF WriteError, RoundTripSucceeds, ReadFails, ensureRequestID
      <3> HIDE DEF statusCode
      <3> QED
        BY <3>1, <3>2, ErrorType
    <2> QED
      BY <1>13, <2>1, <2>2 DEF WriteError, RoundTripSucceeds, ReadFails
  <1>14. ASSUME NEW r \in Requests, NEW x \in {"MISS", "BYPASS"}, NEW name \in XUpstream, Relay(r, x, name) PROVE TypeOK'
    <2>1. pc' \in [Requests -> Locations]
      BY <1>14 DEF Relay, Goto, Locations, Upstreams
    <2>2. answer' \in [Requests -> Answers]
      <3>1. Respond(r, "origin", x, r, r, name)
        BY <1>14 DEF Relay, ensureRequestID
      <3>2. /\ "origin" \in Statuses /\ x \in {"", "HIT", "MISS", "BYPASS"}
            /\ r \in Requests \cup {"", "ok", "error"} /\ r \in Requests \cup {NoID}
        BY DEF Statuses
      <3> QED
        BY <3>1, <3>2 DEF Respond, Answers
    <2>3. /\ observed' \in [Requests -> {Unobserved} \cup (Statuses \X {"HIT", "MISS", "BYPASS"})]
          /\ upObserved' \in [Requests -> {Unobserved} \cup (UpstreamLabels \X Statuses)]
      <3>1. upstreamLabel(r, name) \in UpstreamLabels /\ "origin" \in Statuses
        BY DEF upstreamLabel, UpstreamLabels, Statuses
      <3>2. /\ ObserveProxyUpstreamResponse(r, upstreamLabel(r, name), "origin")
            /\ ObserveProxyResponse(r, "origin", x)
        BY <1>14 DEF Relay
      <3> QED
        BY <3>1, <3>2, ObserveType, UpObserveType
    <2> QED
      BY <1>14, <2>1, <2>2, <2>3 DEF Relay
  <1>15. ASSUME NEW r \in Requests, NEW ttl \in TTLs, BeginStore(r, ttl) PROVE TypeOK'
    BY <1>15 DEF BeginStore, Cache!BeginSet
  <1>16. ASSUME NEW r \in Requests, EndStore(r) PROVE TypeOK'
    BY <1>2, <1>16 DEF EndStore, Cache!EndSet, Locations, Upstreams
  <1>17. ASSUME NEW r \in Requests, ClientCancels(r) PROVE TypeOK'
    BY <1>17 DEF ClientCancels
  <1>18. CASE Tick
    BY <1>18 DEF Tick, Cache!Tick
  <1>19. ASSUME NEW r \in Requests, NEW body \in Bodies, Keyed(r, body) PROVE TypeOK'
    <2>1. arrival[r].url \in Urls
      BY ProxyAssumption
    <2>2. CacheKey(arrival[r].url, target[r], body) \in CacheKeys
      BY <2>1, CacheKeyType
    <2>3. key' \in [Requests -> CacheKeys \cup {<<>>}]
      BY <1>19, <2>2 DEF Keyed
    <2>4. pc' \in [Requests -> Locations]
      BY <1>19 DEF Keyed, Goto, Locations, Before
    <2> QED
      BY <1>19, <2>3, <2>4 DEF Keyed
  <1> QED
    BY <1>1, <1>4, <1>5, <1>6, <1>7, <1>8, <1>10, <1>11, <1>12, <1>13, <1>14, <1>15,
       <1>16, <1>17, <1>18, <1>19, ClientStep DEF Next, Proxy, Upstream, AllAnswered

-----------------------------------------------------------------------------
(* Where a request stands, what it was sent and what was counted for it.   *)

\* A request moves through the queue as it moves through the handler.
LEMMA PlacedNext ==
  ASSUME TypeOK, NEW r \in Requests, Placed(r), Proxy(r) \/ Upstream(r) \/ Client(r)
  PROVE  Placed(r)'
  <1> USE DEF TypeOK, Placed, Before, Upstreams, Goto, context
  <1>1. CASE Healthz(r) \/ MethodNotAllowed(r) \/ NoHealthyTarget(r) \/ Hit(r) \/ Miss(r)
    BY <1>1 DEF Healthz, MethodNotAllowed, NoHealthyTarget, Hit, Miss
  <1>2. ASSUME NEW t \in Targets \cup {NoTarget}, Preview(r, t) PROVE Placed(r)'
    BY <1>2 DEF Preview
  <1>3. ASSUME NEW t \in Targets, Pick(r, t) PROVE Placed(r)'
    BY <1>3 DEF Pick
  <1>4. CASE Admitted(r) \/ QueueFull(r) \/ QueueExpired(r)
    BY <1>4 DEF Admitted, QueueFull, QueueExpired, Queue!Admit, Queue!Refuse,
                Queue!Expire, Queue!Move
  <1>5. CASE Forward(r) \/ Leave(r)
    BY <1>5 DEF Forward, Leave, Queue!Start, Queue!Finish, Queue!Move
  <1>6. CASE WriteError(r) \/ RoundTripFails(r) \/ RoundTripSucceeds(r) \/ ReadFails(r)
    BY <1>6 DEF WriteError, RoundTripFails, RoundTripSucceeds, ReadFails
  <1>7. ASSUME NEW x \in {"MISS", "BYPASS"}, NEW name \in XUpstream, Relay(r, x, name) PROVE Placed(r)'
    BY <1>7 DEF Relay
  <1>8. ASSUME NEW ttl, BeginStore(r, ttl) \/ EndStore(r) \/ ClientCancels(r) PROVE Placed(r)'
    BY <1>8 DEF BeginStore, EndStore, ClientCancels
  <1>9. ASSUME NEW body \in Bodies, Keyed(r, body) PROVE Placed(r)'
    BY <1>9 DEF Keyed
  <1> QED
    BY <1>1, <1>2, <1>3, <1>4, <1>5, <1>6, <1>7, <1>8, <1>9, ClientStep DEF Proxy, Upstream

\* What was sent and what was counted agree along every path.
LEMMA ToldNext ==
  ASSUME TypeOK, NEW r \in Requests, Told(r), Proxy(r) \/ Upstream(r) \/ Client(r)
  PROVE  Told(r)'
  <1> USE DEF TypeOK, Told, OwnKey, Before, Goto, context, metrics, cacheVars
  <1>1. CASE Healthz(r) \/ MethodNotAllowed(r) \/ NoHealthyTarget(r) \/ Hit(r)
    <2>1. /\ pc'[r] = "done" /\ pc[r] \in Before \ {"buffering"}
          /\ UNCHANGED <<arrival, cacheOn, setting>>
          /\ pc[r] = "arriving" => arrival[r].kind # "cacheable"
      BY <1>1 DEF Healthz, MethodNotAllowed, NoHealthyTarget, Hit
    <2>2. key' = key
      BY <1>1 DEF Healthz, MethodNotAllowed, NoHealthyTarget, Hit
    <2> QED
      BY <2>1, <2>2
  <1>2. CASE Miss(r)
    BY <1>2 DEF Miss, Untold
  <1>3. ASSUME NEW t \in Targets \cup {NoTarget}, Preview(r, t) PROVE Told(r)'
    <2>1. Untold(r)'
      BY <1>3 DEF Preview, Untold
    <2> QED
      BY <1>3, <2>1 DEF Preview
  <1>4. ASSUME NEW t \in Targets, Pick(r, t) PROVE Told(r)'
    BY <1>4 DEF Pick, Untold
  <1>5. CASE Admitted(r) \/ Forward(r) \/ RoundTripSucceeds(r)
    BY <1>5 DEF Admitted, Forward, RoundTripSucceeds, Untold
  <1>6. CASE QueueFull(r) \/ QueueExpired(r) \/ Leave(r)
    BY <1>6 DEF QueueFull, QueueExpired, Leave
  <1>7. CASE RoundTripFails(r)
    <2> DEFINE statusCode == IF r \in gone THEN "408" ELSE "502"
    <2>1. /\ observed'[r] = <<statusCode, "BYPASS">>
          /\ upObserved'[r] = <<target[r], statusCode>>
          /\ statusCode = "502" \/ (statusCode = "408" /\ r \in gone)
      BY <1>7 DEF RoundTripFails, ObserveProxyResponse, ObserveProxyUpstreamResponse,
                  normCacheLabel
    <2> HIDE DEF statusCode
    <2>2. observed'[r][1] = statusCode /\ observed'[r] # Unobserved
      BY <2>1, Tuples
    <2>3. /\ answer'[r] = Unanswered /\ pc'[r] = "failing" /\ gone' = gone
          /\ UNCHANGED <<target, key, arrival, cacheOn, setting>>
          /\ pc[r] = "upstream"
      BY <1>7 DEF RoundTripFails, Untold
    <2> QED
      BY <2>1, <2>2, <2>3
  <1>8. CASE WriteError(r)
    <2>1. /\ answer'[r].status = (IF r \in gone THEN "408" ELSE "502")
          /\ answer'[r].cache = "" /\ answer'[r].upstream = NoName
          /\ pc[r] = "failing" /\ pc'[r] = "leaving"
          /\ UNCHANGED <<arrival, cacheOn, key, target, observed, upObserved, gone, setting>>
      BY <1>8 DEF WriteError, Respond, Error
    <2>2. \/ observed[r] = <<answer'[r].status, "BYPASS">>
          \/ LeftInBetween(r)'
      BY <2>1 DEF LeftInBetween
    <2>3. upObserved[r] # Unobserved
      <3>1. upObserved[r] = <<target[r], observed[r][1]>>
        BY <2>1
      <3> QED
        BY <3>1, Tuples
    <2>4. Counted(r)'
      <3>1. observed[r] # Unobserved
        <4>1. \E status : observed[r] = <<status, "BYPASS">>
          BY <2>1
        <4> QED
          BY <4>1, Tuples
      <3>2. upstreamLabel(r, answer[r].upstream)' = target[r]
        BY <2>1 DEF upstreamLabel
      <3>3. normCacheLabel(answer[r].cache)' = "BYPASS"
        BY <2>1 DEF normCacheLabel
      <3> QED
        BY <2>1, <2>2, <2>3, <3>1, <3>2, <3>3 DEF Counted
    <2> QED
      BY <2>1, <2>4
  <1>9. CASE ReadFails(r)
    <2>1. Counted(r)'
      BY <1>9 DEF ReadFails, Counted, Untold
    <2> QED
      BY <1>9, <2>1 DEF ReadFails
  <1>10. ASSUME NEW x \in {"MISS", "BYPASS"}, NEW name \in XUpstream, Relay(r, x, name) PROVE Told(r)'
    <2>1. /\ answer'[r] = [status |-> "origin", cache |-> x, body |-> r, id |-> r,
                            upstream |-> name]
          /\ observed'[r] = <<"origin", x>>
          /\ upObserved'[r] = <<upstreamLabel(r, name), "origin">>
          /\ UNCHANGED <<arrival, cacheOn, key, target, gone, setting>>
          /\ pc[r] = "reading"
      BY <1>10 DEF Relay, Respond, ObserveProxyResponse, ObserveProxyUpstreamResponse,
                   normCacheLabel, ensureRequestID
    <2>2. \/ pc'[r] = "leaving"
          \/ /\ pc'[r] = "caching" /\ x = "MISS"
             /\ arrival[r].kind = "cacheable" /\ cacheOn
      BY <1>10 DEF Relay
    <2>3. Counted(r)'
      <3>1. observed'[r] # Unobserved /\ observed'[r][1] = "origin"
        BY <2>1, Tuples
      <3>2. upObserved'[r] # Unobserved
        BY <2>1, Tuples
      <3>3. answer'[r].status = "origin" /\ normCacheLabel(answer'[r].cache) = x
        <4>1. answer'[r].status = "origin" /\ answer'[r].cache = x
          BY <2>1
        <4>2. x # "" /\ normCacheLabel(x) = x
          BY DEF normCacheLabel
        <4> QED
          BY <4>1, <4>2
      <3>4. normCacheLabel(answer[r].cache)' = normCacheLabel(answer'[r].cache)
        BY DEF normCacheLabel
      <3> QED
        <4>1. answer'[r].upstream = name
          BY <2>1
        <4>2. upstreamLabel(r, answer[r].upstream)' = upstreamLabel(r, name)
          BY <2>1, <4>1 DEF upstreamLabel
        <4> QED
          BY <2>1, <3>1, <3>2, <3>3, <3>4, <4>2 DEF Counted
    <2>4. pc'[r] = "caching" => Missed(r)'
      <3>1. answer'[r].upstream = name
        BY <2>1
      <3>2. pc'[r] = "caching" => OwnKey(r)'
        BY <2>1, <2>2 DEF OwnKey
      <3> QED
        BY <2>1, <2>2, <3>1, <3>2 DEF Missed
    <2> QED
      BY <2>1, <2>2, <2>3, <2>4
  <1>11. ASSUME NEW ttl \in TTLs, BeginStore(r, ttl) PROVE Told(r)'
    <2>1. /\ UNCHANGED <<arrival, cacheOn, key, target, answer, observed, upObserved, gone, pc>>
          /\ pc[r] = "caching"
          /\ setting'[r].key = key[r] /\ setting'[r].entry.resp = r
      BY <1>11 DEF BeginStore, Cache!BeginSet
    <2>2. Missed(r)' /\ Counted(r)'
      BY <2>1 DEF Missed, OwnKey, Counted, LeftInBetween, upstreamLabel, normCacheLabel
    <2> QED
      BY <2>1, <2>2
  <1>12. CASE EndStore(r)
    <2>1. /\ UNCHANGED <<arrival, cacheOn, key, target, answer, observed, upObserved, gone>>
          /\ pc[r] = "caching" /\ pc'[r] = "leaving"
          /\ setting'[r] = Cache!Done
      BY <1>12 DEF EndStore, Cache!EndSet
    <2>2. Counted(r)'
      BY <2>1 DEF Counted, LeftInBetween, upstreamLabel, normCacheLabel
    <2>3. setting'[r].phase # "storing"
      BY <2>1 DEF Cache!Done
    <2> QED
      BY <2>1, <2>2, <2>3
  <1>13. CASE ClientCancels(r)
    <2>1. /\ UNCHANGED <<arrival, cacheOn, key, target, answer, observed, upObserved, pc, setting>>
          /\ pc[r] \in {"upstream", "failing"} /\ r \in gone'
      BY <1>13 DEF ClientCancels
    <2>2. Untold(r)' <=> Untold(r)
      BY <2>1 DEF Untold
    <2> QED
      BY <2>1, <2>2 DEF OwnKey
  <1>14. ASSUME NEW body \in Bodies, Keyed(r, body) PROVE Told(r)'
    <2>1. arrival[r].url \in Urls
      BY ProxyAssumption
    <2> DEFINE k == CacheKey(arrival[r].url, target[r], body)
    <2>2. k \in CacheKeys /\ k[1] = arrival[r].url.site
      BY <2>1, CacheKeyType
    <2>3. arrival[r].kind = "cacheable" => key'[r] = k
      BY <1>14 DEF Keyed
    <2> HIDE DEF k
    <2>4. arrival[r].kind = "cacheable" => OwnKey(r)'
      BY <1>14, <2>2, <2>3 DEF Keyed, OwnKey
    <2>5. Untold(r)'
      BY <1>14 DEF Keyed, Untold
    <2> QED
      BY <1>14, <2>4, <2>5 DEF Keyed
  <1> QED
    BY <1>1, <1>2, <1>3, <1>4, <1>5, <1>6, <1>7, <1>8, <1>9, <1>10, <1>11, <1>12, <1>13,
       <1>14, ClientStep DEF Proxy, Upstream

\* An answer is written once; its request keeps the key and does not go back.
LEMMA AnswerStays ==
  ASSUME TypeOK, NEW r \in Requests, Told(r), Proxy(r) \/ Upstream(r) \/ Client(r)
  PROVE  /\ answer[r] # Unanswered => answer'[r] = answer[r] /\ key'[r] = key[r]
         /\ pc[r] \in {"leaving", "done"} => pc'[r] \in {"leaving", "done"}
  <1> USE DEF TypeOK, Told, Untold, Before, Goto, context
  <1>1. CASE Healthz(r) \/ MethodNotAllowed(r) \/ NoHealthyTarget(r) \/ Hit(r) \/ Miss(r)
    BY <1>1 DEF Healthz, MethodNotAllowed, NoHealthyTarget, Hit, Miss
  <1>2. ASSUME NEW t, Preview(r, t) \/ Pick(r, t)
        PROVE  /\ answer[r] # Unanswered => answer'[r] = answer[r] /\ key'[r] = key[r]
               /\ pc[r] \in {"leaving", "done"} => pc'[r] \in {"leaving", "done"}
    BY <1>2 DEF Preview, Pick
  <1>3. CASE Admitted(r) \/ QueueFull(r) \/ QueueExpired(r) \/ Forward(r) \/ Leave(r)
    BY <1>3 DEF Admitted, QueueFull, QueueExpired, Forward, Leave
  <1>4. CASE WriteError(r) \/ RoundTripFails(r) \/ RoundTripSucceeds(r) \/ ReadFails(r)
    BY <1>4 DEF WriteError, RoundTripFails, RoundTripSucceeds, ReadFails
  <1>5. ASSUME NEW x, NEW name, Relay(r, x, name)
        PROVE  /\ answer[r] # Unanswered => answer'[r] = answer[r] /\ key'[r] = key[r]
               /\ pc[r] \in {"leaving", "done"} => pc'[r] \in {"leaving", "done"}
    BY <1>5 DEF Relay
  <1>6. ASSUME NEW ttl, BeginStore(r, ttl) \/ EndStore(r) \/ ClientCancels(r)
        PROVE  /\ answer[r] # Unanswered => answer'[r] = answer[r] /\ key'[r] = key[r]
               /\ pc[r] \in {"leaving", "done"} => pc'[r] \in {"leaving", "done"}
    BY <1>6 DEF BeginStore, EndStore, ClientCancels
  <1>7. ASSUME NEW body \in Bodies, Keyed(r, body)
        PROVE  /\ answer[r] # Unanswered => answer'[r] = answer[r] /\ key'[r] = key[r]
               /\ pc[r] \in {"leaving", "done"} => pc'[r] \in {"leaving", "done"}
    BY <1>7 DEF Keyed
  <1> QED
    BY <1>1, <1>2, <1>3, <1>4, <1>5, <1>6, <1>7, ClientStep DEF Proxy, Upstream

\* So what a request missed stays missed.
LEMMA MissedStays ==
  ASSUME TypeOK, NEW r \in Requests, \A q \in Requests : Told(q),
         Proxy(r) \/ Upstream(r) \/ Client(r), NEW q \in Requests
  PROVE  /\ answer[q] # Unanswered => answer'[q] = answer[q] /\ key'[q] = key[q]
         /\ Missed(q) => Missed(q)' /\ key'[q] = key[q]
         /\ pc[q] \in {"leaving", "done"} => pc'[q] \in {"leaving", "done"}
         /\ arrival' = arrival
  <1>1. UNCHANGED <<arrival, cacheOn>> /\ (q # r => Untouched(q))
    BY OthersUntouched
  <1>2. /\ answer[q] # Unanswered => answer'[q] = answer[q] /\ key'[q] = key[q]
        /\ pc[q] \in {"leaving", "done"} => pc'[q] \in {"leaving", "done"}
    <2>1. CASE q = r
      BY <2>1, AnswerStays
    <2>2. CASE q # r
      BY <1>1, <2>2 DEF Untouched
    <2> QED
      BY <2>1, <2>2
  <1>3. Missed(q) => answer[q] # Unanswered
    <2>1. Missed(q) => answer[q].cache = "MISS"
      BY DEF Missed
    <2>2. Unanswered.cache = ""
      BY DEF Unanswered
    <2> QED
      BY <2>1, <2>2
  <1>4. Missed(q) => Missed(q)'
    BY <1>1, <1>2, <1>3 DEF Missed, OwnKey
  <1> QED
    BY <1>1, <1>2, <1>3, <1>4

-----------------------------------------------------------------------------
(* The cache.                                                              *)

\* Set writes one entry and touches no other response, whichever way it goes.
LEMMA SetWritesOne ==
  ASSUME NEW r \in Requests, Cache!EndSet(r)
  PROVE  \A j \in DOMAIN items' :
           \/ j = setting[r].key /\ items'[j] = setting[r].entry
           \/ j \in DOMAIN items /\ items'[j] = items[j]
  <1> DEFINE k == setting[r].key
             entry == setting[r].entry
  <1> USE DEF Cache!Cached
  <1>1. CASE Cache!Replace(k, entry)
    BY <1>1 DEF Cache!Replace
  <1>2. CASE Cache!Insert(k, entry)
    BY <1>2 DEF Cache!Insert
  <1>3. CASE Cache!InsertEvicting(k, entry)
    BY <1>3 DEF Cache!InsertEvicting, Cache!Restrict
  <1> QED
    BY <1>1, <1>2, <1>3 DEF Cache!EndSet, Cache!Store

\* Only EndStore writes the cache.
LEMMA ItemsChange ==
  ASSUME NEW r \in Requests, Proxy(r) \/ Upstream(r) \/ Client(r)
  PROVE  items' = items \/ EndStore(r)
  <1> USE DEF cacheVars
  <1>1. CASE Healthz(r) \/ MethodNotAllowed(r) \/ NoHealthyTarget(r)
    BY <1>1 DEF Healthz, MethodNotAllowed, NoHealthyTarget
  <1>2. CASE Hit(r) \/ Miss(r)
    BY <1>2 DEF Hit, Miss, Cache!GetHit, Cache!GetStale, Cache!GetMiss
  <1>3. CASE Admitted(r) \/ QueueFull(r) \/ QueueExpired(r) \/ Forward(r) \/ Leave(r)
    BY <1>3 DEF Admitted, QueueFull, QueueExpired, Forward, Leave
  <1>4. CASE WriteError(r) \/ RoundTripFails(r) \/ RoundTripSucceeds(r) \/ ReadFails(r)
    BY <1>4 DEF WriteError, RoundTripFails, RoundTripSucceeds, ReadFails
  <1> QED
    BY <1>1, <1>2, <1>3, <1>4
    DEF Proxy, Upstream, Client, Preview, BufferBody, BufferBodyFails, Keyed, Pick, Relay,
        BeginStore, Cache!BeginSet, ClientCancels

\* Only relayed misses enter the cache.
LEMMA CacheNext ==
  ASSUME IInv, NEW r \in Requests, Proxy(r) \/ Upstream(r) \/ Client(r)
  PROVE  CacheHoldsMisses'
  <1>1. \A q \in Requests :
          /\ Missed(q) => Missed(q)' /\ key'[q] = key[q]
          /\ pc[q] \in {"leaving", "done"} => pc'[q] \in {"leaving", "done"}
    BY MissedStays DEF IInv
  <1>2. ASSUME NEW k \in DOMAIN items, NEW q, q = items[k].resp
        PROVE  q \in Requests /\ pc'[q] \in {"leaving", "done"} /\ Missed(q)' /\ key'[q] = k
    <2>1. q \in Requests /\ pc[q] \in {"leaving", "done"} /\ Missed(q) /\ key[q] = k
      BY <1>2 DEF IInv, CacheHoldsMisses
    <2> QED
      BY <1>1, <2>1
  <1>3. CASE items' = items
    BY <1>2, <1>3 DEF CacheHoldsMisses
  <1>4. CASE EndStore(r)
    <2>1. pc[r] = "caching" /\ pc'[r] = "leaving" /\ setting[r].phase = "storing"
      BY <1>4 DEF EndStore, Cache!EndSet, Goto, IInv, TypeOK
    <2>2. Missed(r) /\ setting[r].key = key[r] /\ setting[r].entry.resp = r
      BY <2>1 DEF IInv, Told
    <2>3. Missed(r)' /\ key'[r] = key[r]
      BY <1>1, <2>2
    <2>4. \A j \in DOMAIN items' :
            \/ j = key[r] /\ items'[j] = setting[r].entry
            \/ j \in DOMAIN items /\ items'[j] = items[j]
      BY <1>4, <2>2, SetWritesOne DEF EndStore
    <2> QED
      BY <1>2, <2>1, <2>2, <2>3, <2>4 DEF CacheHoldsMisses
  <1> QED
    BY <1>3, <1>4, ItemsChange

\* Only Hit answers with HIT.
LEMMA HitAnswers ==
  ASSUME TypeOK, NEW r \in Requests, Proxy(r) \/ Upstream(r) \/ Client(r),
         answer'[r].cache = "HIT", answer'[r] # answer[r]
  PROVE  Hit(r)
  <1> USE DEF TypeOK, Respond, Error
  <1>1. ~Healthz(r) /\ ~MethodNotAllowed(r) /\ ~NoHealthyTarget(r)
    <2>1. ASSUME Healthz(r) PROVE answer'[r].cache = ""
      BY <2>1 DEF Healthz
    <2>2. ASSUME MethodNotAllowed(r) PROVE answer'[r].cache = ""
      BY <2>2 DEF MethodNotAllowed
    <2>3. ASSUME NoHealthyTarget(r) PROVE answer'[r].cache = ""
      BY <2>3 DEF NoHealthyTarget
    <2> QED
      BY <2>1, <2>2, <2>3
  <1>2. ~QueueFull(r) /\ ~QueueExpired(r)
    <2>1. ASSUME QueueFull(r) PROVE answer'[r].cache = ""
      BY <2>1 DEF QueueFull
    <2>2. ASSUME QueueExpired(r) PROVE answer'[r].cache = ""
      BY <2>2 DEF QueueExpired
    <2> QED
      BY <2>1, <2>2
  <1>3. ~WriteError(r) /\ ~ReadFails(r)
    <2>1. ASSUME WriteError(r) PROVE answer'[r].cache = ""
      BY <2>1 DEF WriteError
    <2>2. ASSUME ReadFails(r) PROVE answer'[r].cache = ""
      BY <2>2 DEF ReadFails
    <2> QED
      BY <2>1, <2>2
  <1>4. ASSUME NEW x \in {"MISS", "BYPASS"}, NEW name PROVE ~Relay(r, x, name)
    BY DEF Relay
  <1>5. ~(Miss(r) \/ Admitted(r) \/ Forward(r) \/ Leave(r) \/ EndStore(r)
            \/ RoundTripFails(r) \/ RoundTripSucceeds(r) \/ ClientCancels(r))
    BY DEF Miss, Admitted, Forward, Leave, EndStore, RoundTripFails, RoundTripSucceeds,
           ClientCancels
  <1>6. ASSUME NEW t PROVE ~Preview(r, t) /\ ~Pick(r, t) /\ ~BeginStore(r, t)
    BY DEF Preview, Pick, BeginStore
  <1>7. ASSUME NEW body PROVE ~Keyed(r, body)
    BY DEF Keyed
  <1> QED
    BY <1>1, <1>2, <1>3, <1>4, <1>5, <1>6, <1>7, ClientStep DEF Proxy, Upstream

\* What HitProvenance says of one request with a HIT.
Genuine(r) ==
  \E q \in Requests \ {r} :
    /\ answer[r] = [answer[q] EXCEPT !.cache = "HIT"]
    /\ answer[q].status = "origin" /\ answer[q].cache = "MISS"
    /\ answer[q].body = q /\ answer[q].id = q
    /\ arrival[q].kind = "cacheable"
    /\ arrival[q].url.site = arrival[r].url.site
    /\ key[q] = key[r]

\* A hit is served from an entry that another request relayed.
LEMMA ProvenanceNext ==
  ASSUME IInv, NEW r \in Requests, Proxy(r) \/ Upstream(r) \/ Client(r)
  PROVE  HitProvenance'
  <1> SUFFICES ASSUME NEW p \in Requests, answer'[p].cache = "HIT"
               PROVE  Genuine(p)'
    BY DEF HitProvenance, Genuine
  <1>1. ASSUME NEW q \in Requests, answer[q].cache # ""
        PROVE  answer'[q] = answer[q] /\ key'[q] = key[q] /\ arrival' = arrival
    <2>1. Unanswered.cache = ""
      BY DEF Unanswered
    <2> QED
      BY <1>1, <2>1, MissedStays DEF IInv
  <1>2. CASE answer'[p] = answer[p]
    <2>1. answer[p].cache = "HIT"
      BY <1>2
    <2>2. PICK q \in Requests \ {p} :
               /\ answer[p] = [answer[q] EXCEPT !.cache = "HIT"]
               /\ answer[q].status = "origin" /\ answer[q].cache = "MISS"
               /\ answer[q].body = q /\ answer[q].id = q
               /\ arrival[q].kind = "cacheable"
               /\ arrival[q].url.site = arrival[p].url.site
               /\ key[q] = key[p]
      BY <2>1 DEF IInv, HitProvenance
    <2>3. answer'[q] = answer[q] /\ key'[q] = key[q] /\ arrival' = arrival
      BY <1>1, <2>2
    <2>4. key'[p] = key[p]
      BY <1>1, <2>1
    <2> QED
      BY <1>2, <2>2, <2>3, <2>4 DEF Genuine
  <1>3. CASE answer'[p] # answer[p]
    <2>1. p = r
      BY <1>3, OthersUntouched DEF Untouched, IInv
    <2>2. Hit(r)
      BY <1>3, <2>1, HitAnswers DEF IInv
    <2> DEFINE q == items[key[r]].resp
    <2>3. /\ pc[r] = "lookup" /\ key[r] \in DOMAIN items /\ key' = key
          /\ answer'[r] = [status |-> "origin", cache |-> "HIT", body |-> q, id |-> q,
                            upstream |-> answer[q].upstream]
      BY <2>2 DEF Hit, Goto, Cache!GetHit, Cache!Cached, Respond, ensureRequestID, context,
                  IInv, TypeOK
    <2>4. q \in Requests /\ pc[q] \in {"leaving", "done"} /\ Missed(q) /\ key[q] = key[r]
      BY <2>3 DEF IInv, CacheHoldsMisses
    <2> HIDE DEF q
    <2>5. /\ q # r /\ arrival[q].kind = "cacheable"
          /\ key[q][1] = arrival[q].url.site
          /\ answer[q] = [status |-> "origin", cache |-> "MISS", body |-> q, id |-> q,
                           upstream |-> answer[q].upstream]
      BY <2>3, <2>4 DEF Missed, OwnKey
    <2>6. key[r][1] = arrival[r].url.site
      BY <2>3 DEF IInv, Told, OwnKey
    <2>7. /\ answer[q].status = "origin" /\ answer[q].cache = "MISS"
          /\ answer[q].body = q /\ answer[q].id = q
          /\ answer'[r] = [answer[q] EXCEPT !.cache = "HIT"]
      BY <2>3, <2>5
    <2>8. answer'[q] = answer[q] /\ key'[q] = key[q] /\ arrival' = arrival
      BY <1>1, <2>4, <2>7
    <2> QED
      BY <2>1, <2>3, <2>4, <2>5, <2>6, <2>7, <2>8 DEF Genuine
  <1> QED
    BY <1>2, <1>3

-----------------------------------------------------------------------------
(* The gauge and the limiter.                                              *)

\* Requests form a finite set, and so do those upstream.
LEMMA UpstreamIsFinite ==
  /\ \A t : IsFiniteSet(AtUpstream(t)) /\ Cardinality(AtUpstream(t)) \in Nat
  /\ IsFiniteSet(Queue!In("running")) /\ Cardinality(Queue!In("running")) \in Nat
  <1>1. \A t : AtUpstream(t) \in SUBSET Requests
    BY DEF AtUpstream
  <1>2. Queue!In("running") \in SUBSET Requests
    BY DEF Queue!In
  <1> QED
    BY <1>1, <1>2, ProxyAssumption, FS_Subset, FS_CardinalityType

\* The queue counts with the cardinality of its own instance.
LEMMA QueueCounts == \A S : Queue!Cardinality(S) = Cardinality(S)
  BY Zenon DEF Queue!Cardinality, Cardinality

\* The slots bound the requests that run.
LEMMA RunningNext ==
  ASSUME IInv, NEW r \in Requests, Proxy(r) \/ Upstream(r) \/ Client(r)
  PROVE  Cardinality(Queue!In("running"))' <= SlotCap
  <1> DEFINE running == Queue!In("running")
  <1>1. \A q \in Requests \ {r} : phase'[q] = phase[q]
    BY OthersUntouched DEF Untouched, IInv
  <1>2. running' \subseteq running \/ running' = running \cup {r}
    BY <1>1 DEF Queue!In
  <1>3. CASE running' \subseteq running
    <2>1. Cardinality(running') <= Cardinality(running) /\ Cardinality(running') \in Nat
      BY <1>3, UpstreamIsFinite, FS_Subset, FS_CardinalityType
    <2>2. Cardinality(running) <= SlotCap
      BY DEF IInv
    <2> QED
      BY <2>1, <2>2, UpstreamIsFinite, ProxyAssumption
  <1>4. CASE ~(running' \subseteq running)
    <2>1. r \notin running /\ running' = running \cup {r} /\ phase'[r] = "running"
          /\ phase[r] # "running"
      BY <1>2, <1>4 DEF Queue!In
    <2>2. Forward(r)
      <3> USE DEF IInv, TypeOK
      <3>1. phase' # phase
        BY <2>1
      <3>2. ~(Admitted(r) \/ QueueFull(r) \/ QueueExpired(r) \/ Leave(r))
        BY <2>1 DEF Admitted, QueueFull, QueueExpired, Leave, Queue!Admit, Queue!Refuse,
                    Queue!Expire, Queue!Finish, Queue!Move
      <3> QED
        BY <3>1, <3>2 DEF Proxy, Upstream, Healthz, MethodNotAllowed, Preview, Hit, Miss,
           NoHealthyTarget, Pick, WriteError, BeginStore, EndStore, RoundTripFails,
           RoundTripSucceeds, ReadFails, Relay, Client, BufferBody, BufferBodyFails,
           Keyed, ClientCancels
    <2>3. Cardinality(running) < SlotCap
      BY <2>2, QueueCounts DEF Forward, Queue!Start
    <2>4. Cardinality(running') = Cardinality(running) + 1
      BY <2>1, UpstreamIsFinite, FS_AddElement
    <2> QED
      BY <2>3, <2>4, UpstreamIsFinite, ProxyAssumption
  <1> QED
    BY <1>3, <1>4

\* Steps other than the two ends of serveUpstream leave the gauge, and the
\* requests it counts, as they are.
LEMMA GaugeStays ==
  ASSUME IInv, NEW r \in Requests, Proxy(r) \/ Upstream(r) \/ Client(r),
         ~Forward(r), ~Leave(r)
  PROVE  /\ inflight' = inflight
         /\ pc[r] \in Upstreams <=> pc'[r] \in Upstreams
         /\ pc[r] \in Upstreams => target'[r] = target[r]
  <1> USE DEF IInv, TypeOK, Upstreams, Goto, context, metrics
  <1>1. CASE Healthz(r) \/ MethodNotAllowed(r) \/ NoHealthyTarget(r) \/ Hit(r) \/ Miss(r)
    BY <1>1 DEF Healthz, MethodNotAllowed, NoHealthyTarget, Hit, Miss
  <1>2. ASSUME NEW t, Preview(r, t) \/ Pick(r, t)
        PROVE  /\ inflight' = inflight
               /\ pc[r] \in Upstreams <=> pc'[r] \in Upstreams
               /\ pc[r] \in Upstreams => target'[r] = target[r]
    BY <1>2 DEF Preview, Pick
  <1>3. CASE Admitted(r) \/ QueueFull(r) \/ QueueExpired(r)
    BY <1>3 DEF Admitted, QueueFull, QueueExpired
  <1>4. CASE WriteError(r) \/ RoundTripFails(r) \/ RoundTripSucceeds(r) \/ ReadFails(r)
    BY <1>4 DEF WriteError, RoundTripFails, RoundTripSucceeds, ReadFails
  <1>5. ASSUME NEW x, NEW name, Relay(r, x, name)
        PROVE  /\ inflight' = inflight
               /\ pc[r] \in Upstreams <=> pc'[r] \in Upstreams
               /\ pc[r] \in Upstreams => target'[r] = target[r]
    BY <1>5 DEF Relay
  <1>6. ASSUME NEW ttl, BeginStore(r, ttl) \/ EndStore(r) \/ ClientCancels(r)
        PROVE  /\ inflight' = inflight
               /\ pc[r] \in Upstreams <=> pc'[r] \in Upstreams
               /\ pc[r] \in Upstreams => target'[r] = target[r]
    BY <1>6 DEF BeginStore, EndStore, ClientCancels
  <1>7. ASSUME NEW body \in Bodies, Keyed(r, body)
        PROVE  /\ inflight' = inflight
               /\ pc[r] \in Upstreams <=> pc'[r] \in Upstreams
               /\ pc[r] \in Upstreams => target'[r] = target[r]
    BY <1>7 DEF Keyed
  <1> QED
    BY <1>1, <1>2, <1>3, <1>4, <1>5, <1>6, <1>7, ClientStep DEF Proxy, Upstream

\* serveUpstream counts a request in and out at the same target.
LEMMA GaugeNext ==
  ASSUME IInv, NEW r \in Requests, Proxy(r) \/ Upstream(r) \/ Client(r),
         NEW t \in Targets
  PROVE  inflight'[t] = Cardinality(AtUpstream(t))'
  <1>1. inflight[t] = Cardinality(AtUpstream(t))
    BY DEF IInv, InflightAccounting
  <1>2. \A q \in Requests \ {r} : pc'[q] = pc[q] /\ target'[q] = target[q]
    BY OthersUntouched DEF Untouched, IInv
  <1>3. CASE ~Forward(r) /\ ~Leave(r)
    <2>1. AtUpstream(t)' = AtUpstream(t) /\ inflight' = inflight
      BY <1>2, <1>3, GaugeStays DEF AtUpstream, Upstreams
    <2> QED
      BY <1>1, <2>1
  <1>4. CASE Forward(r)
    <2>1. /\ pc[r] = "queued" /\ pc'[r] = "upstream" /\ target' = target
          /\ inflight' = [inflight EXCEPT ![target[r]] = @ + 1]
      BY <1>4 DEF Forward, Goto, IncProxyUpstreamInflight, context, IInv, TypeOK
    <2>2. CASE t = target[r]
      <3>1. AtUpstream(t)' = AtUpstream(t) \cup {r} /\ r \notin AtUpstream(t)
        BY <1>2, <2>1, <2>2 DEF AtUpstream
      <3>2. Cardinality(AtUpstream(t)') = Cardinality(AtUpstream(t)) + 1
        BY <3>1, UpstreamIsFinite, FS_AddElement
      <3>3. inflight'[t] = inflight[t] + 1
        BY <2>1, <2>2 DEF IInv, TypeOK
      <3> QED
        BY <1>1, <3>2, <3>3
    <2>3. CASE t # target[r]
      <3>1. AtUpstream(t)' = AtUpstream(t)
        BY <1>2, <2>1, <2>3 DEF AtUpstream
      <3>2. inflight'[t] = inflight[t]
        BY <2>1, <2>3 DEF IInv, TypeOK
      <3> QED
        BY <1>1, <3>1, <3>2
    <2> QED
      BY <2>2, <2>3
  <1>5. CASE Leave(r)
    <2>1. /\ pc[r] = "leaving" /\ pc'[r] = "done" /\ target' = target
          /\ inflight' = [inflight EXCEPT ![target[r]] = @ - 1]
      BY <1>5 DEF Leave, Goto, DecProxyUpstreamInflight, context, IInv, TypeOK
    <2>2. CASE t = target[r]
      <3>1. AtUpstream(t)' = AtUpstream(t) \ {r} /\ r \in AtUpstream(t)
        BY <1>2, <2>1, <2>2 DEF AtUpstream
      <3>2. Cardinality(AtUpstream(t)') = Cardinality(AtUpstream(t)) - 1
        BY <3>1, UpstreamIsFinite, FS_RemoveElement
      <3>3. inflight'[t] = inflight[t] - 1
        BY <2>1, <2>2 DEF IInv, TypeOK
      <3> QED
        BY <1>1, <3>2, <3>3
    <2>3. CASE t # target[r]
      <3>1. AtUpstream(t)' = AtUpstream(t)
        BY <1>2, <2>1, <2>3 DEF AtUpstream
      <3>2. inflight'[t] = inflight[t]
        BY <2>1, <2>3 DEF IInv, TypeOK
      <3> QED
        BY <1>1, <3>1, <3>2
    <2> QED
      BY <2>2, <2>3
  <1> QED
    BY <1>3, <1>4, <1>5

-----------------------------------------------------------------------------
(* The metrics of an answered request.                                     *)

\* What ObservedIsSent says of one request.
Sent(r) ==
  (pc[r] = "done" /\ observed[r] # Unobserved) =>
    /\ \/ observed[r] = <<answer[r].status, normCacheLabel(answer[r].cache)>>
       \/ LeftInBetween(r)
    /\ (upObserved[r] # Unobserved) <=> phase[r] = "served"
    /\ upObserved[r] # Unobserved =>
         upObserved[r] = <<upstreamLabel(r, answer[r].upstream), observed[r][1]>>

\* Every way to an answer feeds the metrics with that answer, or feeds none.
LEMMA SentNext ==
  ASSUME TypeOK, NEW r \in Requests, Placed(r), Told(r), Sent(r),
         Proxy(r) \/ Upstream(r) \/ Client(r)
  PROVE  Sent(r)'
  <1> USE DEF TypeOK, Goto, context, metrics
  <1>1. CASE Healthz(r) \/ QueueFull(r) \/ QueueExpired(r)
    BY <1>1 DEF Healthz, QueueFull, QueueExpired, Sent, Told, Untold, Before
  <1>2. ASSUME NEW status \in Statuses, NEW cache \in {"", "HIT"},
               pc[r] \in Before, observed'[r] = <<status, normCacheLabel(cache)>>,
               answer'[r].status = status, answer'[r].cache = cache,
               UNCHANGED <<phase, upObserved, gone>>
        PROVE  Sent(r)'
    <2>1. upObserved'[r] = Unobserved /\ phase'[r] # "served"
      BY <1>2 DEF Told, Untold, Placed
    <2> QED
      BY <1>2, <2>1 DEF Sent, normCacheLabel
  <1>3. CASE MethodNotAllowed(r)
    <2>1. /\ observed'[r] = <<"405", normCacheLabel("")>>
          /\ answer'[r].status = "405" /\ answer'[r].cache = ""
          /\ UNCHANGED <<phase, upObserved, gone>> /\ pc[r] \in Before /\ "405" \in Statuses
      BY <1>3 DEF MethodNotAllowed, ObserveProxyResponse, Respond, Error, normCacheLabel, Before,
                  Statuses
    <2> QED
      BY <1>2, <2>1
  <1>4. CASE NoHealthyTarget(r)
    <2>1. /\ observed'[r] = <<"503", normCacheLabel("")>>
          /\ answer'[r].status = "503" /\ answer'[r].cache = ""
          /\ UNCHANGED <<phase, upObserved, gone>> /\ pc[r] \in Before /\ "503" \in Statuses
      BY <1>4 DEF NoHealthyTarget, ObserveProxyResponse, Respond, Error, normCacheLabel, Before,
                  Statuses
    <2> QED
      BY <1>2, <2>1
  <1>5. CASE Hit(r)
    <2>1. /\ observed'[r] = <<"origin", normCacheLabel("HIT")>>
          /\ answer'[r].status = "origin" /\ answer'[r].cache = "HIT"
          /\ UNCHANGED <<phase, upObserved, gone>> /\ pc[r] \in Before /\ "origin" \in Statuses
      BY <1>5 DEF Hit, ObserveProxyResponse, Respond, Error, normCacheLabel, Before, Statuses
    <2> QED
      BY <1>2, <2>1
  <1>6. CASE Leave(r)
    <2>1. /\ pc[r] = "leaving" /\ phase'[r] = "served"
          /\ UNCHANGED <<answer, observed, upObserved, gone, target>>
      BY <1>6 DEF Leave, Queue!Finish, Queue!Move
    <2>2. Counted(r)
      BY <2>1 DEF Told
    <2> QED
      BY <2>1, <2>2 DEF Counted, Sent, LeftInBetween, upstreamLabel, normCacheLabel
  <1>7. CASE pc'[r] # "done"
    BY <1>7 DEF Sent
  <1>8. ASSUME NEW t, Preview(r, t) \/ Pick(r, t) \/ BeginStore(r, t) PROVE pc'[r] # "done"
    BY <1>8 DEF Preview, Pick, BeginStore
  <1>9. ASSUME NEW x \in {"MISS", "BYPASS"}, NEW name \in XUpstream, Relay(r, x, name) PROVE pc'[r] # "done"
    BY <1>9 DEF Relay
  <1>10. ASSUME Miss(r) \/ Admitted(r) \/ Forward(r) \/ WriteError(r) \/ EndStore(r)
                \/ RoundTripFails(r) \/ RoundTripSucceeds(r) \/ ReadFails(r)
                \/ ClientCancels(r)
         PROVE  pc'[r] # "done"
    BY <1>10 DEF Miss, Admitted, Forward, WriteError, EndStore, RoundTripFails,
                 RoundTripSucceeds, ReadFails, ClientCancels
  <1>11. ASSUME NEW body \in Bodies, Keyed(r, body) PROVE pc'[r] # "done"
    BY <1>11 DEF Keyed
  <1> QED
    BY <1>1, <1>3, <1>4, <1>5, <1>6, <1>7, <1>8, <1>9, <1>10, <1>11, ClientStep
    DEF Proxy, Upstream

-----------------------------------------------------------------------------
(* The theorems.                                                           *)

\* The proxy starts with an empty cache, an empty queue and idle gauges.
LEMMA InitIInv == Init => IInv
  <1> SUFFICES ASSUME Init PROVE IInv
    OBVIOUS
  <1>1. TypeOK
    BY TypeInit
  <1>2. \A r \in Requests : /\ pc[r] = "arriving" /\ phase[r] = "outside"
                           /\ Untold(r) /\ setting[r] = Cache!Idle
    BY DEF Init, Queue!Init, Cache!Init, Untold
  <1>3. \A r \in Requests : Placed(r) /\ Told(r)
    <2>1. Cache!Idle.phase # "storing"
      BY DEF Cache!Idle
    <2> QED
      BY <1>2, <2>1 DEF Placed, Told, Before, Upstreams
  <1>4. CacheHoldsMisses
    BY DEF Init, Cache!Init, CacheHoldsMisses
  <1>5. Queue!In("running") = {} /\ \A t : AtUpstream(t) = {}
    BY <1>2 DEF Queue!In, AtUpstream
  <1>6. Cardinality({}) = 0 /\ UNION {AtUpstream(t) : t \in Targets} = {}
    BY <1>5, FS_EmptySet
  <1>7. 0 <= SlotCap
    BY ProxyAssumption
  <1>8. InflightAccounting /\ Cardinality(Queue!In("running")) <= SlotCap
    <2>1. \A t \in Targets : inflight[t] = 0
      BY DEF Init
    <2>2. \A t \in Targets : Cardinality(AtUpstream(t)) = 0
      BY <1>5, <1>6
    <2>3. Cardinality(UNION {AtUpstream(t) : t \in Targets}) = 0
      BY <1>6
    <2>4. Cardinality(Queue!In("running")) = 0
      BY <1>5, <1>6
    <2> QED
      BY <1>7, <2>1, <2>2, <2>3, <2>4 DEF InflightAccounting
  <1>9. HitProvenance /\ ObservedIsSent
    <2>1. \A r \in Requests : answer[r].cache = ""
      <3>1. Unanswered.cache = ""
        BY DEF Unanswered
      <3> QED
        BY <1>2, <3>1 DEF Untold
    <2> QED
      BY <1>2, <2>1 DEF HitProvenance, ObservedIsSent
  <1> QED
    BY <1>1, <1>3, <1>4, <1>8, <1>9 DEF IInv

\* A step of the clock and a stuttering step touch nothing that IInv is about.
LEMMA TickIInv == IInv /\ (Tick \/ UNCHANGED vars) => IInv'
  <1> SUFFICES ASSUME IInv, Tick \/ UNCHANGED vars PROVE IInv'
    OBVIOUS
  <1>1. UNCHANGED <<arrival, cacheOn, key, target, pc, answer, observed, upObserved, inflight, gone,
                    phase, items, setting>>
    BY DEF Tick, Cache!Tick, vars, context, metrics, cacheVars
  <1>2. TypeOK'
    BY <1>1 DEF IInv, TypeOK
  <1>3. \A q \in Requests : Untouched(q)
    BY <1>1 DEF Untouched
  <1>4. \A q \in Requests : Placed(q)' /\ Told(q)' /\ (Missed(q) => Missed(q)')
    BY <1>1, <1>3, UntouchedStays DEF IInv
  <1>5. CacheHoldsMisses'
    BY <1>1, <1>4 DEF IInv, CacheHoldsMisses
  <1>6. Queue!In("running")' = Queue!In("running")
    BY <1>1 DEF Queue!In
  <1>7. \A t : AtUpstream(t)' = AtUpstream(t)
    BY <1>1 DEF AtUpstream
  <1>8. InflightAccounting'
    BY <1>1, <1>7 DEF IInv, InflightAccounting
  <1>9. HitProvenance'
    BY <1>1 DEF IInv, HitProvenance
  <1>10. ObservedIsSent'
    BY <1>1 DEF IInv, ObservedIsSent, LeftInBetween, upstreamLabel, normCacheLabel
  <1> QED
    BY <1>2, <1>4, <1>5, <1>6, <1>8, <1>9, <1>10 DEF IInv

\* Every step of every request keeps the inductive invariant.
LEMMA NextIInv == IInv /\ [Next]_vars => IInv'
  <1> SUFFICES ASSUME IInv, [Next]_vars PROVE IInv'
    OBVIOUS
  <1>1. CASE Tick \/ UNCHANGED vars \/ AllAnswered
    BY <1>1, TickIInv DEF AllAnswered
  <1>2. ASSUME NEW r \in Requests, Proxy(r) \/ Upstream(r) \/ Client(r)
        PROVE  IInv'
    <2>1. TypeOK'
      BY TypeNext DEF IInv
    <2>2. UNCHANGED <<arrival, cacheOn>> /\ \A q \in Requests \ {r} : Untouched(q)
      BY <1>2, OthersUntouched DEF IInv
    <2>3. ASSUME NEW q \in Requests PROVE Placed(q)' /\ Told(q)'
      <3>1. CASE q = r
        BY <1>2, <3>1, PlacedNext, ToldNext DEF IInv
      <3>2. CASE q # r
        BY <2>2, <3>2, UntouchedStays DEF IInv
      <3> QED
        BY <3>1, <3>2
    <2>4. ASSUME NEW q \in Requests PROVE Sent(q)'
      <3>1. Sent(q)
        BY DEF IInv, ObservedIsSent, Sent
      <3>2. CASE q = r
        BY <1>2, <3>1, <3>2, SentNext DEF IInv
      <3>3. CASE q # r
        BY <2>2, <3>1, <3>3 DEF Sent, Untouched, LeftInBetween, upstreamLabel, normCacheLabel
      <3> QED
        BY <3>2, <3>3
    <2>5. ObservedIsSent'
      BY <2>4 DEF Sent, ObservedIsSent
    <2>6. CacheHoldsMisses' /\ HitProvenance'
      BY <1>2, CacheNext, ProvenanceNext
    <2>7. Cardinality(Queue!In("running"))' <= SlotCap
      BY <1>2, RunningNext
    <2>8. InflightAccounting'
      <3>1. UNION {AtUpstream(t) : t \in Targets}' = Queue!In("running")'
        BY <2>3 DEF Placed, AtUpstream, Queue!In, Upstreams
      <3>2. \A t \in Targets : inflight'[t] = Cardinality(AtUpstream(t))'
        BY <1>2, GaugeNext
      <3> QED
        BY <2>7, <3>1, <3>2 DEF InflightAccounting
    <2> QED
      BY <2>1, <2>3, <2>5, <2>6, <2>7, <2>8 DEF IInv
  <1> QED
    BY <1>1, <1>2 DEF Next

\* The invariant holds throughout.
THEOREM Invariance == Spec => []IInv
  BY InitIInv, NextIInv, PTL DEF Spec

\* No error, no truncated body, and no answer made for another host, another
\* method or a request that forbade caching is ever served from the cache: a HIT
\* is the MISS of another request with the same key, whatever targets have been
\* picked, whatever bodies could not be read, however requests interleave and
\* whatever is evicted.  Nothing is assumed of the key but that it begins with
\* method and host.
THEOREM HitsAreGenuine == Spec => []HitProvenance
  <1>1. IInv => HitProvenance
    BY DEF IInv
  <1> QED
    BY <1>1, Invariance, PTL

\* The gauge of every target is exact on all paths out of serveUpstream, and
\* the concurrency limit of the queue bounds what all targets see together.
THEOREM GaugeIsExact == Spec => []InflightAccounting
  <1>1. IInv => InflightAccounting
    BY DEF IInv
  <1> QED
    BY <1>1, Invariance, PTL

\* The metrics fed for an answered request are those of its answer, with the
\* one exception of a client that left between the two looks at the context, and
\* the label is X-Upstream's where the answer has it.
THEOREM MetricsAreSent == Spec => []ObservedIsSent
  <1>1. IInv => ObservedIsSent
    BY DEF IInv
  <1> QED
    BY <1>1, Invariance, PTL

-----------------------------------------------------------------------------
(* The composition.  The proxy works the queue and the cache only as their *)
(* specifications allow, so what is proved of them holds inside the proxy. *)

\* Each step of a request is a step of the queue's specification, or none of
\* the queue's business.
THEOREM UsesTheQueue == Spec => Queue!Spec
  <1>1. Init => Queue!Init
    BY DEF Init
  <1>2. [Next]_vars => [Queue!Next]_phase
    <2> SUFFICES ASSUME [Next]_vars PROVE [Queue!Next]_phase
      OBVIOUS
    <2>1. ASSUME NEW r \in Requests, Proxy(r) PROVE [Queue!Next]_phase
      <3>1. CASE Admitted(r) \/ QueueFull(r) \/ QueueExpired(r) \/ Forward(r) \/ Leave(r)
        BY <3>1 DEF Admitted, QueueFull, QueueExpired, Forward, Leave, Queue!Next
      <3>2. CASE phase' = phase
        BY <3>2
      <3> QED
        BY <2>1, <3>1, <3>2 DEF Proxy, Healthz, MethodNotAllowed, Preview, Hit, Miss,
             NoHealthyTarget, Pick, WriteError, BeginStore, EndStore
    <2>2. ASSUME NEW r \in Requests, Upstream(r) \/ Client(r) PROVE phase' = phase
      BY <2>2 DEF Upstream, RoundTripFails, RoundTripSucceeds, ReadFails, Relay, Client,
                  BufferBody, BufferBodyFails, Keyed, ClientCancels
    <2> QED
      BY <2>1, <2>2 DEF Next, Tick, AllAnswered, vars
  <1> QED
    BY <1>1, <1>2, PTL DEF Spec, Queue!Spec

\* What CacheProofs proves, about the proxy's cache.  The history of uses and
\* the policy, which it treats as well, play no part here.
Facts == INSTANCE CacheProofs
           WITH Keys <- CacheKeys, Writers <- Requests,
                MaxLookups <- 0, MaxUses <- 0, lastUse <- 0, uses <- 0, pushedOut <- 0,
                removed <- 0,
                RequestNames <- {}, ResponseNames <- {}, Values <- {}, MaxSegments <- 0,
                request <- 0, response <- 0, verdict <- 0

\* The operations the proxy calls are the ones those proofs are about.
LEMMA SameCache ==
  /\ Cache!Init <=> Facts!Init
  /\ \A k : Cache!GetHit(k) <=> Facts!GetHit(k)
  /\ \A k : Cache!GetStale(k) <=> Facts!GetStale(k)
  /\ \A k : Cache!GetMiss(k) <=> Facts!GetMiss(k)
  /\ \A w, k, ttl : Cache!BeginSet(w, k, ttl) <=> Facts!BeginSet(w, k, ttl)
  /\ \A w : Cache!EndSet(w) <=> Facts!EndSet(w)
  /\ Cache!Tick <=> Facts!Tick
  <1>1. Cache!Init <=> Facts!Init
    BY DEF Cache!Init, Facts!Init, Cache!Idle, Facts!Idle
  <1>2. Cache!Cached = Facts!Cached /\ \A k : Cache!ToFront(k) = Facts!ToFront(k)
    BY DEF Cache!Cached, Facts!Cached, Cache!ToFront, Facts!ToFront, Cache!Without,
           Facts!Without, Cache!RemoveAt, Facts!RemoveAt
  <1>3. \A k : Cache!GetHit(k) <=> Facts!GetHit(k)
    BY <1>2 DEF Cache!GetHit, Facts!GetHit, Cache!Expired, Facts!Expired
  <1>4. \A k : Cache!GetStale(k) <=> Facts!GetStale(k)
    BY <1>2 DEF Cache!GetStale, Facts!GetStale, Cache!Expired, Facts!Expired
  <1>5. \A k : Cache!GetMiss(k) <=> Facts!GetMiss(k)
    BY <1>2 DEF Cache!GetMiss, Facts!GetMiss
  <1>6. \A w, k, ttl : Cache!BeginSet(w, k, ttl) <=> Facts!BeginSet(w, k, ttl)
    BY DEF Cache!BeginSet, Facts!BeginSet, Cache!Idle, Facts!Idle, Cache!Expiry, Facts!Expiry,
           Cache!SetTTL, Facts!SetTTL, Cache!DefaultCacheTTL, Facts!DefaultCacheTTL
  <1>7. \A k, e : Cache!Store(k, e) <=> Facts!Store(k, e)
    <2>1. \A k, e : Cache!Replace(k, e) <=> Facts!Replace(k, e)
      BY <1>2 DEF Cache!Replace, Facts!Replace
    <2>2. \A k, e : Cache!Insert(k, e) <=> Facts!Insert(k, e)
      BY <1>2 DEF Cache!Insert, Facts!Insert, Cache!Capacity, Facts!Capacity
    <2>3. \A k, e : Cache!InsertEvicting(k, e) <=> Facts!InsertEvicting(k, e)
      BY <1>2 DEF Cache!InsertEvicting, Facts!InsertEvicting, Cache!Capacity, Facts!Capacity,
                  Cache!Front, Facts!Front, Cache!Last, Facts!Last,
                  Cache!Restrict, Facts!Restrict
    <2> QED
      BY <2>1, <2>2, <2>3 DEF Cache!Store, Facts!Store
  <1>8. \A w : Cache!EndSet(w) <=> Facts!EndSet(w)
    BY <1>7 DEF Cache!EndSet, Facts!EndSet, Cache!Done, Facts!Done
  <1>9. Cache!Tick <=> Facts!Tick
    BY DEF Cache!Tick, Facts!Tick
  <1> QED
    BY <1>1, <1>3, <1>4, <1>5, <1>6, <1>8, <1>9, Zenon

\* A request that looks up or stores does so under a cache key of its own,
\* and everything else leaves the cache alone.
LEMMA StepUsesTheCache == IInv /\ [Next]_vars => [Facts!Next]_(Facts!vars)
  <1> SUFFICES ASSUME IInv, [Next]_vars PROVE [Facts!Next]_(Facts!vars)
    OBVIOUS
  <1>1. ASSUME NEW r \in Requests, pc[r] \in {"lookup", "caching"} PROVE key[r] \in CacheKeys
    BY <1>1 DEF IInv, Told, Missed, OwnKey
  <1>2. ASSUME NEW r \in Requests, Hit(r) \/ Miss(r) PROVE Facts!Next
    <2>1. key[r] \in CacheKeys
      BY <1>1, <1>2 DEF Hit, Miss, Goto
    <2>2. /\ Cache!GetHit(key[r]) \/ Cache!GetStale(key[r]) \/ Cache!GetMiss(key[r])
          /\ UNCHANGED <<now, setting>>
      BY <1>2 DEF Hit, Miss
    <2>3. Facts!Lookup(key[r])
      BY <2>2, SameCache DEF Facts!Lookup
    <2> QED
      BY <2>1, <2>3 DEF Facts!Next
  <1>3. ASSUME NEW r \in Requests, NEW ttl \in TTLs, BeginStore(r, ttl) PROVE Facts!Next
    <2>1. key[r] \in CacheKeys /\ Facts!BeginSet(r, key[r], ttl)
      BY <1>1, <1>3, SameCache DEF BeginStore
    <2> QED
      BY <2>1 DEF Facts!Next
  <1>4. ASSUME NEW r \in Requests, EndStore(r) PROVE Facts!Next
    BY <1>4, SameCache DEF EndStore, Facts!Next
  <1>5. CASE Tick
    BY <1>5, SameCache DEF Tick, Facts!Next
  <1>6. CASE UNCHANGED cacheVars
    BY <1>6 DEF cacheVars, Facts!vars
  <1>7. ASSUME NEW r \in Requests, Proxy(r) PROVE [Facts!Next]_(Facts!vars)
    BY <1>2, <1>3, <1>4, <1>6, <1>7
       DEF Proxy, Healthz, MethodNotAllowed, Preview, NoHealthyTarget, Pick, Admitted,
           QueueFull, QueueExpired, Forward, WriteError, Leave
  <1>8. ASSUME NEW r \in Requests, Upstream(r) \/ Client(r) PROVE UNCHANGED cacheVars
    BY <1>8 DEF Upstream, RoundTripFails, RoundTripSucceeds, ReadFails, Relay, Client,
                BufferBody, BufferBodyFails, Keyed, ClientCancels
  <1> QED
    BY <1>5, <1>6, <1>7, <1>8 DEF Next, AllAnswered, vars

\* The proxy's goroutines use the cache as its specification allows: they look
\* up and store under cache keys, each of them stores once and in two steps.
LEMMA UsesTheCache == Spec => Facts!Spec
  <1>1. Init => Facts!Init
    BY SameCache DEF Init
  <1> QED
    BY <1>1, Invariance, StepUsesTheCache, PTL DEF Spec, Facts!Spec

\* The assumptions of the cache's proofs, for the proxy's cache.
LEMMA FactsApply ==
  /\ Facts!LifetimeAssumption
  /\ Facts!LRUAssumption
  /\ Facts!PolicyAssumption
  BY LifetimeAssumption, ProxyCacheAssumption
     DEF Facts!LifetimeAssumption, Facts!LRUAssumption, Facts!PolicyAssumption

\* Inside the proxy, whatever its goroutines do, the list and the map of the
\* cache hold the same keys and never more of them than the capacity.
THEOREM CacheStaysConsistent == Spec => [](Cache!ListMatchesMap /\ Cache!WithinCapacity)
  <1>1. Facts!Spec => []Facts!ListMatchesMap
    BY FactsApply, Facts!ListAndMapAgree
  <1>2. Facts!Spec => []Facts!WithinCapacity
    BY FactsApply, Facts!NeverOverCapacity
  <1>3. Facts!ListMatchesMap /\ Facts!WithinCapacity
          => Cache!ListMatchesMap /\ Cache!WithinCapacity
    <2>1. \A S : Facts!Cardinality(S) = Cache!Cardinality(S)
      BY Zenon DEF Facts!Cardinality, Cache!Cardinality
    <2>2. \A f : Facts!Range(f) = Cache!Range(f) /\ (Facts!IsInjective(f) <=> Cache!IsInjective(f))
      BY DEF Facts!Range, Cache!Range, Facts!IsInjective, Cache!IsInjective
    <2>3. Facts!Cached = Cache!Cached /\ Facts!Capacity = Cache!Capacity
      BY DEF Facts!Cached, Cache!Cached, Facts!Capacity, Cache!Capacity
    <2> QED
      BY <2>1, <2>2, <2>3 DEF Facts!ListMatchesMap, Facts!WithinCapacity,
                              Cache!ListMatchesMap, Cache!WithinCapacity
  <1> QED
    BY <1>1, <1>2, <1>3, UsesTheCache, PTL

\* What the proxy's goroutines see of the cache is the bounded map.
THEOREM CacheIsAMap == Spec => Facts!ImplementsResponseMap
  <1>1. Facts!Spec => Facts!ImplementsResponseMap
    BY FactsApply, Facts!Refinement
  <1> QED
    BY <1>1, UsesTheCache, PTL
=============================================================================
