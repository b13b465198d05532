# FCReverseProxy in TLA+

A TLA+ model of FCReverseProxy, an HTTP reverse proxy in Go with a response
cache, two load balancers and an admission queue. The modules below are
translated from the sources under `src/`; `PROJECT.json` names for every
definition the lines it stands for.

## The system and its parts

| Part | Source | State | Operations | Interacts with |
|---|---|---|---|---|
| Admission queue | `internal/proxy/queue.go` | two buffered channels, `queueDepth`, depth gauge and counters; per request a handler goroutine, an acquirer goroutine, a timer, two contexts | enter, be refused, wait, be granted, give up, release | wraps `serveUpstream`; metrics |
| Least-connections balancer | `internal/proxy/balancer.go` | per target `activeConnections`, `pendingSelections` | `Pick` (scan and compare-and-swap), `Acquire`, release function | called before the queue (`Pick`) and behind it (`Acquire`); health probes |
| Round-robin balancer | `internal/proxy/balancer.go`, `healthChecker.go` | `nextIndex` | `Pick`: claim a turn, probe from there | health probes |
| Runtime switch | `internal/proxy/balancer.go` | the balancer in use: an unsynchronised interface value | `ConfigureBalancer`, `SetHealthCheckEnabled` | replaces the balancer under running requests |
| Response cache | `internal/proxy/cache.go` | LRU list, map, statistics, under one mutex | `Get`, `Set`, `Delete`, `Purge` | looked up before the balancer, filled after the answer |
| Cache policy | `internal/proxy/cache.go` | none | `isCacheableRequest`, `isCacheableResponse`, `parseCacheControl`, `clientNoCache` | decides what the cache sees |
| Reverse proxy | `internal/proxy/proxy.go`, `headers.go`, `requestId.go` | one goroutine per request | `ServeHTTP`, `serveUpstream`, `directRequest` | everything above |
| Metrics | `internal/metrics` | Prometheus counters and gauges | set, increment, observe | fed by proxy, queue and upstream |
| Configuration | `internal/config` | none after start | `Load` | limits, targets, strategy |
| Start-up, TLS | `cmd/server` | certificate and key files, which survive the process | `main`, `startServer`, `generateSelfSigned` | wires the parts |
| Logging | `internal/log` | level toggles and Loki URL, set under a `sync.Once` | `Emit` and the lines of a request | called inside every request |
| Example upstream | `internal/upstream`, `cmd/upstream` | item store under a mutex, gauge and counters | list, create, get, update, delete; logging middleware | an origin behind the proxy and its cache |

What is hard here:

- **The queue.** Each request is two goroutines racing a timer and the client.
  Go's `select` takes any ready case, so every pair of events can meet in either
  order. One fact (who is queued, who holds a slot) is recorded in a channel, a
  counter, a gauge and local variables that change at different moments.
  Correctness: no more than `MaxConcurrent` run; entries and exits of the channels
  balance; the bare receives never block; nobody waits for ever; a decision is
  final; each outcome is counted once.
- **The balancers.** Lock-free counters read one after another and then changed.
  Correctness: no update is lost, counters return to zero, the choice is the least
  loaded target as far as that can be known, loops end, a healthy target is not
  passed over.
- **The cache.** Three records of one set (list, map, `Entries`) and a `Set` that
  reads the clock before it takes the mutex. Correctness: they agree, eviction is
  in order of use, only a `Set` changes what a key holds.
- **The composition.** The lookup, the pick, the wait, the upstream call and the
  store of one request are far apart and interleave with everybody else's.
  Correctness: a HIT is a complete answer to a request with the same cache key that
  allowed caching, with the identifier of the request that produced it; the slot, the
  gauge and the metrics are right on every exit.
- **The switch.** The balancer is replaced by two plain word writes while requests
  hold reservations on the old one. Correctness: each balancer's books are exact
  for the calls it got, a replaced one finishes those calls and drains, and the last
  configuration wins.
- **An origin behind the cache.** The cache answers writes too. Correctness: what
  was acknowledged was done, how stale a read may be, identifiers are never reused.
- **The process.** It may die between any two file operations of certificate
  generation and start again; goroutines race for the first log line. Correctness:
  it serves what was configured, never downgrades TLS silently, never overwrites a
  good pair, always gets somewhere; logging neither holds requests up nor ships
  what was switched off.

## Modules

| Module | Models |
|---|---|
| `Admission` | what the queue promises, with one variable: the phase of each request |
| `RequestQueue` | `queue.go`, one action per channel operation, atomic instruction or gauge write |
| `LeastConnections` | the least-connections balancer, one action per atomic instruction |
| `RoundRobin` | the round-robin balancer with targets that crash and recover |
| `BalancerSwitch` | replacement of the balancer under running requests |
| `CacheLifetime` | the lifetime `Set` gives a response and its default, shared by cache, policy and proxy |
| `ResponseMap` | what the cache promises: a bounded map with expiry, in which a `Set` is one step |
| `LRUCache` | the cache; usable as a component (`Store`, `GetHit`, ...) and as a specification |
| `LRUCacheHistory` | `LRUCache` with history variables for the order of use |
| `CachePolicy` | the caching decisions as functions of a request and a response |
| `ReverseProxy` | `ServeHTTP` and `serveUpstream` over `Admission` and `LRUCache` |
| `ItemStore` | the example upstream's store, handlers and logging middleware |
| `Items` | `ItemStore` behind `LRUCache` |
| `Config` | `Load` and the proxy `main` builds, as functions of a document |
| `Logging` | `Emit`, its `Once` and the push to Loki, for concurrent goroutines |
| `Server` | start-up, TLS files, crash and restart over `Config` and `Logging` |
| `MC*` | values and symmetry sets for TLC; `MCCache` runs cache and policy side by side |
| `RequestQueueProofs`, `LeastConnectionsProofs`, `RoundRobinProofs`, `BalancerSwitchProofs`, `CacheProofs`, `ReverseProxyProofs`, `ItemsProofs`, `ServerProofs` | theorems about the modules above, checked by TLAPS; `CacheProofs` is about `LRUCache`, `LRUCacheHistory`, `ResponseMap` and `CachePolicy`, `ServerProofs` about `Config`, `Logging` and `Server` |

`ReverseProxy` uses `Queue == INSTANCE Admission` and `Cache == INSTANCE LRUCache`;
`Items` instantiates `LRUCache` too; `Server` extends `Logging`, which extends `Config`.
It may use the abstract queue in place of the real one because `RequestQueue`
implements `Admission` (theorem `Refinement`, run `queue`). One thing the
abstraction allows and the code makes worse: `Admission` never promises that a
slot is free when nobody runs, and a slot orphaned in `RequestQueue` is simply a
`Start` that is never taken. That the proxy keeps to the rules of both components is
proved too: `UsesTheQueue`, and `CacheIsAMap` and `CacheStaysConsistent`, which bring
the theorems about the cache into the proxy.

### RequestQueue

`pc[r]` is the place of the handler in `queue.go`, `acq[r]` that of the acquirer
goroutine, `outcome[r]` the branch its `select` took. A channel of `struct{}` is
its length. `depth[r]` is the value between `atomic.LoadInt64` (or the result of
`AddInt64`) and `QueueDepthSet`. The clean-up of a request that gives up (lines
69-75) and the transition to active (119-121) are the same operations and share
the actions `LeaveQueue`, `CountOut`, `LoadDepth`; the outcome then selects
`PublishOutAdmitted` or `PublishOutFailed`. `ServeReturns` stands for
`next.ServeHTTP`, whatever happens in it.

### LeastConnections and RoundRobin

A probe touches nothing the proxy shares, so in `LeastConnections` it is merged
with the load behind it and its answer is free; in `RoundRobin` the answer is
whether the target is up at that moment. `disturbed` and `steady`, `claims` are
history variables for the properties. The health-check switch, the presence of the
queue and the identity of the targets are chosen in `Init`. `QueueRefuses` is the
queue's answer between `Pick` and `Acquire`. The modulus of the round-robin counter
is a parameter, 2^64 in the code, and the counter may start anywhere, since the
wrap is far from zero.

### BalancerSwitch

Balancers are numbered in order of creation and keep their own counters. The field
`proxy.balancer` is two words, `typeWord` and `dataWord`; a store writes them in
either order. A method call that finds the type of one strategy with the data of
another is undefined behaviour: the request goes to `undefined` and is followed no
further. A call has two steps: `CallPick` and `CallAcquire` load the field,
`Pick` and `Acquire` act on the balancer that was loaded, at any later time, for a
`Pick` probes for up to 500 ms per target in between. The atomic instructions inside
are the subject of `LeastConnections`. One goroutine reconfigures.

### LRUCache and CachePolicy

A cached response is named after the goroutine that stores it. Time is a bounded
counter. `Set` is two actions: `BeginSet` reads the clock, `EndSet` is the critical
section. `ResponseMap` has neither list nor second step: a `Set` takes effect at once,
with a lifetime counted from some moment not later than now, and costs one entry if
the map is full. `LRUCacheHistory` states that the cache implements it with
`held <- items` and the two counters a caller can tell lookups by (the other
statistics are `StoresBalance`'s). `LRUCacheHistory` counts the entries pushed out by a
`Set` and those deleted or purged itself, apart from `Evictions`. In `CachePolicy` a
header is one or two lines, of which `Header.Get` returns the first; a line is a
sequence of at most `MaxSegments` segments (name, value), names trimmed and in lower
case; values stand for the classes `time.ParseDuration` tells apart: absent, zero,
positive, negative.

### ReverseProxy

A request has a kind: health check, method not allowed, cacheable (its directives let
the cache take part), uncacheable (they do not). Whether the cache is on is chosen in
`Init`. The target of a preview is any target or none, and independent of the target of
the pick. A URL is what the key sees of it: `site`, method and host; the path, decoded;
and the text that query, `Accept` and `Accept-Encoding` add. `CacheKey` is
`buildCacheKey` on the redirected request with the client's host put back: the base
path of the previewed target is joined with the path, and from there on the key is one
text, so that different URLs may have one key. Reading the body may fail
(`BufferBodyFails`); the request then goes on with the key of one that has none. An
answer carries its status, `X-Cache`, body, `X-Request-ID` and `X-Upstream`; generated
identifiers are unique, so an identifier is the request it names. `observed` and
`upObserved` are what the two response metrics were told. The key that
`serveUpstream` would build without the body (`proxy.go:357`) is never needed:
whatever may be cached there got its key in `ServeHTTP`.

### ItemStore and Items

An action of the store is one critical section of its mutex. An item's value and
time are the request that wrote it last. `Scrapes` are the requests that
`isMetricsScrape` takes for a scrape, whatever path they ask for: the middleware
passes them on with neither gauge, counter nor preview. `Decoded` is what the handler makes of a
body after the logging middleware replayed it, the byte it loses from a long one
included. `Items` leaves out the queue, the balancer and failures, which
`ReverseProxy` has, and keeps what the cache does to reads and writes.

### Config, Logging and Server

A document has a field per option, omitted or given. `LoadFails` and `Settings` are
`Load`; `Build` applies the constructors and setters in the order `main` does. File
contents are the number of the pair they belong to, absent, partial, malformed, or the
user's key of another certificate; the user may have left either file, both or none.
`Usable` is what `ListenAndServeTLS` asks of them, `BothExist` what `fileExists` does. Each
operation of `generateSelfSigned` that changes a file is an action and may fail;
`Crash` may come before any step. In `Logging` each toggle assignment inside the
`Once` is a step of its own, since other goroutines read the toggles without it.

Operators marked *Mutant* in the modules are faulty versions of the definition
they precede. Nothing refers to them; substituted for the original each breaks the
property listed with it in `PROJECT.json`, which shows that the property sees it.

## Runs

Passing runs (distinct states of the full search):

| Run | Instance | States | Shows |
|---|---|---|---|
| `queue` | 2 requests, 1 place, 1 slot | 12,481 | `TypeOK`, `ConcurrencyBound`, `CountersExact`, `ReceivesNeverBlock`, `MetricsAccount`, `DecisionIsFinal`, `LostSlotsStay`; `ImplementsAdmission`; nobody waits for ever (`WaitersLeave`), no goroutine leaks (`AcquirerEnds`) |
| `lc` | 3 requests, 2 targets (distinct or two URLs of one upstream), health checks on and off, with and without the queue | 296,263 | `CountersExact`, `LeastLoadedWhenUndisturbed`, `PickTerminates` |
| `rr` | 3 requests, 3 targets that fail and recover, modulus 4, counter starting at 0 or 2, health checks on and off | 921,092 | `SkipsOnlyFailed`, `EvenTurns`, `PickTerminates` |
| `switch` | 3 requests, 2 targets, 2 replacements with 3 strategy names | 445,015 | `BooksPerBalancer`, `TornOnlyByStrategyChange`, `SettledAsConfigured`, `ReplacedOnlyDrains` |
| `cache` | 3 keys, 3 writers, 2 places; headers of up to 2 lines of up to 2 segments | 752,513 | `ListMatchesMap`, `StoresBalance`, `EvictsLeastRecent`, `ImplementsResponseMap`; `OrderIrrelevant`, `StoredAsAllowed` |
| `proxy` | 2 requests, 4 URLs, 2 targets of different base path, 1 slot, 1 place, 1 cache entry, the cache on and off | 464,824 | `HitProvenance`, `InflightAccounting`, `ObservedIsSent`; nobody hangs because of somebody else (`AnsweredOrUpstream`) |
| `items` | 2 requests and a scrape out of 11 operations, 2 cache entries, lifetime 1, clock to 2 | 3,729,927 | `CreatesExact`, `AckedWritesApplied`, `UpstreamMetricsExact`, `HitReflectsStore` |
| `server` | 34 documents, the user's files in every state, 2 starts, 2 logging goroutines | 277,008 | `ServesAsConfigured`, `NoSilentDowngrade`, `LogsAsConfigured`, `PairIsKept`, `StartSettles`, `EmitReturns` |

Runs that show a disagreement between the code and what is written about it (each
under `findings` with the sentence it contradicts). The theorems `LeakIsTheOrphans`,
`LeakStarves`, `RefusedWeighForGood` and `WithoutQueueNothingLeaks` say how far each
goes: what exactly is lost, what that costs, and when nothing is.

| Run | What happens |
|---|---|
| `queue_leak` | a grant loses against the timer or the client and its slot is never returned; `MaxConcurrent` such races and no request is ever admitted again |
| `lc_queue` | the reservation of a request the queue turned away stays, and the balancer avoids that target from then on |
| `policy_ttl` | a response with `max-age=0` is cached, for the default lifetime (`cache.go:132`), which is the "TTL used when upstream responses don't specify cache directives" (`config.yaml:45`) |
| `log_levels` | `Emit` looks at the toggles before the `Once` that sets them: a line of a level that is off is printed, although "Emit prints locally (if enabled and level allowed)" (`logHelpers.go:69`) |

Two more disagreements are under `findings` without a run, for they are single
assignments: `Delete` counts in `Evictions` (`cache.go:173`, `:182`), the "Number of LRU
evictions" of `cache.go:40`; and the key is built from scheme and path of the
redirected request (`proxy.go:155`), where `proxy.go:149` says "client-facing URL/host
so different upstreams share cache objects".

Other behaviour of the code that its comments do not suggest, visible in the models:

- A request takes a queue place even when a slot is free, so a simultaneous burst
  of more than `MaxQueue` is refused with idle slots (`Reject` looks at
  `queueWaitCh` only). `queue_test.go:87` expects 1 active and 2 queued of a queue
  of 2, `config.yaml:53` says "beyond in-flight".
- A place is freed before `queueDepth` is decremented, so the published depth may
  exceed `MaxQueue`; theorem `DepthIsBounded` says by how much.
- The compare-and-swap of `Pick` compares with a value loaded after the scan, so
  two picks may choose one target while another is idle
  (`LeastLoadedWhenUndisturbed` needs its hypothesis).
- With two URLs of one upstream, `Acquire` decrements the pending counter of the
  first, which may go below zero while that of the second stays up
  (`CountersExact` holds; the counters are back at zero only with distinct upstreams).
- Targets with different base paths give one client URL several cache keys, and
  different URLs may share one: `/a/b` and `/a%2Fb`, for the key has the decoded path;
  `/b` through a target with base path `/a` and `/a/b` through one without; a request
  whose body could not be read and one without a body. A HIT may then answer another
  URL than the client's; `HitProvenance` says what it does guarantee.
- A client with `Authorization` that sends `Cache-Control: public` shares the cache with
  everybody (`isCacheableRequest`; `Vetoed`).
- Of several `Cache-Control` lines only the first is read (`Get`), so a `no-store` in the
  second vetoes nothing.
- The queue's 429 and 503 and the 502 of a failed read are not observed. If the client
  leaves between the two looks at the context, 502 is observed and 408 sent
  (`LeftInBetween`, the exception in `ObservedIsSent`).
- One upstream has two labels in `proxy_upstream_requests_total`: answers are counted
  under the `X-Upstream` header they bring, which is what `metrics.go:94` announces,
  failures and answers without it under the target's host (`upstreamLabel`).
- Gauge writes overtake each other (`LoadDepth` before, `PublishOut...` after somebody
  else's), so the gauge that "reports the number of requests currently waiting"
  (`metrics.go:51`) may stay above zero on an empty queue until the next request.
- Two misses of one URL may overtake each other, and the older answer then replaces the
  newer one for a lifetime (`HitReflectsStore` bounds the damage). A PUT or DELETE
  repeated within the lifetime of its acknowledgement is acknowledged from the cache
  and changes nothing (`AckedWritesApplied`).
- Near 2^64 claims one probe loop of the round-robin balancer tries a target twice and
  another not at all, unless the number of targets is a power of two
  (`LoopOverflows`, the exception in `SkipsOnlyFailed`; theorem
  `PowerOfTwoNeverSkips`).
- The switch of the balancer is unsynchronised. Only `main.go:39-40` calls the setters,
  before any traffic; under traffic a change of strategy may be undefined behaviour
  (`TornOnlyByStrategyChange`), and a request that picked on one balancer and acquires
  on the next leaves a reservation behind on one and takes one that was never made from
  the other (`BooksPerBalancer`). Two goroutines that reconfigure at once could leave
  fields and balancer apart; the model has one.
- Without `allowed_methods` the default list applies, where `config.yaml:14` and `:38`
  say that all methods are allowed; and the methods of requests are compared exactly, where
  `config.yaml:15` says case-insensitively.
- A generation that fails or is interrupted leaves a certificate without its key, or an
  empty key. If one file is missing, the next start generates again and overwrites the
  other one, a user's certificate included (`config.yaml:69`); if one is empty, every
  later start dies at listen. `NoSilentDowngrade` and `PairIsKept` say what is never
  lost.
- A user's certificate and key that do not belong together, or cannot be parsed, count
  as present: nothing is generated and the start dies at listen, in the first start and
  in all later ones (`UsersFiles` in `NoSilentDowngrade`).
- A plain HTTP server has no read timeout, so a client may hold its own request, not
  somebody else's, in the middle of a body for ever (`AnsweredOrUpstream`).
- A body of more than 8 KB reaches the example's handlers without the byte after the
  preview (`logUpstream.go:104-117`, `Decoded`).
- Any request whose `User-Agent` has "Prometheus" or whose `Accept` has "openmetrics" in
  it passes the example's middleware unmeasured, whatever it asks for
  (`UpstreamMetricsExact` is about the others).
- The mux of `main.go:79` has a `/healthz` of its own, which hides the proxy's
  (`Healthz`) in production.

### Bounds

In the queue every race is between the handler and the acquirer of one request, its
timer and its client, and one request that holds what it wants: two requests, with one
place and one slot, so that both limits are reached. (A third makes the liveness check
too large; the theorems are about any number.) A pick of the least-connections balancer can be overtaken by another
pick, a conversion or a release of a third: three requests on two targets. With
modulus 4 and three targets the round-robin counter wraps in the middle of a round,
from 2 with the second of three claims, and the sum of start index and loop variable
wraps inside one `Pick`; three targets leave room for one that fails before, at and
after the probe. Two replacements of the balancer are enough for a request that
picks on one, acquires on the next and releases when a third is in place. Eviction
order needs one key more than places and a lookup in between. `MaxTime`,
`MaxLookups`, `MaxUses` and `MaxSegments` bound the clock, the lookups and the counted
uses of `cache`, and the headers; with them entries expire, are looked up stale and
are evicted. The bounds on lookups and uses are in `LRUCacheHistory` only.
In `cache` the decisions and the operations of the cache do not touch each other's
variables; `MCCache` takes all decisions, and explores the operations behind one.
Two requests in the proxy are a store and a hit, a store and an eviction, one upstream
and one waiting or refused; the five pairs of `MCReverseProxy` have keys that agree
always, never, depending on the previews, and only if a body cannot be read. Three
requests with two targets are too large for TLC, and again the theorems are about any
number. The requests of `items` are a write, a read that was cached before it, and a
scrape that meets both; `MaxAge = 1` and a clock to 2 let entries expire. Two starts are a
generation that is cut short and the start that finds what it left. The documents
vary one section at a time, because `Load` treats the sections one by one.

`cache` switches the deadlock check off: at the bounds of the clock and the
lookups nothing may be left to do. Elsewhere the end is an explicit
stuttering action (`AllSettled`, `AllFinished`, `Stopped`, ...), and anything else
that stops is reported.

Symmetry is declared over requests, targets, keys and writers, and only in runs without
liveness properties; the specifications do not tell them apart.

### Fairness

Weak fairness of both goroutines of a request: the Go scheduler runs what can run
and a timer fires. `Select` always has the timer ready in the model, which is the
code's "sooner or later". In `proxy` the steps of the proxy's goroutine are weakly
fair, those that wait for the client's body or for the upstream are not. No fairness for arrivals, for
clients that leave, or for upstreams: `NewReverseProxy` sets no response timeout, so
`next.ServeHTTP` may never return. Probes do return: their client has a timeout of
500 ms. In `server`, `main` and `Emit` are weakly fair, the latter because the Loki
client times out after 200 ms; failures, crashes and restarts are not.

## Proofs

Every safety invariant and every action property that a passing run checks is also a
theorem, for every value of the constants that the assumptions below allow; what
is left to TLC are the liveness properties. Each theorem `Spec => []P` goes the
same way: an inductive invariant that implies `P`, that holds initially and that
every action preserves, one lemma per action or group of actions.

| Module | Theorem | Property |
|---|---|---|
| `RequestQueueProofs` | `TypeCorrect` | `TypeOK` |
| | `CountersAreExact` | `CountersExact` |
| | `LifecycleIsConsistent` | `LifecycleConsistent` |
| | `ConcurrencyIsBounded` | `ConcurrencyBound` |
| | `NoReceiveBlocks` | `ReceivesNeverBlock` |
| | `DepthIsBounded` | `DepthOvershoot` |
| | `MetricsAreExact` | `MetricsAccount` |
| | `DecisionsAreFinal` | `DecisionIsFinal` |
| | `LostSlotsAreLost` | `LostSlotsStay` |
| | `LeakIsTheOrphans` | at rest the slots taken are the orphaned ones, and no others |
| | `LeakStarves` | when all slots are orphaned, nobody ever runs again |
| | `Refinement` | `ImplementsAdmission` |
| `LeastConnectionsProofs` | `CountersAreExact` | `CountersExact` |
| | `UndisturbedPicksLeast` | `LeastLoadedWhenUndisturbed` |
| | `RetriesOnlyWhenOvertaken` | a `Pick` starts over only if another request got on meanwhile |
| | `RefusedWeighForGood` | reservations are the requests between `Pick` and `Acquire` and the refused ones |
| | `WithoutQueueNothingLeaks` | `PendingIsInFlight`, for distinct upstreams without a queue |
| `RoundRobinProofs` | `OnlyFailedAreSkipped` | `SkipsOnlyFailed` |
| | `PowerOfTwoNeverSkips` | `SkipsOnlyFailed` without its exception, if the number of targets divides the modulus |
| | `TurnsAreEven` | `EvenTurns` |
| `BalancerSwitchProofs` | `BooksAreExact` | `BooksPerBalancer` |
| | `TornByStrategyChangeOnly` | `TornOnlyByStrategyChange` |
| | `SwitchesSettle` | `SettledAsConfigured` |
| | `ReplacedDrain` | `ReplacedOnlyDrains` |
| `CacheProofs` | `ListAndMapAgree` | `ListMatchesMap` |
| | `NeverOverCapacity` | `WithinCapacity` |
| | `Refinement` | `ImplementsResponseMap` |
| | `HistoryOnlyRecords` | `HSpec => Spec` |
| | `StoresAreAccounted` | `StoresBalance` (of `HSpec`) |
| | `LeastRecentlyUsedGoes` | `EvictsLeastRecent` (of `HSpec`) |
| | `StoresOnlyWhatIsAllowed` | `StoredAsAllowed` (of `CachePolicy`) |
| | `OrderDoesNotMatter` | `OrderIrrelevant` (of `CachePolicy`) |
| `ReverseProxyProofs` | `HitsAreGenuine` | `HitProvenance` |
| | `GaugeIsExact` | `InflightAccounting` |
| | `MetricsAreSent` | `ObservedIsSent` |
| | `UsesTheQueue` | `Queue!Spec`: the proxy implements `Admission` |
| | `CacheStaysConsistent` | `ListMatchesMap` and `WithinCapacity` of the proxy's cache |
| | `CacheIsAMap` | `ImplementsResponseMap` of the proxy's cache |
| `ItemsProofs` | `CreationsAreExact` | `CreatesExact` |
| | `AcknowledgedWritesHappened` | `AckedWritesApplied` |
| | `UpstreamMetricsAreExact` | `UpstreamMetricsExact` |
| | `HitsReflectTheStore` | `HitReflectsStore` |
| `ServerProofs` | `LogsWhatIsConfigured` | `LogsAsConfigured` |
| | `DowngradeIsNotSilent` | `NoSilentDowngrade` |
| | `PairsAreKept` | `PairIsKept` |
| | `ServesWhatIsConfigured` | `ServesAsConfigured` |

`Invariance` (in `RoundRobinProofs` `LoopInvariance` and `TurnsInvariance`, in
`ServerProofs` `LogInvariance` and `FilesInvariance`, elsewhere with companions
`ScanInvariance`, `HistoryInvariance`, `PolicyInvariance`) is the theorem that the
inductive invariant holds.

### The arguments

**Queue.** The concurrency bound is not inductive: a step that admits a request
knows nothing of how many run. `SlotAccounting` ties the length of `activeSlotsCh`
to the set of requests whose acquirer took a slot, `LifecycleConsistent` says an
admitted request is one of them, and then `Running \subseteq SlotHolders` gives the
bound. `Orphans`, the requests turned away although their acquirer won, are slot
holders too and apart from `Running`, so `ConcurrencyBound` counts both: every lost
race takes one from the limit. When all is quiet nobody else holds a slot
(`LeakIsTheOrphans`). Orphans stay orphans, and `LostOrRunning` says that their slots
are in the channel beside those of `Running`: that nobody receives one of them
(`LostSlotsAreLost`) needs the accounting before and after the step, and a full set of
them leaves no room for `Running`, now and for ever (`LeakStarves`). `QueueAccounting` and `DepthAccounting` do the same for the other channel and
the counter, and give the receives that never block and the bound on the depth. Each
accounting lemma is one step per action: either a request joins the set and the
counter grows by one (`CountJoin`), or it leaves and the counter shrinks
(`CountLeave`), or neither changes. `MetricsAreExact` is the same argument for the
classes of outcomes. `Refinement` uses `IInv` for the two guards of `Admission`: a
refused request meets a full queue, a started one a free slot.

**Least connections.** `CountersExact` needs `ScanFinds` only: a request reserves a
target its scan found and remembers it. What `Acquire` decrements is the first
target of the same upstream (`LeastNat`), which need not be the one that was
reserved; the accounting follows the code. `LeastLoadedWhenUndisturbed` needs
`ScanExact`: as long as nobody disturbs a scan, what it has found so far is the first
of the least loaded among the targets seen, and `seen`, `min` are still their loads.
`CASInv` says that for an undisturbed request the value it loaded before the
compare-and-swap is still the counter's, so that only a disturbed one retries. With
distinct upstreams (`Distinct`) the first target of the same upstream is the one
reserved, and the difference of the sums in `CountersExact` becomes a set:
`HoldingAt(t)`, the requests between `Pick` and `Acquire` and the refused ones.

**Round robin.** `LoopInv` says that what is behind the loop was probed and down.
The arithmetic is in lemmas about `%` and `\div` (`NextRemainder`, `LoopReachesAll`):
without overflow, or if it is harmless (`OverflowKeepsTurn`), the loop's indices run
through every remainder. For the turns,
`TurnsInv` counts the claims in closed form: `Share(n, t)` is the number of the
indices below `n` that fall to target `t`, and the claims are `Share` of an interval,
or of the two pieces after the wrap. Two targets' shares of an interval differ by one.

**Switch.** `WordsLag` describes a store under way (one word may be one balancer
behind), `OneTypeUntilChanged` why that is harmless until the strategy changes,
`Remembers` ties a request's place to the balancers in its hands, and a balancer that
is not built has empty books. A balancer behind `dataWord` is loaded by nobody any more:
`Callers`, the calls that had loaded it, only shrink, and every change of its books that
is not a release takes one of them away, which gives `ReplacedOnlyDrains`.

**Cache.** `ListHoldsMap`: the list holds each key of the map once. Moving to the
front, removing and evicting keep it (`ToFrontLists`, `WithoutLists`), `Entries` is
its length, and the length never passes the capacity. `HInv` adds that the list is in
the order of the last uses, so that the back is the least recent, and the balance, for
which `GoneFacts` says how many entries each operation takes out of the map. `Refinement` needs
one more fact, `Timed`: the expiry a goroutine brings to the critical section of its
`Set` was computed from a time not later than now. Then each action is a step of
`ResponseMap`: `EndSet` is its `Set`, an eviction its victim, and a stale lookup, a
`BeginSet` and everything that only touches the list are stutters. For the policy,
`LastIsKept` says which segment `parseCacheControl` keeps for a name and
`OrderForgotten` that without repeated names a header and its reverse give the same
map. Lines may have any length; statuses and `Expires` are the classes of `Init`.

**Proxy.** `Placed` and `Told` say for every place in the code in which phase of the
queue the request is and what its client and the metrics have been told; the slots
bound what runs. `CacheHoldsMisses` ties each entry to the request that relayed it as
a MISS, which makes a HIT genuine: the two share a key, and `OwnKey`, all that is used
of `CacheKey`, gives method and host. A failed round trip is remembered with the status
that was counted, 408 only for a client that had left, so that the status written
differs in one case only (`LeftInBetween`). For the composition, `StepUsesTheCache` shows step by
step that the proxy changes the cache's variables as `LRUCache` does. `Facts`, an
instance of `CacheProofs` with the proxy's cache, then gives its theorems for the cache
inside the proxy; the history and policy variables of that instance are constants,
since no theorem that is used mentions them.

**Items.** `ReplyOK` says of every reply, by status and method, what it still means
for the store: a creation's id is below `nextID`, a deleted id is gone for good, a read
is current unless `writes` has grown. `Apart` compares replies in pairs, and holds for
a new one because ids are never given out again. `AnswerOK`, `SettingOK`, `EntryOK`
follow an answer from its client through `Set` into the cache with its expiry. Gauge
and counters are cardinalities of sets of requests that are no scrapes.

**Server.** `LogInv` says which toggles have been read at each step of the `Once` and
that a goroutine behind it (`through`) sees all of them. `FilesInv` says what may be on disk at
each step of a generation: at its first step one file is missing, then the
certificate is partial, then new with an old or partial key; outside a generation, two
files that cannot be used are the remains of one that was cut short or both the user's
own (`UnusableExplained`).
`ServesAsConfigured` is a fact about `Build(Settings(doc))` for one document, and
`BuiltFrom` says that this is what runs.

### Assumptions

Finite sets of requests (`RequestsAssumption`, `SwitchAssumption`, `ProxyAssumption`, the
latter also with the empty body and the absent `X-Upstream` among the possible ones); integers as
limits, where non-positive ones are replaced by defaults as in the code
(`LimitsAssumption`, `LRUAssumption`, `LifetimeAssumption`, `ProxyCacheAssumption`); at
least one target; at least one slot in
`ReverseProxy`, which is what `WithQueue` guarantees. `PicksAssumption`: no more than
`Modulus` picks, that is 2^64, so that the counter wraps at most once, which is what
`EvenTurns` means by "once the counter has wrapped". `OperationsAssumption`: a request
to the example asks for one of its two paths. `MaxAgeAssumption`: the example's
lifetime is positive (it is 10). `DocumentsAssumption`: options have the types of the
structs that YAML is decoded into. Each is checked by TLC on the instances of the runs.

`LifecycleConsistent`, `DepthOvershoot`, `WithinCapacity` and the inductive invariants
are proved and not checked by a run of their own.

### Only model-checked

The liveness properties `WaitersLeave`, `AcquirerEnds`, `PickTerminates` (of both
balancers), `AnsweredOrUpstream`, `StartSettles` and `EmitReturns`: fairness and
`ENABLED` are outside the prover's reach. The violations `queue_leak`, `lc_queue`,
`policy_ttl` and `log_levels` are counterexamples of TLC. Induction over data is outside its reach too;
the modules use no recursion, the sums and orders above are cardinalities, closed
forms and a least element (from `WFMin`), and a loop is an invariant of its steps.

## Not modelled

- Durations: only the order of events matters here. Latency histograms and `Age`
  are left out.
- Header rewriting beyond what reaches the cache key, the request identifier and the
  upstream label, and the text of log lines.
- Panics of the wrapped handler beyond the deferred calls that run in any case.
- Connections: the pool of `net/http`, and the body of Loki's answer, which is never
  closed (`logHelpers.go:145`), so that its connection is not reused.
- Of the example upstream: its addresses and the fall-back when one is in use
  (`cmd/upstream/main.go`), its `/cache`, `/slow`, `/` and `/metrics` endpoints and
  the header wrappers. They keep no state the proxy depends on.
- The presentation, the dashboards, the deployment files and the tests.

## What could be added

An abstract balancer (a target that was not seen down, and a count of connections per
target) that `RoundRobin` and `LeastConnections` both implement, to compose with
`ReverseProxy` in place of its free choice of targets; the listen addresses of the
example upstream; two goroutines that reconfigure in `BalancerSwitch`.
