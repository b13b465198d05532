-------------------------- MODULE LeastConnections --------------------------
(***************************************************************************)
(* internal/proxy/balancer.go: the least-connections balancer, as the      *)
(* reverse proxy uses it.  A request picks a target (Pick reserves it),    *)
(* then either reaches serveUpstream, which turns the reservation into an  *)
(* active connection (Acquire) and ends it (the release function), or is   *)
(* turned away by the admission queue that sits in between.                *)
(*                                                                         *)
(* One action is one atomic instruction on a counter.  A health probe      *)
(* touches no shared state of the proxy and is merged with the load that   *)
(* follows it; its answer is any answer.  Pick(true), the preview, only    *)
(* reads the active counters and is left to the module ReverseProxy.       *)
(***************************************************************************)
EXTENDS Integers, FiniteSets

CONSTANTS Requests,      \* requests that go upstream
          N,             \* number of configured targets
          Identities     \* the possible identities of the targets

Targets == 1..N

ASSUME LCRequestsAssumption == IsFiniteSet(Requests)
ASSUME LCTargetsAssumption ==
  /\ N \in Nat \ {0}
  /\ \A id \in Identities : DOMAIN id = Targets

VARIABLES
  Identity,            \* Identity[t]: scheme, host and port of target t
  healthChecksEnabled,
  queueWraps,          \* whether WithQueue wraps serveUpstream
  activeConnections,   \* activeConnections[t]
  pendingSelections,   \* pendingSelections[t]
  pc,                  \* pc[r]: where request r stands
  at,                  \* at[r]: target the scan of r is looking at
  best,                \* best[r]: first least loaded target so far, 0 if none
  min,                 \* min[r]: the load seen there
  seen,                \* seen[r]: the last counter value r loaded
  target,              \* target[r]: target whose reservation r made, 0 if none
  disturbed            \* history: scanning requests that others overtook

vars == <<Identity, healthChecksEnabled, queueWraps, activeConnections,
          pendingSelections, pc, at, best, min, seen, target, disturbed>>

\* Chosen before the first request and not changed afterwards.
settings == <<Identity, healthChecksEnabled, queueWraps>>

counters == <<activeConnections, pendingSelections>>
scan == <<at, best, min, seen>>

\* Scheme, host and port agree; the path is not looked at.
sameUpstream(s, t) == Identity[s] = Identity[t]

\* Acquire finds the state of a URL by sameUpstream, first match first.
StateOf(t) ==
  CHOOSE s \in Targets :
    /\ sameUpstream(s, t)
    /\ \A u \in Targets : sameUpstream(u, t) => s <= u

Init ==
  /\ Identity \in Identities
  /\ healthChecksEnabled \in BOOLEAN
  /\ queueWraps \in BOOLEAN
  /\ activeConnections = [t \in Targets |-> 0]
  /\ pendingSelections = [t \in Targets |-> 0]
  /\ pc = [r \in Requests |-> "idle"]
  /\ at = [r \in Requests |-> 1]
  /\ best = [r \in Requests |-> 0]
  /\ min = [r \in Requests |-> 0]
  /\ seen = [r \in Requests |-> 0]
  /\ target = [r \in Requests |-> 0]
  /\ disturbed = {}

Goto(r, from, to) ==
  /\ pc[r] = from
  /\ pc' = [pc EXCEPT ![r] = to]

\* Requests between the start of a scan and its reservation.
Picking == {r \in Requests :
              pc[r] \in {"loadActive", "loadPending", "loadReserve", "reserve"}}

\* A counter changes under the eyes of the other pickers.
Overtakes(r) == disturbed' = disturbed \cup (Picking \ {r})

-----------------------------------------------------------------------------
(* Pick(false): findCandidates scans the targets in order and keeps the    *)
(* first of the least loaded ones.                                         *)

StartPick(r) ==
  /\ Goto(r, "idle", "loadActive")
  /\ UNCHANGED <<settings, counters, scan, target, disturbed>>

\* The loop moves on from target at[r]; after the last one, Pick goes on to
\* reserve if there is a candidate and returns nil if there is none.
NextTarget(r, found) ==
  /\ at' = [at EXCEPT ![r] = IF @ < N THEN @ + 1 ELSE 1]
  /\ pc' = [pc EXCEPT ![r] = IF at[r] < N THEN "loadActive"
                             ELSE IF found THEN "loadReserve" ELSE "noTarget"]

\* The probe of at[r] fails and the scan skips it.
SkipUnhealthy(r) ==
  /\ healthChecksEnabled
  /\ pc[r] = "loadActive"
  /\ NextTarget(r, best[r] # 0)
  /\ UNCHANGED <<settings, counters, best, min, seen, target, disturbed>>

\* load := atomic.LoadInt64(&st.activeConnections)
LoadActive(r) ==
  /\ Goto(r, "loadActive", "loadPending")
  /\ seen' = [seen EXCEPT ![r] = activeConnections[at[r]]]
  /\ UNCHANGED <<settings, counters, at, best, min, target, disturbed>>

\* Mutant: ties go to the last target.
BetterOrEqual(r, load) == best[r] = 0 \/ load <= min[r]

\* Does this load replace the best so far?  An equal one does not.
Better(r, load) == best[r] = 0 \/ load < min[r]

\* load += atomic.LoadInt64(&st.pendingSelections), then the comparison
LoadPending(r) ==
  LET load == seen[r] + pendingSelections[at[r]]
  IN /\ pc[r] = "loadPending"
     /\ best' = [best EXCEPT ![r] = IF Better(r, load) THEN at[r] ELSE @]
     /\ min' = [min EXCEPT ![r] = IF Better(r, load) THEN load ELSE @]
     /\ seen' = [seen EXCEPT ![r] = 0]
     /\ NextTarget(r, TRUE)
     /\ UNCHANGED <<settings, counters, target, disturbed>>

\* p := atomic.LoadInt64(&best.pendingSelections)
LoadReserve(r) ==
  /\ Goto(r, "loadReserve", "reserve")
  /\ seen' = [seen EXCEPT ![r] = pendingSelections[best[r]]]
  /\ UNCHANGED <<settings, counters, at, best, min, target, disturbed>>

\* The locals of a finished selection are dead.
Forget(r) ==
  /\ best' = [best EXCEPT ![r] = 0]
  /\ min' = [min EXCEPT ![r] = 0]
  /\ seen' = [seen EXCEPT ![r] = 0]
  /\ UNCHANGED at

\* Mutant: a plain store instead of the compare-and-swap.
ReserveBlind(r) ==
  /\ Goto(r, "reserve", "picked")
  /\ pendingSelections' = [pendingSelections EXCEPT ![best[r]] = seen[r] + 1]
  /\ target' = [target EXCEPT ![r] = best[r]]
  /\ Forget(r)
  /\ Overtakes(r)
  /\ UNCHANGED <<settings, activeConnections>>

\* The compare-and-swap succeeds and Pick returns the target.
Reserve(r) ==
  /\ Goto(r, "reserve", "picked")
  /\ pendingSelections[best[r]] = seen[r]
  /\ pendingSelections' = [pendingSelections EXCEPT ![best[r]] = seen[r] + 1]
  /\ target' = [target EXCEPT ![r] = best[r]]
  /\ Forget(r)
  /\ Overtakes(r)
  /\ UNCHANGED <<settings, activeConnections>>

\* Mutant: the loop retries the compare-and-swap with the old value.
RetrySpins(r) ==
  /\ Goto(r, "reserve", "reserve")
  /\ pendingSelections[best[r]] # seen[r]
  /\ UNCHANGED <<settings, counters, scan, target, disturbed>>

\* The compare-and-swap fails and the selection starts again.
Retry(r) ==
  /\ Goto(r, "reserve", "loadActive")
  /\ pendingSelections[best[r]] # seen[r]
  /\ Forget(r)
  /\ disturbed' = disturbed \ {r}
  /\ UNCHANGED <<settings, counters, target>>

-----------------------------------------------------------------------------
(* Between Pick and Acquire: the queue answers 429 or 503 itself, and      *)
(* serveUpstream never runs.                                               *)

QueueRefuses(r) ==
  /\ queueWraps
  /\ Goto(r, "picked", "refused")
  /\ UNCHANGED <<settings, counters, scan, target, disturbed>>

-----------------------------------------------------------------------------
(* Acquire and the release function it returns.                            *)

\* atomic.AddInt64(&selectedState.pendingSelections, -1)
Convert(r) ==
  /\ Goto(r, "picked", "opening")
  /\ pendingSelections' = [pendingSelections EXCEPT ![StateOf(target[r])] = @ - 1]
  /\ Overtakes(r)
  /\ UNCHANGED <<settings, activeConnections, scan, target>>

\* atomic.AddInt64(&selectedState.activeConnections, 1)
Open(r) ==
  /\ Goto(r, "opening", "inflight")
  /\ activeConnections' = [activeConnections EXCEPT ![StateOf(target[r])] = @ + 1]
  /\ Overtakes(r)
  /\ UNCHANGED <<settings, pendingSelections, scan, target>>

\* The deferred releaseFunc: serveUpstream returned, on whatever path.
Close(r) ==
  /\ Goto(r, "inflight", "closed")
  /\ activeConnections' = [activeConnections EXCEPT ![StateOf(target[r])] = @ - 1]
  /\ Overtakes(r)
  /\ UNCHANGED <<settings, pendingSelections, scan, target>>

-----------------------------------------------------------------------------
Pick(r) ==
  \/ SkipUnhealthy(r) \/ LoadActive(r) \/ LoadPending(r)
  \/ LoadReserve(r) \/ Reserve(r) \/ Retry(r)

Finished(r) == pc[r] \in {"closed", "refused", "noTarget"}

AllFinished == (\A r \in Requests : Finished(r)) /\ UNCHANGED vars

Next ==
  \/ \E r \in Requests :
       \/ StartPick(r) \/ Pick(r)
       \/ QueueRefuses(r)
       \/ Convert(r) \/ Open(r) \/ Close(r)
  \/ AllFinished

Spec == Init /\ [][Next]_vars

\* A goroutine inside Pick is scheduled again and again; its probes return
\* within the probe client's timeout.  Nothing else is assumed.
FairSpec == Spec /\ \A r \in Requests : WF_vars(Pick(r))

-----------------------------------------------------------------------------
(* Properties.                                                             *)

\* Requests whose Pick reserved target t, and requests whose Acquire took a
\* reservation back from the counter of t.
ReservedAt(t) == {r \in Requests : target[r] = t}
ConvertedAt(t) ==
  {r \in Requests : /\ pc[r] \in {"opening", "inflight", "closed"}
                    /\ StateOf(target[r]) = t}
OpenAt(t) ==
  {r \in Requests : pc[r] = "inflight" /\ StateOf(target[r]) = t}

\* No update of a reservation counter is lost or doubled by the concurrent
\* compare-and-swaps and additions: it is the reservations made on its target
\* less those Acquire took back from it.
PendingAccounting ==
  \A t \in Targets :
    pendingSelections[t]
      = Cardinality(ReservedAt(t)) - Cardinality(ConvertedAt(t))

\* The connection counter of a target is the number of requests upstream
\* there, so it is never negative and returns to zero.
ActiveAccounting ==
  \A t \in Targets : activeConnections[t] = Cardinality(OpenAt(t))

\* Both counts are exact at every moment of every interleaving, with aliases,
\* failing probes and refusals by the queue.
CountersExact == PendingAccounting /\ ActiveAccounting

\* Alone among pickers and unaffected by others, a request reserves the first
\* of the targets whose connections plus reservations are fewest
\* (README.md:52, "the backend with the fewest active connections").
LeastLoadedWhenUndisturbed ==
  [][\A r \in Requests :
       (Reserve(r) /\ r \notin disturbed /\ ~healthChecksEnabled) =>
         LET load(t) == activeConnections[t] + pendingSelections[t]
         IN \A t \in Targets : /\ load(best[r]) <= load(t)
                               /\ t < best[r] => load(best[r]) < load(t)]_vars

\* The retry loop of Pick ends: a compare-and-swap fails only because another
\* request made progress.
PickTerminates ==
  \A r \in Requests :
    pc[r] = "loadActive" ~> pc[r] \in {"picked", "noTarget"}

-----------------------------------------------------------------------------
(* What the documentation says and the code does not do.                   *)

\* "pendingSelections int64 // in-flight reservations made by Pick"
\* (balancer.go:77): a reservation of a request that is already answered is
\* not in flight.
PendingIsInFlight ==
  (\A r \in Requests : Finished(r)) =>
     \A t \in Targets : pendingSelections[t] = 0
=============================================================================
