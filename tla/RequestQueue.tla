---------------------------- MODULE RequestQueue ----------------------------
(***************************************************************************)
(* internal/proxy/queue.go: the handler WithQueue returns, a bounded       *)
(* waiting queue in front of a bounded concurrency limiter.                *)
(*                                                                         *)
(* Every request runs two goroutines: the HTTP handler, whose program      *)
(* counter is pc[r], and the acquirer it starts to compete for an active   *)
(* slot, whose state is acq[r].  One action is one operation on shared     *)
(* state: a channel send or receive, one atomic instruction on queueDepth, *)
(* one write of the gauge.  A buffered channel of struct{} is the number   *)
(* of values it holds.  Time is not measured: the enqueue timer may fire   *)
(* at any moment of the wait, and the client may leave at any moment.      *)
(***************************************************************************)
EXTENDS Integers, FiniteSets

CONSTANTS Requests,       \* the requests that ever reach the handler
          MaxQueue,       \* QueueConfig.MaxQueue as configured
          MaxConcurrent   \* QueueConfig.MaxConcurrent as configured

ASSUME RequestsAssumption == IsFiniteSet(Requests)
ASSUME LimitsAssumption == MaxQueue \in Int /\ MaxConcurrent \in Int

\* The limits after the defaults for non-positive values.
QueueCap == IF MaxQueue <= 0 THEN 1024 ELSE MaxQueue
SlotCap == IF MaxConcurrent <= 0 THEN 128 ELSE MaxConcurrent

VARIABLES
  pc,              \* pc[r]: where the handler of r stands
  acq,             \* acq[r]: where the acquirer goroutine of r stands
  outcome,         \* outcome[r]: what the queue decided for r
  clientGone,      \* requests whose reqCtx is done
  cancelled,       \* requests whose cancelAcquire was called
  queueWaitCh,     \* values in the channel of that name
  activeSlotsCh,   \* values in the channel of that name
  queueDepth,      \* the atomic counter
  depth,           \* depth[r]: value of queueDepth r is about to publish
  gauge,           \* the metric proxy_queue_depth
  metrics          \* counters: rejected, timeouts and observed waits

vars == <<pc, acq, outcome, clientGone, cancelled, queueWaitCh, activeSlotsCh,
          queueDepth, depth, gauge, metrics>>

Locations == {"arriving", "counting", "publishing", "waiting", "leaving",
              "uncounting", "loading", "republishing", "active", "releasing",
              "done"}

\* "granting" holds a slot and has not told the handler; "granted" has.
AcquirerStates == {"unstarted", "selecting", "granting", "granted", "quit"}

Outcomes == {"none", "429", "503 cancelled", "503 timeout", "admitted"}

Init ==
  /\ pc = [r \in Requests |-> "arriving"]
  /\ acq = [r \in Requests |-> "unstarted"]
  /\ outcome = [r \in Requests |-> "none"]
  /\ clientGone = {}
  /\ cancelled = {}
  /\ queueWaitCh = 0
  /\ activeSlotsCh = 0
  /\ queueDepth = 0
  /\ depth = [r \in Requests |-> 0]
  /\ gauge = 0
  /\ metrics = [rejected |-> 0, timeouts |-> 0, waits |-> 0]

Goto(r, from, to) ==
  /\ pc[r] = from
  /\ pc' = [pc EXCEPT ![r] = to]

-----------------------------------------------------------------------------
(* The handler: entering the queue.                                        *)

\* Mutant: the channel is made one too large.
EnqueueOffByOne(r) ==
  /\ queueWaitCh <= QueueCap
  /\ Goto(r, "arriving", "counting")
  /\ queueWaitCh' = queueWaitCh + 1
  /\ UNCHANGED <<acq, outcome, clientGone, cancelled, activeSlotsCh,
                 queueDepth, depth, gauge, metrics>>

\* The send on queueWaitCh succeeds.
Enqueue(r) ==
  /\ queueWaitCh < QueueCap
  /\ Goto(r, "arriving", "counting")
  /\ queueWaitCh' = queueWaitCh + 1
  /\ UNCHANGED <<acq, outcome, clientGone, cancelled, activeSlotsCh,
                 queueDepth, depth, gauge, metrics>>

\* The default branch: count the rejection and answer 429.
Reject(r) ==
  /\ queueWaitCh >= QueueCap
  /\ Goto(r, "arriving", "done")
  /\ outcome' = [outcome EXCEPT ![r] = "429"]
  /\ metrics' = [metrics EXCEPT !.rejected = @ + 1]
  /\ UNCHANGED <<acq, clientGone, cancelled, queueWaitCh, activeSlotsCh,
                 queueDepth, depth, gauge>>

\* depthAfterEnqueue := atomic.AddInt64(&queueDepth, 1)
CountIn(r) ==
  /\ Goto(r, "counting", "publishing")
  /\ queueDepth' = queueDepth + 1
  /\ depth' = [depth EXCEPT ![r] = queueDepth + 1]
  /\ UNCHANGED <<acq, outcome, clientGone, cancelled, queueWaitCh,
                 activeSlotsCh, gauge, metrics>>

\* QueueDepthSet(depthAfterEnqueue); then the acquirer and the timer start.
PublishIn(r) ==
  /\ Goto(r, "publishing", "waiting")
  /\ gauge' = depth[r]
  /\ depth' = [depth EXCEPT ![r] = 0]
  /\ acq' = [acq EXCEPT ![r] = "selecting"]
  /\ UNCHANGED <<outcome, clientGone, cancelled, queueWaitCh, activeSlotsCh,
                 queueDepth, metrics>>

-----------------------------------------------------------------------------
(* The handler: the three ways out of its select.                          *)

\* Mutant: nobody cancels the acquirer.
CancelForgotten(r) == UNCHANGED cancelled

CancelAcquire(r) == cancelled' = cancelled \cup {r}

\* case <-reqCtx.Done()
ClientGone(r) ==
  /\ r \in clientGone
  /\ Goto(r, "waiting", "leaving")
  /\ CancelAcquire(r)
  /\ outcome' = [outcome EXCEPT ![r] = "503 cancelled"]
  /\ metrics' = [metrics EXCEPT !.waits = @ + 1]
  /\ UNCHANGED <<acq, clientGone, queueWaitCh, activeSlotsCh, queueDepth,
                 depth, gauge>>

\* Mutant: the timeout is not counted.
TimedOutUncounted(r) ==
  /\ Goto(r, "waiting", "leaving")
  /\ CancelAcquire(r)
  /\ outcome' = [outcome EXCEPT ![r] = "503 timeout"]
  /\ metrics' = [metrics EXCEPT !.waits = @ + 1]
  /\ UNCHANGED <<acq, clientGone, queueWaitCh, activeSlotsCh, queueDepth,
                 depth, gauge>>

\* Mutant: the timer is never started.
TimedOutNever(r) ==
  /\ FALSE
  /\ UNCHANGED vars

\* case <-enqueueTimer.C
TimedOut(r) ==
  /\ Goto(r, "waiting", "leaving")
  /\ CancelAcquire(r)
  /\ outcome' = [outcome EXCEPT ![r] = "503 timeout"]
  /\ metrics' = [metrics EXCEPT !.timeouts = @ + 1, !.waits = @ + 1]
  /\ UNCHANGED <<acq, clientGone, queueWaitCh, activeSlotsCh, queueDepth,
                 depth, gauge>>

\* Mutant: a grant that arrives after the timeout is still honoured.
GrantedLate(r) ==
  /\ acq[r] = "granted"
  /\ pc[r] \in {"waiting", "leaving"}
  /\ pc' = [pc EXCEPT ![r] = "leaving"]
  /\ outcome' = [outcome EXCEPT ![r] = "admitted"]
  /\ UNCHANGED <<acq, clientGone, cancelled, queueWaitCh, activeSlotsCh,
                 queueDepth, depth, gauge, metrics>>

\* case <-activeGrantedCh
Granted(r) ==
  /\ acq[r] = "granted"
  /\ Goto(r, "waiting", "leaving")
  /\ outcome' = [outcome EXCEPT ![r] = "admitted"]
  /\ UNCHANGED <<acq, clientGone, cancelled, queueWaitCh, activeSlotsCh,
                 queueDepth, depth, gauge, metrics>>

-----------------------------------------------------------------------------
(* The handler: leaving the queue.  The deferred clean-up of a request     *)
(* that gives up and the transition queued -> active of one that goes on   *)
(* are the same four operations; what follows depends on the outcome.      *)

\* <-queueWaitCh
LeaveQueue(r) ==
  /\ queueWaitCh > 0
  /\ Goto(r, "leaving", "uncounting")
  /\ queueWaitCh' = queueWaitCh - 1
  /\ UNCHANGED <<acq, outcome, clientGone, cancelled, activeSlotsCh,
                 queueDepth, depth, gauge, metrics>>

\* Mutant: the counter is not decremented.
CountOutForgets(r) ==
  /\ Goto(r, "uncounting", "loading")
  /\ UNCHANGED <<acq, outcome, clientGone, cancelled, queueWaitCh,
                 activeSlotsCh, queueDepth, depth, gauge, metrics>>

\* atomic.AddInt64(&queueDepth, -1)
CountOut(r) ==
  /\ Goto(r, "uncounting", "loading")
  /\ queueDepth' = queueDepth - 1
  /\ UNCHANGED <<acq, outcome, clientGone, cancelled, queueWaitCh,
                 activeSlotsCh, depth, gauge, metrics>>

\* atomic.LoadInt64(&queueDepth), the argument of QueueDepthSet
LoadDepth(r) ==
  /\ Goto(r, "loading", "republishing")
  /\ depth' = [depth EXCEPT ![r] = queueDepth]
  /\ UNCHANGED <<acq, outcome, clientGone, cancelled, queueWaitCh,
                 activeSlotsCh, queueDepth, gauge, metrics>>

\* QueueDepthSet, then on to next.ServeHTTP with the wait observed.
PublishOutAdmitted(r) ==
  /\ outcome[r] = "admitted"
  /\ Goto(r, "republishing", "active")
  /\ gauge' = depth[r]
  /\ depth' = [depth EXCEPT ![r] = 0]
  /\ metrics' = [metrics EXCEPT !.waits = @ + 1]
  /\ UNCHANGED <<acq, outcome, clientGone, cancelled, queueWaitCh,
                 activeSlotsCh, queueDepth>>

\* Mutant: on its way out the handler gives back a slot it finds granted.
PublishOutReturning(r) ==
  /\ outcome[r] # "admitted"
  /\ Goto(r, "republishing", "done")
  /\ gauge' = depth[r]
  /\ depth' = [depth EXCEPT ![r] = 0]
  /\ activeSlotsCh' = IF acq[r] = "granted" THEN activeSlotsCh - 1
                      ELSE activeSlotsCh
  /\ UNCHANGED <<acq, outcome, clientGone, cancelled, queueWaitCh,
                 queueDepth, metrics>>

\* QueueDepthSet, and the handler has returned: its 503 is already written.
PublishOutFailed(r) ==
  /\ outcome[r] # "admitted"
  /\ Goto(r, "republishing", "done")
  /\ gauge' = depth[r]
  /\ depth' = [depth EXCEPT ![r] = 0]
  /\ UNCHANGED <<acq, outcome, clientGone, cancelled, queueWaitCh,
                 activeSlotsCh, queueDepth, metrics>>

\* next.ServeHTTP returns or panics: the deferred calls run either way.
ServeReturns(r) ==
  /\ Goto(r, "active", "releasing")
  /\ UNCHANGED <<acq, outcome, clientGone, cancelled, queueWaitCh,
                 activeSlotsCh, queueDepth, depth, gauge, metrics>>

\* Mutant: isStillQueued is not cleared, so the deferred clean-up receives
\* from queueWaitCh a second time.
ReleaseStillQueued(r) ==
  /\ activeSlotsCh > 0
  /\ queueWaitCh > 0
  /\ Goto(r, "releasing", "done")
  /\ activeSlotsCh' = activeSlotsCh - 1
  /\ queueWaitCh' = queueWaitCh - 1
  /\ CancelAcquire(r)
  /\ UNCHANGED <<acq, outcome, clientGone, queueDepth, depth, gauge, metrics>>

\* <-activeSlotsCh and the deferred cancelAcquire.
Release(r) ==
  /\ activeSlotsCh > 0
  /\ Goto(r, "releasing", "done")
  /\ activeSlotsCh' = activeSlotsCh - 1
  /\ CancelAcquire(r)
  /\ UNCHANGED <<acq, outcome, clientGone, queueWaitCh, queueDepth, depth,
                 gauge, metrics>>

-----------------------------------------------------------------------------
(* The acquirer goroutine.  A Go select with several ready cases takes any *)
(* of them, so a free slot may be taken by an acquirer already cancelled.  *)

\* Mutant: one slot too many.
AcquireSlotOffByOne(r) ==
  /\ acq[r] = "selecting"
  /\ activeSlotsCh <= SlotCap
  /\ activeSlotsCh' = activeSlotsCh + 1
  /\ acq' = [acq EXCEPT ![r] = "granting"]
  /\ UNCHANGED <<pc, outcome, clientGone, cancelled, queueWaitCh, queueDepth,
                 depth, gauge, metrics>>

\* case activeSlotsCh <- struct{}{}
AcquireSlot(r) ==
  /\ acq[r] = "selecting"
  /\ activeSlotsCh < SlotCap
  /\ activeSlotsCh' = activeSlotsCh + 1
  /\ acq' = [acq EXCEPT ![r] = "granting"]
  /\ UNCHANGED <<pc, outcome, clientGone, cancelled, queueWaitCh, queueDepth,
                 depth, gauge, metrics>>

\* activeGrantedCh <- struct{}{}: the channel has room for this one value.
Grant(r) ==
  /\ acq[r] = "granting"
  /\ acq' = [acq EXCEPT ![r] = "granted"]
  /\ UNCHANGED <<pc, outcome, clientGone, cancelled, queueWaitCh,
                 activeSlotsCh, queueDepth, depth, gauge, metrics>>

\* case <-acquireCtx.Done(), a context derived from reqCtx
AcquireQuits(r) ==
  /\ acq[r] = "selecting"
  /\ r \in cancelled \cup clientGone
  /\ acq' = [acq EXCEPT ![r] = "quit"]
  /\ UNCHANGED <<pc, outcome, clientGone, cancelled, queueWaitCh,
                 activeSlotsCh, queueDepth, depth, gauge, metrics>>

-----------------------------------------------------------------------------
(* The environment: net/http cancels the request's context when the client *)
(* disconnects.                                                            *)

ClientCancels(r) ==
  /\ pc[r] \notin {"arriving", "done"}
  /\ r \notin clientGone
  /\ clientGone' = clientGone \cup {r}
  /\ UNCHANGED <<pc, acq, outcome, cancelled, queueWaitCh, activeSlotsCh,
                 queueDepth, depth, gauge, metrics>>

-----------------------------------------------------------------------------
Select(r) == ClientGone(r) \/ TimedOut(r) \/ Granted(r)

Handler(r) ==
  \/ CountIn(r) \/ PublishIn(r)
  \/ Select(r)
  \/ LeaveQueue(r) \/ CountOut(r) \/ LoadDepth(r)
  \/ PublishOutAdmitted(r) \/ PublishOutFailed(r)
  \/ Release(r)

Acquirer(r) == AcquireSlot(r) \/ Grant(r) \/ AcquireQuits(r)

\* Every request answered and both its goroutines gone.
Settled(r) ==
  /\ pc[r] = "done"
  /\ acq[r] \in {"unstarted", "granted", "quit"}

\* When all are, nothing is left to do: this is not a deadlock.
AllSettled == (\A r \in Requests : Settled(r)) /\ UNCHANGED vars

Next ==
  \/ \E r \in Requests :
       \/ Enqueue(r) \/ Reject(r)
       \/ Handler(r)
       \/ ServeReturns(r)
       \/ Acquirer(r)
       \/ ClientCancels(r)
  \/ AllSettled

Spec == Init /\ [][Next]_vars

\* The Go scheduler runs every runnable goroutine and every timer fires, so
\* both goroutines of a request are weakly fair.  Arrivals and clients owe
\* nothing, and neither does an upstream: the transport has no response
\* timeout, so next.ServeHTTP may never return.
Fairness == \A r \in Requests : WF_vars(Handler(r)) /\ WF_vars(Acquirer(r))

FairSpec == Spec /\ Fairness

-----------------------------------------------------------------------------
(* Derived sets.                                                           *)

\* Requests whose value is in queueWaitCh.
InQueue == {r \in Requests :
              pc[r] \in {"counting", "publishing", "waiting", "leaving"}}

\* Requests counted by queueDepth.
Counted == {r \in Requests :
              pc[r] \in {"publishing", "waiting", "leaving", "uncounting"}}

\* Requests past the queue with a slot of their own: these may be upstream.
Running == {r \in Requests :
              /\ outcome[r] = "admitted"
              /\ pc[r] \in {"uncounting", "loading", "republishing", "active",
                            "releasing"}}

\* Requests whose acquirer took a slot that nobody gave back.
SlotHolders == {r \in Requests :
                  /\ acq[r] \in {"granting", "granted"}
                  /\ ~(pc[r] = "done" /\ outcome[r] = "admitted")}

\* A slot whose request was turned away: no code path gives it back.
Orphans == {r \in SlotHolders : outcome[r] \in {"503 cancelled", "503 timeout"}}

\* Every request that came is answered and its goroutines have ended.
Quiet == \A r \in Requests : pc[r] = "arriving" \/ Settled(r)

-----------------------------------------------------------------------------
(* Properties.                                                             *)

\* Every variable stays in its range: the channels within their capacities,
\* program counters and outcomes among the values the code can produce.
TypeOK ==
  /\ pc \in [Requests -> Locations]
  /\ acq \in [Requests -> AcquirerStates]
  /\ outcome \in [Requests -> Outcomes]
  /\ clientGone \subseteq Requests
  /\ cancelled \subseteq Requests
  /\ queueWaitCh \in 0..QueueCap
  /\ activeSlotsCh \in 0..SlotCap
  /\ queueDepth \in Int
  /\ depth \in [Requests -> Int]
  /\ gauge \in Int
  /\ metrics \in [rejected : Nat, timeouts : Nat, waits : Nat]

\* The concurrency limiter works: never more than MaxConcurrent requests are
\* between their admission and the return of their slot, whatever the timing
\* of grants, timeouts and cancellations (queue.go:28, "bounded by
\* MaxConcurrent"); and every slot lost to a request that was turned away
\* lowers the limit by one.
ConcurrencyBound == Cardinality(Running \cup Orphans) <= SlotCap

\* Every slot is accounted for: the values in activeSlotsCh are exactly the
\* slots acquirers took, less those of requests served to the end.  A request
\* turned away after its acquirer won keeps its slot in this count.
SlotAccounting == activeSlotsCh = Cardinality(SlotHolders)

\* The queue is left as often as it is entered, on the success path and on
\* the deferred clean-up path: queueWaitCh holds one value per queued request.
QueueAccounting == queueWaitCh = Cardinality(InQueue)

\* queueDepth counts the requests between its two atomic updates, so once
\* everybody has left it is back at zero.
DepthAccounting == queueDepth = Cardinality(Counted)

\* The three counts are exact at every moment, however the goroutines
\* interleave and whichever way each request leaves (lines 71-73, 119-121, 125).
CountersExact == SlotAccounting /\ QueueAccounting /\ DepthAccounting

\* The bare receives of lines 71, 119 and 125 never block: a request that
\* reaches one finds a value to take, although any value may be taken.
ReceivesNeverBlock ==
  \A r \in Requests :
    /\ pc[r] = "leaving" => queueWaitCh > 0
    /\ pc[r] = "releasing" => activeSlotsCh > 0

\* The two goroutines of a request agree on its fate: a request is undecided
\* until its select returns, a refused one never starts an acquirer, only
\* admitted ones go upstream, and an admitted one owns the slot its own
\* acquirer took for it.
LifecycleConsistent ==
  \A r \in Requests :
    /\ outcome[r] = "none" <=>
         pc[r] \in {"arriving", "counting", "publishing", "waiting"}
    /\ acq[r] = "unstarted" <=>
         \/ pc[r] \in {"arriving", "counting", "publishing"}
         \/ outcome[r] = "429"
    /\ outcome[r] = "429" => pc[r] = "done"
    /\ pc[r] \in {"active", "releasing"} => outcome[r] = "admitted"
    /\ outcome[r] = "admitted" => acq[r] = "granted"

\* The queue metrics classify every request exactly once: rejections are the
\* 429 answers, timeouts the timer's 503 answers, and a wait is observed once
\* for every request that got past the queue or gave up in it.
MetricsAccount ==
  LET answered(o) == Cardinality({r \in Requests : outcome[r] = o})
      entered == {r \in Requests :
                    \/ outcome[r] \in {"503 cancelled", "503 timeout"}
                    \/ outcome[r] = "admitted" /\
                         pc[r] \in {"active", "releasing", "done"}}
  IN /\ metrics.rejected = answered("429")
     /\ metrics.timeouts = answered("503 timeout")
     /\ metrics.waits = Cardinality(entered)

\* The decision about a request is final: a late grant does not revive a
\* request that timed out, and a late timeout does not fail one that runs.
DecisionIsFinal ==
  [][\A r \in Requests : outcome[r] # "none" => outcome'[r] = outcome[r]]_vars

\* What a lost slot costs: nobody receives from activeSlotsCh in the name of a
\* request that was turned away, so after every step the channel still holds
\* the slots lost before it, and only the others are left to run requests.
LostSlotsStay ==
  [][/\ activeSlotsCh' >= Cardinality(Orphans)
     /\ Cardinality(Running') <= SlotCap - Cardinality(Orphans)]_vars

\* Nobody waits for ever, even when upstreams hang and hold all the slots:
\* the enqueue timer gets every queued request out and answered.
WaitersLeave ==
  \A r \in Requests :
    pc[r] \in {"counting", "publishing", "waiting", "leaving", "uncounting",
               "loading", "republishing"} ~> pc[r] \in {"active", "done"}

\* The acquirer goroutine does not outlive its request for ever (line 78,
\* "to avoid leaking the goroutine"), whatever the upstreams do.
AcquirerEnds ==
  \A r \in Requests : acq[r] = "selecting" ~> acq[r] \in {"granted", "quit"}

-----------------------------------------------------------------------------
(* The handler implements the abstract admission specification.            *)

Phase(r) ==
  CASE pc[r] = "arriving" -> "outside"
    [] r \in InQueue -> "queued"
    [] r \in Running -> "running"
    [] outcome[r] = "429" -> "refused"
    [] outcome[r] = "admitted" /\ pc[r] = "done" -> "served"
    [] OTHER -> "expired"

phaseOf == [r \in Requests |-> Phase(r)]

Adm == INSTANCE Admission WITH phase <- phaseOf

\* Through the mapping Phase, every step of the two goroutines is a step of
\* Admission or leaves it unchanged: refusals only at a full queue, starts
\* only below the concurrency limit, one way through for every request.
ImplementsAdmission == Adm!Spec

-----------------------------------------------------------------------------
(* What the documentation says and the code does not do.                   *)

\* "Active slots are released after request processing, preventing resource
\* leaks" (slides.md:1221): when every request is answered and every goroutine
\* has ended, all slots are free.
SlotsAllReturned == Quiet => activeSlotsCh = 0
=============================================================================
