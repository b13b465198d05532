----------------------------- MODULE RoundRobin -----------------------------
(***************************************************************************)
(* internal/proxy/balancer.go: the round-robin balancer.  Concurrent       *)
(* requests claim a start index from one atomic counter and, with health   *)
(* checks on, probe the targets from there until one answers.  Targets go  *)
(* down and come back while the probes run.  Pick(true), the preview, only *)
(* reads the counter and is left to the module ReverseProxy.               *)
(***************************************************************************)
EXTENDS Integers, FiniteSets

CONSTANTS Requests,      \* requests that pick
          N,             \* number of configured targets
          Modulus,       \* the counter is uint64: 2^64 in the code
          StartIndices   \* values of the counter when the requests arrive

ASSUME RRAssumption ==
  /\ IsFiniteSet(Requests)
  /\ N \in Nat \ {0}
  /\ Modulus \in Nat \ {0}
  /\ StartIndices \subseteq 0..(Modulus - 1)

\* A process does not live to pick 2^64 times: the counter wraps at most once.
ASSUME PicksAssumption == Cardinality(Requests) <= Modulus

Targets == 0..(N - 1)
Nil == N           \* the nil URL

VARIABLES
  healthChecksEnabled,
  nextIndex,   \* the atomic counter
  up,          \* targets whose /healthz answers 2xx or 3xx
  pc,          \* pc[r] in "idle", "probing", "done"
  startIndex,  \* startIndex[r]: the claimed index
  i,           \* i[r]: the loop variable
  result,      \* result[r]: what Pick returned
  steady,      \* history, steady[r]: targets up ever since r claimed
  claims       \* history, claims[t]: selections whose turn was t

vars == <<healthChecksEnabled, nextIndex, up, pc, startIndex, i, result, steady,
          claims>>

Init ==
  /\ healthChecksEnabled \in BOOLEAN
  /\ nextIndex \in StartIndices
  /\ up \in SUBSET Targets
  /\ pc = [r \in Requests |-> "idle"]
  /\ startIndex = [r \in Requests |-> 0]
  /\ i = [r \in Requests |-> 0]
  /\ result = [r \in Requests |-> Nil]
  /\ steady = [r \in Requests |-> {}]
  /\ claims = [t \in Targets |-> 0]

\* b.targets[(start + k) % targetCount], the sum in uint64 arithmetic.
Turn(start, k) == ((start + k) % Modulus) % N

\* Mutant: the claim reads the counter, as a preview does.
AdvanceForgets(r) ==
  /\ nextIndex' = nextIndex
  /\ startIndex' = [startIndex EXCEPT ![r] = nextIndex]
  /\ claims' = [claims EXCEPT ![Turn(nextIndex, 0)] = @ + 1]

\* startIndex := atomic.AddUint64(&b.nextIndex, 1) - 1
Advance(r) ==
  /\ nextIndex' = (nextIndex + 1) % Modulus
  /\ startIndex' = [startIndex EXCEPT ![r] = nextIndex]
  /\ claims' = [claims EXCEPT ![Turn(nextIndex, 0)] = @ + 1]

\* Without health checks the claimed turn decides.
PickInTurn(r) ==
  /\ ~healthChecksEnabled
  /\ pc[r] = "idle"
  /\ pc' = [pc EXCEPT ![r] = "done"]
  /\ Advance(r)
  /\ result' = [result EXCEPT ![r] = Turn(nextIndex, 0)]
  /\ UNCHANGED <<healthChecksEnabled, up, i, steady>>

\* With them the loop over the targets begins.
StartProbing(r) ==
  /\ healthChecksEnabled
  /\ pc[r] = "idle"
  /\ pc' = [pc EXCEPT ![r] = "probing"]
  /\ Advance(r)
  /\ steady' = [steady EXCEPT ![r] = up]
  /\ UNCHANGED <<healthChecksEnabled, up, i, result>>

\* The probe of target t: GET /healthz answers 2xx or 3xx in time.
isTargetHealthy(t) == t \in up

\* isTargetHealthy(candidateTarget) is true: return it.
ProbeSucceeds(r) ==
  /\ pc[r] = "probing"
  /\ isTargetHealthy(Turn(startIndex[r], i[r]))
  /\ pc' = [pc EXCEPT ![r] = "done"]
  /\ result' = [result EXCEPT ![r] = Turn(startIndex[r], i[r])]
  /\ UNCHANGED <<healthChecksEnabled, nextIndex, up, startIndex, i, steady, claims>>

\* Mutant: the last target is never probed.
ProbeFailsEarly(r) ==
  /\ pc[r] = "probing"
  /\ ~isTargetHealthy(Turn(startIndex[r], i[r]))
  /\ i' = [i EXCEPT ![r] = @ + 1]
  /\ pc' = [pc EXCEPT ![r] = IF i[r] + 2 < N THEN @ ELSE "done"]
  /\ UNCHANGED <<healthChecksEnabled, nextIndex, up, startIndex, result, steady, claims>>

\* Mutant: the loop goes round until some target answers.
ProbeFailsForever(r) ==
  /\ pc[r] = "probing"
  /\ ~isTargetHealthy(Turn(startIndex[r], i[r]))
  /\ i' = [i EXCEPT ![r] = (@ + 1) % N]
  /\ UNCHANGED <<healthChecksEnabled, nextIndex, up, pc, startIndex, result, steady, claims>>

\* It is false: try the next target, or return nil after the last one.
ProbeFails(r) ==
  /\ pc[r] = "probing"
  /\ ~isTargetHealthy(Turn(startIndex[r], i[r]))
  /\ i' = [i EXCEPT ![r] = @ + 1]
  /\ pc' = [pc EXCEPT ![r] = IF i[r] + 1 < N THEN @ ELSE "done"]
  /\ UNCHANGED <<healthChecksEnabled, nextIndex, up, startIndex, result, steady, claims>>

\* A target crashes or comes back; nobody looks when health checks are off.
Crash(t) ==
  /\ healthChecksEnabled
  /\ t \in up
  /\ up' = up \ {t}
  /\ steady' = [r \in Requests |->
                  IF pc[r] = "probing" THEN steady[r] \ {t} ELSE steady[r]]
  /\ UNCHANGED <<healthChecksEnabled, nextIndex, pc, startIndex, i, result, claims>>

Recover(t) ==
  /\ healthChecksEnabled
  /\ t \notin up
  /\ up' = up \cup {t}
  /\ UNCHANGED <<healthChecksEnabled, nextIndex, pc, startIndex, i, result, steady, claims>>

Pick(r) == PickInTurn(r) \/ StartProbing(r) \/ ProbeSucceeds(r) \/ ProbeFails(r)

AllPicked == (\A r \in Requests : pc[r] = "done") /\ UNCHANGED vars

Next ==
  \/ \E r \in Requests : Pick(r)
  \/ \E t \in Targets : Crash(t) \/ Recover(t)
  \/ AllPicked

Spec == Init /\ [][Next]_vars

\* A goroutine inside Pick keeps running; a probe answers or times out.
FairSpec ==
  Spec /\ \A r \in Requests : WF_vars(ProbeSucceeds(r) \/ ProbeFails(r))

-----------------------------------------------------------------------------
\* The claims since the start include the largest value of the counter.
Wrapped == \E r \in Requests : pc[r] # "idle" /\ startIndex[r] >= nextIndex

\* The loop of a Pick that starts at index s runs past the largest value.  Two
\* of its sums then name the same target and another target is never tried.
LoopOverflows(s) == s + N > Modulus

\* The loop skips a target only if it failed during this very Pick, and gives
\* up only if all did: whatever comes before the result in round-robin order,
\* every target if there is none, was down at some moment since the claim
\* (balancer.go:57, "return the first healthy target in RR order").  The one
\* exception is the loop that overflows.
SkipsOnlyFailed ==
  \A r \in Requests :
    (pc[r] = "done" /\ healthChecksEnabled /\ ~LoopOverflows(startIndex[r])) =>
      \A t \in steady[r] :
        /\ result[r] # Nil
        /\ \E j, k \in 0..(N - 1) : /\ Turn(startIndex[r], j) = result[r]
                                    /\ Turn(startIndex[r], k) = t
                                    /\ j <= k

\* Turns are shared out evenly among the targets however the picks
\* interleave: no two targets' turns differ by more than one, or two once the
\* counter has wrapped in the middle of a round.
EvenTurns ==
  \A s, t \in Targets : claims[s] - claims[t] <= IF Wrapped THEN 2 ELSE 1

\* Pick ends although targets keep failing and recovering under its probes.
PickTerminates == \A r \in Requests : pc[r] = "probing" ~> pc[r] = "done"
=============================================================================
