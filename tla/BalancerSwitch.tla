--------------------------- MODULE BalancerSwitch ---------------------------
(***************************************************************************)
(* internal/proxy/balancer.go: ConfigureBalancer and SetHealthCheckEnabled *)
(* replace the balancer of a ReverseProxy "at runtime", with no lock and   *)
(* no atomic store, while requests hold on to what they took from the old  *)
(* one.                                                                    *)
(*                                                                         *)
(* The field proxy.balancer is an interface value: a word for the type and *)
(* a word for the data.  A store writes them one after the other, in an    *)
(* order the memory model leaves open, so a concurrent method call may     *)
(* find the type of one balancer and the data of another.  What a call     *)
(* does with the wrong type is undefined; the request that meets it is     *)
(* followed no further.  Which target a pick returns is the subject of     *)
(* RoundRobin and LeastConnections; here it may be any.                    *)
(***************************************************************************)
EXTENDS Integers, FiniteSets

CONSTANTS Requests,      \* requests that go upstream
          Targets,       \* configured upstream targets
          Names,         \* strategy names ConfigureBalancer is called with
          MaxSwitches    \* bound on the number of replacements

ASSUME SwitchAssumption ==
  /\ IsFiniteSet(Requests)
  /\ "none" \notin Targets
  /\ MaxSwitches \in Nat

Balancers == 1..(MaxSwitches + 1)   \* the balancers in order of creation

VARIABLES
  lbStrategy, healthChecksEnabled,   \* the fields of ReverseProxy
  built,       \* number of balancers built so far
  strategy,    \* strategy[b]: the type of balancer b
  checks,      \* checks[b]: its healthChecksEnabled
  typeWord,    \* the balancer whose type proxy.balancer holds
  dataWord,    \* the balancer whose data it holds
  active,      \* active[b][t]: activeConnections of target t in balancer b
  pending,     \* pending[b][t]: its pendingSelections
  pc,          \* pc[r]: where request r stands
  target,      \* target[r]: the target r picked, "none" before
  pickedOn,    \* pickedOn[r]: the balancer whose Pick(false) r called, 0 before
  heldOn,      \* heldOn[r]: the balancer whose Acquire r called, 0 before
  changed      \* history: some call asked for another type of balancer

fields == <<lbStrategy, healthChecksEnabled>>
objects == <<built, strategy, checks>>
words == <<typeWord, dataWord>>
counters == <<active, pending>>
requests == <<pc, target, pickedOn, heldOn>>
vars == <<fields, objects, words, counters, requests, changed>>

LeastConnectionsNames ==
  {"least_conn", "lc", "least-connections", "least_connections"}

\* The type newBalancer builds for a strategy name.
TypeFor(name) ==
  IF name \in LeastConnectionsNames THEN "least_connections" ELSE "round_robin"

\* NewReverseProxy: round robin with health checks.
Init ==
  /\ lbStrategy = "rr"
  /\ healthChecksEnabled = TRUE
  /\ built = 1
  /\ strategy = [b \in Balancers |-> "round_robin"]
  /\ checks = [b \in Balancers |-> TRUE]
  /\ typeWord = 1
  /\ dataWord = 1
  /\ active = [b \in Balancers |-> [t \in Targets |-> 0]]
  /\ pending = [b \in Balancers |-> [t \in Targets |-> 0]]
  /\ pc = [r \in Requests |-> "arriving"]
  /\ target = [r \in Requests |-> "none"]
  /\ pickedOn = [r \in Requests |-> 0]
  /\ heldOn = [r \in Requests |-> 0]
  /\ changed = FALSE

-----------------------------------------------------------------------------
(* The goroutine that reconfigures the proxy.                              *)

\* The two words agree: no store is half done.
Settled == typeWord = dataWord

\* newBalancer, and the first word of the store to proxy.balancer.
newBalancer(name, enabled) ==
  /\ Settled
  /\ built <= MaxSwitches
  /\ built' = built + 1
  /\ strategy' = [strategy EXCEPT ![built + 1] = TypeFor(name)]
  /\ checks' = [checks EXCEPT ![built + 1] = enabled]
  /\ \/ typeWord' = built + 1 /\ UNCHANGED dataWord
     \/ dataWord' = built + 1 /\ UNCHANGED typeWord

\* Mutant: the new balancer probes although the checks are off.
ConfigureBalancerProbes(name) ==
  /\ lbStrategy' = name
  /\ newBalancer(name, TRUE)
  /\ changed' = (changed \/ TypeFor(name) # TypeFor(lbStrategy))
  /\ UNCHANGED <<healthChecksEnabled, counters, requests>>

ConfigureBalancer(name) ==
  /\ lbStrategy' = name
  /\ newBalancer(name, healthChecksEnabled)
  /\ changed' = (changed \/ TypeFor(name) # TypeFor(lbStrategy))
  /\ UNCHANGED <<healthChecksEnabled, counters, requests>>

\* Mutant: the replacement is always least-connections.
SetHealthCheckEnabledResets(enabled) ==
  /\ healthChecksEnabled' = enabled
  /\ newBalancer("lc", enabled)
  /\ UNCHANGED <<lbStrategy, counters, requests, changed>>

SetHealthCheckEnabled(enabled) ==
  /\ healthChecksEnabled' = enabled
  /\ newBalancer(lbStrategy, enabled)
  /\ UNCHANGED <<lbStrategy, counters, requests, changed>>

\* The second word of the store.
FinishStore ==
  /\ ~Settled
  /\ typeWord' = built
  /\ dataWord' = built
  /\ UNCHANGED <<fields, objects, counters, requests, changed>>

-----------------------------------------------------------------------------
(* The requests.                                                           *)

\* A call of a method of proxy.balancer reaches the code of the wrong type.
Torn == strategy[typeWord] # strategy[dataWord]

Goto(r, from, to) ==
  /\ pc[r] = from
  /\ pc' = [pc EXCEPT ![r] = to]

\* counter[b][t] += d, for a balancer that keeps counters.
Add(counter, b, t, d) ==
  [counter EXCEPT ![b][t] = IF strategy[b] = "least_connections" THEN @ + d ELSE @]

\* Pick(true) changes nothing.
Preview(r) ==
  /\ ~Torn
  /\ Goto(r, "arriving", "previewed")
  /\ UNCHANGED <<fields, objects, words, counters, target, pickedOn, heldOn, changed>>

\* The call proxy.balancer.Pick(false) loads the field and enters the balancer
\* it finds there.
CallPick(r) ==
  /\ ~Torn
  /\ Goto(r, "previewed", "picking")
  /\ pickedOn' = [pickedOn EXCEPT ![r] = dataWord]
  /\ UNCHANGED <<fields, objects, words, counters, target, heldOn, changed>>

\* Having probed the targets, for as long as that takes, it returns one of them;
\* least-connections reserves it.
Pick(r, t) ==
  /\ Goto(r, "picking", "picked")
  /\ target' = [target EXCEPT ![r] = t]
  /\ pending' = Add(pending, pickedOn[r], t, 1)
  /\ UNCHANGED <<fields, objects, words, active, pickedOn, heldOn, changed>>

\* It returns nil: no target answers its probe.
PickNone(r) ==
  /\ Goto(r, "picking", "noTarget")
  /\ checks[pickedOn[r]]
  /\ UNCHANGED <<fields, objects, words, counters, target, pickedOn, heldOn, changed>>

\* The admission queue answers 429 or 503 itself.
QueueRefuses(r) ==
  /\ Goto(r, "picked", "refused")
  /\ UNCHANGED <<fields, objects, words, counters, target, pickedOn, heldOn, changed>>

\* Mutant: the connection is opened on the balancer that picked the target.
CallAcquireOnPicker(r) ==
  /\ ~Torn
  /\ Goto(r, "picked", "acquiring")
  /\ heldOn' = [heldOn EXCEPT ![r] = pickedOn[r]]
  /\ UNCHANGED <<fields, objects, words, counters, target, pickedOn, changed>>

\* serveUpstream calls Acquire on whatever proxy.balancer holds by now;
CallAcquire(r) ==
  /\ ~Torn
  /\ Goto(r, "picked", "acquiring")
  /\ heldOn' = [heldOn EXCEPT ![r] = dataWord]
  /\ UNCHANGED <<fields, objects, words, counters, target, pickedOn, changed>>

\* and that balancer turns a reservation into a connection.
Acquire(r) ==
  /\ Goto(r, "acquiring", "inflight")
  /\ pending' = Add(pending, heldOn[r], target[r], -1)
  /\ active' = Add(active, heldOn[r], target[r], 1)
  /\ UNCHANGED <<fields, objects, words, target, pickedOn, heldOn, changed>>

\* Mutant: the end of the request looks the balancer up again.
ReleaseOnCurrent(r) ==
  /\ Goto(r, "inflight", "closed")
  /\ active' = Add(active, dataWord, target[r], -1)
  /\ UNCHANGED <<fields, objects, words, pending, target, pickedOn, heldOn, changed>>

\* The release function closes over the state Acquire counted in.
Release(r) ==
  /\ Goto(r, "inflight", "closed")
  /\ active' = Add(active, heldOn[r], target[r], -1)
  /\ UNCHANGED <<fields, objects, words, pending, target, pickedOn, heldOn, changed>>

\* A preview, pick or acquire runs into a half-done store.
CallTorn(r) ==
  /\ Torn
  /\ pc[r] \in {"arriving", "previewed", "picked"}
  /\ pc' = [pc EXCEPT ![r] = "undefined"]
  /\ UNCHANGED <<fields, objects, words, counters, target, pickedOn, heldOn, changed>>

-----------------------------------------------------------------------------
Finished(r) == pc[r] \in {"closed", "refused", "noTarget", "undefined"}

AllFinished ==
  /\ \A r \in Requests : Finished(r)
  /\ Settled
  /\ UNCHANGED vars

Next ==
  \/ \E name \in Names : ConfigureBalancer(name)
  \/ \E enabled \in BOOLEAN : SetHealthCheckEnabled(enabled)
  \/ FinishStore
  \/ \E r \in Requests :
       \/ Preview(r) \/ CallPick(r) \/ PickNone(r) \/ QueueRefuses(r)
       \/ CallAcquire(r) \/ Acquire(r) \/ Release(r) \/ CallTorn(r)
       \/ \E t \in Targets : Pick(r, t)
  \/ AllFinished

Spec == Init /\ [][Next]_vars

-----------------------------------------------------------------------------
(* Properties.                                                             *)

\* Requests that picked t on b, that opened a connection to t on b, and that
\* are upstream at t on the books of b.
PickedAt(b, t) == {r \in Requests : pickedOn[r] = b /\ target[r] = t}
AcquiredAt(b, t) ==
  {r \in Requests : heldOn[r] = b /\ target[r] = t /\ pc[r] \in {"inflight", "closed"}}
OpenAt(b, t) == {r \in AcquiredAt(b, t) : pc[r] = "inflight"}

\* Across replacements, each least-connections balancer keeps exact books of
\* the calls it got: its connections are the requests upstream that it opened,
\* so they return to zero, and its reservations are its picks less its
\* acquires.  A balancer that took over requests of its predecessor therefore
\* counts too few by as many, but never by more.
BooksPerBalancer ==
  \A b \in Balancers, t \in Targets : strategy[b] = "least_connections" =>
    /\ active[b][t] = Cardinality(OpenAt(b, t))
    /\ pending[b][t] = Cardinality(PickedAt(b, t)) - Cardinality(AcquiredAt(b, t))

\* A request can meet a balancer of the wrong type only after a call of
\* ConfigureBalancer that changes the strategy: SetHealthCheckEnabled, and a
\* ConfigureBalancer with another name for the same strategy, replace the data
\* word only, which one store cannot tear.
TornOnlyByStrategyChange ==
  (Torn \/ \E r \in Requests : pc[r] = "undefined") => changed

\* When a switch is done, the balancer in place is of the strategy and has the
\* health-check setting that the last calls of both setters asked for.
SettledAsConfigured ==
  Settled => /\ strategy[dataWord] = TypeFor(lbStrategy)
             /\ checks[dataWord] = healthChecksEnabled

\* Requests inside Pick(false) or Acquire of b.
Callers(b) ==
  {r \in Requests : \/ pc[r] = "picking" /\ pickedOn[r] = b
                    \/ pc[r] = "acquiring" /\ heldOn[r] = b}

\* A balancer that has been replaced still finishes the calls that are in it,
\* a pick in the middle of its probes among them: these, once each, are all that
\* reserves a target or opens a connection on it.  No request comes to it anew,
\* and beyond those calls its connections only drain.
ReplacedOnlyDrains ==
  [][\A b \in Balancers : b < dataWord =>
       /\ Callers(b)' \subseteq Callers(b)
       /\ Callers(b)' = Callers(b) =>
            \A t \in Targets : /\ active'[b][t] <= active[b][t]
                                /\ pending'[b][t] = pending[b][t]]_vars
=============================================================================
