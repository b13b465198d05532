------------------------ MODULE LeastConnectionsProofs ------------------------
(***************************************************************************)
(* Proofs about LeastConnections for every finite set of requests, any     *)
(* number of targets and any identities of theirs.                         *)
(***************************************************************************)
EXTENDS LeastConnections, FiniteSetTheorems, WellFoundedInduction, TLAPS

-----------------------------------------------------------------------------
(* The inductive invariants.                                               *)

Locations == {"idle", "loadActive", "loadPending", "loadReserve", "reserve",
              "picked", "noTarget", "refused", "opening", "inflight", "closed"}

TypeOK ==
  /\ Identity \in Identities
  /\ healthChecksEnabled \in BOOLEAN
  /\ activeConnections \in [Targets -> Int]
  /\ pendingSelections \in [Targets -> Int]
  /\ pc \in [Requests -> Locations]
  /\ at \in [Requests -> Targets]
  /\ best \in [Requests -> 0..N]
  /\ min \in [Requests -> Int]
  /\ seen \in [Requests -> Int]
  /\ target \in [Requests -> 0..N]
  /\ disturbed \subseteq Requests

\* A request reserves only a target its scan found, and remembers the target
\* from the reservation on.
ScanFinds ==
  \A r \in Requests :
    /\ pc[r] \in {"loadReserve", "reserve"} => best[r] # 0
    /\ target[r] # 0 <=> pc[r] \in {"picked", "refused", "opening", "inflight", "closed"}

IInv == TypeOK /\ ScanFinds /\ CountersExact

\* The load of a target, as a Pick that nobody disturbs sees it.
Load(t) == activeConnections[t] + pendingSelections[t]

\* The targets the scan of r has seen.
Scanned(r) ==
  IF pc[r] \in {"loadReserve", "reserve"} THEN Targets ELSE 1..(at[r] - 1)

\* t is the first of the least loaded targets of S.
FirstLeast(t, S) ==
  /\ t \in S
  /\ \A s \in S : Load(t) <= Load(s) /\ (s < t => Load(t) < Load(s))

\* A scan begins at the first target with nothing found.
ScanStarts ==
  \A r \in Requests :
    /\ pc[r] = "idle" => at[r] = 1 /\ best[r] = 0
    /\ pc[r] \in {"loadReserve", "reserve"} => at[r] = 1

\* What the scan of r has found is still so.
Exact(r) ==
  /\ Scanned(r) = {} => best[r] = 0
  /\ Scanned(r) # {} => FirstLeast(best[r], Scanned(r)) /\ min[r] = Load(best[r])
  /\ pc[r] = "loadPending" => seen[r] = activeConnections[at[r]]

\* Without probes, every undisturbed scan is exact.
ScanExact ==
  ~healthChecksEnabled => \A r \in Picking \ disturbed : Exact(r)

ScanInv == TypeOK /\ ScanFinds /\ ScanStarts /\ ScanExact

-----------------------------------------------------------------------------
(* The state that Acquire finds for a target.                              *)

\* Every nonempty set of naturals has a least element.
LEMMA LeastNat ==
  ASSUME NEW T, T \in SUBSET Nat, T # {}
  PROVE  \E x \in T : \A y \in T : x <= y
  <1>1. \E x \in T : \A y \in T : <<y, x>> \notin OpToRel(<, Nat)
    BY NatLessThanWellFounded, WFMin
  <1>2. PICK x \in T : \A y \in T : <<y, x>> \notin OpToRel(<, Nat)
    BY <1>1
  <1>3. x \in T /\ \A y \in T : ~(y < x)
    BY <1>2 DEF OpToRel
  <1> QED
    BY <1>3

\* Acquire finds a state for every target of the balancer: the target itself
\* is a match, so there is a first match.
LEMMA StateOfType ==
  ASSUME NEW t \in Targets
  PROVE  StateOf(t) \in Targets
  <1> DEFINE Same == {s \in Targets : sameUpstream(s, t)}
  <1>1. Same \in SUBSET Nat /\ t \in Same
    BY LCTargetsAssumption DEF Targets, sameUpstream
  <1>2. \E s \in Same : \A u \in Same : s <= u
    <2> HIDE DEF Same
    <2> QED
      BY <1>1, LeastNat
  <1>3. \E s \in Targets : /\ sameUpstream(s, t)
                           /\ \A u \in Targets : sameUpstream(u, t) => s <= u
    BY <1>2
  <1> QED
    BY <1>3, Zenon DEF StateOf

\* The states a request can be charged to do not move, as the targets do not.
LEMMA StateOfFixed == UNCHANGED Identity => \A t : StateOf(t)' = StateOf(t)
  BY Zenon DEF StateOf, sameUpstream

\* Requests form a finite set, and so do those a counter counts.
LEMMA CountsAreFinite ==
  ASSUME NEW t
  PROVE  /\ IsFiniteSet(ReservedAt(t)) /\ Cardinality(ReservedAt(t)) \in Nat
         /\ IsFiniteSet(ConvertedAt(t)) /\ Cardinality(ConvertedAt(t)) \in Nat
         /\ IsFiniteSet(OpenAt(t)) /\ Cardinality(OpenAt(t)) \in Nat
  <1>1. /\ ReservedAt(t) \in SUBSET Requests
        /\ ConvertedAt(t) \in SUBSET Requests
        /\ OpenAt(t) \in SUBSET Requests
    BY DEF ReservedAt, ConvertedAt, OpenAt
  <1> QED
    BY <1>1, LCRequestsAssumption, FS_Subset, FS_CardinalityType

-----------------------------------------------------------------------------
(* Types, and what a scan finds.                                           *)

\* The state before the first request is well typed, and its counters are 0.
LEMMA InitIInv == Init => IInv
  <1> SUFFICES ASSUME Init PROVE IInv
    OBVIOUS
  <1>1. TypeOK
    BY LCTargetsAssumption DEF Init, TypeOK, Locations, Targets
  <1>2. ScanFinds
    BY DEF Init, ScanFinds
  <1>3. CountersExact
    <2>1. \A t \in Targets : /\ ReservedAt(t) = {}
                             /\ ConvertedAt(t) = {}
                             /\ OpenAt(t) = {}
      BY LCTargetsAssumption DEF Init, ReservedAt, ConvertedAt, OpenAt, Targets
    <2> QED
      BY <2>1, FS_EmptySet, SMTT(30) DEF Init, CountersExact, PendingAccounting, ActiveAccounting
  <1> QED
    BY <1>1, <1>2, <1>3 DEF IInv

\* Every step of Pick, Acquire and the release function keeps the types: the
\* scan never leaves the targets, and only existing counters are written.
LEMMA TypeNext == TypeOK /\ ScanFinds /\ [Next]_vars => TypeOK'
  <1> SUFFICES ASSUME TypeOK, ScanFinds, [Next]_vars PROVE TypeOK'
    OBVIOUS
  <1> USE LCTargetsAssumption DEF TypeOK, settings, counters, scan
  <1>1. CASE UNCHANGED vars
    BY <1>1 DEF vars
  <1>2. ASSUME NEW r \in Requests, StartPick(r) \/ QueueRefuses(r) PROVE TypeOK'
    BY <1>2 DEF StartPick, QueueRefuses, Goto, Locations
  <1>3. ASSUME NEW r \in Requests, NEW found \in BOOLEAN, NextTarget(r, found)
        PROVE  at' \in [Requests -> Targets] /\ pc' \in [Requests -> Locations]
    BY <1>3, SMTT(30) DEF NextTarget, Locations, Targets
  <1>4. ASSUME NEW r \in Requests, SkipUnhealthy(r) PROVE TypeOK'
    BY <1>3, <1>4 DEF SkipUnhealthy
  <1>5. ASSUME NEW r \in Requests, LoadActive(r) PROVE TypeOK'
    BY <1>5 DEF LoadActive, Goto, Locations
  <1>6. ASSUME NEW r \in Requests, LoadPending(r) PROVE TypeOK'
    <2>1. at' \in [Requests -> Targets] /\ pc' \in [Requests -> Locations]
      BY <1>3, <1>6 DEF LoadPending
    <2>2. /\ best' \in [Requests -> 0..N]
          /\ min' \in [Requests -> Int]
          /\ seen' \in [Requests -> Int]
      BY <1>6 DEF LoadPending, Targets
    <2> QED
      BY <1>6, <2>1, <2>2 DEF LoadPending
  <1>7. ASSUME NEW r \in Requests, LoadReserve(r) PROVE TypeOK'
    <2>1. best[r] \in Targets
      BY <1>7 DEF LoadReserve, Goto, ScanFinds, Targets
    <2> QED
      BY <1>7, <2>1 DEF LoadReserve, Goto, Locations
  <1>8. ASSUME NEW r \in Requests, Reserve(r) PROVE TypeOK'
    <2>1. seen[r] + 1 \in Int /\ best[r] \in 0..N
      OBVIOUS
    <2>2. pendingSelections' \in [Targets -> Int]
      BY <1>8, <2>1 DEF Reserve
    <2>3. target' \in [Requests -> 0..N]
      BY <1>8, <2>1 DEF Reserve
    <2>4. /\ best' \in [Requests -> 0..N]
          /\ min' \in [Requests -> Int]
          /\ seen' \in [Requests -> Int]
          /\ at' = at
      BY <1>8 DEF Reserve, Forget
    <2>5. pc' \in [Requests -> Locations] /\ disturbed' \subseteq Requests
      BY <1>8 DEF Reserve, Goto, Overtakes, Picking, Locations
    <2> QED
      BY <1>8, <2>2, <2>3, <2>4, <2>5 DEF Reserve
  <1>9. ASSUME NEW r \in Requests, Retry(r) PROVE TypeOK'
    BY <1>9 DEF Retry, Goto, Forget, Locations
  <1>10. ASSUME NEW r \in Requests, Convert(r) \/ Open(r) \/ Close(r) PROVE TypeOK'
    BY <1>10 DEF Convert, Open, Close, Goto, Overtakes, Picking, Locations
  <1> QED
    BY <1>1, <1>2, <1>4, <1>5, <1>6, <1>7, <1>8, <1>9, <1>10
    DEF Next, Pick, AllFinished

\* A scan that goes on to reserve has found a target, and the target stays
\* with the request.
LEMMA ScanFindsNext == TypeOK /\ ScanFinds /\ [Next]_vars => ScanFinds'
  <1> SUFFICES ASSUME TypeOK, ScanFinds, [Next]_vars PROVE ScanFinds'
    OBVIOUS
  <1> USE DEF TypeOK, ScanFinds, Locations, settings, counters, scan
  <1>1. CASE UNCHANGED vars
    BY <1>1 DEF vars
  <1>2. ASSUME NEW r \in Requests, StartPick(r) \/ QueueRefuses(r) PROVE ScanFinds'
    BY <1>2 DEF StartPick, QueueRefuses, Goto
  <1>3. ASSUME NEW r \in Requests, SkipUnhealthy(r) PROVE ScanFinds'
    BY <1>3 DEF SkipUnhealthy, NextTarget
  <1>4. ASSUME NEW r \in Requests, LoadPending(r) PROVE ScanFinds'
    <2>1. at[r] # 0
      BY DEF Targets
    <2>2. best'[r] # 0
      BY <1>4, <2>1 DEF LoadPending, Better
    <2> QED
      BY <1>4, <2>2 DEF LoadPending, NextTarget
  <1>5. ASSUME NEW r \in Requests, LoadActive(r) \/ LoadReserve(r) PROVE ScanFinds'
    BY <1>5 DEF LoadActive, LoadReserve, Goto
  <1>6. ASSUME NEW r \in Requests, Reserve(r) \/ Retry(r) PROVE ScanFinds'
    BY <1>6 DEF Reserve, Retry, Goto, Forget
  <1>7. ASSUME NEW r \in Requests, Convert(r) \/ Open(r) \/ Close(r) PROVE ScanFinds'
    BY <1>7 DEF Convert, Open, Close, Goto
  <1> QED
    BY <1>1, <1>2, <1>3, <1>4, <1>5, <1>6, <1>7 DEF Next, Pick, AllFinished

-----------------------------------------------------------------------------
(* The counters.                                                           *)

\* A step that moves no request into or out of the counted sets, and writes
\* no counter, keeps the counts.
LEMMA CountersUntouched ==
  ASSUME CountersExact, UNCHANGED <<settings, counters, target>>,
         \A q \in Requests :
           /\ pc'[q] \in {"opening", "inflight", "closed"}
                <=> pc[q] \in {"opening", "inflight", "closed"}
           /\ pc'[q] = "inflight" <=> pc[q] = "inflight"
  PROVE  CountersExact'
  <1>1. \A t : StateOf(t)' = StateOf(t)
    BY StateOfFixed DEF settings
  <1>2. \A t : /\ ReservedAt(t)' = ReservedAt(t)
              /\ ConvertedAt(t)' = ConvertedAt(t)
              /\ OpenAt(t)' = OpenAt(t)
    BY <1>1 DEF ReservedAt, ConvertedAt, OpenAt
  <1> QED
    BY <1>2 DEF CountersExact, PendingAccounting, ActiveAccounting, counters

\* The successful compare-and-swap adds the request to the reservations of
\* its target, and one to their counter.
LEMMA ReserveCounts ==
  ASSUME IInv, NEW r \in Requests, Reserve(r)
  PROVE  CountersExact'
  <1> USE DEF IInv, TypeOK
  <1>1. best[r] \in Targets /\ target[r] = 0
    <2>1. pc[r] = "reserve"
      BY DEF Reserve, Goto
    <2>2. best[r] # 0 /\ target[r] = 0
      BY <2>1 DEF ScanFinds
    <2>3. best[r] \in 0..N
      OBVIOUS
    <2> QED
      BY <2>2, <2>3, LCTargetsAssumption DEF Targets
  <1>2. /\ target'[r] = best[r]
        /\ \A q \in Requests \ {r} : target'[q] = target[q] /\ pc'[q] = pc[q]
        /\ pc[r] = "reserve" /\ pc'[r] = "picked"
    BY DEF Reserve, Goto
  <1>3. \A t : StateOf(t)' = StateOf(t)
    BY StateOfFixed DEF Reserve, settings
  <1>4. \A t : ConvertedAt(t)' = ConvertedAt(t) /\ OpenAt(t)' = OpenAt(t)
    BY <1>2, <1>3 DEF ConvertedAt, OpenAt
  <1>5. ASSUME NEW t \in Targets
        PROVE  pendingSelections'[t]
                 = Cardinality(ReservedAt(t)') - Cardinality(ConvertedAt(t)')
    <2>1. pendingSelections[t] = Cardinality(ReservedAt(t)) - Cardinality(ConvertedAt(t))
      BY DEF CountersExact, PendingAccounting
    <2>2. CASE t = best[r]
      <3>1. ReservedAt(t)' = ReservedAt(t) \cup {r} /\ r \notin ReservedAt(t)
        BY <1>1, <1>2, <2>2, SMTT(30) DEF ReservedAt, Targets
      <3>2. Cardinality(ReservedAt(t)') = Cardinality(ReservedAt(t)) + 1
        <4>1. IsFiniteSet(ReservedAt(t))
          BY CountsAreFinite
        <4>2. Cardinality(ReservedAt(t) \cup {r}) = Cardinality(ReservedAt(t)) + 1
          BY <3>1, <4>1, FS_AddElement, Zenon
        <4> QED
          BY <3>1, <4>2
      <3>3. pendingSelections'[t] = pendingSelections[t] + 1
        BY <2>2 DEF Reserve
      <3> QED
        BY <2>1, <3>2, <3>3, <1>4, CountsAreFinite
    <2>3. CASE t # best[r]
      <3>1. ReservedAt(t)' = ReservedAt(t)
        BY <1>1, <1>2, <2>3, SMTT(30) DEF ReservedAt, Targets
      <3>2. pendingSelections'[t] = pendingSelections[t]
        BY <2>3 DEF Reserve
      <3> QED
        BY <2>1, <3>1, <3>2, <1>4
    <2> QED
      BY <2>2, <2>3
  <1>6. ActiveAccounting'
    BY <1>4 DEF CountersExact, ActiveAccounting, Reserve
  <1> QED
    BY <1>5, <1>6 DEF CountersExact, PendingAccounting

\* Acquire takes the reservation back from the state it finds, which need not
\* be the target's own when two targets share an identity.
LEMMA ConvertCounts ==
  ASSUME IInv, NEW r \in Requests, Convert(r)
  PROVE  CountersExact'
  <1> USE DEF IInv, TypeOK
  <1> DEFINE s == StateOf(target[r])
  <1>1. s \in Targets
    <2>1. target[r] \in Targets
      BY DEF Convert, Goto, ScanFinds, Targets
    <2> QED
      BY <2>1, StateOfType
  <1>2. /\ target' = target
        /\ \A q \in Requests \ {r} : pc'[q] = pc[q]
        /\ pc[r] = "picked" /\ pc'[r] = "opening"
    BY DEF Convert, Goto
  <1>3. \A t : StateOf(t)' = StateOf(t)
    BY StateOfFixed DEF Convert, settings
  <1>4. \A t : ReservedAt(t)' = ReservedAt(t) /\ OpenAt(t)' = OpenAt(t)
    BY <1>2, <1>3 DEF ReservedAt, OpenAt
  <1>5. ASSUME NEW t \in Targets
        PROVE  pendingSelections'[t]
                 = Cardinality(ReservedAt(t)') - Cardinality(ConvertedAt(t)')
    <2>1. pendingSelections[t] = Cardinality(ReservedAt(t)) - Cardinality(ConvertedAt(t))
      BY DEF CountersExact, PendingAccounting
    <2>2. CASE t = s
      <3>1. ConvertedAt(t)' = ConvertedAt(t) \cup {r} /\ r \notin ConvertedAt(t)
        BY <1>2, <1>3, <2>2 DEF ConvertedAt
      <3>2. Cardinality(ConvertedAt(t)') = Cardinality(ConvertedAt(t)) + 1
        BY <3>1, CountsAreFinite, FS_AddElement, ZenonT(60)
      <3>3. pendingSelections'[t] = pendingSelections[t] - 1
        BY <2>2 DEF Convert
      <3> QED
        BY <2>1, <3>2, <3>3, <1>4, CountsAreFinite
    <2>3. CASE t # s
      <3>1. ConvertedAt(t)' = ConvertedAt(t)
        BY <1>2, <1>3, <2>3 DEF ConvertedAt
      <3>2. pendingSelections'[t] = pendingSelections[t]
        BY <2>3 DEF Convert
      <3> QED
        BY <2>1, <3>1, <3>2, <1>4
    <2> QED
      BY <2>2, <2>3
  <1>6. ActiveAccounting'
    BY <1>4 DEF CountersExact, ActiveAccounting, Convert
  <1> QED
    BY <1>5, <1>6 DEF CountersExact, PendingAccounting

\* Acquire's second addition and the deferred release count the same request
\* in and out on the same state.
LEMMA ActiveCounts ==
  ASSUME IInv, NEW r \in Requests, Open(r) \/ Close(r)
  PROVE  CountersExact'
  <1> USE DEF IInv, TypeOK
  <1> DEFINE s == StateOf(target[r])
  <1>1. /\ target' = target /\ pendingSelections' = pendingSelections
        /\ \A q \in Requests \ {r} : pc'[q] = pc[q]
        /\ pc[r] \in {"opening", "inflight"} /\ pc'[r] \in {"inflight", "closed"}
    BY DEF Open, Close, Goto
  <1>2. \A t : StateOf(t)' = StateOf(t)
    BY StateOfFixed DEF Open, Close, settings
  <1>3. \A t : ReservedAt(t)' = ReservedAt(t) /\ ConvertedAt(t)' = ConvertedAt(t)
    BY <1>1, <1>2 DEF ReservedAt, ConvertedAt
  <1>4. PendingAccounting'
    BY <1>1, <1>3 DEF CountersExact, PendingAccounting
  <1>5. ASSUME NEW t \in Targets
        PROVE  activeConnections'[t] = Cardinality(OpenAt(t)')
    <2>1. activeConnections[t] = Cardinality(OpenAt(t))
      BY DEF CountersExact, ActiveAccounting
    <2>2. CASE t # s
      <3>1. OpenAt(t)' = OpenAt(t)
        BY <1>1, <1>2, <2>2 DEF OpenAt
      <3>2. activeConnections'[t] = activeConnections[t]
        BY <2>2 DEF Open, Close
      <3> QED
        BY <2>1, <3>1, <3>2
    <2>3. CASE t = s /\ Open(r)
      <3>1. pc[r] = "opening" /\ pc'[r] = "inflight"
        BY <2>3 DEF Open, Goto
      <3>2. OpenAt(t)' = OpenAt(t) \cup {r} /\ r \notin OpenAt(t)
        BY <1>1, <1>2, <2>3, <3>1 DEF OpenAt
      <3>3. Cardinality(OpenAt(t)') = Cardinality(OpenAt(t)) + 1
        BY <3>2, CountsAreFinite, FS_AddElement, ZenonT(60)
      <3>4. activeConnections'[t] = activeConnections[t] + 1
        BY <2>3 DEF Open
      <3> QED
        BY <2>1, <3>3, <3>4
    <2>4. CASE t = s /\ Close(r)
      <3>1. pc[r] = "inflight" /\ pc'[r] = "closed"
        BY <2>4 DEF Close, Goto
      <3>2. OpenAt(t)' = OpenAt(t) \ {r} /\ r \in OpenAt(t)
        BY <1>1, <1>2, <2>4, <3>1 DEF OpenAt
      <3>3. Cardinality(OpenAt(t)') = Cardinality(OpenAt(t)) - 1
        BY <3>2, CountsAreFinite, FS_RemoveElement
      <3>4. activeConnections'[t] = activeConnections[t] - 1
        BY <2>4 DEF Close
      <3> QED
        BY <2>1, <3>3, <3>4
    <2> QED
      BY <2>2, <2>3, <2>4
  <1> QED
    BY <1>4, <1>5 DEF CountersExact, ActiveAccounting

\* Every step of every request keeps the inductive invariant.
LEMMA NextIInv == IInv /\ [Next]_vars => IInv'
  <1> SUFFICES ASSUME IInv, [Next]_vars PROVE IInv'
    OBVIOUS
  <1>1. TypeOK' /\ ScanFinds'
    BY TypeNext, ScanFindsNext DEF IInv
  <1>2. CountersExact'
    <2> USE DEF IInv, TypeOK
    <2>1. CASE UNCHANGED vars
      BY <2>1, CountersUntouched DEF vars, settings, counters
    <2>2. ASSUME NEW r \in Requests,
                 \/ StartPick(r) \/ QueueRefuses(r) \/ SkipUnhealthy(r)
                 \/ LoadActive(r) \/ LoadPending(r) \/ LoadReserve(r) \/ Retry(r)
          PROVE  CountersExact'
      <3>1. /\ UNCHANGED <<settings, counters, target>>
            /\ \A q \in Requests \ {r} : pc'[q] = pc[q]
        BY <2>2 DEF StartPick, QueueRefuses, SkipUnhealthy, LoadActive,
                    LoadPending, LoadReserve, Retry, Goto, NextTarget
      <3>2. {pc[r], pc'[r]} \cap {"opening", "inflight", "closed"} = {}
        BY <2>2 DEF StartPick, QueueRefuses, SkipUnhealthy, LoadActive,
                    LoadPending, LoadReserve, Retry, Goto, NextTarget
      <3> QED
        BY <3>1, <3>2, CountersUntouched
    <2> QED
      BY <2>1, <2>2, ReserveCounts, ConvertCounts, ActiveCounts
      DEF Next, Pick, AllFinished
  <1> QED
    BY <1>1, <1>2 DEF IInv

\* The invariant holds throughout.
THEOREM Invariance == Spec => []IInv
  BY InitIInv, NextIInv, PTL DEF Spec

\* No compare-and-swap and no addition is ever lost or doubled, whatever the
\* interleaving, the aliases among the targets, the probes and the refusals:
\* both counters of every target are exact at every moment.
THEOREM CountersAreExact == Spec => []CountersExact
  <1>1. IInv => CountersExact
    BY DEF IInv
  <1> QED
    BY <1>1, Invariance, PTL

-----------------------------------------------------------------------------
(* The undisturbed scan.                                                   *)

\* A request that has not begun its scan stands before the first target with
\* nothing found; so does one that starts over.
LEMMA ScanStartsNext == TypeOK /\ ScanStarts /\ [Next]_vars => ScanStarts'
  <1> SUFFICES ASSUME TypeOK, ScanStarts, [Next]_vars PROVE ScanStarts'
    OBVIOUS
  <1> USE LCTargetsAssumption DEF TypeOK, ScanStarts, Locations, Targets, settings, counters, scan
  <1>1. CASE UNCHANGED vars
    BY <1>1 DEF vars
  <1>2. ASSUME NEW r \in Requests, StartPick(r) \/ QueueRefuses(r) PROVE ScanStarts'
    BY <1>2 DEF StartPick, QueueRefuses, Goto
  <1>3. ASSUME NEW r \in Requests, SkipUnhealthy(r) PROVE ScanStarts'
    BY <1>3 DEF SkipUnhealthy, NextTarget
  <1>4. ASSUME NEW r \in Requests, LoadPending(r) PROVE ScanStarts'
    BY <1>4 DEF LoadPending, NextTarget
  <1>5. ASSUME NEW r \in Requests, LoadActive(r) \/ LoadReserve(r) PROVE ScanStarts'
    BY <1>5 DEF LoadActive, LoadReserve, Goto
  <1>6. ASSUME NEW r \in Requests, Reserve(r) \/ Retry(r) PROVE ScanStarts'
    BY <1>6 DEF Reserve, Retry, Goto, Forget
  <1>7. ASSUME NEW r \in Requests, Convert(r) \/ Open(r) \/ Close(r) PROVE ScanStarts'
    BY <1>7 DEF Convert, Open, Close, Goto
  <1> QED
    BY <1>1, <1>2, <1>3, <1>4, <1>5, <1>6, <1>7 DEF Next, Pick, AllFinished

\* A step that writes no counter and nothing of the scan of q leaves what
\* that scan has found as it was.
LEMMA ExactUntouched ==
  ASSUME NEW q \in Requests, Exact(q), UNCHANGED counters,
         pc'[q] = pc[q], at'[q] = at[q], best'[q] = best[q],
         min'[q] = min[q], seen'[q] = seen[q]
  PROVE  Exact(q)'
  <1>1. \A t : Load(t)' = Load(t)
    BY DEF Load, counters
  <1>2. Scanned(q)' = Scanned(q)
    BY DEF Scanned
  <1>3. \A t, S : FirstLeast(t, S)' <=> FirstLeast(t, S)
    BY <1>1 DEF FirstLeast
  <1> QED
    BY <1>1, <1>2, <1>3 DEF Exact, counters

\* The comparison keeps the first of the least loaded targets, one target
\* further.
LEMMA ScanOneMore ==
  ASSUME TypeOK, NEW r \in Requests, Exact(r), LoadPending(r)
  PROVE  Exact(r)'
  <1> USE LCTargetsAssumption DEF TypeOK
  <1> DEFINE load == seen[r] + pendingSelections[at[r]]
             done == 1..(at[r] - 1)
  <1>1. at[r] \in 1..N /\ at[r] \in Nat \ {0}
    BY DEF Targets
  <1>2. \A t : Load(t)' = Load(t)
    BY DEF Load, LoadPending, counters
  <1>3. \A t \in Targets : Load(t) \in Int
    BY DEF Load
  <1>4. Scanned(r) = done /\ load = Load(at[r])
    BY DEF LoadPending, Scanned, Exact, Load
  <1>5. Scanned(r)' = done \cup {at[r]}
    <2>1. CASE at[r] < N
      <3>1. pc'[r] = "loadActive" /\ at'[r] = at[r] + 1
        BY <2>1 DEF LoadPending, NextTarget
      <3>2. Scanned(r)' = 1..at[r]
        BY <1>1, <3>1 DEF Scanned
      <3> QED
        BY <1>1, <3>2
    <2>2. CASE ~(at[r] < N)
      <3>1. pc'[r] = "loadReserve" /\ at[r] = N
        BY <1>1, <2>2 DEF LoadPending, NextTarget
      <3> QED
        BY <1>1, <3>1 DEF Scanned, Targets
    <2> QED
      BY <2>1, <2>2
  <1>6. /\ Better(r, load) => best'[r] = at[r] /\ min'[r] = load
        /\ ~Better(r, load) => best'[r] = best[r] /\ min'[r] = min[r]
        /\ pc'[r] # "loadPending"
    BY DEF LoadPending, NextTarget
  <1>7. \A s \in done : s \in Targets /\ s < at[r]
    BY <1>1 DEF Targets
  <1>8. /\ done = {} => best[r] = 0
        /\ done # {} => /\ best[r] \in done /\ min[r] = Load(best[r])
                       /\ \A s \in done : /\ Load(best[r]) <= Load(s)
                                          /\ s < best[r] => Load(best[r]) < Load(s)
    BY <1>4 DEF Exact, FirstLeast
  <1> HIDE DEF done, load
  <1>9. /\ best'[r] \in done \cup {at[r]}
        /\ min'[r] = Load(best'[r])
        /\ \A s \in done \cup {at[r]} : /\ Load(best'[r]) <= Load(s)
                                        /\ s < best'[r] => Load(best'[r]) < Load(s)
    <2>1. at[r] \in Targets
      OBVIOUS
    <2>2. CASE done = {}
      <3>1. Better(r, load)
        BY <1>8, <2>2 DEF Better
      <3> QED
        BY <1>1, <1>3, <1>4, <1>6, <2>1, <2>2, <3>1
    <2>3. CASE done # {} /\ Better(r, load)
      <3>1. best[r] # 0
        BY <1>1, <1>7, <1>8, <2>3 DEF Targets
      <3>2. load < Load(best[r])
        BY <1>8, <2>3, <3>1 DEF Better
      <3>3. \A s \in done : Load(at[r]) < Load(s)
        BY <1>3, <1>4, <1>7, <1>8, <2>1, <2>3, <3>2
      <3> QED
        BY <1>1, <1>3, <1>4, <1>6, <1>7, <2>1, <2>3, <3>3
    <2>4. CASE done # {} /\ ~Better(r, load)
      <3>1. Load(best[r]) <= Load(at[r])
        BY <1>3, <1>4, <1>7, <1>8, <2>1, <2>4 DEF Better
      <3>2. best[r] \in done /\ best[r] < at[r]
        BY <1>7, <1>8, <2>4
      <3>3. best'[r] = best[r] /\ min'[r] = Load(best[r])
        BY <1>6, <1>8, <2>4
      <3>4. best[r] \in Nat /\ ~(at[r] < best[r])
        BY <1>1, <3>2
      <3> QED
        BY <1>8, <2>4, <3>1, <3>2, <3>3, <3>4
    <2> QED
      BY <2>2, <2>3, <2>4
  <1>10. FirstLeast(best[r], Scanned(r))'
    BY <1>2, <1>5, <1>9 DEF FirstLeast
  <1>11. min'[r] = Load(best[r])'
    BY <1>2, <1>9
  <1> QED
    BY <1>5, <1>6, <1>10, <1>11 DEF Exact

\* What an undisturbed scan has found survives every step: its own, those of
\* the others that write no counter, and those that do, which disturb it.
LEMMA ScanExactNext == ScanInv /\ [Next]_vars => ScanExact'
  <1> SUFFICES ASSUME ScanInv, [Next]_vars, ~healthChecksEnabled',
                      NEW q \in Requests, q \in Picking', q \notin disturbed'
               PROVE  Exact(q)'
    BY DEF ScanExact, Picking
  <1> USE DEF ScanInv, TypeOK
  <1>1. ~healthChecksEnabled
    BY DEF Next, Pick, StartPick, SkipUnhealthy, LoadActive, LoadPending, LoadReserve,
           Reserve, Retry, QueueRefuses, Convert, Open, Close, AllFinished, settings, vars
  <1>2. ASSUME q \in Picking, q \notin disturbed PROVE Exact(q)
    BY <1>1, <1>2 DEF ScanExact
  <1>3. CASE UNCHANGED vars
    <2>1. q \in Picking /\ q \notin disturbed
      BY <1>3 DEF Picking, vars
    <2> QED
      BY <1>2, <1>3, <2>1, ExactUntouched DEF vars, counters
  <1>4. ASSUME NEW r \in Requests,
               \/ StartPick(r) \/ QueueRefuses(r) \/ LoadActive(r)
               \/ LoadPending(r) \/ LoadReserve(r) \/ Retry(r),
               q # r
        PROVE  Exact(q)'
    <2>1. /\ UNCHANGED counters
          /\ pc'[q] = pc[q] /\ at'[q] = at[q] /\ best'[q] = best[q]
          /\ min'[q] = min[q] /\ seen'[q] = seen[q]
          /\ q \notin disturbed
      BY <1>4 DEF StartPick, QueueRefuses, LoadActive, LoadPending, LoadReserve,
                  Retry, Goto, NextTarget, Forget, scan
    <2>2. q \in Picking
      BY <2>1 DEF Picking
    <2> QED
      BY <1>2, <2>1, <2>2, ExactUntouched
  <1>5. ASSUME NEW r \in Requests, Reserve(r) \/ Convert(r) \/ Open(r) \/ Close(r)
        PROVE  FALSE
    <2>1. disturbed' = disturbed \cup (Picking \ {r})
      BY <1>5 DEF Reserve, Convert, Open, Close, Overtakes
    <2>2. \A p \in Requests \ {r} : pc'[p] = pc[p]
      BY <1>5 DEF Reserve, Convert, Open, Close, Goto
    <2>3. pc'[r] \in {"picked", "opening", "inflight", "closed"}
      BY <1>5 DEF Reserve, Convert, Open, Close, Goto
    <2> QED
      BY <2>1, <2>2, <2>3 DEF Picking
  <1>6. CASE StartPick(q)
    <2>1. at'[q] = 1 /\ best'[q] = 0 /\ pc'[q] = "loadActive"
      BY <1>6 DEF StartPick, Goto, ScanStarts, scan
    <2>2. Scanned(q)' = {}
      BY <2>1 DEF Scanned
    <2> QED
      BY <2>1, <2>2 DEF Exact
  <1>7. CASE Retry(q)
    <2>1. at'[q] = 1 /\ best'[q] = 0 /\ pc'[q] = "loadActive"
      BY <1>7 DEF Retry, Goto, Forget, ScanStarts
    <2>2. Scanned(q)' = {}
      BY <2>1 DEF Scanned
    <2> QED
      BY <2>1, <2>2 DEF Exact
  <1>8. CASE LoadActive(q) \/ LoadReserve(q)
    <2>1. /\ UNCHANGED <<counters, at, best, min, disturbed>>
          /\ seen'[q] = activeConnections[at[q]] \/ pc'[q] = "reserve"
          /\ pc'[q] = "reserve" <=> pc[q] = "loadReserve"
          /\ pc[q] \in {"loadActive", "loadReserve"} /\ pc'[q] \in {"loadPending", "reserve"}
      BY <1>8 DEF LoadActive, LoadReserve, Goto
    <2>2. Exact(q)
      BY <1>2, <2>1 DEF Picking
    <2>3. \A t : Load(t)' = Load(t)
      BY <2>1 DEF Load, counters
    <2>4. Scanned(q)' = Scanned(q)
      BY <2>1 DEF Scanned
    <2>5. \A t, S : FirstLeast(t, S)' <=> FirstLeast(t, S)
      BY <2>3 DEF FirstLeast
    <2> QED
      BY <2>1, <2>2, <2>3, <2>4, <2>5 DEF Exact, counters
  <1>9. CASE LoadPending(q)
    <2>1. q \in Picking /\ q \notin disturbed
      BY <1>9 DEF LoadPending, Picking
    <2> QED
      BY <1>2, <1>9, <2>1, ScanOneMore
  <1>10. ~QueueRefuses(q)
    BY DEF QueueRefuses, Goto, Picking
  <1>11. \A r \in Requests : ~SkipUnhealthy(r)
    BY <1>1 DEF SkipUnhealthy
  <1> QED
    BY <1>3, <1>4, <1>5, <1>6, <1>7, <1>8, <1>9, <1>10, <1>11
    DEF Next, Pick, AllFinished

\* The invariant of the scans holds throughout.
THEOREM ScanInvariance == Spec => []ScanInv
  <1>1. Init => ScanInv
    <2> SUFFICES ASSUME Init PROVE ScanInv
      OBVIOUS
    <2>1. TypeOK /\ ScanFinds
      BY InitIInv DEF IInv
    <2>2. ScanStarts /\ Picking = {}
      BY DEF Init, ScanStarts, Picking
    <2> QED
      BY <2>1, <2>2 DEF ScanInv, ScanExact
  <1>2. ScanInv /\ [Next]_vars => ScanInv'
    BY TypeNext, ScanFindsNext, ScanStartsNext, ScanExactNext DEF ScanInv
  <1> QED
    BY <1>1, <1>2, PTL DEF Spec

\* A Pick that no other request disturbs reserves the first of the targets
\* with the fewest connections and reservations, over any number of targets:
\* the loop of findCandidates scans them all and ties go to the first.
THEOREM UndisturbedPicksLeast == Spec => LeastLoadedWhenUndisturbed
  <1> DEFINE LeastLoaded ==
       \A r \in Requests :
         (Reserve(r) /\ r \notin disturbed /\ ~healthChecksEnabled) =>
           LET load(t) == activeConnections[t] + pendingSelections[t]
           IN \A t \in Targets : /\ load(best[r]) <= load(t)
                                 /\ t < best[r] => load(best[r]) < load(t)
  <1>1. ScanInv /\ [Next]_vars => [LeastLoaded]_vars
    <2> SUFFICES ASSUME ScanInv, NEW r \in Requests,
                        Reserve(r), r \notin disturbed, ~healthChecksEnabled,
                        NEW t \in Targets
                 PROVE  /\ Load(best[r]) <= Load(t)
                        /\ t < best[r] => Load(best[r]) < Load(t)
      BY DEF Load
    <2>1. pc[r] = "reserve"
      BY DEF Reserve, Goto
    <2>2. Exact(r) /\ Scanned(r) = Targets
      BY <2>1 DEF ScanInv, ScanExact, Picking, Scanned
    <2> QED
      BY <2>2 DEF Exact, FirstLeast
  <1> QED
    BY <1>1, ScanInvariance, PTL DEF Spec, LeastLoadedWhenUndisturbed

-----------------------------------------------------------------------------
(* The retry.  A compare-and-swap fails only because somebody else moved.  *)

\* The value that an undisturbed request compares with is still the counter's.
CASInv ==
  \A r \in Requests :
    (pc[r] = "reserve" /\ r \notin disturbed) => seen[r] = pendingSelections[best[r]]

\* Whoever changes a counter disturbs everybody who has loaded one.
LEMMA CASNext == TypeOK /\ CASInv /\ [Next]_vars => CASInv'
  <1> SUFFICES ASSUME TypeOK, CASInv, [Next]_vars, NEW q \in Requests,
                      pc'[q] = "reserve", q \notin disturbed'
               PROVE  seen'[q] = pendingSelections'[best'[q]]
    BY DEF CASInv
  <1> USE DEF TypeOK, settings, counters, scan, Goto
  <1>1. CASE UNCHANGED vars
    BY <1>1 DEF vars, CASInv
  <1>2. ASSUME NEW r \in Requests,
               \/ StartPick(r) \/ QueueRefuses(r) \/ SkipUnhealthy(r)
               \/ LoadActive(r) \/ LoadPending(r) \/ Retry(r)
        PROVE  seen'[q] = pendingSelections'[best'[q]]
    <2>1. q # r
      BY <1>2 DEF StartPick, QueueRefuses, SkipUnhealthy, LoadActive, LoadPending, Retry,
                  NextTarget
    <2>2. /\ pc[q] = "reserve" /\ q \notin disturbed /\ seen'[q] = seen[q]
          /\ best'[q] = best[q] /\ pendingSelections' = pendingSelections
      BY <1>2, <2>1 DEF StartPick, QueueRefuses, SkipUnhealthy, LoadActive, LoadPending, Retry,
                  NextTarget, Forget
    <2> QED
      BY <2>2 DEF CASInv
  <1>3. ASSUME NEW r \in Requests, LoadReserve(r)
        PROVE  seen'[q] = pendingSelections'[best'[q]]
    BY <1>3 DEF LoadReserve, CASInv
  <1>4. ASSUME NEW r \in Requests, Reserve(r) \/ Convert(r) \/ Open(r) \/ Close(r)
        PROVE  FALSE
    <2>1. q # r /\ pc[q] = "reserve" /\ disturbed' = disturbed \cup (Picking \ {r})
      BY <1>4 DEF Reserve, Convert, Open, Close, Overtakes
    <2>2. q \in Picking
      BY <2>1 DEF Picking
    <2> QED
      BY <2>1, <2>2
  <1> QED
    BY <1>1, <1>2, <1>3, <1>4 DEF Next, Pick, AllFinished

\* The retry loop is lock-free: a Pick starts over only if, since it began this
\* attempt, another request reserved, converted, opened or closed, that is made
\* a step forward that is never taken back.
THEOREM RetriesOnlyWhenOvertaken ==
  Spec => [][\A r \in Requests : Retry(r) => r \in disturbed]_vars
  <1> DEFINE Overtaken == \A r \in Requests : Retry(r) => r \in disturbed
  <1>1. Init => CASInv
    BY DEF Init, CASInv
  <1>2. IInv => TypeOK
    BY DEF IInv
  <1>3. CASInv => Overtaken
    BY DEF CASInv, Retry, Goto
  <1> QED
    BY <1>1, <1>2, <1>3, Invariance, CASNext, PTL DEF Spec

-----------------------------------------------------------------------------
(* The leak.  What a refused request leaves behind, and nobody else does.  *)

\* No two targets are one upstream.
Distinct == \A s, t \in Targets : sameUpstream(s, t) => s = t

\* Requests that hold a reservation at t, or held one when they were refused.
HoldingAt(t) == {r \in Requests : target[r] = t /\ pc[r] \in {"picked", "refused"}}

\* Acquire then finds the state that Pick reserved.
LEMMA StateOfDistinct ==
  ASSUME Distinct, NEW t \in Targets
  PROVE  StateOf(t) = t
  <1>1. \E s \in Targets : /\ sameUpstream(s, t)
                           /\ \A u \in Targets : sameUpstream(u, t) => s <= u
    <2>1. sameUpstream(t, t) /\ \A u \in Targets : sameUpstream(u, t) => t <= u
      BY LCTargetsAssumption DEF sameUpstream, Distinct, Targets
    <2> QED
      BY <2>1
  <1>2. StateOf(t) \in Targets /\ sameUpstream(StateOf(t), t)
    BY <1>1, Zenon DEF StateOf
  <1> QED
    BY <1>2 DEF Distinct

\* With distinct upstreams, the reservations of a target are at every moment
\* those of the requests between Pick and Acquire and of those the queue has
\* turned away: each of the latter weighs on its target for good, and nothing
\* else does.
THEOREM RefusedWeighForGood ==
  Spec => [](Distinct =>
               \A t \in Targets : pendingSelections[t] = Cardinality(HoldingAt(t)))
  <1>1. IInv /\ Distinct => \A t \in Targets : pendingSelections[t] = Cardinality(HoldingAt(t))
    <2> SUFFICES ASSUME IInv, Distinct, NEW t \in Targets
                 PROVE  pendingSelections[t] = Cardinality(HoldingAt(t))
      OBVIOUS
    <2>1. t # 0 /\ t \in 1..N
      BY LCTargetsAssumption DEF Targets
    <2>2. ASSUME NEW r \in Requests, target[r] # 0 PROVE StateOf(target[r]) = target[r]
      <3>1. target[r] \in Targets
        BY <2>2, LCTargetsAssumption DEF IInv, TypeOK, Targets
      <3> QED
        BY <3>1, StateOfDistinct
    <2>3. ConvertedAt(t) = {r \in Requests : target[r] = t /\ pc[r] \in {"opening", "inflight", "closed"}}
      <3>1. \A r \in Requests : pc[r] \in {"opening", "inflight", "closed"} => target[r] # 0
        BY DEF IInv, ScanFinds
      <3> QED
        BY <2>2, <3>1 DEF ConvertedAt
    <2>4. HoldingAt(t) = ReservedAt(t) \ ConvertedAt(t)
      BY <2>1, <2>3 DEF IInv, ScanFinds, HoldingAt, ReservedAt
    <2>5. ReservedAt(t) \cap ConvertedAt(t) = ConvertedAt(t)
      BY <2>3 DEF ReservedAt
    <2>6. Cardinality(HoldingAt(t)) = Cardinality(ReservedAt(t)) - Cardinality(ConvertedAt(t))
      BY <2>4, <2>5, CountsAreFinite, FS_Difference
    <2> QED
      BY <2>6 DEF IInv, CountersExact, PendingAccounting
  <1> QED
    BY <1>1, Invariance, PTL

\* The comment of balancer.go:77, "in-flight reservations made by Pick", is
\* true of a proxy without a queue whose targets are distinct upstreams.
THEOREM WithoutQueueNothingLeaks ==
  Spec => [](Distinct /\ ~queueWraps => PendingIsInFlight)
  <1> DEFINE NoRefusal == ~queueWraps => \A r \in Requests : pc[r] # "refused"
  <1>1. Init => NoRefusal
    BY DEF Init
  <1>2. IInv /\ NoRefusal /\ [Next]_vars => NoRefusal'
    <2> USE DEF IInv, TypeOK, settings, Goto
    <2> SUFFICES ASSUME IInv, NoRefusal, [Next]_vars, ~queueWraps', NEW q \in Requests
                 PROVE  pc'[q] # "refused"
      OBVIOUS
    <2>1. CASE UNCHANGED vars
      BY <2>1 DEF vars
    <2>2. ASSUME NEW r \in Requests,
                 \/ StartPick(r) \/ QueueRefuses(r) \/ SkipUnhealthy(r) \/ LoadActive(r)
                 \/ LoadPending(r) \/ LoadReserve(r) \/ Retry(r)
          PROVE  pc'[q] # "refused"
      BY <2>2 DEF StartPick, QueueRefuses, SkipUnhealthy, LoadActive, LoadPending,
                  LoadReserve, Retry, NextTarget
    <2>3. ASSUME NEW r \in Requests, Reserve(r) \/ Convert(r) \/ Open(r) \/ Close(r)
          PROVE  pc'[q] # "refused"
      BY <2>3 DEF Reserve, Convert, Open, Close
    <2> QED
      BY <2>1, <2>2, <2>3 DEF Next, Pick, AllFinished
  <1> DEFINE Holding == Distinct =>
                          \A t \in Targets : pendingSelections[t] = Cardinality(HoldingAt(t))
  <1>3. Holding /\ NoRefusal => (Distinct /\ ~queueWraps => PendingIsInFlight)
    <2> SUFFICES ASSUME Holding, NoRefusal, Distinct, ~queueWraps,
                        \A r \in Requests : Finished(r), NEW t \in Targets
                 PROVE  pendingSelections[t] = 0
      BY DEF PendingIsInFlight
    <2>1. HoldingAt(t) = {}
      BY DEF HoldingAt, Finished
    <2> QED
      BY <2>1, FS_EmptySet
  <1>4. Spec => []Holding
    BY RefusedWeighForGood
  <1> HIDE DEF Holding, NoRefusal
  <1> QED
    BY <1>1, <1>2, <1>3, <1>4, Invariance, PTL DEF Spec
=============================================================================
