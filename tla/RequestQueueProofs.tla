-------------------------- MODULE RequestQueueProofs --------------------------
(***************************************************************************)
(* Proofs about RequestQueue for every finite set of requests and every    *)
(* configured limit.                                                       *)
(***************************************************************************)
EXTENDS RequestQueue, FiniteSetTheorems, TLAPS

-----------------------------------------------------------------------------
(* Counting.                                                               *)

\* The limits the channels are made with are positive, whatever the
\* configuration says (the defaults of lines 32-37).
LEMMA CapsPositive == QueueCap \in Nat /\ SlotCap \in Nat /\ QueueCap > 0 /\ SlotCap > 0
  BY LimitsAssumption DEF QueueCap, SlotCap

\* A set of requests is finite and its cardinality is a natural number.
LEMMA RequestSets ==
  ASSUME NEW S \in SUBSET Requests
  PROVE  IsFiniteSet(S) /\ Cardinality(S) \in Nat
  BY RequestsAssumption, FS_Subset, FS_CardinalityType

\* One request joins a set.
LEMMA CountJoin ==
  ASSUME NEW S \in SUBSET Requests, NEW r \in Requests, r \notin S,
         NEW T, T = S \cup {r}
  PROVE  Cardinality(T) = Cardinality(S) + 1
  BY RequestSets, FS_AddElement

\* One request leaves a set, which was therefore not empty.
LEMMA CountLeave ==
  ASSUME NEW S \in SUBSET Requests, NEW r \in Requests, r \in S,
         NEW T, T = S \ {r}
  PROVE  /\ Cardinality(T) = Cardinality(S) - 1
         /\ Cardinality(S) > 0
  <1>1. T \in SUBSET Requests /\ r \notin T /\ S = T \cup {r}
    OBVIOUS
  <1>2. Cardinality(S) = Cardinality(T) + 1
    BY <1>1, CountJoin
  <1> QED
    BY <1>1, <1>2, RequestSets

-----------------------------------------------------------------------------
(* Type correctness.                                                       *)

\* The initial state of the handler is well typed.
LEMMA TypeInit == Init => TypeOK
  BY CapsPositive DEF Init, TypeOK, Locations, AcquirerStates, Outcomes

\* Every step of either goroutine, and of the client, preserves the types;
\* the channels stay within their capacities because of the guards alone.
LEMMA TypeNext == TypeOK /\ [Next]_vars => TypeOK'
  <1> SUFFICES ASSUME TypeOK, [Next]_vars PROVE TypeOK'
    OBVIOUS
  <1> USE CapsPositive DEF TypeOK, Goto
  <1>1. CASE UNCHANGED vars
    BY <1>1 DEF vars
  <1>2. ASSUME NEW r \in Requests, Enqueue(r) PROVE TypeOK'
    <2>1. pc' \in [Requests -> Locations]
      BY <1>2 DEF Enqueue, Locations
    <2>2. queueWaitCh' \in 0..QueueCap
      BY <1>2 DEF Enqueue
    <2> QED
      BY <1>2, <2>1, <2>2 DEF Enqueue
  <1>3. ASSUME NEW r \in Requests, Reject(r) PROVE TypeOK'
    <2>1. pc' \in [Requests -> Locations]
      BY <1>3 DEF Reject, Locations
    <2>2. outcome' \in [Requests -> Outcomes]
      BY <1>3 DEF Reject, Outcomes
    <2>3. metrics' \in [rejected : Nat, timeouts : Nat, waits : Nat]
      BY <1>3 DEF Reject
    <2> QED
      BY <1>3, <2>1, <2>2, <2>3 DEF Reject
  <1>4. ASSUME NEW r \in Requests, CountIn(r) PROVE TypeOK'
    <2>1. pc' \in [Requests -> Locations]
      BY <1>4 DEF CountIn, Locations
    <2>2. queueDepth' \in Int
      BY <1>4 DEF CountIn
    <2>3. depth' \in [Requests -> Int]
      BY <1>4 DEF CountIn
    <2> QED
      BY <1>4, <2>1, <2>2, <2>3 DEF CountIn
  <1>5. ASSUME NEW r \in Requests, PublishIn(r) PROVE TypeOK'
    <2>1. pc' \in [Requests -> Locations]
      BY <1>5 DEF PublishIn, Locations
    <2>2. acq' \in [Requests -> AcquirerStates]
      BY <1>5 DEF PublishIn, AcquirerStates
    <2>3. depth' \in [Requests -> Int]
      BY <1>5 DEF PublishIn
    <2>4. gauge' \in Int
      BY <1>5 DEF PublishIn
    <2> QED
      BY <1>5, <2>1, <2>2, <2>3, <2>4 DEF PublishIn
  <1>6. ASSUME NEW r \in Requests, ClientGone(r) PROVE TypeOK'
    <2>1. pc' \in [Requests -> Locations]
      BY <1>6 DEF ClientGone, Locations
    <2>2. outcome' \in [Requests -> Outcomes]
      BY <1>6 DEF ClientGone, Outcomes
    <2>3. cancelled' \subseteq Requests
      BY <1>6 DEF ClientGone, CancelAcquire
    <2>4. metrics' \in [rejected : Nat, timeouts : Nat, waits : Nat]
      <3>1. metrics' = [metrics EXCEPT !.waits = @ + 1]
        BY <1>6 DEF ClientGone
      <3> QED
        BY <3>1
    <2> QED
      BY <1>6, <2>1, <2>2, <2>3, <2>4 DEF ClientGone
  <1>7. ASSUME NEW r \in Requests, TimedOut(r) PROVE TypeOK'
    <2>1. pc' \in [Requests -> Locations]
      BY <1>7 DEF TimedOut, Locations
    <2>2. outcome' \in [Requests -> Outcomes]
      BY <1>7 DEF TimedOut, Outcomes
    <2>3. cancelled' \subseteq Requests
      BY <1>7 DEF TimedOut, CancelAcquire
    <2>4. metrics' \in [rejected : Nat, timeouts : Nat, waits : Nat]
      <3>1. metrics' = [[metrics EXCEPT !.timeouts = @ + 1] EXCEPT !.waits = @ + 1]
        BY <1>7 DEF TimedOut
      <3> DEFINE counted == [metrics EXCEPT !.timeouts = @ + 1]
      <3>2. counted \in [rejected : Nat, timeouts : Nat, waits : Nat]
        OBVIOUS
      <3>3. metrics' = [counted EXCEPT !.waits = @ + 1]
        BY <3>1
      <3> HIDE DEF counted
      <3> QED
        BY <3>2, <3>3
    <2> QED
      BY <1>7, <2>1, <2>2, <2>3, <2>4 DEF TimedOut
  <1>8. ASSUME NEW r \in Requests, Granted(r) PROVE TypeOK'
    <2>1. pc' \in [Requests -> Locations]
      BY <1>8 DEF Granted, Locations
    <2>2. outcome' \in [Requests -> Outcomes]
      BY <1>8 DEF Granted, Outcomes
    <2> QED
      BY <1>8, <2>1, <2>2 DEF Granted
  <1>9. ASSUME NEW r \in Requests, LeaveQueue(r) PROVE TypeOK'
    <2>1. pc' \in [Requests -> Locations]
      BY <1>9 DEF LeaveQueue, Locations
    <2>2. queueWaitCh' \in 0..QueueCap
      BY <1>9 DEF LeaveQueue
    <2> QED
      BY <1>9, <2>1, <2>2 DEF LeaveQueue
  <1>10. ASSUME NEW r \in Requests, CountOut(r) PROVE TypeOK'
    <2>1. pc' \in [Requests -> Locations]
      BY <1>10 DEF CountOut, Locations
    <2>2. queueDepth' \in Int
      BY <1>10 DEF CountOut
    <2> QED
      BY <1>10, <2>1, <2>2 DEF CountOut
  <1>11. ASSUME NEW r \in Requests, LoadDepth(r) PROVE TypeOK'
    <2>1. pc' \in [Requests -> Locations]
      BY <1>11 DEF LoadDepth, Locations
    <2>2. depth' \in [Requests -> Int]
      BY <1>11 DEF LoadDepth
    <2> QED
      BY <1>11, <2>1, <2>2 DEF LoadDepth
  <1>12. ASSUME NEW r \in Requests, PublishOutAdmitted(r) PROVE TypeOK'
    <2>1. pc' \in [Requests -> Locations]
      BY <1>12 DEF PublishOutAdmitted, Locations
    <2>2. depth' \in [Requests -> Int]
      BY <1>12 DEF PublishOutAdmitted
    <2>3. gauge' \in Int
      BY <1>12 DEF PublishOutAdmitted
    <2>4. metrics' \in [rejected : Nat, timeouts : Nat, waits : Nat]
      BY <1>12 DEF PublishOutAdmitted
    <2> QED
      BY <1>12, <2>1, <2>2, <2>3, <2>4 DEF PublishOutAdmitted
  <1>13. ASSUME NEW r \in Requests, PublishOutFailed(r) PROVE TypeOK'
    <2>1. pc' \in [Requests -> Locations]
      BY <1>13 DEF PublishOutFailed, Locations
    <2>2. depth' \in [Requests -> Int]
      BY <1>13 DEF PublishOutFailed
    <2>3. gauge' \in Int
      BY <1>13 DEF PublishOutFailed
    <2> QED
      BY <1>13, <2>1, <2>2, <2>3 DEF PublishOutFailed
  <1>14. ASSUME NEW r \in Requests, ServeReturns(r) PROVE TypeOK'
    BY <1>14 DEF ServeReturns, Locations
  <1>15. ASSUME NEW r \in Requests, Release(r) PROVE TypeOK'
    <2>1. pc' \in [Requests -> Locations]
      BY <1>15 DEF Release, Locations
    <2>2. cancelled' \subseteq Requests
      BY <1>15 DEF Release, CancelAcquire
    <2>3. activeSlotsCh' \in 0..SlotCap
      BY <1>15 DEF Release
    <2> QED
      BY <1>15, <2>1, <2>2, <2>3 DEF Release
  <1>16. ASSUME NEW r \in Requests, AcquireSlot(r) PROVE TypeOK'
    <2>1. acq' \in [Requests -> AcquirerStates]
      BY <1>16 DEF AcquireSlot, AcquirerStates
    <2>2. activeSlotsCh' \in 0..SlotCap
      BY <1>16 DEF AcquireSlot
    <2> QED
      BY <1>16, <2>1, <2>2 DEF AcquireSlot
  <1>17. ASSUME NEW r \in Requests, Grant(r) PROVE TypeOK'
    BY <1>17 DEF Grant, AcquirerStates
  <1>18. ASSUME NEW r \in Requests, AcquireQuits(r) PROVE TypeOK'
    BY <1>18 DEF AcquireQuits, AcquirerStates
  <1>19. ASSUME NEW r \in Requests, ClientCancels(r) PROVE TypeOK'
    BY <1>19 DEF ClientCancels
  <1> QED
    BY <1>1, <1>2, <1>3, <1>4, <1>5, <1>6, <1>7, <1>8, <1>9, <1>10, <1>11,
       <1>12, <1>13, <1>14, <1>15, <1>16, <1>17, <1>18, <1>19
       DEF Next, Handler, Select, Acquirer, AllSettled

\* TypeOK is an invariant of the handler for every configuration: in
\* particular no channel ever holds more than it was made for.
THEOREM TypeCorrect == Spec => []TypeOK
  BY TypeInit, TypeNext, PTL DEF Spec
-----------------------------------------------------------------------------
(* The life of a request, step by step.                                    *)

\* A fresh handler is consistent.
LEMMA LifecycleInit == Init => LifecycleConsistent
  BY DEF Init, LifecycleConsistent

\* No interleaving of the two goroutines of a request breaks the agreement
\* between its program counter, its acquirer and its outcome.
LEMMA LifecycleNext ==
  TypeOK /\ LifecycleConsistent /\ [Next]_vars => LifecycleConsistent'
  <1> SUFFICES ASSUME TypeOK, LifecycleConsistent, [Next]_vars
               PROVE  LifecycleConsistent'
    OBVIOUS
  <1> USE DEF TypeOK, LifecycleConsistent, Goto
  <1>1. CASE UNCHANGED vars
    BY <1>1 DEF vars
  <1>2. ASSUME NEW r \in Requests, Enqueue(r) PROVE LifecycleConsistent'
    BY <1>2 DEF Enqueue
  <1>3. ASSUME NEW r \in Requests, Reject(r) PROVE LifecycleConsistent'
    BY <1>3 DEF Reject
  <1>4. ASSUME NEW r \in Requests, CountIn(r) PROVE LifecycleConsistent'
    BY <1>4 DEF CountIn
  <1>5. ASSUME NEW r \in Requests, PublishIn(r) PROVE LifecycleConsistent'
    BY <1>5 DEF PublishIn
  <1>6. ASSUME NEW r \in Requests, ClientGone(r) PROVE LifecycleConsistent'
    BY <1>6 DEF ClientGone
  <1>7. ASSUME NEW r \in Requests, TimedOut(r) PROVE LifecycleConsistent'
    BY <1>7 DEF TimedOut
  <1>8. ASSUME NEW r \in Requests, Granted(r) PROVE LifecycleConsistent'
    BY <1>8 DEF Granted
  <1>9. ASSUME NEW r \in Requests, LeaveQueue(r) PROVE LifecycleConsistent'
    BY <1>9 DEF LeaveQueue
  <1>10. ASSUME NEW r \in Requests, CountOut(r) PROVE LifecycleConsistent'
    BY <1>10 DEF CountOut
  <1>11. ASSUME NEW r \in Requests, LoadDepth(r) PROVE LifecycleConsistent'
    BY <1>11 DEF LoadDepth
  <1>12. ASSUME NEW r \in Requests, PublishOutAdmitted(r) PROVE LifecycleConsistent'
    BY <1>12 DEF PublishOutAdmitted
  <1>13. ASSUME NEW r \in Requests, PublishOutFailed(r) PROVE LifecycleConsistent'
    BY <1>13 DEF PublishOutFailed
  <1>14. ASSUME NEW r \in Requests, ServeReturns(r) PROVE LifecycleConsistent'
    BY <1>14 DEF ServeReturns
  <1>15. ASSUME NEW r \in Requests, Release(r) PROVE LifecycleConsistent'
    BY <1>15 DEF Release
  <1>16. ASSUME NEW r \in Requests, AcquireSlot(r) PROVE LifecycleConsistent'
    BY <1>16 DEF AcquireSlot
  <1>17. ASSUME NEW r \in Requests, Grant(r) PROVE LifecycleConsistent'
    BY <1>17 DEF Grant
  <1>18. ASSUME NEW r \in Requests, AcquireQuits(r) PROVE LifecycleConsistent'
    BY <1>18 DEF AcquireQuits
  <1>19. ASSUME NEW r \in Requests, ClientCancels(r) PROVE LifecycleConsistent'
    BY <1>19 DEF ClientCancels
  <1> QED
    BY <1>1, <1>2, <1>3, <1>4, <1>5, <1>6, <1>7, <1>8, <1>9, <1>10, <1>11,
       <1>12, <1>13, <1>14, <1>15, <1>16, <1>17, <1>18, <1>19
       DEF Next, Handler, Select, Acquirer, AllSettled

\* queueWaitCh follows the set of queued requests through every step.
LEMMA QueueAccountingNext ==
  TypeOK /\ LifecycleConsistent /\ QueueAccounting /\ [Next]_vars => QueueAccounting'
  <1> SUFFICES ASSUME TypeOK, LifecycleConsistent, QueueAccounting, [Next]_vars
               PROVE  QueueAccounting'
    OBVIOUS
  <1>0. InQueue \in SUBSET Requests
    BY DEF InQueue
  <1> USE DEF TypeOK, LifecycleConsistent, QueueAccounting, Goto
  <1>1. CASE UNCHANGED vars
    BY <1>1 DEF vars, InQueue
  <1>2. ASSUME NEW r \in Requests, Enqueue(r) PROVE QueueAccounting'
    <2>1. r \notin InQueue /\ InQueue' = InQueue \cup {r}
      BY <1>2 DEF Enqueue, InQueue
    <2>2. Cardinality(InQueue') = Cardinality(InQueue) + 1
      BY <1>0, <2>1, CountJoin
    <2> QED
      BY <1>2, <2>2 DEF Enqueue
  <1>3. ASSUME NEW r \in Requests, LeaveQueue(r) PROVE QueueAccounting'
    <2>1. r \in InQueue /\ InQueue' = InQueue \ {r}
      BY <1>3 DEF LeaveQueue, InQueue
    <2>2. Cardinality(InQueue') = Cardinality(InQueue) - 1
      BY <1>0, <2>1, CountLeave
    <2> QED
      BY <1>3, <2>2 DEF LeaveQueue
  <1>4. ASSUME NEW r \in Requests,
             Reject(r) \/ CountIn(r) \/ PublishIn(r) \/ ClientGone(r)
             \/ TimedOut(r) \/ Granted(r) \/ CountOut(r) \/ LoadDepth(r)
             \/ PublishOutAdmitted(r) \/ PublishOutFailed(r)
             \/ ServeReturns(r) \/ Release(r) \/ AcquireSlot(r) \/ Grant(r)
             \/ AcquireQuits(r) \/ ClientCancels(r)
        PROVE QueueAccounting'
    <2>1. InQueue' = InQueue /\ UNCHANGED queueWaitCh
      BY <1>4 DEF InQueue,
             Reject, CountIn, PublishIn, ClientGone, TimedOut, Granted
             , CountOut, LoadDepth, PublishOutAdmitted, PublishOutFailed
             , ServeReturns, Release, AcquireSlot, Grant, AcquireQuits
             , ClientCancels
    <2> QED
      BY <2>1
  <1> QED
    BY <1>1, <1>2, <1>3, <1>4 DEF Next, Handler, Select, Acquirer, AllSettled

\* queueDepth follows the set of counted requests through every step.
LEMMA DepthAccountingNext ==
  TypeOK /\ LifecycleConsistent /\ DepthAccounting /\ [Next]_vars => DepthAccounting'
  <1> SUFFICES ASSUME TypeOK, LifecycleConsistent, DepthAccounting, [Next]_vars
               PROVE  DepthAccounting'
    OBVIOUS
  <1>0. Counted \in SUBSET Requests
    BY DEF Counted
  <1> USE DEF TypeOK, LifecycleConsistent, DepthAccounting, Goto
  <1>1. CASE UNCHANGED vars
    BY <1>1 DEF vars, Counted
  <1>2. ASSUME NEW r \in Requests, CountIn(r) PROVE DepthAccounting'
    <2>1. r \notin Counted /\ Counted' = Counted \cup {r}
      BY <1>2 DEF CountIn, Counted
    <2>2. Cardinality(Counted') = Cardinality(Counted) + 1
      BY <1>0, <2>1, CountJoin
    <2> QED
      BY <1>2, <2>2 DEF CountIn
  <1>3. ASSUME NEW r \in Requests, CountOut(r) PROVE DepthAccounting'
    <2>1. r \in Counted /\ Counted' = Counted \ {r}
      BY <1>3 DEF CountOut, Counted
    <2>2. Cardinality(Counted') = Cardinality(Counted) - 1
      BY <1>0, <2>1, CountLeave
    <2> QED
      BY <1>3, <2>2 DEF CountOut
  <1>4. ASSUME NEW r \in Requests,
             Enqueue(r) \/ Reject(r) \/ PublishIn(r) \/ ClientGone(r)
             \/ TimedOut(r) \/ Granted(r) \/ LeaveQueue(r) \/ LoadDepth(r)
             \/ PublishOutAdmitted(r) \/ PublishOutFailed(r)
             \/ ServeReturns(r) \/ Release(r) \/ AcquireSlot(r) \/ Grant(r)
             \/ AcquireQuits(r) \/ ClientCancels(r)
        PROVE DepthAccounting'
    <2>1. Counted' = Counted /\ UNCHANGED queueDepth
      BY <1>4, ZenonT(60) DEF Counted,
             Enqueue, Reject, PublishIn, ClientGone, TimedOut, Granted
             , LeaveQueue, LoadDepth, PublishOutAdmitted, PublishOutFailed
             , ServeReturns, Release, AcquireSlot, Grant, AcquireQuits
             , ClientCancels
    <2> QED
      BY <2>1
  <1> QED
    BY <1>1, <1>2, <1>3, <1>4 DEF Next, Handler, Select, Acquirer, AllSettled

\* activeSlotsCh follows the set of slot holders through every step: only an
\* acquirer adds to it, and only the end of an admitted request takes away.
LEMMA SlotAccountingNext ==
  TypeOK /\ LifecycleConsistent /\ SlotAccounting /\ [Next]_vars => SlotAccounting'
  <1> SUFFICES ASSUME TypeOK, LifecycleConsistent, SlotAccounting, [Next]_vars
               PROVE  SlotAccounting'
    OBVIOUS
  <1>0. SlotHolders \in SUBSET Requests
    BY DEF SlotHolders
  <1> USE DEF TypeOK, LifecycleConsistent, SlotAccounting, Goto
  <1>1. CASE UNCHANGED vars
    BY <1>1 DEF vars, SlotHolders
  <1>2. ASSUME NEW r \in Requests, AcquireSlot(r) PROVE SlotAccounting'
    <2>1. r \notin SlotHolders /\ SlotHolders' = SlotHolders \cup {r}
      BY <1>2 DEF AcquireSlot, SlotHolders
    <2>2. Cardinality(SlotHolders') = Cardinality(SlotHolders) + 1
      BY <1>0, <2>1, CountJoin
    <2> QED
      BY <1>2, <2>2 DEF AcquireSlot
  <1>3. ASSUME NEW r \in Requests, Release(r) PROVE SlotAccounting'
    <2>1. r \in SlotHolders /\ SlotHolders' = SlotHolders \ {r}
      BY <1>3 DEF Release, SlotHolders
    <2>2. Cardinality(SlotHolders') = Cardinality(SlotHolders) - 1
      BY <1>0, <2>1, CountLeave
    <2> QED
      BY <1>3, <2>2 DEF Release
  <1>4. ASSUME NEW r \in Requests,
             Enqueue(r) \/ Reject(r) \/ CountIn(r) \/ PublishIn(r)
             \/ ClientGone(r) \/ TimedOut(r) \/ Granted(r) \/ LeaveQueue(r)
             \/ CountOut(r) \/ LoadDepth(r) \/ PublishOutAdmitted(r)
             \/ PublishOutFailed(r) \/ ServeReturns(r) \/ Grant(r)
             \/ AcquireQuits(r) \/ ClientCancels(r)
        PROVE SlotAccounting'
    <2>1. CASE Enqueue(r) \/ Reject(r) \/ CountIn(r) \/ PublishIn(r)
      <3>1. SlotHolders' = SlotHolders /\ UNCHANGED activeSlotsCh
        BY <2>1 DEF SlotHolders, Enqueue, Reject, CountIn, PublishIn
      <3> QED
        BY <3>1
    <2>2. CASE ClientGone(r) \/ TimedOut(r) \/ Granted(r)
      <3>1. SlotHolders' = SlotHolders /\ UNCHANGED activeSlotsCh
        BY <2>2, ZenonT(60) DEF SlotHolders, ClientGone, TimedOut, Granted
      <3> QED
        BY <3>1
    <2>3. CASE LeaveQueue(r) \/ CountOut(r) \/ LoadDepth(r)
               \/ PublishOutAdmitted(r) \/ PublishOutFailed(r)
      <3>1. SlotHolders' = SlotHolders /\ UNCHANGED activeSlotsCh
        BY <2>3 DEF SlotHolders, LeaveQueue, CountOut, LoadDepth,
             PublishOutAdmitted, PublishOutFailed
      <3> QED
        BY <3>1
    <2>4. CASE ServeReturns(r) \/ ClientCancels(r)
      <3>1. SlotHolders' = SlotHolders /\ UNCHANGED activeSlotsCh
        BY <2>4 DEF SlotHolders, ServeReturns, ClientCancels
      <3> QED
        BY <3>1
    <2>5. CASE Grant(r) \/ AcquireQuits(r)
      <3>1. SlotHolders' = SlotHolders /\ UNCHANGED activeSlotsCh
        BY <2>5 DEF SlotHolders, Grant, AcquireQuits
      <3> QED
        BY <3>1
    <2> QED
      BY <1>4, <2>1, <2>2, <2>3, <2>4, <2>5
  <1> QED
    BY <1>1, <1>2, <1>3, <1>4 DEF Next, Handler, Select, Acquirer, AllSettled

-----------------------------------------------------------------------------
(* The inductive invariant and what follows from it.                       *)

\* None of the accounting equations is inductive without the types, which
\* keep the sets finite and the counters integers, and without the lifecycle,
\* which says that only the owner of a slot returns one.
IInv ==
  /\ TypeOK
  /\ LifecycleConsistent
  /\ QueueAccounting
  /\ DepthAccounting
  /\ SlotAccounting

\* The accounting starts at zero.
LEMMA InvInit == Init => IInv
  <1> SUFFICES ASSUME Init PROVE IInv
    OBVIOUS
  <1>1. InQueue = {} /\ Counted = {} /\ SlotHolders = {}
    BY DEF Init, InQueue, Counted, SlotHolders
  <1>2. QueueAccounting /\ DepthAccounting /\ SlotAccounting
    BY <1>1, FS_EmptySet DEF Init, QueueAccounting, DepthAccounting, SlotAccounting
  <1> QED
    BY <1>2, TypeInit, LifecycleInit DEF IInv

\* Every step preserves the inductive invariant.
LEMMA InvNext == IInv /\ [Next]_vars => IInv'
  BY TypeNext, LifecycleNext, QueueAccountingNext, DepthAccountingNext,
     SlotAccountingNext DEF IInv

\* The inductive invariant holds of every behaviour of the handler.
THEOREM Invariance == Spec => []IInv
  BY InvInit, InvNext, PTL DEF Spec

\* The channels and the depth counter are exact for any number of requests: no
\* path through the handler enters without leaving or leaves twice.
THEOREM CountersAreExact == Spec => []CountersExact
  <1>1. IInv => CountersExact
    BY DEF IInv, CountersExact
  <1> QED
    BY <1>1, Invariance, PTL

\* Lifecycle and ownership: only admitted requests run, on a slot their own
\* acquirer took, for any number of requests.
THEOREM LifecycleIsConsistent == Spec => []LifecycleConsistent
  <1>1. IInv => LifecycleConsistent
    BY DEF IInv
  <1> QED
    BY <1>1, Invariance, PTL

\* Those who run hold a slot each, and so do the requests that were turned away
\* with one; there are only so many slots.
LEMMA RunningBound == IInv => ConcurrencyBound
  <1> SUFFICES ASSUME IInv PROVE ConcurrencyBound
    OBVIOUS
  <1>1. Running \cup Orphans \subseteq SlotHolders /\ SlotHolders \in SUBSET Requests
    BY DEF IInv, LifecycleConsistent, Running, Orphans, SlotHolders
  <1>2. Cardinality(Running \cup Orphans) <= Cardinality(SlotHolders)
    BY <1>1, RequestSets, FS_Subset
  <1> QED
    BY <1>1, <1>2, RequestSets, CapsPositive
       DEF IInv, TypeOK, SlotAccounting, ConcurrencyBound

\* The concurrency limit of queue.go:28 holds for any number of requests, any
\* limits and any timing of grants, timeouts and cancellations, less the slots
\* lost to requests that were turned away.
THEOREM ConcurrencyIsBounded == Spec => []ConcurrencyBound
  BY Invariance, RunningBound, PTL

\* Whoever is about to receive is itself one of those the channel counts.
LEMMA ReceivesFind == IInv => ReceivesNeverBlock
  <1> SUFFICES ASSUME IInv, NEW r \in Requests
               PROVE  /\ pc[r] = "leaving" => queueWaitCh > 0
                      /\ pc[r] = "releasing" => activeSlotsCh > 0
    BY DEF ReceivesNeverBlock
  <1>1. ASSUME pc[r] = "leaving" PROVE queueWaitCh > 0
    <2>1. InQueue \in SUBSET Requests /\ r \in InQueue
      BY <1>1 DEF InQueue
    <2> QED
      BY <2>1, CountLeave DEF IInv, QueueAccounting
  <1>2. ASSUME pc[r] = "releasing" PROVE activeSlotsCh > 0
    <2>1. SlotHolders \in SUBSET Requests /\ r \in SlotHolders
      BY <1>2 DEF IInv, LifecycleConsistent, SlotHolders
    <2> QED
      BY <2>1, CountLeave DEF IInv, SlotAccounting
  <1> QED
    BY <1>1, <1>2

\* The bare receives of lines 71, 119 and 125 never block a handler.
THEOREM NoReceiveBlocks == Spec => []ReceivesNeverBlock
  BY Invariance, ReceivesFind, PTL

\* How far the depth counter may run ahead of the channel: by the requests
\* that left the channel and have not been discounted, and no further.
DepthOvershoot ==
  queueDepth <= QueueCap + Cardinality({r \in Requests : pc[r] = "uncounting"})

\* The depth counter runs ahead of the channel only by the requests that are
\* between the two instructions of lines 119-120 (or 71-72).
LEMMA DepthBound == IInv => DepthOvershoot
  <1> SUFFICES ASSUME IInv PROVE DepthOvershoot
    OBVIOUS
  <1> DEFINE U == {r \in Requests : pc[r] = "uncounting"}
  <1>1. /\ Counted \in SUBSET (InQueue \cup U)
        /\ InQueue \in SUBSET Requests /\ U \in SUBSET Requests
        /\ InQueue \cap U = {}
    BY DEF Counted, InQueue
  <1> HIDE DEF U
  <1>2. /\ IsFiniteSet(InQueue) /\ IsFiniteSet(U)
        /\ Cardinality(InQueue) \in Nat /\ Cardinality(U) \in Nat
    BY <1>1, RequestSets
  <1>3. Cardinality(InQueue \cup U) = Cardinality(InQueue) + Cardinality(U)
    <2>1. Cardinality(InQueue \cup U)
            = Cardinality(InQueue) + Cardinality(U) - Cardinality(InQueue \cap U)
      BY <1>2, FS_Union
    <2> QED
      BY <1>1, <1>2, <2>1, FS_EmptySet
  <1>4. IsFiniteSet(InQueue \cup U) /\ Cardinality(Counted) <= Cardinality(InQueue \cup U)
    BY <1>1, <1>2, FS_Union, FS_Subset
  <1>5. Cardinality(Counted) \in Nat
    BY <1>1, RequestSets
  <1>6. queueDepth <= QueueCap + Cardinality(U)
    BY <1>2, <1>3, <1>4, <1>5, CapsPositive
       DEF IInv, TypeOK, QueueAccounting, DepthAccounting
  <1> QED
    BY <1>6 DEF DepthOvershoot, U

\* However many requests interleave, the overshoot of the published depth over
\* MaxQueue is bounded by the requests in that window.
THEOREM DepthIsBounded == Spec => []DepthOvershoot
  BY Invariance, DepthBound, PTL

-----------------------------------------------------------------------------
(* The metrics.                                                            *)

Answered(o) == {r \in Requests : outcome[r] = o}

\* Requests whose wait was observed.
Observed == {r \in Requests :
               \/ outcome[r] \in {"503 cancelled", "503 timeout"}
               \/ outcome[r] = "admitted" /\ pc[r] \in {"active", "releasing", "done"}}

\* MetricsAccount in terms of these sets.
LEMMA MetricsBySets ==
  MetricsAccount <=> /\ metrics.rejected = Cardinality(Answered("429"))
                     /\ metrics.timeouts = Cardinality(Answered("503 timeout"))
                     /\ metrics.waits = Cardinality(Observed)
  BY DEF MetricsAccount, Answered, Observed

\* A step that changes neither the metrics nor the three sets.
LEMMA MetricsKept ==
  ASSUME MetricsAccount, metrics' = metrics,
         Answered("429")' = Answered("429"),
         Answered("503 timeout")' = Answered("503 timeout"), Observed' = Observed
  PROVE  MetricsAccount'
  BY MetricsBySets DEF MetricsAccount, Answered, Observed

\* A request is counted at the moment its answer is decided, or its wait ends.
LEMMA MetricsNext == IInv /\ MetricsAccount /\ [Next]_vars => MetricsAccount'
  <1> SUFFICES ASSUME IInv, MetricsAccount, [Next]_vars PROVE MetricsAccount'
    OBVIOUS
  <1>1. TypeOK /\ LifecycleConsistent
    BY DEF IInv
  <1>2. /\ metrics.rejected = Cardinality(Answered("429"))
        /\ metrics.timeouts = Cardinality(Answered("503 timeout"))
        /\ metrics.waits = Cardinality(Observed)
    BY MetricsBySets
  <1>3. MetricsAccount' <=> /\ metrics'.rejected = Cardinality(Answered("429")')
                            /\ metrics'.timeouts = Cardinality(Answered("503 timeout")')
                            /\ metrics'.waits = Cardinality(Observed')
    BY DEF MetricsAccount, Answered, Observed
  <1>4. /\ \A o : Answered(o) \in SUBSET Requests
        /\ Observed \in SUBSET Requests
    BY DEF Answered, Observed
  <1>5. metrics \in [rejected : Nat, timeouts : Nat, waits : Nat]
    BY <1>1 DEF TypeOK
  <1>6. CASE UNCHANGED vars
    BY <1>6, MetricsKept DEF vars, Answered, Observed
  <1>7. ASSUME NEW r \in Requests, Reject(r) PROVE MetricsAccount'
    <2>1. outcome[r] = "none"
      BY <1>1, <1>7 DEF Reject, Goto, LifecycleConsistent
    <2>2. r \notin Answered("429") /\ Answered("429")' = Answered("429") \cup {r}
      BY <1>1, <1>7, <2>1 DEF Reject, TypeOK, Answered
    <2>3. Answered("503 timeout")' = Answered("503 timeout") /\ Observed' = Observed
      BY <1>1, <1>7, <2>1 DEF Reject, Goto, TypeOK, Answered, Observed
    <2>4. /\ metrics'.rejected = metrics.rejected + 1
          /\ metrics'.timeouts = metrics.timeouts /\ metrics'.waits = metrics.waits
      BY <1>5, <1>7 DEF Reject
    <2>5. Cardinality(Answered("429")') = Cardinality(Answered("429")) + 1
      BY <1>4, <2>2, CountJoin
    <2> QED
      BY <1>2, <1>3, <2>3, <2>4, <2>5
  <1>8. ASSUME NEW r \in Requests, ClientGone(r) PROVE MetricsAccount'
    <2>1. outcome[r] = "none"
      BY <1>1, <1>8 DEF ClientGone, Goto, LifecycleConsistent
    <2>2. r \notin Observed /\ Observed' = Observed \cup {r}
      BY <1>1, <1>8, <2>1 DEF ClientGone, Goto, TypeOK, Observed
    <2>3. /\ Answered("503 timeout")' = Answered("503 timeout")
          /\ Answered("429")' = Answered("429")
      BY <1>1, <1>8, <2>1 DEF ClientGone, TypeOK, Answered
    <2>4. /\ metrics'.waits = metrics.waits + 1
          /\ metrics'.timeouts = metrics.timeouts /\ metrics'.rejected = metrics.rejected
      BY <1>5, <1>8 DEF ClientGone
    <2>5. Cardinality(Observed') = Cardinality(Observed) + 1
      BY <1>4, <2>2, CountJoin
    <2> QED
      BY <1>2, <1>3, <2>3, <2>4, <2>5
  <1>9. ASSUME NEW r \in Requests, TimedOut(r) PROVE MetricsAccount'
    <2>1. outcome[r] = "none"
      BY <1>1, <1>9 DEF TimedOut, Goto, LifecycleConsistent
    <2>2. r \notin Observed /\ Observed' = Observed \cup {r}
      BY <1>1, <1>9, <2>1 DEF TimedOut, Goto, TypeOK, Observed
    <2>3. /\ r \notin Answered("503 timeout")
          /\ Answered("503 timeout")' = Answered("503 timeout") \cup {r}
          /\ Answered("429")' = Answered("429")
      BY <1>1, <1>9, <2>1 DEF TimedOut, TypeOK, Answered
    <2>4. /\ metrics'.waits = metrics.waits + 1
          /\ metrics'.timeouts = metrics.timeouts + 1
          /\ metrics'.rejected = metrics.rejected
      BY <1>5, <1>9 DEF TimedOut
    <2>5. /\ Cardinality(Observed') = Cardinality(Observed) + 1
          /\ Cardinality(Answered("503 timeout")') = Cardinality(Answered("503 timeout")) + 1
      BY <1>4, <2>2, <2>3, CountJoin
    <2> QED
      BY <1>2, <1>3, <2>3, <2>4, <2>5
  <1>10. ASSUME NEW r \in Requests, PublishOutAdmitted(r) PROVE MetricsAccount'
    <2>1. r \notin Observed /\ Observed' = Observed \cup {r}
      BY <1>1, <1>10 DEF PublishOutAdmitted, Goto, TypeOK, Observed
    <2>2. /\ Answered("503 timeout")' = Answered("503 timeout")
          /\ Answered("429")' = Answered("429")
      BY <1>10 DEF PublishOutAdmitted, Answered
    <2>3. /\ metrics'.waits = metrics.waits + 1
          /\ metrics'.timeouts = metrics.timeouts /\ metrics'.rejected = metrics.rejected
      BY <1>5, <1>10 DEF PublishOutAdmitted
    <2>4. Cardinality(Observed') = Cardinality(Observed) + 1
      BY <1>4, <2>1, CountJoin
    <2> QED
      BY <1>2, <1>3, <2>2, <2>3, <2>4
  <1>11. ASSUME NEW r \in Requests, Granted(r) PROVE MetricsAccount'
    <2>1. outcome[r] = "none"
      BY <1>1, <1>11 DEF Granted, Goto, LifecycleConsistent
    <2>2. Observed' = Observed
      BY <1>1, <1>11, <2>1 DEF Granted, Goto, TypeOK, Observed
    <2>3. /\ Answered("503 timeout")' = Answered("503 timeout")
          /\ Answered("429")' = Answered("429")
      BY <1>1, <1>11, <2>1 DEF Granted, TypeOK, Answered
    <2> QED
      BY <1>11, <2>2, <2>3, MetricsKept DEF Granted
  <1>12. ASSUME NEW r \in Requests,
                \/ Enqueue(r) \/ CountIn(r) \/ PublishIn(r) \/ LeaveQueue(r)
                \/ CountOut(r) \/ LoadDepth(r) \/ PublishOutFailed(r)
                \/ ServeReturns(r) \/ Release(r)
         PROVE  MetricsAccount'
    <2>1. outcome' = outcome /\ metrics' = metrics
      BY <1>12 DEF Enqueue, CountIn, PublishIn, LeaveQueue, CountOut, LoadDepth,
                   PublishOutFailed, ServeReturns, Release
    <2>2. /\ \A q \in Requests : q # r => pc'[q] = pc[q]
          /\ outcome[r] = "admitted" =>
               (pc'[r] \in {"active", "releasing", "done"}
                  <=> pc[r] \in {"active", "releasing", "done"})
      BY <1>1, <1>12 DEF TypeOK, Goto, Enqueue, CountIn, PublishIn, LeaveQueue, CountOut,
                         LoadDepth, PublishOutFailed, ServeReturns, Release
    <2>3. Observed' = Observed
      BY <2>1, <2>2 DEF Observed
    <2>4. /\ Answered("503 timeout")' = Answered("503 timeout")
          /\ Answered("429")' = Answered("429")
      BY <2>1 DEF Answered
    <2> QED
      BY <2>1, <2>3, <2>4, MetricsKept
  <1>13. ASSUME NEW r \in Requests, Acquirer(r) \/ ClientCancels(r)
         PROVE  MetricsAccount'
    <2>1. UNCHANGED <<pc, outcome, metrics>>
      BY <1>13 DEF Acquirer, AcquireSlot, Grant, AcquireQuits, ClientCancels
    <2> QED
      BY <2>1, MetricsKept DEF Answered, Observed
  <1> QED
    BY <1>6, <1>7, <1>8, <1>9, <1>10, <1>11, <1>12, <1>13
       DEF Next, Handler, Select, AllSettled

\* Every request is counted once, as what it was: rejections are the 429
\* answers, timeouts the timer's 503 answers, and a wait is observed for every
\* request that got past the queue or gave up in it.
THEOREM MetricsAreExact == Spec => []MetricsAccount
  <1>1. Init => MetricsAccount
    <2> SUFFICES ASSUME Init PROVE MetricsAccount
      OBVIOUS
    <2>1. Answered("429") = {} /\ Answered("503 timeout") = {} /\ Observed = {}
      BY DEF Init, Answered, Observed
    <2>2. metrics.rejected = 0 /\ metrics.timeouts = 0 /\ metrics.waits = 0
      BY DEF Init
    <2> QED
      BY <2>1, <2>2, FS_EmptySet, MetricsBySets
  <1> QED
    BY <1>1, Invariance, MetricsNext, PTL DEF Spec

-----------------------------------------------------------------------------
(* Action properties.                                                      *)

\* The decision about a request is taken once: by the 429 branch or by one of
\* the three cases of the select, from a state where none was taken.
THEOREM DecisionsAreFinal == Spec => DecisionIsFinal
  <1> DEFINE Final == \A r \in Requests : outcome[r] # "none" => outcome'[r] = outcome[r]
  <1>1. IInv /\ [Next]_vars => [Final]_vars
    <2> SUFFICES ASSUME IInv, [Next]_vars, NEW q \in Requests, outcome[q] # "none"
                 PROVE  outcome'[q] = outcome[q] \/ UNCHANGED vars
      OBVIOUS
    <2> USE DEF IInv, TypeOK, LifecycleConsistent, Goto
    <2>1. ASSUME NEW r \in Requests,
                 Reject(r) \/ ClientGone(r) \/ TimedOut(r) \/ Granted(r)
          PROVE  outcome'[q] = outcome[q]
      BY <2>1 DEF Reject, ClientGone, TimedOut, Granted
    <2>2. ASSUME NEW r \in Requests,
             Enqueue(r) \/ CountIn(r) \/ PublishIn(r) \/ LeaveQueue(r)
             \/ CountOut(r) \/ LoadDepth(r) \/ PublishOutAdmitted(r)
             \/ PublishOutFailed(r) \/ ServeReturns(r) \/ Release(r)
             \/ AcquireSlot(r) \/ Grant(r) \/ AcquireQuits(r) \/ ClientCancels(r)
          PROVE  outcome'[q] = outcome[q]
      BY <2>2 DEF Enqueue, CountIn, PublishIn, LeaveQueue, CountOut, LoadDepth,
             PublishOutAdmitted, PublishOutFailed, ServeReturns, Release,
             AcquireSlot, Grant, AcquireQuits, ClientCancels
    <2> QED
      BY <2>1, <2>2 DEF Next, Handler, Select, Acquirer, AllSettled
  <1> QED
    BY <1>1, Invariance, PTL DEF Spec, DecisionIsFinal

\* Only an admitted request gives a slot back, so an orphan stays one.
LEMMA OrphansNext == IInv /\ [Next]_vars => Orphans \subseteq Orphans'
  <1> SUFFICES ASSUME IInv, [Next]_vars, NEW q \in Orphans
               PROVE  q \in Orphans'
    OBVIOUS
  <1> USE DEF IInv, TypeOK, LifecycleConsistent, Goto, Orphans, SlotHolders
  <1>1. CASE UNCHANGED vars
    BY <1>1 DEF vars
  <1>2. ASSUME NEW r \in Requests,
           Enqueue(r) \/ Reject(r) \/ ClientGone(r) \/ TimedOut(r)
           \/ Granted(r) \/ LeaveQueue(r) \/ PublishOutFailed(r)
           \/ PublishOutAdmitted(r) \/ ServeReturns(r) \/ Release(r)
        PROVE  q \in Orphans'
    BY <1>2 DEF Enqueue, Reject, ClientGone, TimedOut, Granted, LeaveQueue,
           PublishOutFailed, PublishOutAdmitted, ServeReturns, Release
  <1>3. ASSUME NEW r \in Requests,
           CountIn(r) \/ PublishIn(r) \/ CountOut(r) \/ LoadDepth(r)
           \/ AcquireSlot(r) \/ Grant(r) \/ AcquireQuits(r) \/ ClientCancels(r)
        PROVE  q \in Orphans'
    BY <1>3 DEF CountIn, PublishIn, CountOut, LoadDepth, AcquireSlot, Grant,
           AcquireQuits, ClientCancels
  <1> QED
    BY <1>1, <1>2, <1>3 DEF Next, Handler, Select, Acquirer, AllSettled

-----------------------------------------------------------------------------
(* The leak.  How much is lost, and what it costs.                         *)

\* At rest, the slots that are taken are exactly those of the requests that
\* were turned away after their acquirer had won: no other path through the
\* handler leaks, so without such a race every slot is free again.
THEOREM LeakIsTheOrphans == Spec => [](Quiet => activeSlotsCh = Cardinality(Orphans))
  <1>1. IInv /\ Quiet => activeSlotsCh = Cardinality(Orphans)
    <2> SUFFICES ASSUME IInv, Quiet PROVE activeSlotsCh = Cardinality(Orphans)
      OBVIOUS
    <2>1. ASSUME NEW r \in SlotHolders PROVE outcome[r] \in {"503 cancelled", "503 timeout"}
      <3>1. /\ r \in Requests /\ acq[r] \in {"granting", "granted"}
            /\ ~(pc[r] = "done" /\ outcome[r] = "admitted")
        BY DEF SlotHolders
      <3>2. pc[r] = "done"
        BY <3>1 DEF Quiet, Settled, IInv, LifecycleConsistent
      <3>3. outcome[r] \in Outcomes /\ outcome[r] # "none" /\ outcome[r] # "429"
        BY <3>1, <3>2 DEF IInv, TypeOK, LifecycleConsistent
      <3> QED
        BY <3>1, <3>2, <3>3 DEF Outcomes
    <2>2. Orphans = SlotHolders
      BY <2>1 DEF Orphans
    <2> QED
      BY <2>2 DEF IInv, SlotAccounting
  <1> QED
    BY <1>1, Invariance, PTL

\* The slots of the requests turned away fit in the channel beside those of
\* the requests that run.
LEMMA LostOrRunning ==
  IInv => /\ Cardinality(Orphans) <= activeSlotsCh
          /\ Cardinality(Running) <= SlotCap - Cardinality(Orphans)
  <1> SUFFICES ASSUME IInv
               PROVE  /\ Cardinality(Orphans) <= activeSlotsCh
                      /\ Cardinality(Running) <= SlotCap - Cardinality(Orphans)
    OBVIOUS
  <1>1. /\ Orphans \in SUBSET Requests /\ Running \in SUBSET Requests
        /\ SlotHolders \in SUBSET Requests /\ Running \cup Orphans \in SUBSET Requests
        /\ Orphans \subseteq SlotHolders /\ Running \cap Orphans = {}
    BY DEF Orphans, Running, SlotHolders
  <1>2. /\ Cardinality(Orphans) \in Nat /\ Cardinality(Running) \in Nat
        /\ Cardinality(SlotHolders) \in Nat
        /\ IsFiniteSet(Orphans) /\ IsFiniteSet(Running) /\ IsFiniteSet(SlotHolders)
    BY <1>1, RequestSets
  <1>3. Cardinality(Orphans) <= Cardinality(SlotHolders)
    BY <1>1, <1>2, FS_Subset
  <1>4. Cardinality(SlotHolders) = activeSlotsCh
    BY DEF IInv, SlotAccounting
  <1>5. Cardinality(Running \cup Orphans) <= SlotCap
    BY RunningBound DEF ConcurrencyBound
  <1>6. Cardinality(Running \cup Orphans)
          = Cardinality(Running) + Cardinality(Orphans) - Cardinality(Running \cap Orphans)
    BY <1>2, FS_Union
  <1>7. Cardinality(Running \cap Orphans) = 0
    BY <1>1, FS_EmptySet
  <1>8. SlotCap \in Nat
    BY CapsPositive
  <1> QED
    BY <1>2, <1>3, <1>4, <1>5, <1>6, <1>7, <1>8

\* A lost race costs a slot for good: no step of the program receives the slot
\* of a request that was turned away, and from the next step on only the
\* remaining slots run requests.
THEOREM LostSlotsAreLost == Spec => LostSlotsStay
  <1> DEFINE Lost == Cardinality(Orphans)
             Kept == /\ activeSlotsCh' >= Lost
                     /\ Cardinality(Running') <= SlotCap - Lost
  <1>0. IInv' => (/\ Cardinality(Orphans) <= activeSlotsCh
                  /\ Cardinality(Running) <= SlotCap - Cardinality(Orphans))'
    BY LostOrRunning, PTL
  <1>1. IInv /\ [Next]_vars => Kept
    <2> SUFFICES ASSUME IInv, [Next]_vars PROVE Kept
      OBVIOUS
    <2>1. Orphans \subseteq Orphans' /\ IInv'
      BY OrphansNext, InvNext
    <2>2. /\ Orphans \in SUBSET Requests /\ Orphans' \in SUBSET Requests
          /\ Running' \in SUBSET Requests
      BY DEF Orphans, SlotHolders, Running
    <2>3. /\ Cardinality(Orphans) \in Nat /\ Cardinality(Orphans') \in Nat
          /\ Cardinality(Running') \in Nat
          /\ Cardinality(Orphans) <= Cardinality(Orphans')
      BY <2>1, <2>2, RequestSets, FS_Subset
    <2>4. /\ Cardinality(Orphans') <= activeSlotsCh'
          /\ Cardinality(Running') <= SlotCap - Cardinality(Orphans')
      BY <2>1, <1>0
    <2>5. SlotCap \in Nat /\ activeSlotsCh' \in Nat
      BY <2>1, CapsPositive DEF IInv, TypeOK
    <2> QED
      BY <2>3, <2>4, <2>5
  <1> QED
    BY <1>1, Invariance, PTL DEF Spec, LostSlotsStay

\* After as many lost races as there are slots, no request is ever admitted
\* again: nobody runs, now or later, however long the proxy is left in peace.
THEOREM LeakStarves == Spec => [](Cardinality(Orphans) = SlotCap => [](Running = {}))
  <1> DEFINE Starved == Cardinality(Orphans) = SlotCap
  <1>1. IInv /\ Starved => Running = {}
    <2> SUFFICES ASSUME IInv, Starved PROVE Running = {}
      OBVIOUS
    <2>1. Running \in SUBSET Requests /\ Orphans \in SUBSET Requests
      BY DEF Running, Orphans, SlotHolders
    <2>2. Cardinality(Running) \in Nat /\ IsFiniteSet(Running)
      BY <2>1, RequestSets
    <2>3. Cardinality(Running) <= SlotCap - SlotCap /\ SlotCap \in Nat
      BY LostOrRunning, CapsPositive
    <2>4. Cardinality(Running) = 0
      BY <2>2, <2>3
    <2> QED
      BY <2>2, <2>4, FS_EmptySet
  <1>2. IInv /\ Starved /\ [Next]_vars => Starved'
    <2> SUFFICES ASSUME IInv, Starved, [Next]_vars PROVE Starved'
      OBVIOUS
    <2>1. Orphans \subseteq Orphans' /\ IInv'
      BY OrphansNext, InvNext
    <2>2. Orphans' \in SUBSET Requests /\ SlotHolders' \in SUBSET Requests /\ Orphans' \subseteq SlotHolders'
      BY DEF Orphans, SlotHolders
    <2>3. Cardinality(Orphans) <= Cardinality(Orphans')
      BY <2>1, <2>2, RequestSets, FS_Subset
    <2>4. Cardinality(Orphans') <= Cardinality(SlotHolders')
      BY <2>2, RequestSets, FS_Subset
    <2>5. Cardinality(SlotHolders') <= SlotCap
      BY <2>1, CapsPositive DEF IInv, TypeOK, SlotAccounting
    <2> QED
      BY <2>2, <2>3, <2>4, <2>5, CapsPositive, RequestSets
  <1> QED
    BY <1>1, <1>2, Invariance, PTL DEF Spec

-----------------------------------------------------------------------------
(* Refinement: the handler implements Admission.                           *)

\* Admission counts with the same Cardinality.
LEMMA SameCardinality == \A S : Adm!Cardinality(S) = Cardinality(S)
  BY DEF Adm!Cardinality, Cardinality

\* The abstract sets are the concrete ones.
LEMMA PhaseSets ==
  ASSUME LifecycleConsistent
  PROVE  /\ Adm!In("queued") = InQueue
         /\ Adm!In("running") = Running
  <1>1. \A r \in Requests : Phase(r) = "queued" <=> r \in InQueue
    BY DEF LifecycleConsistent, Phase, InQueue, Running
  <1>2. \A r \in Requests : Phase(r) = "running" <=> r \in Running
    BY DEF LifecycleConsistent, Phase, InQueue, Running
  <1>3. InQueue \subseteq Requests /\ Running \subseteq Requests
    BY DEF InQueue, Running
  <1> QED
    BY <1>1, <1>2, <1>3 DEF Adm!In, phaseOf

\* A step that changes the phase of one request only is a move of Admission.
LEMMA PhaseMove ==
  ASSUME NEW r \in Requests, NEW from, NEW to,
         Phase(r) = from, Phase(r)' = to,
         \A q \in Requests \ {r} : Phase(q)' = Phase(q)
  PROVE  Adm!Move(r, from, to)
  BY DEF Adm!Move, phaseOf

\* Every step of the handler is a step of Admission or leaves it unchanged.
LEMMA PhaseNext == IInv /\ [Next]_vars => [Adm!Next]_phaseOf
  <1> SUFFICES ASSUME IInv, [Next]_vars PROVE [Adm!Next]_phaseOf
    OBVIOUS
  <1>0. UNCHANGED <<pc, outcome>> => UNCHANGED phaseOf
    BY DEF phaseOf, Phase, InQueue, Running
  <1> USE DEF IInv, TypeOK, LifecycleConsistent, Goto, Phase, InQueue, Running
  <1>1. CASE UNCHANGED vars
    BY <1>0, <1>1 DEF vars
  <1>2. ASSUME NEW r \in Requests, Enqueue(r) PROVE Adm!Next
    <2>1. Adm!Move(r, "outside", "queued")
      BY <1>2, PhaseMove DEF Enqueue
    <2>2. Cardinality(Adm!In("queued")) < QueueCap
      BY <1>2, PhaseSets DEF Enqueue, QueueAccounting
    <2> QED
      BY <2>1, <2>2, SameCardinality DEF Adm!Next, Adm!Admit
  <1>3. ASSUME NEW r \in Requests, Reject(r) PROVE Adm!Next
    <2>1. Adm!Move(r, "outside", "refused")
      BY <1>3, PhaseMove DEF Reject
    <2>2. Cardinality(Adm!In("queued")) >= QueueCap
      BY <1>3, PhaseSets DEF Reject, QueueAccounting
    <2> QED
      BY <2>1, <2>2, SameCardinality DEF Adm!Next, Adm!Refuse
  <1>4. ASSUME NEW r \in Requests, LeaveQueue(r), outcome[r] = "admitted"
        PROVE  Adm!Next
    <2>1. Adm!Move(r, "queued", "running")
      BY <1>4, PhaseMove DEF LeaveQueue
    <2>2. /\ Running \in SUBSET (SlotHolders \ {r})
          /\ SlotHolders \in SUBSET Requests /\ r \in SlotHolders
      BY <1>4 DEF LeaveQueue, SlotHolders
    <2>3. /\ IsFiniteSet(SlotHolders \ {r})
          /\ Cardinality(SlotHolders \ {r}) = Cardinality(SlotHolders) - 1
      BY <2>2, CountLeave, RequestSets
    <2>4. Cardinality(Running) <= Cardinality(SlotHolders) - 1
      BY <2>2, <2>3, FS_Subset
    <2>5. Cardinality(Running) < SlotCap
      BY <2>2, <2>4, RequestSets, CapsPositive DEF SlotAccounting
    <2> QED
      BY <2>1, <2>5, PhaseSets, SameCardinality DEF Adm!Next, Adm!Start
  <1>5. ASSUME NEW r \in Requests, LeaveQueue(r), outcome[r] # "admitted"
        PROVE  Adm!Next
    <2>1. Adm!Move(r, "queued", "expired")
      BY <1>5, PhaseMove DEF LeaveQueue
    <2> QED
      BY <2>1 DEF Adm!Next, Adm!Expire
  <1>6. ASSUME NEW r \in Requests, Release(r) PROVE Adm!Next
    <2>1. Adm!Move(r, "running", "served")
      BY <1>6, PhaseMove DEF Release
    <2> QED
      BY <2>1 DEF Adm!Next, Adm!Finish
  <1>7. ASSUME NEW r \in Requests,
             CountIn(r) \/ PublishIn(r) \/ ClientGone(r) \/ TimedOut(r)
             \/ Granted(r) \/ CountOut(r) \/ LoadDepth(r)
             \/ PublishOutAdmitted(r) \/ PublishOutFailed(r) \/ ServeReturns(r)
        PROVE  UNCHANGED phaseOf
    <2>1. CASE CountIn(r) \/ PublishIn(r)
      BY <2>1 DEF CountIn, PublishIn, phaseOf
    <2>2. CASE ClientGone(r) \/ TimedOut(r) \/ Granted(r)
      <3>1. pc[r] = "waiting" /\ pc'[r] = "leaving" /\ outcome'[r] # "429"
        BY <2>2 DEF ClientGone, TimedOut, Granted
      <3>2. \A q \in Requests \ {r} : pc'[q] = pc[q] /\ outcome'[q] = outcome[q]
        BY <2>2 DEF ClientGone, TimedOut, Granted
      <3> QED
        BY <3>1, <3>2 DEF phaseOf
    <2>3. CASE CountOut(r) \/ LoadDepth(r) \/ ServeReturns(r)
      BY <2>3 DEF CountOut, LoadDepth, ServeReturns, phaseOf
    <2>4. CASE PublishOutAdmitted(r) \/ PublishOutFailed(r)
      BY <2>4 DEF PublishOutAdmitted, PublishOutFailed, phaseOf
    <2> QED
      BY <1>7, <2>1, <2>2, <2>3, <2>4
  <1>8. ASSUME NEW r \in Requests,
             AcquireSlot(r) \/ Grant(r) \/ AcquireQuits(r) \/ ClientCancels(r)
        PROVE  UNCHANGED phaseOf
    BY <1>0, <1>8 DEF AcquireSlot, Grant, AcquireQuits, ClientCancels
  <1> QED
    BY <1>1, <1>2, <1>3, <1>4, <1>5, <1>6, <1>7, <1>8
       DEF Next, Handler, Select, Acquirer, AllSettled

\* The handler implements the abstract admission specification, for every set
\* of requests and every pair of limits.
THEOREM Refinement == Spec => ImplementsAdmission
  <1>1. Init => Adm!Init
    BY DEF Init, Adm!Init, phaseOf, Phase, InQueue, Running
  <1> QED
    BY <1>1, PhaseNext, Invariance, PTL DEF Spec, ImplementsAdmission, Adm!Spec
=============================================================================
