------------------------- MODULE BalancerSwitchProofs -------------------------
(***************************************************************************)
(* Proofs about BalancerSwitch for every finite set of requests, any       *)
(* targets, any strategy names and any number of replacements.             *)
(***************************************************************************)
EXTENDS BalancerSwitch, FiniteSetTheorems, TLAPS

-----------------------------------------------------------------------------
(* The inductive invariant.                                                *)

Locations == {"arriving", "previewed", "picking", "picked", "refused", "noTarget",
              "acquiring", "inflight", "closed", "undefined"}

TypeOK ==
  /\ healthChecksEnabled \in BOOLEAN
  /\ built \in Balancers
  /\ strategy \in [Balancers -> {"round_robin", "least_connections"}]
  /\ checks \in [Balancers -> BOOLEAN]
  /\ typeWord \in 1..built /\ dataWord \in 1..built
  /\ active \in [Balancers -> [Targets -> Int]]
  /\ pending \in [Balancers -> [Targets -> Int]]
  /\ pc \in [Requests -> Locations]
  /\ target \in [Requests -> Targets \cup {"none"}]
  /\ pickedOn \in [Requests -> 0..built]
  /\ heldOn \in [Requests -> 0..built]
  /\ changed \in BOOLEAN

\* A store in progress replaces the last but one balancer by the last, which
\* is as the fields say.
WordsLag ==
  /\ Settled => dataWord = built
  /\ ~Settled => built > 1 /\ {typeWord, dataWord} = {built - 1, built}
  /\ strategy[built] = TypeFor(lbStrategy)
  /\ checks[built] = healthChecksEnabled

\* Until somebody asks for another type, all balancers are of one type.
OneTypeUntilChanged ==
  ~changed => /\ \A b \in 1..built : strategy[b] = TypeFor(lbStrategy)
              /\ \A r \in Requests : pc[r] # "undefined"

\* What a request has done by now is what it remembers.
Remembers ==
  \A r \in Requests :
    /\ pc[r] \in {"arriving", "previewed", "picking"} => target[r] = "none"
    /\ pc[r] \in {"picking", "picked"} => pickedOn[r] # 0
    /\ pc[r] \in {"picked", "acquiring", "inflight", "closed"} => target[r] \in Targets
    /\ pc[r] \in {"acquiring", "inflight", "closed"} => heldOn[r] # 0

\* A balancer that is not built yet has empty books.
UnbuiltIsEmpty ==
  \A b \in Balancers, t \in Targets :
    b > built => active[b][t] = 0 /\ pending[b][t] = 0

IInv ==
  /\ TypeOK
  /\ WordsLag
  /\ OneTypeUntilChanged
  /\ Remembers
  /\ UnbuiltIsEmpty
  /\ BooksPerBalancer

-----------------------------------------------------------------------------
(* Types.                                                                  *)

\* Both types that newBalancer builds are balancer types.
LEMMA TypeForType ==
  \A name : TypeFor(name) \in {"round_robin", "least_connections"}
  BY DEF TypeFor

\* Requests form a finite set, and so do those a balancer has on its books.
LEMMA BooksAreFinite ==
  ASSUME NEW b, NEW t
  PROVE  /\ IsFiniteSet(PickedAt(b, t)) /\ Cardinality(PickedAt(b, t)) \in Nat
         /\ IsFiniteSet(AcquiredAt(b, t)) /\ Cardinality(AcquiredAt(b, t)) \in Nat
         /\ IsFiniteSet(OpenAt(b, t)) /\ Cardinality(OpenAt(b, t)) \in Nat
  <1>1. /\ PickedAt(b, t) \in SUBSET Requests
        /\ AcquiredAt(b, t) \in SUBSET Requests
        /\ OpenAt(b, t) \in SUBSET Requests
    BY DEF PickedAt, AcquiredAt, OpenAt
  <1> QED
    BY <1>1, SwitchAssumption, FS_Subset, FS_CardinalityType

\* NewReverseProxy's state is well typed.
LEMMA TypeInit == Init => TypeOK
  <1> SUFFICES ASSUME Init PROVE TypeOK
    OBVIOUS
  <1>1. built \in Balancers /\ typeWord \in 1..built /\ dataWord \in 1..built
    BY SwitchAssumption DEF Init, Balancers
  <1>2. /\ active \in [Balancers -> [Targets -> Int]]
        /\ pending \in [Balancers -> [Targets -> Int]]
    BY DEF Init
  <1>3. pc \in [Requests -> Locations]
    BY DEF Init, Locations
  <1>4. /\ pickedOn \in [Requests -> 0..built]
        /\ heldOn \in [Requests -> 0..built]
    BY DEF Init
  <1> QED
    BY <1>1, <1>2, <1>3, <1>4 DEF Init, TypeOK

\* Every step keeps the types: in particular the two words and the memory of
\* the requests only ever name balancers that were built.
LEMMA TypeNext == TypeOK /\ Remembers /\ [Next]_vars => TypeOK'
  <1> SUFFICES ASSUME TypeOK, Remembers, [Next]_vars PROVE TypeOK'
    OBVIOUS
  <1> USE SwitchAssumption
      DEF TypeOK, fields, objects, words, counters, requests
  <1>1. CASE UNCHANGED vars
    BY <1>1 DEF vars
  <1>2. ASSUME NEW name, NEW enabled \in BOOLEAN, newBalancer(name, enabled),
               UNCHANGED <<counters, requests>>,
               healthChecksEnabled' \in BOOLEAN, changed' \in BOOLEAN
        PROVE  TypeOK'
    <2>1. built' \in Balancers /\ built' = built + 1
      BY <1>2 DEF newBalancer, Balancers
    <2>2. typeWord' \in 1..built' /\ dataWord' \in 1..built'
      BY <1>2, <2>1 DEF newBalancer, Balancers
    <2>3. strategy' \in [Balancers -> {"round_robin", "least_connections"}]
      BY <1>2, <2>1, TypeForType DEF newBalancer
    <2>4. checks' \in [Balancers -> BOOLEAN]
      BY <1>2, <2>1 DEF newBalancer
    <2>5. pickedOn' \in [Requests -> 0..built'] /\ heldOn' \in [Requests -> 0..built']
      BY <1>2, <2>1 DEF Balancers
    <2> QED
      BY <1>2, <2>1, <2>2, <2>3, <2>4, <2>5
  <1>3. ASSUME NEW name \in Names, ConfigureBalancer(name) PROVE TypeOK'
    BY <1>2, <1>3 DEF ConfigureBalancer
  <1>4. ASSUME NEW enabled \in BOOLEAN, SetHealthCheckEnabled(enabled) PROVE TypeOK'
    BY <1>2, <1>4 DEF SetHealthCheckEnabled
  <1>5. CASE FinishStore
    BY <1>5 DEF FinishStore, Balancers
  <1>6. ASSUME NEW r \in Requests,
               Preview(r) \/ PickNone(r) \/ QueueRefuses(r) \/ CallTorn(r)
        PROVE  TypeOK'
    BY <1>6 DEF Preview, PickNone, QueueRefuses, CallTorn, Goto, Locations
  <1>a. ASSUME NEW r \in Requests, CallPick(r) PROVE TypeOK'
    BY <1>a DEF CallPick, Goto, Locations
  <1>b. ASSUME NEW r \in Requests, CallAcquire(r) PROVE TypeOK'
    BY <1>b DEF CallAcquire, Goto, Locations
  <1>7. ASSUME NEW r \in Requests, NEW t \in Targets, Pick(r, t) PROVE TypeOK'
    <2>1. pickedOn[r] \in Balancers
      BY <1>7 DEF Balancers, Remembers, Pick, Goto
    <2>2. Add(pending, pickedOn[r], t, 1) \in [Balancers -> [Targets -> Int]]
      BY <2>1 DEF Add
    <2>3. pc' \in [Requests -> Locations]
      BY <1>7 DEF Pick, Goto, Locations
    <2>4. target' \in [Requests -> Targets \cup {"none"}]
      BY <1>7 DEF Pick
    <2> QED
      BY <1>7, <2>2, <2>3, <2>4 DEF Pick
  <1>8. ASSUME NEW r \in Requests, Acquire(r) PROVE TypeOK'
    <2>1. heldOn[r] \in Balancers /\ target[r] \in Targets
      BY <1>8 DEF Balancers, Remembers, Acquire, Goto
    <2>2. /\ Add(pending, heldOn[r], target[r], -1) \in [Balancers -> [Targets -> Int]]
          /\ Add(active, heldOn[r], target[r], 1) \in [Balancers -> [Targets -> Int]]
      BY <2>1 DEF Add
    <2>3. pc' \in [Requests -> Locations]
      BY <1>8 DEF Acquire, Goto, Locations
    <2> QED
      BY <1>8, <2>2, <2>3 DEF Acquire
  <1>9. ASSUME NEW r \in Requests, Release(r) PROVE TypeOK'
    <2>1. heldOn[r] \in Balancers /\ target[r] \in Targets
      BY <1>9 DEF Balancers, Remembers, Release, Goto
    <2>2. Add(active, heldOn[r], target[r], -1) \in [Balancers -> [Targets -> Int]]
      BY <2>1 DEF Add
    <2>3. pc' \in [Requests -> Locations]
      BY <1>9 DEF Release, Goto, Locations
    <2> QED
      BY <1>9, <2>2, <2>3 DEF Release
  <1> QED
    BY <1>1, <1>3, <1>4, <1>5, <1>6, <1>a, <1>b, <1>7, <1>8, <1>9 DEF Next, AllFinished

-----------------------------------------------------------------------------
(* The words and the types of balancers.                                   *)

\* The store in progress always leads to the balancer the fields describe.
LEMMA WordsNext == TypeOK /\ WordsLag /\ [Next]_vars => WordsLag'
  <1> SUFFICES ASSUME TypeOK, WordsLag, [Next]_vars PROVE WordsLag'
    OBVIOUS
  <1> USE SwitchAssumption
      DEF TypeOK, WordsLag, Settled, fields, objects, words, counters, requests, Balancers
  <1>1. CASE UNCHANGED vars
    BY <1>1 DEF vars
  <1>2. ASSUME NEW name \in Names, ConfigureBalancer(name) PROVE WordsLag'
    BY <1>2 DEF ConfigureBalancer, newBalancer
  <1>3. ASSUME NEW enabled \in BOOLEAN, SetHealthCheckEnabled(enabled) PROVE WordsLag'
    BY <1>3 DEF SetHealthCheckEnabled, newBalancer
  <1>4. CASE FinishStore
    BY <1>4 DEF FinishStore
  <1>5. ASSUME NEW r \in Requests,
               Preview(r) \/ PickNone(r) \/ QueueRefuses(r) \/ CallTorn(r)
               \/ CallPick(r) \/ CallAcquire(r)
               \/ Acquire(r) \/ Release(r) \/ \E t \in Targets : Pick(r, t)
        PROVE  WordsLag'
    BY <1>5 DEF Preview, PickNone, QueueRefuses, CallTorn, CallPick, CallAcquire,
                Acquire, Release, Pick
  <1> QED
    BY <1>1, <1>2, <1>3, <1>4, <1>5 DEF Next, AllFinished

\* A call meets the wrong type only while two types are about.
LEMMA OneTypeNext ==
  TypeOK /\ WordsLag /\ OneTypeUntilChanged /\ [Next]_vars => OneTypeUntilChanged'
  <1> SUFFICES ASSUME TypeOK, WordsLag, OneTypeUntilChanged, [Next]_vars, ~changed'
               PROVE  /\ \A b \in 1..built' : strategy'[b] = TypeFor(lbStrategy')
                      /\ \A r \in Requests : pc'[r] # "undefined"
    BY DEF OneTypeUntilChanged
  <1> USE SwitchAssumption
      DEF TypeOK, OneTypeUntilChanged, fields, objects, words, counters, requests, Balancers
  <1>1. CASE UNCHANGED vars
    BY <1>1 DEF vars
  <1>2. ASSUME NEW name \in Names, ConfigureBalancer(name)
        PROVE  /\ \A b \in 1..built' : strategy'[b] = TypeFor(lbStrategy')
               /\ \A r \in Requests : pc'[r] # "undefined"
    <2>1. ~changed /\ TypeFor(name) = TypeFor(lbStrategy)
      BY <1>2, Zenon DEF ConfigureBalancer
    <2>2. TypeFor(lbStrategy') = TypeFor(lbStrategy)
      BY <1>2, <2>1 DEF ConfigureBalancer
    <2>3. \A b \in 1..built' : strategy'[b] = TypeFor(lbStrategy)
      BY <1>2, <2>1 DEF ConfigureBalancer, newBalancer
    <2> QED
      BY <1>2, <2>1, <2>2, <2>3 DEF ConfigureBalancer
  <1>3. ASSUME NEW enabled \in BOOLEAN, SetHealthCheckEnabled(enabled)
        PROVE  /\ \A b \in 1..built' : strategy'[b] = TypeFor(lbStrategy')
               /\ \A r \in Requests : pc'[r] # "undefined"
    BY <1>3 DEF SetHealthCheckEnabled, newBalancer
  <1>4. CASE FinishStore
    BY <1>4 DEF FinishStore
  <1>5. ASSUME NEW r \in Requests,
               Preview(r) \/ PickNone(r) \/ QueueRefuses(r)
               \/ CallPick(r) \/ CallAcquire(r)
               \/ Acquire(r) \/ Release(r) \/ \E t \in Targets : Pick(r, t)
        PROVE  /\ \A b \in 1..built' : strategy'[b] = TypeFor(lbStrategy')
               /\ \A q \in Requests : pc'[q] # "undefined"
    BY <1>5 DEF Preview, PickNone, QueueRefuses, CallPick, CallAcquire,
                Acquire, Release, Pick, Goto
  <1>6. ASSUME NEW r \in Requests, CallTorn(r)
        PROVE  FALSE
    BY <1>6 DEF CallTorn, Torn
  <1> QED
    BY <1>1, <1>2, <1>3, <1>4, <1>5, <1>6 DEF Next, AllFinished

\* A request's memory follows its steps.
LEMMA RemembersNext == TypeOK /\ Remembers /\ [Next]_vars => Remembers'
  <1> SUFFICES ASSUME TypeOK, Remembers, [Next]_vars PROVE Remembers'
    OBVIOUS
  <1> USE DEF TypeOK, Remembers, Goto, fields, objects, words, counters, requests
  <1>1. CASE UNCHANGED vars
    BY <1>1 DEF vars
  <1>2. CASE UNCHANGED requests
    BY <1>2
  <1>3. ASSUME NEW r \in Requests,
               Preview(r) \/ PickNone(r) \/ QueueRefuses(r) \/ CallTorn(r)
        PROVE  Remembers'
    BY <1>3 DEF Preview, PickNone, QueueRefuses, CallTorn
  <1>a. ASSUME NEW r \in Requests, CallPick(r) PROVE Remembers'
    <2>1. dataWord # 0
      OBVIOUS
    <2> QED
      BY <1>a, <2>1 DEF CallPick
  <1>b. ASSUME NEW r \in Requests, CallAcquire(r) PROVE Remembers'
    <2>1. dataWord # 0
      OBVIOUS
    <2> QED
      BY <1>b, <2>1 DEF CallAcquire
  <1>4. ASSUME NEW r \in Requests, NEW t \in Targets, Pick(r, t) PROVE Remembers'
    BY <1>4 DEF Pick
  <1>5. ASSUME NEW r \in Requests, Acquire(r) PROVE Remembers'
    BY <1>5 DEF Acquire
  <1>6. ASSUME NEW r \in Requests, Release(r) PROVE Remembers'
    BY <1>6 DEF Release
  <1> QED
    BY <1>1, <1>2, <1>3, <1>a, <1>b, <1>4, <1>5, <1>6
       DEF Next, ConfigureBalancer, SetHealthCheckEnabled, FinishStore, AllFinished

-----------------------------------------------------------------------------
(* The books.                                                              *)

\* Nobody counts on a balancer before it is built.
LEMMA UnbuiltNext ==
  TypeOK /\ Remembers /\ UnbuiltIsEmpty /\ [Next]_vars => UnbuiltIsEmpty'
  <1> SUFFICES ASSUME TypeOK, Remembers, UnbuiltIsEmpty, [Next]_vars,
                      NEW b \in Balancers, NEW t \in Targets, b > built'
               PROVE  active'[b][t] = 0 /\ pending'[b][t] = 0
    BY DEF UnbuiltIsEmpty
  <1> USE SwitchAssumption
      DEF TypeOK, Remembers, UnbuiltIsEmpty, Goto, fields, objects, words, counters,
          requests, Balancers
  <1>1. CASE UNCHANGED counters /\ (UNCHANGED built \/ built' = built + 1)
    BY <1>1
  <1>2. ASSUME NEW r \in Requests, NEW s \in Targets, Pick(r, s)
        PROVE  active'[b][t] = 0 /\ pending'[b][t] = 0
    <2>1. built' = built /\ active' = active /\ b # pickedOn[r]
      BY <1>2 DEF Pick
    <2>2. pending'[b][t] = pending[b][t]
      BY <1>2, <2>1 DEF Pick, Add
    <2> QED
      BY <2>1, <2>2
  <1>3. ASSUME NEW r \in Requests, Acquire(r)
        PROVE  active'[b][t] = 0 /\ pending'[b][t] = 0
    <2>1. built' = built /\ b # heldOn[r]
      BY <1>3 DEF Acquire
    <2>2. active'[b][t] = active[b][t] /\ pending'[b][t] = pending[b][t]
      BY <1>3, <2>1 DEF Acquire, Add
    <2> QED
      BY <2>1, <2>2
  <1>4. ASSUME NEW r \in Requests, Release(r)
        PROVE  active'[b][t] = 0 /\ pending'[b][t] = 0
    BY <1>4, SMTT(30) DEF Release, Add
  <1> QED
    BY <1>1, <1>2, <1>3, <1>4
       DEF Next, vars, ConfigureBalancer, SetHealthCheckEnabled, newBalancer,
           FinishStore, Preview, CallPick, PickNone, QueueRefuses, CallAcquire, CallTorn,
           AllFinished

\* What the books of one target in one balancer say.
Books(b, t) ==
  strategy[b] = "least_connections" =>
    /\ active[b][t] = Cardinality(OpenAt(b, t))
    /\ pending[b][t] = Cardinality(PickedAt(b, t)) - Cardinality(AcquiredAt(b, t))

\* A step that moves no request between the sets and no counter keeps them.
LEMMA BooksKept ==
  ASSUME NEW b, NEW t, Books(b, t),
         strategy'[b] = strategy[b],
         active'[b][t] = active[b][t], pending'[b][t] = pending[b][t],
         PickedAt(b, t)' = PickedAt(b, t), AcquiredAt(b, t)' = AcquiredAt(b, t),
         OpenAt(b, t)' = OpenAt(b, t)
  PROVE  Books(b, t)'
  BY DEF Books

\* A new balancer takes over with empty books, although requests are between
\* Pick and Acquire: none of them picked on it.
LEMMA BooksOfNewBalancer ==
  ASSUME TypeOK, UnbuiltIsEmpty, NEW b \in Balancers, NEW t \in Targets, Books(b, t),
         NEW name, NEW enabled, newBalancer(name, enabled), UNCHANGED <<counters, requests>>
  PROVE  Books(b, t)'
  <1> USE DEF TypeOK, newBalancer, counters, requests, Balancers
  <1>1. /\ PickedAt(b, t)' = PickedAt(b, t) /\ AcquiredAt(b, t)' = AcquiredAt(b, t)
        /\ OpenAt(b, t)' = OpenAt(b, t)
    BY DEF PickedAt, AcquiredAt, OpenAt
  <1>2. CASE b = built + 1
    <2>1. PickedAt(b, t) = {} /\ AcquiredAt(b, t) = {} /\ OpenAt(b, t) = {}
      BY <1>2 DEF PickedAt, AcquiredAt, OpenAt
    <2>2. active'[b][t] = 0 /\ pending'[b][t] = 0
      BY <1>2 DEF UnbuiltIsEmpty
    <2> QED
      BY <1>1, <2>1, <2>2, FS_EmptySet DEF Books
  <1>3. CASE b # built + 1
    <2>1. strategy'[b] = strategy[b]
      BY <1>3
    <2> QED
      BY <1>1, <2>1, BooksKept
  <1> QED
    BY <1>2, <1>3

\* Every step of a request is booked once, on the balancer that got the call.
LEMMA BooksNext ==
  ASSUME TypeOK, Remembers, UnbuiltIsEmpty, [Next]_vars,
         NEW b \in Balancers, NEW t \in Targets, Books(b, t)
  PROVE  Books(b, t)'
  <1> USE SwitchAssumption
      DEF TypeOK, Goto, fields, objects, words, counters, requests, Balancers
  <1>0. /\ IsFiniteSet(PickedAt(b, t)) /\ Cardinality(PickedAt(b, t)) \in Nat
        /\ IsFiniteSet(AcquiredAt(b, t)) /\ Cardinality(AcquiredAt(b, t)) \in Nat
        /\ IsFiniteSet(OpenAt(b, t)) /\ Cardinality(OpenAt(b, t)) \in Nat
    BY BooksAreFinite
  <1>1. CASE UNCHANGED vars
    <2>1. /\ PickedAt(b, t)' = PickedAt(b, t) /\ AcquiredAt(b, t)' = AcquiredAt(b, t)
          /\ OpenAt(b, t)' = OpenAt(b, t)
      BY <1>1 DEF vars, PickedAt, AcquiredAt, OpenAt
    <2> QED
      BY <1>1, <2>1, BooksKept DEF vars
  <1>2. ASSUME NEW name \in Names, ConfigureBalancer(name) PROVE Books(b, t)'
    <2>1. newBalancer(name, healthChecksEnabled) /\ UNCHANGED <<counters, requests>>
      BY <1>2 DEF ConfigureBalancer
    <2> QED
      BY <2>1, BooksOfNewBalancer
  <1>3. ASSUME NEW enabled \in BOOLEAN, SetHealthCheckEnabled(enabled) PROVE Books(b, t)'
    <2>1. newBalancer(lbStrategy, enabled) /\ UNCHANGED <<counters, requests>>
      BY <1>3 DEF SetHealthCheckEnabled
    <2> QED
      BY <2>1, BooksOfNewBalancer
  <1>4. CASE FinishStore
    <2>1. /\ PickedAt(b, t)' = PickedAt(b, t) /\ AcquiredAt(b, t)' = AcquiredAt(b, t)
          /\ OpenAt(b, t)' = OpenAt(b, t)
      BY <1>4 DEF FinishStore, PickedAt, AcquiredAt, OpenAt
    <2> QED
      BY <1>4, <2>1, BooksKept DEF FinishStore
  <1>5. ASSUME NEW r \in Requests,
               Preview(r) \/ PickNone(r) \/ QueueRefuses(r) \/ CallTorn(r)
        PROVE  Books(b, t)'
    <2>1. /\ PickedAt(b, t)' = PickedAt(b, t) /\ AcquiredAt(b, t)' = AcquiredAt(b, t)
          /\ OpenAt(b, t)' = OpenAt(b, t)
      BY <1>5, ZenonT(60) DEF Preview, PickNone, QueueRefuses, CallTorn, PickedAt, AcquiredAt, OpenAt
    <2> QED
      BY <1>5, <2>1, BooksKept DEF Preview, PickNone, QueueRefuses, CallTorn
  <1>a. ASSUME NEW r \in Requests, CallPick(r) PROVE Books(b, t)'
    <2>0. /\ target[r] # t /\ target' = target /\ heldOn' = heldOn
          /\ pc[r] = "previewed" /\ pc'[r] = "picking"
          /\ \A q \in Requests \ {r} : pc'[q] = pc[q] /\ pickedOn'[q] = pickedOn[q]
      BY <1>a DEF CallPick, Remembers
    <2>1. /\ PickedAt(b, t)' = PickedAt(b, t) /\ AcquiredAt(b, t)' = AcquiredAt(b, t)
          /\ OpenAt(b, t)' = OpenAt(b, t)
      BY <2>0, ZenonT(60) DEF PickedAt, AcquiredAt, OpenAt
    <2> QED
      BY <1>a, <2>1, BooksKept DEF CallPick
  <1>b. ASSUME NEW r \in Requests, CallAcquire(r) PROVE Books(b, t)'
    <2>0. /\ target' = target /\ pickedOn' = pickedOn
          /\ pc[r] = "picked" /\ pc'[r] = "acquiring"
          /\ \A q \in Requests \ {r} : pc'[q] = pc[q] /\ heldOn'[q] = heldOn[q]
      BY <1>b DEF CallAcquire
    <2>1. /\ PickedAt(b, t)' = PickedAt(b, t) /\ AcquiredAt(b, t)' = AcquiredAt(b, t)
          /\ OpenAt(b, t)' = OpenAt(b, t)
      BY <2>0, ZenonT(60) DEF PickedAt, AcquiredAt, OpenAt
    <2> QED
      BY <1>b, <2>1, BooksKept DEF CallAcquire
  <1>6. ASSUME NEW r \in Requests, NEW s \in Targets, Pick(r, s) PROVE Books(b, t)'
    <2>0. target[r] # t /\ pc[r] = "picking" /\ pc'[r] = "picked"
      BY <1>6 DEF Pick, Remembers
    <2>a. /\ \A q \in Requests \ {r} : pc'[q] = pc[q] /\ target'[q] = target[q]
          /\ heldOn' = heldOn /\ pickedOn' = pickedOn
      BY <1>6 DEF Pick
    <2>1. /\ AcquiredAt(b, t)' = AcquiredAt(b, t) /\ OpenAt(b, t)' = OpenAt(b, t)
          /\ r \notin PickedAt(b, t)
      BY <2>0, <2>a, ZenonT(60) DEF PickedAt, AcquiredAt, OpenAt
    <2>2. CASE b = pickedOn[r] /\ t = s
      <3>1. PickedAt(b, t)' = PickedAt(b, t) \cup {r}
        BY <1>6, <2>2 DEF Pick, PickedAt
      <3>2. Cardinality(PickedAt(b, t)') = Cardinality(PickedAt(b, t)) + 1
        BY <1>0, <2>1, <3>1, FS_AddElement
      <3>5. /\ Cardinality(AcquiredAt(b, t)') = Cardinality(AcquiredAt(b, t))
            /\ Cardinality(OpenAt(b, t)') = Cardinality(OpenAt(b, t))
        BY <2>1
      <3>3. strategy[b] = "least_connections" =>
              pending'[b][t] = pending[b][t] + 1 /\ active'[b][t] = active[b][t]
        BY <1>6, <2>2 DEF Pick, Add
      <3>4. strategy' = strategy
        BY <1>6 DEF Pick
      <3> QED
        <4> SUFFICES ASSUME strategy[b] = "least_connections"
                     PROVE  /\ active'[b][t] = Cardinality(OpenAt(b, t)')
                            /\ pending'[b][t] = Cardinality(PickedAt(b, t)')
                                                 - Cardinality(AcquiredAt(b, t)')
          BY <3>4 DEF Books
        <4>1. /\ active[b][t] = Cardinality(OpenAt(b, t))
              /\ pending[b][t] = Cardinality(PickedAt(b, t)) - Cardinality(AcquiredAt(b, t))
          BY DEF Books
        <4> QED
          BY <1>0, <3>2, <3>3, <3>5, <4>1
    <2>3. CASE ~(b = pickedOn[r] /\ t = s)
      <3>1. PickedAt(b, t)' = PickedAt(b, t)
        <4>1. \A q \in Requests \ {r} : pickedOn'[q] = pickedOn[q] /\ target'[q] = target[q]
          BY <1>6 DEF Pick
        <4>2. pickedOn'[r] = pickedOn[r] /\ target'[r] = s
          BY <1>6 DEF Pick
        <4> QED
          BY <2>0, <2>3, <4>1, <4>2 DEF PickedAt
      <3>2. /\ strategy' = strategy /\ active' = active
            /\ pending'[b][t] = pending[b][t]
        BY <1>6, <2>3 DEF Pick, Add
      <3> QED
        BY <2>1, <3>1, <3>2, BooksKept
    <2> QED
      BY <2>2, <2>3
  <1>7. ASSUME NEW r \in Requests, Acquire(r) PROVE Books(b, t)'
    <2>1. /\ PickedAt(b, t)' = PickedAt(b, t)
          /\ r \notin AcquiredAt(b, t) /\ r \notin OpenAt(b, t)
      BY <1>7 DEF Acquire, Remembers, PickedAt, AcquiredAt, OpenAt
    <2>2. CASE b = heldOn[r] /\ t = target[r]
      <3>1. /\ AcquiredAt(b, t)' = AcquiredAt(b, t) \cup {r}
            /\ OpenAt(b, t)' = OpenAt(b, t) \cup {r}
        BY <1>7, <2>2 DEF Acquire, Remembers, AcquiredAt, OpenAt
      <3>2. /\ Cardinality(AcquiredAt(b, t)') = Cardinality(AcquiredAt(b, t)) + 1
            /\ Cardinality(OpenAt(b, t)') = Cardinality(OpenAt(b, t)) + 1
        BY <1>0, <2>1, <3>1, FS_AddElement, ZenonT(60)
      <3>3. strategy[b] = "least_connections" =>
              pending'[b][t] = pending[b][t] - 1 /\ active'[b][t] = active[b][t] + 1
        BY <1>7, <2>2 DEF Acquire, Add
      <3>4. strategy' = strategy
        BY <1>7 DEF Acquire
      <3> QED
        BY <1>0, <2>1, <3>2, <3>3, <3>4 DEF Books
    <2>3. CASE ~(b = heldOn[r] /\ t = target[r])
      <3>1. /\ AcquiredAt(b, t)' = AcquiredAt(b, t) /\ OpenAt(b, t)' = OpenAt(b, t)
        <4>1. /\ \A q \in Requests \ {r} : pc'[q] = pc[q]
              /\ target' = target /\ heldOn' = heldOn
          BY <1>7 DEF Acquire
        <4> QED
          BY <2>1, <2>3, <4>1, SMTT(30) DEF AcquiredAt, OpenAt
      <3>2. /\ strategy' = strategy /\ active'[b][t] = active[b][t]
            /\ pending'[b][t] = pending[b][t]
        BY <1>7, <2>3, SMTT(30) DEF Acquire, Add
      <3> QED
        BY <2>1, <3>1, <3>2, BooksKept
    <2> QED
      BY <2>2, <2>3
  <1>8. ASSUME NEW r \in Requests, Release(r) PROVE Books(b, t)'
    <2>1. PickedAt(b, t)' = PickedAt(b, t) /\ AcquiredAt(b, t)' = AcquiredAt(b, t)
      BY <1>8 DEF Release, PickedAt, AcquiredAt
    <2>2. CASE b = heldOn[r] /\ t = target[r]
      <3>1. r \in OpenAt(b, t) /\ OpenAt(b, t)' = OpenAt(b, t) \ {r}
        BY <1>8, <2>2 DEF Release, AcquiredAt, OpenAt
      <3>2. Cardinality(OpenAt(b, t)') = Cardinality(OpenAt(b, t)) - 1
        BY <1>0, <3>1, FS_RemoveElement
      <3>3. strategy[b] = "least_connections" =>
              pending'[b][t] = pending[b][t] /\ active'[b][t] = active[b][t] - 1
        BY <1>8, <2>2 DEF Release, Add
      <3>4. strategy' = strategy
        BY <1>8 DEF Release
      <3> QED
        BY <1>0, <2>1, <3>2, <3>3, <3>4 DEF Books
    <2>3. CASE ~(b = heldOn[r] /\ t = target[r])
      <3>1. OpenAt(b, t)' = OpenAt(b, t)
        BY <1>8, <2>3 DEF Release, AcquiredAt, OpenAt
      <3>2. /\ strategy' = strategy /\ pending' = pending
            /\ active'[b][t] = active[b][t]
        BY <1>8, <2>3 DEF Release, Add
      <3> QED
        BY <2>1, <3>1, <3>2, BooksKept
    <2> QED
      BY <2>2, <2>3
  <1> QED
    BY <1>1, <1>2, <1>3, <1>4, <1>5, <1>a, <1>b, <1>6, <1>7, <1>8 DEF Next, AllFinished

-----------------------------------------------------------------------------
(* The theorems.                                                           *)

\* The first balancer, of NewReverseProxy, has empty books.
LEMMA InitIInv == Init => IInv
  <1> SUFFICES ASSUME Init PROVE IInv
    OBVIOUS
  <1>0. TypeFor(lbStrategy) = "round_robin" /\ strategy[1] = "round_robin" /\ checks[1]
    BY SwitchAssumption DEF Init, TypeFor, LeastConnectionsNames, Balancers
  <1>a. healthChecksEnabled /\ ~changed /\ built = 1
    BY DEF Init
  <1>b. checks[built] = healthChecksEnabled
    BY <1>0, <1>a, Zenon
  <1>1. WordsLag /\ OneTypeUntilChanged
    <2>1. (Settled => dataWord = built) /\ Settled
      BY DEF Init, Settled
    <2>2. WordsLag
      BY <1>0, <1>a, <1>b, <2>1 DEF WordsLag
    <2>3. OneTypeUntilChanged
      BY <1>0, <1>a DEF Init, OneTypeUntilChanged
    <2> QED
      BY <2>2, <2>3
  <1>2. Remembers /\ UnbuiltIsEmpty
    BY DEF Init, Remembers, UnbuiltIsEmpty
  <1>3. BooksPerBalancer
    BY DEF Init, BooksPerBalancer
  <1> QED
    BY <1>1, <1>2, <1>3, TypeInit DEF IInv

\* The parts of the invariant support one another.
LEMMA NextIInv == IInv /\ [Next]_vars => IInv'
  <1> SUFFICES ASSUME IInv, [Next]_vars PROVE IInv'
    OBVIOUS
  <1>1. TypeOK' /\ WordsLag' /\ OneTypeUntilChanged' /\ Remembers' /\ UnbuiltIsEmpty'
    BY TypeNext, WordsNext, OneTypeNext, RemembersNext, UnbuiltNext DEF IInv
  <1>2. BooksPerBalancer'
    <2> SUFFICES ASSUME NEW b \in Balancers, NEW t \in Targets PROVE Books(b, t)'
      BY DEF BooksPerBalancer, Books
    <2>1. Books(b, t)
      BY DEF IInv, BooksPerBalancer, Books
    <2> QED
      BY <2>1, BooksNext DEF IInv
  <1> QED
    BY <1>1, <1>2 DEF IInv

\* IInv is an invariant: the rest are its consequences.
THEOREM Invariance == Spec => []IInv
  BY InitIInv, NextIInv, PTL DEF Spec

\* However often the balancer is replaced under running requests, each one's
\* counters are exact for the calls it got.
THEOREM BooksAreExact == Spec => []BooksPerBalancer
  <1>1. IInv => BooksPerBalancer
    BY DEF IInv
  <1> QED
    BY <1>1, Invariance, PTL

\* Only a call of ConfigureBalancer with another type can tear the field.
THEOREM TornByStrategyChangeOnly == Spec => []TornOnlyByStrategyChange
  <1>1. IInv => TornOnlyByStrategyChange
    BY SwitchAssumption
       DEF IInv, TypeOK, WordsLag, OneTypeUntilChanged, TornOnlyByStrategyChange, Torn,
           Balancers
  <1> QED
    BY <1>1, Invariance, PTL

\* A finished switch leaves the balancer the last calls asked for.
THEOREM SwitchesSettle == Spec => []SettledAsConfigured
  <1>1. IInv => SettledAsConfigured
    BY DEF IInv, WordsLag, SettledAsConfigured
  <1> QED
    BY <1>1, Invariance, PTL

\* A replaced balancer finishes the calls that are in it, and otherwise drains.
THEOREM ReplacedDrain == Spec => ReplacedOnlyDrains
  <1> DEFINE Drains ==
        \A b \in Balancers : b < dataWord =>
          /\ Callers(b)' \subseteq Callers(b)
          /\ Callers(b)' = Callers(b) =>
               \A t \in Targets : /\ active'[b][t] <= active[b][t]
                                   /\ pending'[b][t] = pending[b][t]
  <1>1. IInv /\ [Next]_vars => [Drains]_vars
    <2> SUFFICES ASSUME IInv, [Next]_vars, NEW b \in Balancers, b < dataWord
                 PROVE  /\ Callers(b)' \subseteq Callers(b)
                        /\ Callers(b)' = Callers(b) =>
                             \A t \in Targets : /\ active'[b][t] <= active[b][t]
                                                 /\ pending'[b][t] = pending[b][t]
      BY Zenon
    <2> USE SwitchAssumption
        DEF IInv, TypeOK, Goto, fields, objects, words, counters, requests, Balancers
    <2>1. CASE UNCHANGED <<counters, requests>>
      BY <2>1 DEF Callers
    <2>2. ASSUME NEW r \in Requests,
                 Preview(r) \/ PickNone(r) \/ QueueRefuses(r) \/ CallTorn(r)
          PROVE  UNCHANGED counters /\ Callers(b)' \subseteq Callers(b)
      <3>1. UNCHANGED <<counters, pickedOn, heldOn>>
        BY <2>2 DEF Preview, PickNone, QueueRefuses, CallTorn
      <3>2. /\ \A q \in Requests \ {r} : pc'[q] = pc[q]
            /\ pc'[r] \notin {"picking", "acquiring"}
        BY <2>2 DEF Preview, PickNone, QueueRefuses, CallTorn
      <3> QED
        BY <3>1, <3>2 DEF Callers
    <2>3. ASSUME NEW r \in Requests, CallPick(r)
          PROVE  UNCHANGED counters /\ Callers(b)' \subseteq Callers(b)
      <3>1. /\ UNCHANGED counters /\ heldOn' = heldOn
            /\ \A q \in Requests \ {r} : pc'[q] = pc[q] /\ pickedOn'[q] = pickedOn[q]
            /\ pc'[r] = "picking" /\ pickedOn'[r] # b
        BY <2>3 DEF CallPick
      <3> QED
        BY <3>1 DEF Callers
    <2>4. ASSUME NEW r \in Requests, CallAcquire(r)
          PROVE  UNCHANGED counters /\ Callers(b)' \subseteq Callers(b)
      <3>1. /\ UNCHANGED counters /\ pickedOn' = pickedOn
            /\ \A q \in Requests \ {r} : pc'[q] = pc[q] /\ heldOn'[q] = heldOn[q]
            /\ pc'[r] = "acquiring" /\ heldOn'[r] # b
        BY <2>4 DEF CallAcquire
      <3> QED
        BY <3>1 DEF Callers
    <2>5. ASSUME NEW r \in Requests, NEW s \in Targets, Pick(r, s)
          PROVE  /\ Callers(b)' \subseteq Callers(b)
                 /\ Callers(b)' = Callers(b) =>
                      \A t \in Targets : /\ active'[b][t] <= active[b][t]
                                          /\ pending'[b][t] = pending[b][t]
      <3>1. /\ UNCHANGED <<active, pickedOn, heldOn>>
            /\ \A q \in Requests \ {r} : pc'[q] = pc[q]
            /\ pc[r] = "picking" /\ pc'[r] = "picked"
        BY <2>5 DEF Pick
      <3>2. Callers(b)' \subseteq Callers(b) /\ r \notin Callers(b)'
        BY <3>1 DEF Callers
      <3>3. pickedOn[r] = b => r \in Callers(b)
        BY <3>1 DEF Callers
      <3>4. pickedOn[r] # b => \A t \in Targets : pending'[b][t] = pending[b][t]
        BY <2>5 DEF Pick, Add
      <3> QED
        BY <3>1, <3>2, <3>3, <3>4
    <2>6. ASSUME NEW r \in Requests, Acquire(r)
          PROVE  /\ Callers(b)' \subseteq Callers(b)
                 /\ Callers(b)' = Callers(b) =>
                      \A t \in Targets : /\ active'[b][t] <= active[b][t]
                                          /\ pending'[b][t] = pending[b][t]
      <3>1. /\ UNCHANGED <<pickedOn, heldOn>>
            /\ \A q \in Requests \ {r} : pc'[q] = pc[q]
            /\ pc[r] = "acquiring" /\ pc'[r] = "inflight"
        BY <2>6 DEF Acquire
      <3>2. Callers(b)' \subseteq Callers(b) /\ r \notin Callers(b)'
        BY <3>1 DEF Callers
      <3>3. heldOn[r] = b => r \in Callers(b)
        BY <3>1 DEF Callers
      <3>4. heldOn[r] # b => \A t \in Targets : /\ active'[b][t] = active[b][t]
                                                /\ pending'[b][t] = pending[b][t]
        BY <2>6 DEF Acquire, Add
      <3> QED
        BY <3>2, <3>3, <3>4
    <2>7. ASSUME NEW r \in Requests, Release(r)
          PROVE  /\ Callers(b)' \subseteq Callers(b)
                 /\ \A t \in Targets : /\ active'[b][t] <= active[b][t]
                                        /\ pending'[b][t] = pending[b][t]
      <3>1. UNCHANGED <<pending, pickedOn, heldOn>>
        BY <2>7 DEF Release
      <3>2. /\ \A q \in Requests \ {r} : pc'[q] = pc[q]
            /\ pc'[r] = "closed"
        BY <2>7 DEF Release
      <3>3. Callers(b)' \subseteq Callers(b)
        BY <3>1, <3>2 DEF Callers
      <3>4. ASSUME NEW t \in Targets PROVE active'[b][t] <= active[b][t]
        <4>1. active'[b][t] = active[b][t] \/ active'[b][t] = active[b][t] - 1
          BY <2>7 DEF Release, Add
        <4>2. active[b][t] \in Int
          OBVIOUS
        <4> QED
          BY <4>1, <4>2
      <3> QED
        BY <3>1, <3>3, <3>4
    <2>8. ASSUME UNCHANGED counters, Callers(b)' \subseteq Callers(b)
          PROVE  /\ Callers(b)' \subseteq Callers(b)
                 /\ Callers(b)' = Callers(b) =>
                      \A t \in Targets : /\ active'[b][t] <= active[b][t]
                                          /\ pending'[b][t] = pending[b][t]
      BY <2>8
    <2> QED
      <3>1. CASE \E r \in Requests : \/ Preview(r) \/ PickNone(r) \/ QueueRefuses(r)
                                      \/ CallTorn(r) \/ CallPick(r) \/ CallAcquire(r)
        BY <3>1, <2>2, <2>3, <2>4, <2>8
      <3>2. CASE \E r \in Requests : Release(r)
        BY <3>2, <2>7
      <3> QED
        BY <3>1, <3>2, <2>1, <2>5, <2>6
           DEF Next, vars, ConfigureBalancer, SetHealthCheckEnabled, FinishStore, AllFinished
  <1> QED
    BY <1>1, Invariance, PTL DEF Spec, ReplacedOnlyDrains
=============================================================================
