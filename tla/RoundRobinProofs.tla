-------------------------- MODULE RoundRobinProofs --------------------------
(***************************************************************************)
(* What holds of the round-robin balancer for every number of targets and  *)
(* requests and every width of the counter: the loop of a Pick skips a     *)
(* target only if it failed meanwhile, and turns are shared out evenly,    *)
(* the wrap of the counter included.                                       *)
(***************************************************************************)
EXTENDS RoundRobin, FiniteSetTheorems, TLAPS

-----------------------------------------------------------------------------
(* Arithmetic of turns.                                                    *)

\* Quotient and remainder determine a number.
LEMMA DivMod ==
  ASSUME NEW x \in Nat, NEW n \in Nat \ {0}
  PROVE  /\ x = n * (x \div n) + (x % n)
         /\ x % n \in 0..(n - 1)
         /\ x \div n \in Nat
OBVIOUS

\* They are the only ones that do.
LEMMA Remainder ==
  ASSUME NEW n \in Nat \ {0}, NEW q \in Nat, NEW t \in 0..(n - 1)
  PROVE  (n * q + t) % n = t /\ (n * q + t) \div n = q
<1>1. (n * q + t) % n = t
  OBVIOUS
<1>2. (n * q + t) \div n = q
  OBVIOUS
<1>3. QED
  BY <1>1, <1>2

\* A number below the modulus is its own remainder.
LEMMA NoWrap ==
  ASSUME NEW x \in Nat, NEW n \in Nat \ {0}, x < n
  PROVE  x % n = x
OBVIOUS

\* The successor has the next remainder, or begins the next round.
LEMMA NextRemainder ==
  ASSUME NEW x \in Nat, NEW n \in Nat \ {0}
  PROVE  \/ /\ (x % n) + 1 < n
            /\ (x + 1) % n = (x % n) + 1
            /\ (x + 1) \div n = x \div n
         \/ /\ (x % n) + 1 = n
            /\ (x + 1) % n = 0
            /\ (x + 1) \div n = x \div n + 1
<1> DEFINE q == x \div n
           m == x % n
<1>1. q \in Nat /\ m \in 0..(n - 1) /\ x = n * q + m
  BY DivMod
<1> HIDE DEF q, m
<1>2. CASE m + 1 < n
  <2>1. m + 1 \in 0..(n - 1)
    BY <1>1, <1>2
  <2>2. (n * q + (m + 1)) % n = m + 1 /\ (n * q + (m + 1)) \div n = q
    BY <1>1, <2>1, Remainder
  <2>3. n * q + (m + 1) = x + 1
    BY <1>1
  <2>4. QED
    BY <1>2, <2>2, <2>3 DEF q, m
<1>3. CASE m + 1 = n
  <2>1. (n * (q + 1) + 0) % n = 0 /\ (n * (q + 1) + 0) \div n = q + 1
    BY <1>1, Remainder
  <2>2. n * (q + 1) + 0 = x + 1
    BY <1>1, <1>3
  <2>3. QED
    BY <1>3, <2>1, <2>2 DEF q, m
<1>4. QED
  BY <1>1, <1>2, <1>3

\* A turn is always some target's.
LEMMA TurnIsTarget ==
  ASSUME NEW s \in Nat, NEW k \in Nat
  PROVE  Turn(s, k) \in Targets
<1>1. (s + k) % Modulus \in Nat
  BY RRAssumption, DivMod
<1>2. QED
  BY <1>1, RRAssumption, DivMod DEF Turn, Targets

\* If the number of targets divides the modulus, as a power of two divides 2^64,
\* the overflow of the sum changes nobody's turn.
LEMMA OverflowKeepsTurn ==
  ASSUME Modulus % N = 0, NEW x \in Nat
  PROVE  (x % Modulus) % N = x % N
<1> DEFINE w == Modulus \div N
           d == x \div Modulus
           y == x % Modulus
<1>1. w \in Nat /\ Modulus = N * w
  BY DivMod, RRAssumption
<1>2. d \in Nat /\ y \in Nat /\ x = Modulus * d + y
  BY DivMod, RRAssumption
<1> HIDE DEF w, d, y
<1> DEFINE q == y \div N
           m == y % N
<1>3. q \in Nat /\ m \in 0..(N - 1) /\ y = N * q + m
  BY <1>2, DivMod, RRAssumption
<1> HIDE DEF q, m
<1>4. x = N * (w * d + q) + m /\ w * d + q \in Nat
  <2>1. Modulus * d = N * (w * d) /\ w * d \in Nat
    BY <1>1, <1>2, RRAssumption
  <2>2. N * (w * d + q) = N * (w * d) + N * q
    BY <1>3, <2>1, RRAssumption
  <2>3. QED
    BY <1>2, <1>3, <2>1, <2>2, RRAssumption
<1>5. (N * (w * d + q) + m) % N = m
  <2> DEFINE z == w * d + q
  <2> HIDE DEF z
  <2>1. z \in Nat
    BY <1>4 DEF z
  <2>2. (N * z + m) % N = m
    BY <1>3, <2>1, Remainder, RRAssumption
  <2>3. QED
    BY <2>2 DEF z
<1>6. QED
  BY <1>4, <1>5 DEF m, y

\* The loop that starts at s tries every target: its sums do not overflow, or
\* their overflow does no harm.
TriesAll(s) == ~LoopOverflows(s) \/ Modulus % N = 0

LEMMA LoopReachesAll ==
  ASSUME NEW s \in Nat, TriesAll(s), NEW t \in Targets
  PROVE  \E k \in 0..(N - 1) : Turn(s, k) = t
<1> DEFINE q == s \div N
           m == s % N
<1>1. q \in Nat /\ m \in 0..(N - 1) /\ s = N * q + m
  BY DivMod, RRAssumption
<1> HIDE DEF q, m
<1>2. ASSUME NEW k \in 0..(N - 1)
      PROVE  Turn(s, k) = (s + k) % N
  <2>1. CASE ~LoopOverflows(s)
    <3>1. s + k \in Nat /\ s + k < Modulus
      BY <2>1, RRAssumption DEF LoopOverflows
    <3>2. QED
      BY <3>1, NoWrap, RRAssumption DEF Turn
  <2>2. CASE Modulus % N = 0
    <3>1. s + k \in Nat
      BY RRAssumption
    <3>2. QED
      BY <2>2, <3>1, OverflowKeepsTurn DEF Turn
  <2>3. QED
    BY <2>1, <2>2 DEF TriesAll
<1>3. CASE m <= t
  <2>1. t - m \in 0..(N - 1) /\ s + (t - m) = N * q + t
    BY <1>1, <1>3, RRAssumption DEF Targets
  <2>2. (N * q + t) % N = t
    BY <1>1, Remainder, RRAssumption DEF Targets
  <2>3. QED
    BY <1>2, <2>1, <2>2
<1>4. CASE t < m
  <2>1. (t + N) - m \in 0..(N - 1) /\ s + ((t + N) - m) = N * (q + 1) + t
    BY <1>1, <1>4, RRAssumption DEF Targets
  <2>2. (N * (q + 1) + t) % N = t
    BY <1>1, Remainder, RRAssumption DEF Targets
  <2>3. QED
    BY <1>2, <2>1, <2>2
<1>5. QED
  BY <1>1, <1>3, <1>4 DEF Targets

-----------------------------------------------------------------------------
(* The loop of a Pick.                                                     *)

TypeOK ==
  /\ healthChecksEnabled \in BOOLEAN
  /\ nextIndex \in 0..(Modulus - 1)
  /\ up \subseteq Targets
  /\ pc \in [Requests -> {"idle", "probing", "done"}]
  /\ startIndex \in [Requests -> 0..(Modulus - 1)]
  /\ i \in [Requests -> Nat]
  /\ result \in [Requests -> 0..N]
  /\ steady \in [Requests -> SUBSET Targets]
  /\ claims \in [Targets -> Nat]

\* The loop variable starts at zero.
Waiting(r) == pc[r] = "idle" => i[r] = 0

\* A loop under way has targets left to try, all that have been up since the
\* claim are still up, and the ones it tried are not among them.
Probed(r) ==
  pc[r] = "probing" =>
    /\ i[r] < N
    /\ steady[r] \subseteq up
    /\ \A j \in Nat : j < i[r] => Turn(startIndex[r], j) \notin steady[r]

\* SkipsOnlyFailed for one request, of every loop that tries all targets.
Skipped(r) ==
  (pc[r] = "done" /\ healthChecksEnabled /\ TriesAll(startIndex[r])) =>
    \A t \in steady[r] :
      /\ result[r] # Nil
      /\ \E j, k \in 0..(N - 1) : /\ Turn(startIndex[r], j) = result[r]
                                  /\ Turn(startIndex[r], k) = t
                                  /\ j <= k

LoopInv == TypeOK /\ \A r \in Requests : Waiting(r) /\ Probed(r) /\ Skipped(r)

LEMMA LoopInitially == Init => LoopInv
<1> SUFFICES ASSUME Init PROVE LoopInv
  OBVIOUS
<1>1. 0 \in 0..(Modulus - 1) /\ Nil \in 0..N
  BY RRAssumption DEF Nil
<1>2. TypeOK
  BY <1>1, RRAssumption DEF Init, TypeOK
<1>3. \A r \in Requests : Waiting(r) /\ Probed(r) /\ Skipped(r)
  BY DEF Init, Waiting, Probed, Skipped
<1>4. QED
  BY <1>2, <1>3 DEF LoopInv

\* Every step keeps the types.
LEMMA TypesKept == TypeOK /\ [Next]_vars => TypeOK'
<1> SUFFICES ASSUME TypeOK, [Next]_vars PROVE TypeOK'
  OBVIOUS
<1>1. ASSUME NEW r \in Requests, Advance(r)
      PROVE  /\ nextIndex' \in 0..(Modulus - 1)
             /\ startIndex' \in [Requests -> 0..(Modulus - 1)]
             /\ claims' \in [Targets -> Nat]
             /\ Turn(nextIndex, 0) \in Targets
  <2>1. nextIndex' \in 0..(Modulus - 1)
    BY <1>1, DivMod, RRAssumption DEF Advance, TypeOK
  <2>2. Turn(nextIndex, 0) \in Targets
    BY TurnIsTarget DEF TypeOK
  <2> DEFINE t == Turn(nextIndex, 0)
  <2> HIDE DEF t
  <2>3. claims' \in [Targets -> Nat]
    BY <1>1, <2>2 DEF Advance, TypeOK, t
  <2>4. QED
    BY <1>1, <2>1, <2>2, <2>3 DEF Advance, TypeOK
<1>2. ASSUME NEW r \in Requests, PickInTurn(r)
      PROVE  TypeOK'
  <2>1. Turn(nextIndex, 0) \in 0..N
    BY <1>1, <1>2, RRAssumption DEF PickInTurn, Targets
  <2>2. QED
    BY <1>1, <1>2, <2>1 DEF PickInTurn, TypeOK
<1>3. ASSUME NEW r \in Requests, StartProbing(r)
      PROVE  TypeOK'
  BY <1>1, <1>3 DEF StartProbing, TypeOK
<1>4. ASSUME NEW r \in Requests, ProbeSucceeds(r)
      PROVE  TypeOK'
  <2>1. startIndex[r] \in Nat /\ i[r] \in Nat
    BY RRAssumption DEF TypeOK
  <2>2. Turn(startIndex[r], i[r]) \in Targets
    BY <2>1, TurnIsTarget
  <2>3. \A t \in Targets : t \in 0..N
    BY RRAssumption DEF Targets
  <2>4. QED
    BY <1>4, <2>2, <2>3 DEF ProbeSucceeds, TypeOK
<1>5. ASSUME NEW r \in Requests, ProbeFails(r)
      PROVE  TypeOK'
  BY <1>5 DEF ProbeFails, TypeOK
<1>6. ASSUME NEW t \in Targets, Crash(t)
      PROVE  TypeOK'
  BY <1>6 DEF Crash, TypeOK
<1>7. ASSUME NEW t \in Targets, Recover(t)
      PROVE  TypeOK'
  BY <1>7 DEF Recover, TypeOK
<1>8. CASE UNCHANGED vars
  BY <1>8 DEF vars, TypeOK
<1>9. QED
  BY <1>2, <1>3, <1>4, <1>5, <1>6, <1>7, <1>8 DEF Next, Pick, AllPicked

\* A step of one request leaves what is known of the others.
LEMMA OthersKept ==
  ASSUME LoopInv, NEW q \in Requests,
         healthChecksEnabled' = healthChecksEnabled, up' = up, pc'[q] = pc[q],
         startIndex'[q] = startIndex[q], i'[q] = i[q], result'[q] = result[q],
         steady'[q] = steady[q]
  PROVE  (Waiting(q) /\ Probed(q) /\ Skipped(q))'
BY DEF LoopInv, Waiting, Probed, Skipped

LEMMA LoopStep == LoopInv /\ [Next]_vars => LoopInv'
<1> SUFFICES ASSUME LoopInv, [Next]_vars PROVE LoopInv'
  OBVIOUS
<1>1. TypeOK /\ TypeOK'
  BY TypesKept DEF LoopInv
<1>2. ASSUME NEW r \in Requests, PickInTurn(r)
      PROVE  LoopInv'
  <2>1. (Waiting(r) /\ Probed(r) /\ Skipped(r))'
    BY <1>1, <1>2 DEF PickInTurn, TypeOK, Waiting, Probed, Skipped
  <2>2. ASSUME NEW q \in Requests, q # r
        PROVE  (Waiting(q) /\ Probed(q) /\ Skipped(q))'
    BY <1>1, <1>2, <2>2, OthersKept DEF PickInTurn, Advance, TypeOK
  <2>3. QED
    BY <1>1, <2>1, <2>2 DEF LoopInv
<1>3. ASSUME NEW r \in Requests, StartProbing(r)
      PROVE  LoopInv'
  <2>1. i[r] = 0
    BY <1>3 DEF StartProbing, LoopInv, Waiting
  <2>2. pc'[r] = "probing" /\ i'[r] = 0 /\ steady'[r] = up /\ up' = up
    BY <1>1, <1>3, <2>1 DEF StartProbing, TypeOK
  <2>3. (Waiting(r) /\ Probed(r) /\ Skipped(r))'
    BY <2>2, RRAssumption DEF Waiting, Probed, Skipped
  <2>4. ASSUME NEW q \in Requests, q # r
        PROVE  (Waiting(q) /\ Probed(q) /\ Skipped(q))'
    BY <1>1, <1>3, <2>4, OthersKept DEF StartProbing, Advance, TypeOK
  <2>5. QED
    BY <1>1, <2>3, <2>4 DEF LoopInv
<1>4. ASSUME NEW r \in Requests, ProbeSucceeds(r)
      PROVE  LoopInv'
  <2>1. /\ pc'[r] = "done" /\ startIndex' = startIndex /\ steady' = steady
        /\ result'[r] = Turn(startIndex[r], i[r])
    BY <1>1, <1>4 DEF ProbeSucceeds, TypeOK
  <2>2. /\ i[r] \in 0..(N - 1) /\ startIndex[r] \in Nat
        /\ \A j \in Nat : j < i[r] => Turn(startIndex[r], j) \notin steady[r]
    BY <1>1, <1>4, RRAssumption DEF ProbeSucceeds, LoopInv, Probed, TypeOK
  <2>3. result'[r] # Nil
    <3>1. result'[r] \in Targets
      BY <2>1, <2>2, TurnIsTarget
    <3>2. QED
      BY <3>1, RRAssumption DEF Nil, Targets
  <2>4. ASSUME TriesAll(startIndex[r]), NEW t \in steady[r]
        PROVE  \E j, k \in 0..(N - 1) : /\ Turn(startIndex[r], j) = result'[r]
                                        /\ Turn(startIndex[r], k) = t
                                        /\ j <= k
    <3>1. t \in Targets
      BY <1>1 DEF TypeOK
    <3>2. PICK k \in 0..(N - 1) : Turn(startIndex[r], k) = t
      BY <2>2, <2>4, <3>1, LoopReachesAll
    <3>3. i[r] <= k
      BY <2>2, <3>2, RRAssumption
    <3>4. QED
      BY <2>1, <2>2, <3>2, <3>3
  <2>5. Skipped(r)'
    BY <2>1, <2>3, <2>4 DEF Skipped
  <2>6. (Waiting(r) /\ Probed(r))'
    BY <2>1 DEF Waiting, Probed
  <2>7. ASSUME NEW q \in Requests, q # r
        PROVE  (Waiting(q) /\ Probed(q) /\ Skipped(q))'
    BY <1>1, <1>4, <2>7, OthersKept DEF ProbeSucceeds, TypeOK
  <2>8. QED
    BY <1>1, <2>5, <2>6, <2>7 DEF LoopInv
<1>5. ASSUME NEW r \in Requests, ProbeFails(r)
      PROVE  LoopInv'
  <2>1. /\ pc[r] = "probing" /\ i'[r] = i[r] + 1 /\ up' = up
        /\ startIndex' = startIndex /\ steady' = steady
        /\ pc'[r] = IF i[r] + 1 < N THEN "probing" ELSE "done"
    BY <1>1, <1>5 DEF ProbeFails, TypeOK
  <2>2. /\ i[r] \in Nat /\ i[r] < N /\ steady[r] \subseteq up /\ startIndex[r] \in Nat
        /\ \A j \in Nat : j < i[r] => Turn(startIndex[r], j) \notin steady[r]
    BY <1>1, <2>1 DEF LoopInv, Probed, TypeOK
  <2>3. Turn(startIndex[r], i[r]) \notin steady[r]
    BY <1>5, <2>2 DEF ProbeFails, isTargetHealthy
  <2>4. \A j \in Nat : j < i[r] + 1 => Turn(startIndex[r], j) \notin steady[r]
    <3> SUFFICES ASSUME NEW j \in Nat, j < i[r] + 1
                 PROVE  Turn(startIndex[r], j) \notin steady[r]
      OBVIOUS
    <3>1. j < i[r] \/ j = i[r]
      BY <2>2
    <3>2. QED
      BY <2>2, <2>3, <3>1
  <2>5. (Waiting(r) /\ Probed(r))'
    BY <2>1, <2>2, <2>4 DEF Waiting, Probed
  <2>6. Skipped(r)'
    <3> SUFFICES ASSUME pc'[r] = "done", TriesAll(startIndex[r]),
                        NEW t \in steady[r]
                 PROVE  FALSE
      BY <2>1 DEF Skipped
    <3>1. t \in Targets
      BY <1>1 DEF TypeOK
    <3>2. PICK k \in 0..(N - 1) : Turn(startIndex[r], k) = t
      BY <2>2, <3>1, LoopReachesAll
    <3>3. k \in Nat /\ k < i[r] + 1
      BY <2>1, <2>2, RRAssumption
    <3>4. QED
      BY <2>4, <3>2, <3>3
  <2>7. ASSUME NEW q \in Requests, q # r
        PROVE  (Waiting(q) /\ Probed(q) /\ Skipped(q))'
    BY <1>1, <1>5, <2>7, OthersKept DEF ProbeFails, TypeOK
  <2>8. QED
    BY <1>1, <2>5, <2>6, <2>7 DEF LoopInv
<1>6. ASSUME NEW t \in Targets, Crash(t)
      PROVE  LoopInv'
  <2> SUFFICES ASSUME NEW r \in Requests
               PROVE  (Waiting(r) /\ Probed(r) /\ Skipped(r))'
    BY <1>1 DEF LoopInv
  <2>1. /\ steady'[r] \subseteq steady[r]
        /\ pc[r] = "probing" => steady'[r] = steady[r] \ {t}
        /\ pc[r] # "probing" => steady'[r] = steady[r]
    BY <1>6 DEF Crash
  <2>2. QED
    BY <1>6, <2>1 DEF Crash, LoopInv, Waiting, Probed, Skipped
<1>7. ASSUME NEW t \in Targets, Recover(t)
      PROVE  LoopInv'
  BY <1>1, <1>7 DEF Recover, LoopInv, Waiting, Probed, Skipped
<1>8. CASE UNCHANGED vars
  BY <1>1, <1>8 DEF vars, LoopInv, Waiting, Probed, Skipped
<1>9. QED
  BY <1>2, <1>3, <1>4, <1>5, <1>6, <1>7, <1>8 DEF Next, Pick, AllPicked

\* The invariant the loop theorem rests on.
THEOREM LoopInvariance == Spec => []LoopInv
BY LoopInitially, LoopStep, PTL DEF Spec

\* Pick returns the first target in round-robin order that did not fail while
\* it probed, and nil only if every target did, however many targets there
\* are and however they fail and recover, unless the loop overflows.
THEOREM OnlyFailedAreSkipped == Spec => []SkipsOnlyFailed
<1>1. LoopInv => SkipsOnlyFailed
  BY DEF LoopInv, Skipped, SkipsOnlyFailed, TriesAll
<1>2. QED
  BY <1>1, LoopInvariance, PTL

\* With a number of targets that divides 2^64, a power of two, the exception is
\* gone: Pick gives up, or passes a target over, only on targets that failed
\* while it probed, wherever the counter stands and also when it wraps under
\* the loop.
THEOREM PowerOfTwoNeverSkips ==
  ASSUME Modulus % N = 0
  PROVE  Spec => [](\A r \in Requests :
                      (pc[r] = "done" /\ healthChecksEnabled) =>
                        \A t \in steady[r] :
                          /\ result[r] # Nil
                          /\ \E j, k \in 0..(N - 1) :
                               /\ Turn(startIndex[r], j) = result[r]
                               /\ Turn(startIndex[r], k) = t
                               /\ j <= k)
<1> DEFINE Exact ==
      \A r \in Requests :
        (pc[r] = "done" /\ healthChecksEnabled) =>
          \A t \in steady[r] :
            /\ result[r] # Nil
            /\ \E j, k \in 0..(N - 1) : /\ Turn(startIndex[r], j) = result[r]
                                        /\ Turn(startIndex[r], k) = t
                                        /\ j <= k
<1>1. LoopInv => Exact
  BY DEF LoopInv, Skipped, TriesAll
<1> HIDE DEF Exact
<1>2. Spec => []Exact
  BY <1>1, LoopInvariance, PTL
<1>3. QED
  BY <1>2 DEF Exact

-----------------------------------------------------------------------------
(* The shares of the targets.                                              *)

\* How many of the indices below x are the turn of target t.
Share(x, t) == x \div N + (IF t < x % N THEN 1 ELSE 0)

LEMMA ShareType ==
  ASSUME NEW x \in Nat, NEW t \in Targets
  PROVE  Share(x, t) \in Nat
<1>1. x \div N \in Nat
  BY DivMod, RRAssumption
<1>2. QED
  BY <1>1 DEF Share

\* The index x itself is one target's turn.
LEMMA ShareNext ==
  ASSUME NEW x \in Nat, NEW t \in Targets
  PROVE  Share(x + 1, t) = Share(x, t) + (IF t = x % N THEN 1 ELSE 0)
<1>1. x % N \in Nat /\ x \div N \in Nat /\ t \in Nat /\ t < N
  BY DivMod, RRAssumption DEF Targets
<1>2. \/ /\ (x % N) + 1 < N
         /\ (x + 1) % N = (x % N) + 1
         /\ (x + 1) \div N = x \div N
      \/ /\ (x % N) + 1 = N
         /\ (x + 1) % N = 0
         /\ (x + 1) \div N = x \div N + 1
  BY NextRemainder, RRAssumption
<1> DEFINE q == x \div N
           m == x % N
           q1 == (x + 1) \div N
           m1 == (x + 1) % N
<1>3. Share(x, t) = q + (IF t < m THEN 1 ELSE 0)
  BY DEF Share
<1>4. Share(x + 1, t) = q1 + (IF t < m1 THEN 1 ELSE 0)
  BY DEF Share
<1> HIDE DEF q, m, q1, m1
<1>5. m \in Nat /\ q \in Nat
  BY <1>1 DEF m, q
<1>6. \/ m + 1 < N /\ m1 = m + 1 /\ q1 = q
      \/ m + 1 = N /\ m1 = 0 /\ q1 = q + 1
  BY <1>2 DEF m, q, m1, q1
<1>7. q1 + (IF t < m1 THEN 1 ELSE 0)
        = (q + (IF t < m THEN 1 ELSE 0)) + (IF t = m THEN 1 ELSE 0)
  BY <1>1, <1>5, <1>6, RRAssumption
<1>8. QED
  BY <1>3, <1>4, <1>7 DEF m

\* A target is ahead of a later one by one at most, and never behind.
LEMMA ShareEven ==
  ASSUME NEW x \in Nat, NEW s \in Targets, NEW t \in Targets, s <= t
  PROVE  Share(x, s) - Share(x, t) \in 0..1
<1> DEFINE q == x \div N
           m == x % N
<1>1. q \in Nat /\ m \in Nat
  BY DivMod, RRAssumption
<1>2. /\ Share(x, s) = q + (IF s < m THEN 1 ELSE 0)
      /\ Share(x, t) = q + (IF t < m THEN 1 ELSE 0)
  BY DEF Share
<1> HIDE DEF q, m
<1>3. s \in Nat /\ t \in Nat
  BY DEF Targets
<1>4. QED
  BY <1>1, <1>2, <1>3

LEMMA ShareOfNothing ==
  ASSUME NEW t \in Targets
  PROVE  Share(0, t) = 0
<1>1. (N * 0 + 0) % N = 0 /\ (N * 0 + 0) \div N = 0
  BY Remainder, RRAssumption
<1>2. N * 0 + 0 = 0 /\ ~(t < 0)
  BY RRAssumption DEF Targets
<1>3. QED
  BY <1>1, <1>2 DEF Share

Claimed == {r \in Requests : pc[r] # "idle"}

\* Since the counter stood at s the claims have the turns of s .. nextIndex - 1,
Straight(s) ==
  /\ nextIndex = s + Cardinality(Claimed)
  /\ \A t \in Targets : claims[t] = Share(nextIndex, t) - Share(s, t)

\* or those of s .. Modulus - 1 and then of 0 .. nextIndex - 1.
AfterWrap(s) ==
  /\ nextIndex + Modulus = s + Cardinality(Claimed)
  /\ \E r \in Claimed : startIndex[r] = Modulus - 1
  /\ \A t \in Targets :
       claims[t] = (Share(Modulus, t) - Share(s, t)) + Share(nextIndex, t)

TurnsInv ==
  /\ TypeOK
  /\ \E s \in 0..(Modulus - 1) : Straight(s) \/ AfterWrap(s)

LEMMA TurnsInitially == Init => TurnsInv
<1> SUFFICES ASSUME Init PROVE TurnsInv
  OBVIOUS
<1>1. TypeOK
  BY LoopInitially DEF LoopInv
<1>2. Claimed = {}
  BY DEF Init, Claimed
<1>3. Cardinality(Claimed) = 0
  BY <1>2, FS_EmptySet
<1>4. nextIndex \in 0..(Modulus - 1) /\ nextIndex = nextIndex + 0
  BY <1>1 DEF TypeOK
<1>5. ASSUME NEW t \in Targets
      PROVE  claims[t] = Share(nextIndex, t) - Share(nextIndex, t)
  <2>1. Share(nextIndex, t) \in Nat
    BY <1>4, ShareType
  <2>2. claims[t] = 0
    BY DEF Init
  <2>3. QED
    BY <2>1, <2>2
<1>6. Straight(nextIndex)
  BY <1>3, <1>4, <1>5 DEF Straight
<1>7. QED
  BY <1>1, <1>4, <1>6 DEF TurnsInv

\* A claim of r: one more request has claimed, and the target whose turn it is
\* has one more claim.
LEMMA ClaimCounts ==
  ASSUME TypeOK, NEW r \in Requests, pc[r] = "idle", Advance(r),
         NEW state \in {"probing", "done"}, pc' = [pc EXCEPT ![r] = state]
  PROVE  /\ r \in Claimed' /\ startIndex'[r] = nextIndex
         /\ \A q \in Claimed : q \in Claimed' /\ startIndex'[q] = startIndex[q]
         /\ Cardinality(Claimed) \in Nat
         /\ Cardinality(Claimed)' = Cardinality(Claimed) + 1
         /\ Cardinality(Claimed) + 1 <= Modulus
         /\ \A t \in Targets :
              claims'[t] = claims[t] + (IF t = nextIndex % N THEN 1 ELSE 0)
<1>1. r \notin Claimed /\ Claimed' = Claimed \cup {r}
  BY DEF Claimed, TypeOK
<1>2. /\ IsFiniteSet(Requests) /\ IsFiniteSet(Claimed)
      /\ Cardinality(Claimed) \in Nat
  BY RRAssumption, FS_Subset, FS_CardinalityType DEF Claimed
<1>3. Cardinality(Claimed') = Cardinality(Claimed) + 1
  BY <1>1, <1>2, FS_AddElement
<1>4. Cardinality(Claimed') <= Cardinality(Requests)
  BY <1>2, FS_Subset DEF Claimed
<1>5. Cardinality(Claimed) + 1 <= Modulus
  <2>1. Cardinality(Requests) \in Nat
    BY <1>2, FS_CardinalityType
  <2>2. QED
    BY <1>2, <1>3, <1>4, <2>1, PicksAssumption, RRAssumption
<1>6. nextIndex \in Nat /\ Turn(nextIndex, 0) = nextIndex % N
  <2>1. nextIndex \in Nat /\ nextIndex < Modulus /\ nextIndex + 0 = nextIndex
    BY RRAssumption DEF TypeOK
  <2>2. QED
    BY <2>1, NoWrap, RRAssumption DEF Turn
<1>7. nextIndex % N \in Targets
  BY <1>6, DivMod, RRAssumption DEF Targets
<1> DEFINE m == nextIndex % N
<1>8. claims' = [claims EXCEPT ![m] = @ + 1]
  BY <1>6 DEF Advance
<1> HIDE DEF m
<1>9. \A t \in Targets : claims'[t] = claims[t] + (IF t = m THEN 1 ELSE 0)
  BY <1>7, <1>8 DEF TypeOK, m
<1>10. /\ startIndex'[r] = nextIndex
       /\ \A q \in Claimed : q \in Claimed' /\ startIndex'[q] = startIndex[q]
  BY <1>1 DEF Advance, Claimed, TypeOK
<1>11. QED
  BY <1>1, <1>2, <1>3, <1>5, <1>9, <1>10 DEF m

\* A claim keeps the account, the one that wraps the counter included.
LEMMA ClaimKeepsTurns ==
  ASSUME TurnsInv, NEW r \in Requests, pc[r] = "idle", Advance(r),
         NEW state \in {"probing", "done"}, pc' = [pc EXCEPT ![r] = state]
  PROVE  \E s \in 0..(Modulus - 1) : (Straight(s) \/ AfterWrap(s))'
<1>1. TypeOK
  BY DEF TurnsInv
<1> DEFINE c == Cardinality(Claimed)
           m == nextIndex % N
<1>2. /\ r \in Claimed' /\ startIndex'[r] = nextIndex
      /\ \A q \in Claimed : q \in Claimed' /\ startIndex'[q] = startIndex[q]
      /\ c \in Nat /\ Cardinality(Claimed)' = c + 1 /\ c + 1 <= Modulus
      /\ \A t \in Targets : claims'[t] = claims[t] + (IF t = m THEN 1 ELSE 0)
  BY <1>1, ClaimCounts
<1>3. PICK s \in 0..(Modulus - 1) : Straight(s) \/ AfterWrap(s)
  BY DEF TurnsInv
<1>4. /\ nextIndex \in Nat /\ nextIndex < Modulus /\ s \in Nat /\ s < Modulus
      /\ Modulus \in Nat /\ Modulus > 0
  BY <1>1, RRAssumption DEF TypeOK
<1>5. /\ nextIndex + 1 < Modulus => nextIndex' = nextIndex + 1
      /\ nextIndex + 1 = Modulus => nextIndex' = 0
  <2>1. nextIndex + 1 < Modulus => (nextIndex + 1) % Modulus = nextIndex + 1
    BY <1>4, NoWrap
  <2>2. (Modulus * 1 + 0) % Modulus = 0 /\ Modulus * 1 + 0 = Modulus
    BY <1>4, Remainder
  <2>3. QED
    BY <2>1, <2>2 DEF Advance
<1>6. ASSUME NEW t \in Targets
      PROVE  /\ Share(nextIndex + 1, t) = Share(nextIndex, t) + (IF t = m THEN 1 ELSE 0)
             /\ Share(nextIndex, t) \in Nat /\ Share(nextIndex + 1, t) \in Nat
             /\ Share(s, t) \in Nat /\ Share(Modulus, t) \in Nat
             /\ claims[t] \in Nat
  <2>1. nextIndex + 1 \in Nat
    BY <1>4
  <2>2. QED
    BY <1>1, <1>4, <2>1, ShareNext, ShareType DEF TypeOK
<1> HIDE DEF c, m
<1>7. CASE Straight(s) /\ nextIndex + 1 < Modulus
  <2>1. nextIndex' = nextIndex + 1 /\ nextIndex = s + c
    BY <1>5, <1>7 DEF Straight, c
  <2>2. nextIndex' = s + (c + 1)
    BY <1>2, <1>4, <2>1
  <2>3. ASSUME NEW t \in Targets
        PROVE  claims'[t] = Share(nextIndex + 1, t) - Share(s, t)
    <3>1. claims[t] = Share(nextIndex, t) - Share(s, t)
      BY <1>7 DEF Straight
    <3>2. QED
      BY <1>2, <1>6, <3>1
  <2>4. Straight(s)'
    BY <1>2, <2>1, <2>2, <2>3 DEF Straight
  <2>5. QED
    BY <1>3, <2>4
<1>8. CASE Straight(s) /\ nextIndex + 1 = Modulus
  <2>1. nextIndex' = 0 /\ nextIndex = s + c /\ nextIndex = Modulus - 1
    BY <1>4, <1>5, <1>8 DEF Straight, c
  <2>2. nextIndex' + Modulus = s + (c + 1)
    BY <1>2, <1>4, <2>1
  <2>3. ASSUME NEW t \in Targets
        PROVE  claims'[t] = (Share(Modulus, t) - Share(s, t)) + Share(0, t)
    <3>1. claims[t] = Share(nextIndex, t) - Share(s, t)
      BY <1>8 DEF Straight
    <3>2. claims'[t] = Share(nextIndex + 1, t) - Share(s, t)
      BY <1>2, <1>6, <3>1
    <3>3. Share(0, t) = 0
      BY ShareOfNothing
    <3>4. claims'[t] = Share(Modulus, t) - Share(s, t)
      BY <1>8, <3>2
    <3>5. QED
      BY <1>6, <3>3, <3>4
  <2>4. AfterWrap(s)'
    BY <1>2, <2>1, <2>2, <2>3 DEF AfterWrap
  <2>5. QED
    BY <1>3, <2>4
<1>9. CASE AfterWrap(s)
  <2>1. nextIndex + Modulus = s + c
    BY <1>9 DEF AfterWrap, c
  <2>2. nextIndex + 1 < Modulus
    BY <1>2, <1>4, <2>1
  <2>3. nextIndex' = nextIndex + 1
    BY <1>5, <2>2
  <2>4. nextIndex' + Modulus = s + (c + 1)
    BY <1>2, <1>4, <2>1, <2>3
  <2>5. \E q \in Claimed' : startIndex'[q] = Modulus - 1
    BY <1>2, <1>9 DEF AfterWrap
  <2>6. ASSUME NEW t \in Targets
        PROVE  claims'[t] = (Share(Modulus, t) - Share(s, t)) + Share(nextIndex + 1, t)
    <3>1. claims[t] = (Share(Modulus, t) - Share(s, t)) + Share(nextIndex, t)
      BY <1>9 DEF AfterWrap
    <3>2. QED
      BY <1>2, <1>6, <3>1
  <2>7. AfterWrap(s)'
    BY <1>2, <2>3, <2>4, <2>5, <2>6 DEF AfterWrap
  <2>8. QED
    BY <1>3, <2>7
<1>10. QED
  BY <1>3, <1>4, <1>7, <1>8, <1>9

LEMMA TurnsStep == TurnsInv /\ [Next]_vars => TurnsInv'
<1> SUFFICES ASSUME TurnsInv, [Next]_vars PROVE TurnsInv'
  OBVIOUS
<1>1. TypeOK /\ TypeOK'
  BY TypesKept DEF TurnsInv
<1>2. ASSUME NEW r \in Requests, PickInTurn(r) \/ StartProbing(r)
      PROVE  TurnsInv'
  <2>1. Advance(r) /\ pc[r] = "idle"
    BY <1>2 DEF PickInTurn, StartProbing
  <2>2. PICK state \in {"probing", "done"} : pc' = [pc EXCEPT ![r] = state]
    BY <1>2 DEF PickInTurn, StartProbing
  <2>3. QED
    BY <1>1, <2>1, <2>2, ClaimKeepsTurns DEF TurnsInv
<1>3. ASSUME nextIndex' = nextIndex, startIndex' = startIndex, claims' = claims,
             Claimed' = Claimed
      PROVE  TurnsInv'
  BY <1>1, <1>3 DEF TurnsInv, Straight, AfterWrap
<1>4. ASSUME NEW r \in Requests, ProbeSucceeds(r) \/ ProbeFails(r)
      PROVE  TurnsInv'
  <2>1. Claimed' = Claimed
    BY <1>1, <1>4 DEF ProbeSucceeds, ProbeFails, Claimed, TypeOK
  <2>2. QED
    BY <1>3, <1>4, <2>1 DEF ProbeSucceeds, ProbeFails
<1>5. ASSUME NEW t \in Targets, Crash(t) \/ Recover(t)
      PROVE  TurnsInv'
  BY <1>3, <1>5 DEF Crash, Recover, Claimed
<1>6. CASE UNCHANGED vars
  BY <1>3, <1>6 DEF vars, Claimed
<1>7. QED
  BY <1>2, <1>4, <1>5, <1>6 DEF Next, Pick, AllPicked

\* The account of the turns, the invariant that makes their evenness inductive.
THEOREM TurnsInvariance == Spec => []TurnsInv
BY TurnsInitially, TurnsStep, PTL DEF Spec

\* Concurrent picks share the turns out evenly: no two targets' turns differ by
\* more than one, or by more than two once the counter has wrapped.
THEOREM TurnsAreEven == Spec => []EvenTurns
<1>1. TurnsInv => EvenTurns
  <2> SUFFICES ASSUME TurnsInv, NEW a \in Targets, NEW b \in Targets
               PROVE  claims[a] - claims[b] <= IF Wrapped THEN 2 ELSE 1
    BY DEF EvenTurns
  <2>1. PICK s \in 0..(Modulus - 1) : Straight(s) \/ AfterWrap(s)
    BY DEF TurnsInv
  <2>2. /\ nextIndex \in Nat /\ s \in Nat /\ Modulus \in Nat
        /\ nextIndex <= Modulus - 1
    BY RRAssumption DEF TurnsInv, TypeOK
  <2>3. ASSUME NEW x \in Nat
        PROVE  /\ Share(x, a) \in Nat /\ Share(x, b) \in Nat
               /\ a <= b => Share(x, a) - Share(x, b) \in 0..1
               /\ b <= a => Share(x, b) - Share(x, a) \in 0..1
    BY ShareType, ShareEven
  <2>4. a <= b \/ b <= a
    BY DEF Targets
  <2>5. CASE Straight(s)
    <3>1. /\ claims[a] = Share(nextIndex, a) - Share(s, a)
          /\ claims[b] = Share(nextIndex, b) - Share(s, b)
      BY <2>5 DEF Straight
    <3>2. claims[a] - claims[b] <= 1
      BY <2>2, <2>3, <2>4, <3>1
    <3>3. claims[a] \in Int /\ claims[b] \in Int
      BY DEF TurnsInv, TypeOK
    <3>4. QED
      BY <3>2, <3>3
  <2>6. CASE AfterWrap(s)
    <3>1. Wrapped
      BY <2>2, <2>6 DEF AfterWrap, Wrapped, Claimed
    <3>2. /\ claims[a] = (Share(Modulus, a) - Share(s, a)) + Share(nextIndex, a)
          /\ claims[b] = (Share(Modulus, b) - Share(s, b)) + Share(nextIndex, b)
      BY <2>6 DEF AfterWrap
    <3>3. claims[a] - claims[b] <= 2
      BY <2>2, <2>3, <2>4, <3>2
    <3>4. QED
      BY <3>1, <3>3
  <2>7. QED
    BY <2>1, <2>5, <2>6
<1>2. QED
  BY <1>1, TurnsInvariance, PTL
=============================================================================
