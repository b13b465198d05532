----------------------------- MODULE CacheProofs -----------------------------
(***************************************************************************)
(* Proofs about the cache: LRUCache and its history, for any keys, any     *)
(* number of goroutines, every capacity and every time to live, and        *)
(* CachePolicy, for headers of any length.                                 *)
(***************************************************************************)
EXTENDS LRUCacheHistory, CachePolicy, FiniteSetTheorems, SequenceTheorems, TLAPS

-----------------------------------------------------------------------------
(* The inductive invariant.                                                *)

Stats == [entries : Nat, hits : Nat, misses : Nat, stores : Nat, evictions : Nat]

Entries == [resp : Writers, expiresAt : Int]

TypeOK ==
  /\ Cached \subseteq Keys
  /\ items \in [Cached -> Entries]
  /\ stats \in Stats
  /\ now \in Nat
  /\ setting \in [Writers -> {Idle, Done}
                    \cup [phase : {"storing"}, key : Keys, entry : Entries]]

\* The list l holds the keys S, each of them once.
Lists(l, S) == l \in Seq(Keys) /\ IsInjective(l) /\ Range(l) = S

\* The list holds the keys of the map, and Entries counts its elements.
ListHoldsMap ==
  /\ Lists(lruList, Cached)
  /\ stats.entries = Len(lruList)
  /\ Len(lruList) <= Capacity

IInv == TypeOK /\ ListHoldsMap

\* Along the list l, the values of f do not grow.
Descending(l, f) == \A i, j \in 1..Len(l) : i < j => f[l[j]] <= f[l[i]]

HTypeOK ==
  /\ lastUse \in [Keys -> Nat]
  /\ uses \in Nat
  /\ pushedOut \in Nat
  /\ removed \in Nat
  /\ \A k \in Keys : lastUse[k] <= uses

\* The list is in the order of the last uses, the most recent one first.
HInv == IInv /\ HTypeOK /\ Descending(lruList, lastUse) /\ StoresBalance

-----------------------------------------------------------------------------
(* What the operations of container/list do to a list without repetitions. *)

\* A list without repetitions is as long as the set of its elements is large.
LEMMA ListLength ==
  ASSUME NEW l, NEW S, Lists(l, S)
  PROVE  IsFiniteSet(S) /\ Cardinality(S) = Len(l) /\ Len(l) \in Nat
  <1>1. /\ Len(l) \in Nat /\ DOMAIN l = 1..Len(l)
        /\ l \in [1..Len(l) -> S]
        /\ IsInjective(l)
    BY DEF Lists, Range
  <1>2. \A x \in S : \E i \in 1..Len(l) : l[i] = x
    BY <1>1 DEF Lists, Range
  <1>3. l \in Bijection(1..Len(l), S)
    BY <1>1, <1>2 DEF Bijection, Injection, Surjection
  <1>4. ExistsBijection(1..Len(l), S)
    BY <1>3 DEF ExistsBijection
  <1> QED
    BY <1>1, <1>4, FS_CountingElements, FS_NatBijection

\* PushFront of a key that is not listed.
LEMMA PushLists ==
  ASSUME NEW l, NEW S, Lists(l, S), NEW k \in Keys, k \notin S
  PROVE  Lists(<<k>> \o l, S \cup {k}) /\ Len(<<k>> \o l) = Len(l) + 1
  <1> DEFINE m == <<k>> \o l
  <1>1. l \in Seq(Keys) /\ <<k>> \in Seq(Keys) /\ Len(<<k>>) = 1 /\ Len(l) \in Nat
    BY DEF Lists
  <1>2. /\ m \in Seq(Keys) /\ Len(m) = Len(l) + 1
        /\ m[1] = k /\ \A i \in 2..Len(m) : m[i] = l[i - 1]
    BY <1>1
  <1>3. DOMAIN m = 1..Len(m) /\ DOMAIN l = 1..Len(l)
    BY <1>1, <1>2
  <1> HIDE DEF m
  <1>4. \A i \in 1..Len(l) : l[i] \in S /\ m[i + 1] = l[i]
    BY <1>1, <1>2, <1>3 DEF Lists, Range
  <1>5. IsInjective(m)
    <2> SUFFICES ASSUME NEW a \in 1..Len(m), NEW b \in 1..Len(m), m[a] = m[b]
                 PROVE  a = b
      BY <1>3 DEF IsInjective
    <2>1. CASE a = 1 \/ b = 1
      <3>1. \A i \in 1..Len(m) : i # 1 => m[i] \in S
        <4> SUFFICES ASSUME NEW i \in 1..Len(m), i # 1 PROVE m[i] \in S
          OBVIOUS
        <4>1. i \in 2..Len(m) /\ i - 1 \in 1..Len(l)
          BY <1>1, <1>2
        <4> QED
          BY <1>2, <1>4, <4>1
      <3> QED
        BY <1>2, <2>1, <3>1
    <2>2. CASE a # 1 /\ b # 1
      <3>1. /\ a - 1 \in 1..Len(l) /\ b - 1 \in 1..Len(l)
            /\ l[a - 1] = l[b - 1]
        BY <1>1, <1>2, <2>2
      <3>2. a - 1 = b - 1
        BY <1>3, <3>1 DEF Lists, IsInjective
      <3> QED
        BY <1>1, <1>2, <3>2
    <2> QED
      BY <2>1, <2>2
  <1>6. Range(m) = S \cup {k}
    <2>1. ASSUME NEW x \in S PROVE x \in Range(m)
      <3>1. PICK i \in 1..Len(l) : l[i] = x
        BY <1>3 DEF Lists, Range
      <3>2. i + 1 \in 1..Len(m) /\ m[i + 1] = x
        BY <1>1, <1>2, <1>4, <3>1
      <3> QED
        BY <1>3, <3>2 DEF Range
    <2>2. ASSUME NEW i \in 1..Len(m) PROVE m[i] \in S \cup {k}
      BY <1>1, <1>2, <1>4
    <2>3. k \in Range(m)
      BY <1>1, <1>2, <1>3 DEF Range
    <2> QED
      BY <1>3, <2>1, <2>2, <2>3 DEF Range
  <1> QED
    BY <1>2, <1>5, <1>6 DEF Lists, m

\* Removing the element at i moves the ones behind it up.
LEMMA RemoveElements ==
  ASSUME NEW l, NEW S, Lists(l, S), NEW i \in 1..Len(l)
  PROVE  /\ RemoveAt(l, i) \in Seq(Keys)
         /\ Len(RemoveAt(l, i)) = Len(l) - 1
         /\ \A j \in 1..Len(RemoveAt(l, i)) :
              RemoveAt(l, i)[j] = IF j < i THEN l[j] ELSE l[j + 1]
  <1> DEFINE m == RemoveAt(l, i)
             before == SubSeq(l, 1, i - 1)
             after == SubSeq(l, i + 1, Len(l))
  <1>1. l \in Seq(Keys) /\ Len(l) \in Nat /\ DOMAIN l = 1..Len(l)
    BY DEF Lists
  <1>2. /\ before \in Seq(Keys) /\ Len(before) = i - 1
        /\ \A j \in 1..(i - 1) : before[j] = l[j]
    <2>1. i - 1 \in Int /\ \A j \in 1..(i - 1) : l[j] \in Keys
      BY <1>1
    <2> QED
      BY <2>1, SubSeqProperties
  <1>3. /\ after \in Seq(Keys) /\ Len(after) = Len(l) - i
        /\ \A j \in 1..(Len(l) - i) : after[j] = l[i + j]
    <2>1. i + 1 \in Int /\ Len(l) \in Int /\ \A j \in (i + 1)..Len(l) : l[j] \in Keys
      BY <1>1
    <2>2. /\ after \in Seq(Keys)
          /\ Len(after) = IF i + 1 <= Len(l) THEN Len(l) - (i + 1) + 1 ELSE 0
          /\ \A j \in 1..(Len(l) - (i + 1) + 1) : after[j] = l[(i + 1) + j - 1]
      BY <2>1, SubSeqProperties
    <2> HIDE DEF after
    <2>3. Len(after) = Len(l) - i
      <3>1. CASE i + 1 <= Len(l)
        <4>1. Len(after) = Len(l) - (i + 1) + 1
          BY <2>2, <3>1
        <4> QED
          BY <1>1, <4>1
      <3>2. CASE ~(i + 1 <= Len(l))
        <4>1. Len(after) = 0
          BY <2>2, <3>2
        <4>2. i \in Nat /\ i <= Len(l) /\ Len(l) < i + 1
          BY <1>1, <3>2
        <4>3. Len(l) \in Nat
          BY <1>1
        <4>4. \A x, y \in Nat : x <= y /\ y < x + 1 => y - x = 0
          OBVIOUS
        <4> QED
          BY <4>1, <4>2, <4>3, <4>4
      <3> QED
        BY <3>1, <3>2
    <2>4. ASSUME NEW j \in 1..(Len(l) - i) PROVE after[j] = l[i + j]
      <3>1. j \in 1..(Len(l) - (i + 1) + 1) /\ (i + 1) + j - 1 = i + j
        BY <1>1
      <3> QED
        BY <2>2, <3>1
    <2> QED
      BY <2>2, <2>3, <2>4
  <1>4. m = before \o after
    BY DEF RemoveAt
  <1> HIDE DEF before, after, m
  <1>5. /\ m \in Seq(Keys) /\ Len(m) = Len(l) - 1
        /\ \A j \in 1..Len(m) : m[j] = IF j < i THEN l[j] ELSE l[j + 1]
    <2>1. /\ m \in Seq(Keys) /\ Len(m) = Len(before) + Len(after)
          /\ \A j \in 1..(Len(before) + Len(after)) :
               m[j] = IF j <= Len(before) THEN before[j] ELSE after[j - Len(before)]
      BY <1>2, <1>3, <1>4, ConcatProperties
    <2>2. Len(m) = Len(l) - 1
      BY <1>1, <1>2, <1>3, <2>1
    <2>3. ASSUME NEW j \in 1..Len(m), j < i PROVE m[j] = l[j]
      <3>1. j \in 1..(i - 1) /\ j <= Len(before) /\ j \in 1..(Len(before) + Len(after))
        BY <1>1, <1>2, <2>1, <2>3
      <3> QED
        BY <1>2, <2>1, <3>1
    <2>4. ASSUME NEW j \in 1..Len(m), ~(j < i) PROVE m[j] = l[j + 1]
      <3>1. m[j] = after[j - (i - 1)]
        BY <1>1, <1>2, <2>1, <2>4
      <3>2. j - (i - 1) \in 1..(Len(l) - i) /\ i + (j - (i - 1)) = j + 1
        BY <1>1, <2>2, <2>4
      <3> QED
        BY <1>3, <3>1, <3>2
    <2> QED
      BY <2>1, <2>2, <2>3, <2>4
  <1> QED
    BY <1>5 DEF m

\* Removing the element at i takes exactly this element off the list.
LEMMA RemoveLists ==
  ASSUME NEW l, NEW S, Lists(l, S), NEW i \in 1..Len(l)
  PROVE  Lists(RemoveAt(l, i), S \ {l[i]}) /\ Len(RemoveAt(l, i)) = Len(l) - 1
  <1> DEFINE m == RemoveAt(l, i)
  <1>1. l \in Seq(Keys) /\ Len(l) \in Nat /\ DOMAIN l = 1..Len(l)
    BY DEF Lists
  <1>5. /\ m \in Seq(Keys) /\ Len(m) = Len(l) - 1
        /\ \A j \in 1..Len(m) : m[j] = IF j < i THEN l[j] ELSE l[j + 1]
    BY RemoveElements
  <1> HIDE DEF m
  <1>6. DOMAIN m = 1..Len(m)
    BY <1>5
  <1>7. \A a, b \in 1..Len(l) : l[a] = l[b] => a = b
    BY <1>1 DEF Lists, IsInjective
  <1>8. IsInjective(m)
    BY <1>1, <1>5, <1>6, <1>7 DEF IsInjective
  <1>9. Range(m) = S \ {l[i]}
    <2>1. ASSUME NEW j \in 1..Len(m) PROVE m[j] \in S \ {l[i]}
      <3>1. PICK h \in 1..Len(l) : h # i /\ m[j] = l[h]
        <4>1. CASE j < i
          BY <1>1, <1>5, <4>1
        <4>2. CASE ~(j < i)
          <5>1. j + 1 \in 1..Len(l) /\ j + 1 # i /\ m[j] = l[j + 1]
            BY <1>1, <1>5, <4>2
          <5> QED
            BY <5>1
        <4> QED
          BY <4>1, <4>2
      <3> QED
        BY <1>1, <1>7, <3>1 DEF Lists, Range
    <2>2. ASSUME NEW x \in S \ {l[i]} PROVE x \in Range(m)
      <3>1. PICK h \in 1..Len(l) : l[h] = x
        BY <1>1 DEF Lists, Range
      <3>2. CASE h < i
        BY <1>1, <1>5, <1>6, <3>1, <3>2 DEF Range
      <3>3. CASE h > i
        <4>1. h - 1 \in 1..Len(m) /\ m[h - 1] = x
          BY <1>1, <1>5, <3>1, <3>3
        <4> QED
          BY <1>6, <4>1 DEF Range
      <3> QED
        BY <3>1, <3>2, <3>3
    <2> QED
      BY <1>6, <2>1, <2>2 DEF Range
  <1> QED
    BY <1>5, <1>8, <1>9 DEF Lists, m

\* The back of a list is its last element; without it, the rest stays.
LEMMA FrontIsRemoval ==
  ASSUME NEW l \in Seq(Keys), l # <<>>
  PROVE  /\ Len(l) \in 1..Len(l)
         /\ Last(l) = l[Len(l)]
         /\ Front(l) = RemoveAt(l, Len(l))
  <1>1. Len(l) \in Nat \ {0}
    BY EmptySeq
  <1>2. SubSeq(l, Len(l) + 1, Len(l)) = <<>>
    BY <1>1, SubSeqEmpty
  <1>3. SubSeq(l, 1, Len(l) - 1) \in Seq(Keys)
    <2>1. Len(l) - 1 \in Int /\ \A j \in 1..(Len(l) - 1) : l[j] \in Keys
      BY <1>1
    <2> QED
      BY <2>1, SubSeqProperties
  <1>4. RemoveAt(l, Len(l)) = SubSeq(l, 1, Len(l) - 1)
    BY <1>2, <1>3, ConcatEmptySeq DEF RemoveAt
  <1> QED
    BY <1>1, <1>4 DEF Last, Front

\* Removing the element of a cached key takes exactly this key off the list.
LEMMA WithoutLists ==
  ASSUME NEW k \in Cached, Lists(lruList, Cached)
  PROVE  Lists(Without(k), Cached \ {k}) /\ Len(Without(k)) = Len(lruList) - 1
  <1> DEFINE i == CHOOSE i \in DOMAIN lruList : lruList[i] = k
  <1>1. \E j \in DOMAIN lruList : lruList[j] = k
    BY DEF Lists, Range
  <1>2. i \in DOMAIN lruList /\ lruList[i] = k
    BY <1>1, Zenon
  <1>3. Without(k) = RemoveAt(lruList, i)
    BY DEF Without
  <1> HIDE DEF i
  <1>4. i \in 1..Len(lruList)
    BY <1>2 DEF Lists
  <1>5. /\ Lists(RemoveAt(lruList, i), Cached \ {lruList[i]})
        /\ Len(RemoveAt(lruList, i)) = Len(lruList) - 1
    BY <1>4, RemoveLists
  <1> QED
    BY <1>2, <1>3, <1>5, Zenon

\* Moving the element of a cached key to the front keeps the listed keys.
LEMMA ToFrontLists ==
  ASSUME NEW k \in Cached, Lists(lruList, Cached), Cached \subseteq Keys
  PROVE  Lists(ToFront(k), Cached) /\ Len(ToFront(k)) = Len(lruList)
  <1>1. Lists(Without(k), Cached \ {k}) /\ Len(Without(k)) = Len(lruList) - 1
    BY WithoutLists
  <1>2. /\ Lists(ToFront(k), (Cached \ {k}) \cup {k})
        /\ Len(ToFront(k)) = Len(Without(k)) + 1
    BY <1>1, PushLists DEF ToFront
  <1>3. (Cached \ {k}) \cup {k} = Cached /\ Len(lruList) \in Nat
    BY ListLength
  <1>4. Lists(ToFront(k), Cached)
    BY <1>2, <1>3, Zenon
  <1>5. Len(ToFront(k)) = Len(lruList)
    BY <1>1, <1>2, <1>3
  <1> QED
    BY <1>4, <1>5

-----------------------------------------------------------------------------
(* The operations of the cache.                                            *)

\* NewLRUCache never makes a cache without room.
LEMMA CapacityType == Capacity \in Nat \ {0}
  BY LRUAssumption DEF Capacity

\* Every Set computes an expiry time.
LEMMA ExpiryType ==
  ASSUME now \in Nat, NEW ttl \in TTLs
  PROVE  Expiry(ttl) \in Int
  BY LifetimeAssumption, LRUAssumption DEF Expiry, SetTTL, DefaultCacheTTL

\* The new cache is empty.
LEMMA InitIInv == Init => IInv
  <1> SUFFICES ASSUME Init PROVE IInv
    OBVIOUS
  <1>1. Cached = {} /\ items \in [Cached -> Entries]
    BY DEF Init, Cached
  <1>2. Lists(lruList, Cached)
    BY <1>1 DEF Init, Lists, IsInjective, Range
  <1> QED
    BY <1>1, <1>2, CapacityType DEF Init, IInv, TypeOK, ListHoldsMap, Idle, Stats

\* Get touches at most the order of the list and one counter.
LEMMA LookupIInv ==
  ASSUME IInv, NEW k \in Keys, Lookup(k)
  PROVE  IInv'
  <1>1. Cached' = Cached /\ items' = items /\ now' = now /\ setting' = setting
    BY DEF Lookup, GetHit, GetStale, GetMiss, Cached
  <1>2. /\ stats' \in Stats
        /\ stats'.entries = stats.entries
    BY DEF Lookup, GetHit, GetStale, GetMiss, IInv, TypeOK, Stats
  <1>3. Lists(lruList', Cached) /\ Len(lruList') = Len(lruList)
    <2>1. CASE k \in Cached /\ lruList' = ToFront(k)
      BY <2>1, ToFrontLists DEF IInv, TypeOK, ListHoldsMap
    <2>2. CASE lruList' = lruList
      BY <2>2 DEF IInv, ListHoldsMap
    <2> QED
      BY <2>1, <2>2 DEF Lookup, GetHit, GetStale, GetMiss
  <1>4. TypeOK'
    BY <1>1, <1>2 DEF IInv, TypeOK
  <1>5. ListHoldsMap'
    BY <1>1, <1>2, <1>3 DEF IInv, ListHoldsMap, Lists
  <1> QED
    BY <1>4, <1>5 DEF IInv

\* Delete takes the key out of both the list and the map.
LEMMA DeleteIInv ==
  ASSUME IInv, NEW k \in Keys, DeleteKey(k)
  PROVE  IInv'
  <1>1. k \in Cached /\ lruList' = Without(k) /\ items' = Restrict(items, Cached \ {k})
    BY DEF DeleteKey, Delete
  <1>2. Cached' = Cached \ {k} /\ items' \in [Cached' -> Entries]
    BY <1>1 DEF IInv, TypeOK, Cached, Restrict
  <1>3. Lists(lruList', Cached') /\ Len(lruList') = Len(lruList) - 1
    BY <1>1, <1>2, WithoutLists DEF IInv, ListHoldsMap
  <1>4. Len(lruList') \in Nat /\ Len(lruList) \in Nat
    BY <1>3, ListLength DEF IInv, ListHoldsMap
  <1>5. /\ stats' \in Stats
        /\ stats'.entries = Len(lruList')
    <2>1. stats' = [stats EXCEPT !.evictions = @ + 1, !.entries = Len(lruList')]
      BY DEF DeleteKey, Delete
    <2>2. stats \in Stats
      BY DEF IInv, TypeOK
    <2>3. stats.evictions + 1 \in Nat
      BY <2>2 DEF Stats
    <2> QED
      BY <1>4, <2>1, <2>2, <2>3 DEF Stats
  <1>6. TypeOK'
    BY <1>2, <1>5 DEF IInv, TypeOK, DeleteKey
  <1>7. ListHoldsMap'
    BY <1>3, <1>4, <1>5, CapacityType DEF IInv, ListHoldsMap, Lists
  <1> QED
    BY <1>6, <1>7 DEF IInv

\* The map of Set after it wrote the entry of k.
Written(k, entry) == [j \in Cached \cup {k} |-> IF j = k THEN entry ELSE items[j]]

\* Writing an entry keeps the types of the map.
LEMMA WrittenType ==
  ASSUME TypeOK, NEW k \in Keys, NEW entry \in Entries
  PROVE  Written(k, entry) \in [Cached \cup {k} -> Entries]
  BY DEF TypeOK, Written

\* Set evicts the last element of the list it pushed the new key onto, and
\* takes the key of that element out of the map.
LEMMA Evicts ==
  ASSUME IInv, NEW k \in Keys, NEW entry \in Entries, InsertEvicting(k, entry),
         NEW pushed, pushed = <<k>> \o lruList
  PROVE  /\ Lists(pushed, Cached \cup {k})
         /\ Len(pushed) = Len(lruList) + 1
         /\ Len(pushed) \in 1..Len(pushed)
         /\ lruList' = RemoveAt(pushed, Len(pushed))
         /\ Cached' = (Cached \cup {k}) \ {pushed[Len(pushed)]}
         /\ items' \in [Cached' -> Entries]
  <1>1. Lists(lruList, Cached) /\ Len(lruList) \in Nat
    BY ListLength DEF IInv, ListHoldsMap
  <1>2. /\ k \notin Cached /\ lruList' = Front(pushed)
        /\ items' = Restrict(Written(k, entry), DOMAIN Written(k, entry) \ {Last(pushed)})
    BY DEF InsertEvicting, Written
  <1>3. Lists(pushed, Cached \cup {k}) /\ Len(pushed) = Len(lruList) + 1
    BY <1>1, <1>2, PushLists
  <1>4. pushed \in Seq(Keys) /\ pushed # <<>>
    BY <1>1, <1>3 DEF Lists
  <1>5. /\ Len(pushed) \in 1..Len(pushed)
        /\ Last(pushed) = pushed[Len(pushed)]
        /\ lruList' = RemoveAt(pushed, Len(pushed))
    BY <1>2, <1>4, FrontIsRemoval
  <1>6. items' \in [(Cached \cup {k}) \ {pushed[Len(pushed)]} -> Entries]
    <2>1. Written(k, entry) \in [Cached \cup {k} -> Entries]
      BY WrittenType DEF IInv
    <2> QED
      BY <1>2, <1>5, <2>1 DEF Restrict
  <1>7. Cached' = (Cached \cup {k}) \ {pushed[Len(pushed)]}
    BY <1>6 DEF Cached
  <1> QED
    BY <1>3, <1>5, <1>6, <1>7

\* Set replaces, inserts or inserts and evicts; each way the list and the map
\* agree afterwards, and the list has not outgrown the capacity.
LEMMA StoreIInv ==
  ASSUME IInv, NEW k \in Keys, NEW entry \in Entries, Store(k, entry)
  PROVE  /\ Cached' \subseteq Keys /\ items' \in [Cached' -> Entries]
         /\ stats' \in Stats
         /\ ListHoldsMap'
  <1>1. /\ Lists(lruList, Cached) /\ Len(lruList) \in Nat
        /\ Len(lruList) <= Capacity /\ Capacity \in Nat \ {0}
        /\ stats \in Stats /\ Cached \subseteq Keys /\ items \in [Cached -> Entries]
    BY ListLength, CapacityType DEF IInv, TypeOK, ListHoldsMap
  <1>2. CASE Replace(k, entry)
    <2>1. k \in Cached /\ items' = [items EXCEPT ![k] = entry] /\ lruList' = ToFront(k)
      BY <1>2 DEF Replace
    <2>2. Cached' = Cached /\ items' \in [Cached -> Entries]
      BY <1>1, <2>1 DEF Cached
    <2>3. Lists(lruList', Cached) /\ Len(lruList') = Len(lruList)
      BY <1>1, <2>1, ToFrontLists
    <2>4. stats' = [stats EXCEPT !.entries = Len(lruList')]
      BY <1>2 DEF Replace
    <2>5. stats' \in Stats /\ stats'.entries = Len(lruList')
      BY <1>1, <2>3, <2>4 DEF Stats
    <2>6. ListHoldsMap'
      BY <1>1, <2>2, <2>3, <2>5 DEF ListHoldsMap, Lists
    <2> QED
      BY <1>1, <2>2, <2>5, <2>6
  <1>3. CASE Insert(k, entry)
    <2>1. k \notin Cached /\ items' = Written(k, entry) /\ lruList' = <<k>> \o lruList
      BY <1>3 DEF Insert, Written
    <2>2. items' \in [Cached \cup {k} -> Entries]
      BY <2>1, WrittenType DEF IInv
    <2>3. Cached' = Cached \cup {k}
      BY <2>2 DEF Cached
    <2>4. Lists(lruList', Cached') /\ Len(lruList') = Len(lruList) + 1
      BY <1>1, <2>1, <2>3, PushLists
    <2>5. stats' = [stats EXCEPT !.stores = @ + 1, !.entries = Len(lruList')]
      BY <1>3 DEF Insert
    <2>6. Len(lruList') \in Nat /\ stats.stores + 1 \in Nat
      BY <1>1, <2>4 DEF Stats
    <2>7. stats' \in Stats /\ stats'.entries = Len(lruList')
      BY <1>1, <2>5, <2>6 DEF Stats
    <2>8. Len(lruList') <= Capacity
      BY <1>3, <2>4 DEF Insert
    <2>9. ListHoldsMap'
      BY <2>4, <2>7, <2>8 DEF ListHoldsMap, Lists, Capacity
    <2> QED
      BY <1>1, <2>2, <2>3, <2>7, <2>9
  <1>4. CASE InsertEvicting(k, entry)
    <2> DEFINE pushed == <<k>> \o lruList
    <2>1. /\ Lists(pushed, Cached \cup {k})
          /\ Len(pushed) = Len(lruList) + 1
          /\ Len(pushed) \in 1..Len(pushed)
          /\ lruList' = RemoveAt(pushed, Len(pushed))
          /\ Cached' = (Cached \cup {k}) \ {pushed[Len(pushed)]}
          /\ items' \in [Cached' -> Entries]
      BY <1>4, Evicts
    <2> HIDE DEF pushed
    <2>2. /\ Lists(lruList', (Cached \cup {k}) \ {pushed[Len(pushed)]})
          /\ Len(lruList') = Len(pushed) - 1
      BY <2>1, RemoveLists
    <2>3. Lists(lruList', Cached') /\ Len(lruList') = Len(lruList)
      <3>1. Lists(lruList', Cached')
        BY <2>1, <2>2, Zenon
      <3>2. Len(lruList') = Len(lruList)
        BY <1>1, <2>1, <2>2
      <3> QED
        BY <3>1, <3>2
    <2>4. stats' = [stats EXCEPT !.stores = @ + 1, !.evictions = @ + 1,
                                 !.entries = Len(lruList')]
      BY <1>4 DEF InsertEvicting
    <2>5. stats.stores + 1 \in Nat /\ stats.evictions + 1 \in Nat
      BY <1>1 DEF Stats
    <2>6. stats' \in Stats /\ stats'.entries = Len(lruList')
      BY <1>1, <2>3, <2>4, <2>5 DEF Stats
    <2>7. ListHoldsMap'
      BY <1>1, <2>3, <2>6 DEF ListHoldsMap, Lists, Capacity
    <2> QED
      BY <1>1, <2>1, <2>6, <2>7
  <1> QED
    BY <1>2, <1>3, <1>4 DEF Store

\* Every operation keeps list and map together.
LEMMA NextIInv == IInv /\ [Next]_vars => IInv'
  <1> SUFFICES ASSUME IInv, [Next]_vars PROVE IInv'
    OBVIOUS
  <1>1. ASSUME NEW w \in Writers, EndSet(w) PROVE IInv'
    <2>1. setting[w].key \in Keys /\ setting[w].entry \in Entries
      BY <1>1 DEF EndSet, IInv, TypeOK, Idle, Done
    <2>2. /\ Cached' \subseteq Keys /\ items' \in [Cached' -> Entries]
          /\ stats' \in Stats
          /\ ListHoldsMap'
      BY <1>1, <2>1, StoreIInv DEF EndSet
    <2>3. TypeOK'
      BY <1>1, <2>2 DEF EndSet, IInv, TypeOK
    <2> QED
      BY <2>2, <2>3 DEF IInv
  <1>2. ASSUME NEW w \in Writers, NEW k \in Keys, NEW ttl \in TTLs, BeginSet(w, k, ttl)
        PROVE  IInv'
    <2>1. Expiry(ttl) \in Int
      BY ExpiryType DEF IInv, TypeOK
    <2>2. [phase |-> "storing", key |-> k, entry |-> [resp |-> w, expiresAt |-> Expiry(ttl)]]
            \in [phase : {"storing"}, key : Keys, entry : Entries]
      BY <2>1 DEF Entries
    <2>3. TypeOK'
      BY <1>2, <2>2 DEF BeginSet, IInv, TypeOK, Cached
    <2>4. ListHoldsMap'
      BY <1>2 DEF BeginSet, IInv, ListHoldsMap, Lists, Cached
    <2> QED
      BY <2>3, <2>4 DEF IInv
  <1>3. CASE PurgeAll
    <2>1. Cached' = {} /\ items' \in [Cached' -> Entries] /\ lruList' = <<>>
      BY <1>3 DEF PurgeAll, Purge, Cached
    <2>2. Lists(lruList', Cached') /\ Len(lruList') = 0
      BY <2>1 DEF Lists, IsInjective, Range
    <2>3. stats' \in Stats /\ stats'.entries = 0
      BY <1>3 DEF PurgeAll, Purge, IInv, TypeOK, Stats
    <2>4. TypeOK'
      BY <1>3, <2>1, <2>3 DEF PurgeAll, IInv, TypeOK
    <2>5. ListHoldsMap'
      BY <2>2, <2>3, CapacityType DEF ListHoldsMap, Lists
    <2> QED
      BY <2>4, <2>5 DEF IInv
  <1>4. CASE Tick \/ UNCHANGED vars
    BY <1>4 DEF Tick, vars, IInv, TypeOK, ListHoldsMap, Lists, Cached
  <1> QED
    BY <1>1, <1>2, <1>3, <1>4, LookupIInv, DeleteIInv DEF Next

\* The invariant holds throughout.
THEOREM Invariance == Spec => []IInv
  BY InitIInv, NextIInv, PTL DEF Spec

\* List, map and Entries describe the same cache in every state.
LEMMA MatchesFromIInv == IInv => ListMatchesMap /\ WithinCapacity
  <1> SUFFICES ASSUME IInv PROVE ListMatchesMap /\ WithinCapacity
    OBVIOUS
  <1>1. Cardinality(Cached) = Len(lruList)
    BY ListLength DEF IInv, ListHoldsMap
  <1> QED
    BY <1>1 DEF IInv, ListHoldsMap, Lists, ListMatchesMap, WithinCapacity

\* The list and the map of the cache hold the same keys, each of them once,
\* and Entries is their number, after every sequence of Get, Set, Delete and
\* Purge by any number of goroutines.
THEOREM ListAndMapAgree == Spec => []ListMatchesMap
  BY MatchesFromIInv, Invariance, PTL

\* The cache never holds more than its capacity, whatever NewLRUCache was
\* given for it.
THEOREM NeverOverCapacity == Spec => []WithinCapacity
  BY MatchesFromIInv, Invariance, PTL

-----------------------------------------------------------------------------
(* The refinement: LRUCache implements ResponseMap.                        *)

\* A Set in progress has computed the expiry from a moment that has passed.
Timed(w) ==
  setting[w].phase = "storing" =>
    \E ttl \in TTLs, called \in 0..now :
      setting[w].entry = [resp |-> w, expiresAt |-> called + SetTTL(ttl)]

RInv == IInv /\ \A w \in Writers : Timed(w)

\* Nobody is in a Set at first.
LEMMA InitRInv == Init => RInv
  BY InitIInv DEF Init, RInv, Timed, Idle

\* The clock does not run back, and only BeginSet computes an expiry.
LEMMA NextRInv == RInv /\ [Next]_vars => RInv'
  <1> SUFFICES ASSUME RInv, [Next]_vars PROVE RInv'
    OBVIOUS
  <1>1. IInv /\ IInv'
    BY NextIInv DEF RInv
  <1>2. now \in Nat /\ now' \in Nat
    BY <1>1 DEF IInv, TypeOK
  <1>3. now <= now'
    BY <1>2 DEF Next, vars, Lookup, DeleteKey, BeginSet, EndSet, PurgeAll, Tick
  <1>4. ASSUME NEW w \in Writers, setting'[w] = setting[w] PROVE Timed(w)'
    <2> SUFFICES ASSUME setting[w].phase = "storing"
                 PROVE  \E ttl \in TTLs, called \in 0..now' :
                          setting[w].entry = [resp |-> w, expiresAt |-> called + SetTTL(ttl)]
      BY <1>4 DEF Timed
    <2>1. PICK ttl \in TTLs, called \in 0..now :
                 setting[w].entry = [resp |-> w, expiresAt |-> called + SetTTL(ttl)]
      BY DEF RInv, Timed
    <2>2. called \in 0..now'
      BY <1>2, <1>3
    <2> QED
      BY <2>1, <2>2
  <1>5. ASSUME NEW w \in Writers, NEW k \in Keys, NEW ttl \in TTLs, BeginSet(w, k, ttl)
        PROVE  RInv'
    <2>1. /\ DOMAIN setting = Writers /\ now' = now /\ now \in 0..now
          /\ setting' = [setting EXCEPT ![w] =
                           [phase |-> "storing", key |-> k,
                            entry |-> [resp |-> w, expiresAt |-> now + SetTTL(ttl)]]]
      BY <1>1, <1>2, <1>5 DEF BeginSet, Expiry, IInv, TypeOK
    <2>2. Timed(w)'
      BY <2>1 DEF Timed
    <2> QED
      BY <1>1, <1>4, <2>1, <2>2 DEF RInv
  <1>6. ASSUME NEW w \in Writers, EndSet(w) PROVE RInv'
    <2>1. DOMAIN setting = Writers /\ setting' = [setting EXCEPT ![w] = Done]
      BY <1>1, <1>6 DEF EndSet, IInv, TypeOK
    <2>2. Timed(w)'
      BY <2>1 DEF Timed, Done
    <2> QED
      BY <1>1, <1>4, <2>1, <2>2 DEF RInv
  <1>7. CASE setting' = setting
    BY <1>1, <1>4, <1>7 DEF RInv
  <1> QED
    BY <1>5, <1>6, <1>7 DEF Next, vars, Lookup, DeleteKey, PurgeAll, Tick

\* The map of the promise after a Set of k is the one that Set writes.
LEMMA WithIsWritten ==
  ASSUME NEW k, NEW entry
  PROVE  Promise!With(k, entry) = Written(k, entry)
  BY DEF Promise!With, Promise!Held, Written, Cached

\* The promise counts entries and computes lifetimes as the cache does.
LEMMA PromiseAgrees ==
  /\ \A S : Promise!Cardinality(S) = Cardinality(S)
  /\ \A ttl : Promise!SetTTL(ttl) = SetTTL(ttl)
  /\ \A f, S : Promise!Restrict(f, S) = Restrict(f, S)
  <1>1. \A S : Promise!Cardinality(S) = Cardinality(S)
    BY Zenon DEF Promise!Cardinality, Cardinality
  <1>2. \A ttl : Promise!SetTTL(ttl) = SetTTL(ttl)
    BY DEF Promise!SetTTL, SetTTL, Promise!DefaultCacheTTL, DefaultCacheTTL
  <1>3. \A f, S : Promise!Restrict(f, S) = Restrict(f, S)
    BY DEF Promise!Restrict, Restrict
  <1> QED
    BY <1>1, <1>2, <1>3

\* The storing half of Set is one Set of the map: the entry is there, and at
\* most one other is not, which is then a victim of a full cache.
LEMMA StoreRefines ==
  ASSUME IInv, NEW k \in Keys, NEW w \in Writers, NEW ttl \in TTLs, NEW called \in 0..now,
         NEW entry \in Entries, entry = [resp |-> w, expiresAt |-> called + SetTTL(ttl)],
         Store(k, entry), now' = now
  PROVE  Promise!Set(k, w, ttl, called)
  <1>1. /\ Lists(lruList, Cached) /\ Len(lruList) \in Nat
        /\ Len(lruList) <= Capacity /\ Capacity \in Nat \ {0}
        /\ stats \in Stats /\ Cached \subseteq Keys /\ items \in [Cached -> Entries]
        /\ Cardinality(Cached) = Len(lruList)
    BY ListLength, CapacityType DEF IInv, TypeOK, ListHoldsMap
  <1>2. stats'.hits = stats.hits /\ stats'.misses = stats.misses
    BY <1>1 DEF Store, Replace, Insert, InsertEvicting, Stats
  <1>3. Promise!With(k, entry) = Written(k, entry)
    BY WithIsWritten
  <1>4. SUFFICES \/ /\ k \in Cached \/ Cardinality(Cached) < Capacity
                    /\ items' = Written(k, entry)
                 \/ /\ k \notin Cached /\ Cardinality(Cached) = Capacity
                    /\ \E victim \in Cached :
                         items' = Restrict(Written(k, entry), DOMAIN Written(k, entry) \ {victim})
    BY <1>2, <1>3, PromiseAgrees DEF Promise!Set, Promise!Held, Cached
  <1>5. CASE Replace(k, entry)
    BY <1>1, <1>5 DEF Replace, Written, Cached
  <1>6. CASE Insert(k, entry)
    <2>1. k \notin Cached /\ items' = Written(k, entry) /\ Len(lruList) + 1 <= Capacity
      BY <1>6 DEF Insert, Written
    <2>2. Cardinality(Cached) < Capacity
      BY <1>1, <2>1
    <2> QED
      BY <2>1, <2>2
  <1>7. CASE InsertEvicting(k, entry)
    <2>1. PICK pushed : pushed = <<k>> \o lruList
      OBVIOUS
    <2>2. /\ k \notin Cached /\ Len(pushed) > Capacity
          /\ items' = Restrict(Written(k, entry), DOMAIN Written(k, entry) \ {Last(pushed)})
      BY <1>7, <2>1 DEF InsertEvicting, Written
    <2>3. Lists(pushed, Cached \cup {k}) /\ Len(pushed) = Len(lruList) + 1
      BY <1>1, <2>1, <2>2, PushLists
    <2>4. Cardinality(Cached) = Capacity
      BY <1>1, <2>2, <2>3
    <2>5. Last(pushed) \in Cached
      <3>1. Last(pushed) = pushed[Len(lruList) + 1]
        BY <2>3 DEF Last
      <3>2. Len(lruList) \in 1..Len(lruList)
        BY <1>1, <2>4
      <3>3. pushed[Len(lruList) + 1] = lruList[Len(lruList)]
        BY <1>1, <2>1, <3>2 DEF Lists
      <3>4. lruList[Len(lruList)] \in Cached
        BY <1>1, <3>2 DEF Lists, Range
      <3> QED
        BY <3>1, <3>3, <3>4
    <2> QED
      BY <2>2, <2>4, <2>5
  <1> QED
    BY <1>5, <1>6, <1>7 DEF Store

\* Every step of the cache is a step of the map, or changes nothing there: the
\* first half of Set and a stale lookup do not.
LEMMA StepRefines == RInv /\ [Next]_vars => [Promise!Next]_(Promise!vars)
  <1> SUFFICES ASSUME RInv, [Next]_vars PROVE [Promise!Next]_(Promise!vars)
    OBVIOUS
  <1>1. IInv /\ stats \in Stats /\ now \in Nat
    BY DEF RInv, IInv, TypeOK
  <1>2. ASSUME NEW k \in Keys, Lookup(k) PROVE [Promise!Next]_(Promise!vars)
    <2>1. CASE GetHit(k)
      <3>1. /\ stats'.hits = stats.hits + 1 /\ stats'.misses = stats.misses
            /\ items' = items /\ now' = now
        BY <1>1, <1>2, <2>1 DEF GetHit, Lookup, Stats
      <3>2. k \in DOMAIN items /\ now <= items[k].expiresAt
        <4>1. k \in Cached /\ items \in [Cached -> Entries] /\ ~(now > items[k].expiresAt)
          BY <1>1, <2>1 DEF GetHit, Expired, IInv, TypeOK
        <4>2. items[k].expiresAt \in Int
          BY <4>1 DEF Entries
        <4> QED
          BY <1>1, <4>1, <4>2 DEF Cached
      <3>3. Promise!Hit(k)
        BY <3>1, <3>2 DEF Promise!Hit, Promise!Held
      <3> QED
        BY <3>3 DEF Promise!Next
    <2>2. CASE GetStale(k)
      BY <1>2, <2>2 DEF GetStale, Lookup, Promise!vars
    <2>3. CASE GetMiss(k)
      <3>1. /\ stats'.misses = stats.misses + 1 /\ stats'.hits = stats.hits
            /\ items' = items /\ now' = now /\ k \notin DOMAIN items
        BY <1>1, <1>2, <2>3 DEF GetMiss, Lookup, Stats, Cached
      <3>2. Promise!Miss(k)
        BY <3>1 DEF Promise!Miss, Promise!Held
      <3> QED
        BY <3>2 DEF Promise!Next
    <2> QED
      BY <1>2, <2>1, <2>2, <2>3 DEF Lookup
  <1>3. ASSUME NEW k \in Keys, DeleteKey(k) PROVE [Promise!Next]_(Promise!vars)
    <2>1. /\ k \in DOMAIN items /\ items' = Restrict(items, DOMAIN items \ {k})
          /\ stats'.misses = stats.misses /\ stats'.hits = stats.hits /\ now' = now
      BY <1>1, <1>3 DEF DeleteKey, Delete, Stats, Cached
    <2>2. Promise!Delete(k)
      BY <2>1 DEF Promise!Delete, Promise!Held, Promise!Restrict, Restrict
    <2> QED
      BY <2>2 DEF Promise!Next
  <1>4. ASSUME NEW w \in Writers, EndSet(w) PROVE [Promise!Next]_(Promise!vars)
    <2>1. /\ setting[w].key \in Keys /\ setting[w].entry \in Entries
          /\ setting[w].phase = "storing" /\ now' = now
          /\ Store(setting[w].key, setting[w].entry)
      BY <1>1, <1>4 DEF EndSet, IInv, TypeOK, Idle, Done
    <2>2. PICK ttl \in TTLs, called \in 0..now :
                 setting[w].entry = [resp |-> w, expiresAt |-> called + SetTTL(ttl)]
      BY <2>1 DEF RInv, Timed
    <2>3. Promise!Set(setting[w].key, w, ttl, called)
      BY <1>1, <2>1, <2>2, StoreRefines
    <2> QED
      BY <2>1, <2>3 DEF Promise!Next
  <1>5. CASE PurgeAll
    <2>1. /\ items' = [k \in {} |-> {}] /\ now' = now
          /\ stats'.misses = stats.misses /\ stats'.hits = stats.hits
      BY <1>1, <1>5 DEF PurgeAll, Purge, Stats
    <2> QED
      BY <2>1 DEF Promise!Next, Promise!Purge
  <1>6. CASE Tick
    BY <1>6 DEF Tick, Promise!Next, Promise!Tick
  <1>7. CASE UNCHANGED vars \/ \E w \in Writers, k \in Keys, ttl \in TTLs : BeginSet(w, k, ttl)
    BY <1>7 DEF vars, BeginSet, Promise!vars
  <1> QED
    BY <1>2, <1>3, <1>4, <1>5, <1>6, <1>7 DEF Next

\* The cache implements the bounded map: whatever the interleaving of lookups,
\* deletions, purges and the two halves of Sets, every step is one of the
\* map's, for every capacity, every key and every lifetime.
THEOREM Refinement == Spec => ImplementsResponseMap
  <1>1. Init => Promise!Init
    BY DEF Init, Promise!Init
  <1> QED
    BY <1>1, InitRInv, NextRInv, StepRefines, PTL
       DEF Spec, ImplementsResponseMap, Promise!Spec

-----------------------------------------------------------------------------
(* The history: the order of the list, and the balance of the counters.    *)

\* Removing an element keeps the order of the others.
LEMMA RemoveDescends ==
  ASSUME NEW l, NEW S, Lists(l, S), NEW i \in 1..Len(l), NEW f, Descending(l, f)
  PROVE  Descending(RemoveAt(l, i), f)
  <1> DEFINE m == RemoveAt(l, i)
             at(j) == IF j < i THEN j ELSE j + 1
  <1>1. Len(l) \in Nat
    BY DEF Lists
  <1>2. /\ Len(m) = Len(l) - 1
        /\ \A j \in 1..Len(m) : m[j] = IF j < i THEN l[j] ELSE l[j + 1]
    BY RemoveElements
  <1> HIDE DEF m
  <1>3. \A j \in 1..Len(m) : at(j) \in 1..Len(l) /\ m[j] = l[at(j)]
    BY <1>1, <1>2
  <1>4. \A a, b \in 1..Len(m) : a < b => at(a) < at(b)
    BY <1>1, <1>2
  <1> HIDE DEF at
  <1>5. \A a, b \in 1..Len(m) : a < b => f[m[b]] <= f[m[a]]
    BY <1>3, <1>4 DEF Descending
  <1> QED
    BY <1>5 DEF Descending, m

\* Pushing the key used last onto the front keeps the order.
LEMMA PushDescends ==
  ASSUME NEW l, NEW S, Lists(l, S), NEW k \in Keys, k \notin S,
         NEW f \in [Keys -> Nat], NEW n \in Nat, \A x \in Keys : f[x] <= n,
         Descending(l, f)
  PROVE  Descending(<<k>> \o l, [f EXCEPT ![k] = n + 1])
  <1> DEFINE m == <<k>> \o l
             g == [f EXCEPT ![k] = n + 1]
  <1>1. /\ l \in Seq(Keys) /\ Len(l) \in Nat /\ <<k>> \in Seq(Keys)
        /\ \A j \in 1..Len(l) : l[j] \in S /\ l[j] \in Keys
    BY DEF Lists, Range
  <1>2. /\ Len(m) = Len(l) + 1 /\ m[1] = k
        /\ \A j \in 2..Len(m) : m[j] = l[j - 1]
    BY <1>1
  <1> HIDE DEF m
  <1>3. g[k] = n + 1 /\ \A x \in Keys : x # k => g[x] = f[x]
    OBVIOUS
  <1> HIDE DEF g
  <1>4. ASSUME NEW a \in 1..Len(m), NEW b \in 1..Len(m), a < b
        PROVE  g[m[b]] <= g[m[a]]
    <2>1. b - 1 \in 1..Len(l) /\ m[b] = l[b - 1]
      BY <1>1, <1>2, <1>4
    <2>2. g[m[b]] = f[l[b - 1]] /\ f[l[b - 1]] \in Nat
      BY <1>1, <1>3, <2>1
    <2>3. CASE a = 1
      <3>1. g[m[a]] = n + 1
        BY <1>2, <1>3, <2>3
      <3>2. f[l[b - 1]] <= n
        BY <1>1, <2>1
      <3> QED
        BY <2>2, <3>1, <3>2
    <2>4. CASE a # 1
      <3>1. a - 1 \in 1..Len(l) /\ m[a] = l[a - 1] /\ a - 1 < b - 1
        BY <1>1, <1>2, <1>4, <2>4
      <3>2. g[m[a]] = f[l[a - 1]]
        BY <1>1, <1>3, <3>1
      <3> QED
        BY <2>1, <2>2, <3>1, <3>2 DEF Descending
    <2> QED
      BY <2>3, <2>4
  <1> QED
    BY <1>4 DEF Descending, m, g

\* The element of a cached key, and the list without it.
LEMMA WithoutDescends ==
  ASSUME NEW k \in Cached, Lists(lruList, Cached), Descending(lruList, lastUse)
  PROVE  Descending(Without(k), lastUse)
  <1> DEFINE i == CHOOSE i \in DOMAIN lruList : lruList[i] = k
  <1>1. \E j \in DOMAIN lruList : lruList[j] = k
    BY DEF Lists, Range
  <1>2. i \in DOMAIN lruList
    BY <1>1, Zenon
  <1>3. Without(k) = RemoveAt(lruList, i)
    BY DEF Without
  <1> HIDE DEF i
  <1>4. i \in 1..Len(lruList)
    BY <1>2 DEF Lists
  <1> QED
    BY <1>3, <1>4, RemoveDescends

\* A touched key is the most recently used one, and the first.
LEMMA ToFrontDescends ==
  ASSUME HInv, NEW k \in Cached
  PROVE  Descending(ToFront(k), [lastUse EXCEPT ![k] = uses + 1])
  <1>1. Lists(Without(k), Cached \ {k}) /\ Descending(Without(k), lastUse)
    BY WithoutLists, WithoutDescends DEF HInv, IInv, ListHoldsMap
  <1>2. /\ k \in Keys /\ k \notin Cached \ {k} /\ lastUse \in [Keys -> Nat]
        /\ uses \in Nat /\ \A x \in Keys : lastUse[x] <= uses
    BY DEF HInv, HTypeOK, IInv, TypeOK
  <1> QED
    BY <1>1, <1>2, PushDescends DEF ToFront

\* So is a key that Set inserts, whether or not it evicts another.
LEMMA InsertDescends ==
  ASSUME HInv, NEW k \in Keys, k \notin Cached
  PROVE  Descending(<<k>> \o lruList, [lastUse EXCEPT ![k] = uses + 1])
  <1>1. Lists(lruList, Cached) /\ Descending(lruList, lastUse)
    BY DEF HInv, IInv, ListHoldsMap
  <1>2. /\ lastUse \in [Keys -> Nat] /\ uses \in Nat
        /\ \A x \in Keys : lastUse[x] <= uses
    BY DEF HInv, HTypeOK
  <1> QED
    BY <1>1, <1>2, PushDescends

\* A use keeps the types of the history.
LEMMA UsesType ==
  ASSUME HTypeOK, NEW k \in Keys, Uses(k), pushedOut' \in Nat, removed' \in Nat
  PROVE  HTypeOK'
  <1> USE DEF HTypeOK, Uses
  <1>1. uses' = uses + 1 /\ uses' \in Nat
    OBVIOUS
  <1>2. lastUse' \in [Keys -> Nat] /\ lastUse'[k] = uses + 1
    OBVIOUS
  <1>3. \A x \in Keys : x # k => lastUse'[x] = lastUse[x] /\ lastUse[x] \in Nat
    OBVIOUS
  <1>4. \A x \in Keys : lastUse'[x] <= uses'
    BY <1>1, <1>2, <1>3
  <1> QED
    BY <1>1, <1>2, <1>4

\* Every step of the history is a step of the cache.
LEMMA HistoryRefines == [HNext]_historyVars => [Next]_vars
  BY DEF HNext, Next, historyVars, vars

\* What the operations of the map leave behind.
LEMMA GoneFacts ==
  /\ \A k \in Keys : \A e : Replace(k, e) \/ Insert(k, e) => Gone = 0
  /\ PurgeAll => Gone = Cardinality(Cached)
  /\ \A k \in Keys : DeleteKey(k) => Gone = 1
  /\ \A k \in Keys, e \in Entries : HInv /\ InsertEvicting(k, e) => Gone = 1
<1>1. ASSUME NEW k \in Keys, NEW e, Replace(k, e) \/ Insert(k, e) PROVE Gone = 0
  <2>1. Cached \ DOMAIN items' = {}
    <3>1. CASE Replace(k, e)
      BY <3>1 DEF Replace, Cached
    <3>2. CASE Insert(k, e)
      BY <3>2 DEF Insert, Cached
    <3> QED
      BY <1>1, <3>1, <3>2
  <2> QED
    BY <2>1, FS_EmptySet DEF Gone
<1>2. ASSUME PurgeAll PROVE Gone = Cardinality(Cached)
  <2>1. Cached \ DOMAIN items' = Cached
    BY <1>2 DEF PurgeAll, Purge
  <2> QED
    BY <2>1 DEF Gone
<1>3. ASSUME NEW k \in Keys, DeleteKey(k) PROVE Gone = 1
  <2>1. Cached \ DOMAIN items' = {k}
    BY <1>3 DEF DeleteKey, Delete, Restrict, Cached
  <2> QED
    BY <2>1, FS_Singleton DEF Gone
<1>4. ASSUME NEW k \in Keys, NEW e \in Entries, HInv, InsertEvicting(k, e) PROVE Gone = 1
  <2> DEFINE pushed == <<k>> \o lruList
             old == pushed[Len(pushed)]
  <2>0. Len(pushed) > Capacity
    BY <1>4 DEF InsertEvicting
  <2>1. /\ Lists(pushed, Cached \cup {k}) /\ Len(pushed) = Len(lruList) + 1
        /\ Cached' = (Cached \cup {k}) \ {old}
    BY <1>4, Evicts DEF HInv
  <2>2. Lists(lruList, Cached) /\ Len(lruList) \in Nat
    BY <1>4, ListLength DEF HInv, IInv, ListHoldsMap
  <2>3. Len(lruList) \in 1..Len(lruList)
    BY <2>0, <2>1, <2>2, CapacityType
  <2>4. old = lruList[Len(lruList)]
    <3>1. lruList \in Seq(Keys) /\ <<k>> \in Seq(Keys) /\ Len(<<k>>) = 1
      BY <2>2 DEF Lists
    <3> QED
      BY <2>1, <2>2, <2>3, <3>1
  <2>5. old \in Cached
    BY <2>2, <2>3, <2>4 DEF Lists, Range
  <2> HIDE DEF old
  <2>6. k \notin Cached
    BY <1>4 DEF InsertEvicting
  <2>7. Cached \ DOMAIN items' = {old}
    BY <2>1, <2>5, <2>6 DEF Cached
  <2> QED
    BY <2>7, FS_Singleton DEF Gone
<1> QED
  BY <1>1, <1>2, <1>3, <1>4

\* Every operation keeps the order of the list and the balance.
LEMMA NextHInv == HInv /\ [HNext]_historyVars => HInv'
  <1> SUFFICES ASSUME HInv, [HNext]_historyVars PROVE HInv'
    OBVIOUS
  <1>1. IInv'
    BY HistoryRefines, NextIInv DEF HInv
  <1>2. /\ stats \in Stats /\ stats' \in Stats
        /\ stats.entries = Cardinality(Cached) /\ stats'.entries = Len(lruList')
        /\ Len(lruList) = Cardinality(Cached) /\ Cardinality(Cached) \in Nat
        /\ Len(lruList') \in Nat /\ pushedOut \in Nat /\ removed \in Nat
        /\ stats.stores = stats.entries + pushedOut + removed
        /\ stats.evictions >= pushedOut
    <2>1. Cardinality(Cached) = Len(lruList) /\ Len(lruList) \in Nat
      BY ListLength DEF HInv, IInv, ListHoldsMap
    <2>2. stats'.entries = Len(lruList') /\ Len(lruList') \in Nat /\ stats' \in Stats
      BY <1>1 DEF IInv, TypeOK, ListHoldsMap, Stats
    <2> QED
      BY <2>1, <2>2 DEF HInv, IInv, TypeOK, ListHoldsMap, HTypeOK, StoresBalance
  <1>3. ASSUME NEW k \in Keys, Lookup(k),
               IF k \in Cached THEN Uses(k) ELSE UNCHANGED <<lastUse, uses>>,
               UNCHANGED <<pushedOut, removed>>
        PROVE  HInv'
    <2>1. HTypeOK'
      BY <1>3, UsesType DEF HInv, HTypeOK
    <2>2. Descending(lruList', lastUse')
      <3>1. CASE k \in Cached
        <4>1. lruList' = ToFront(k) /\ lastUse' = [lastUse EXCEPT ![k] = uses + 1]
          BY <1>3, <3>1 DEF Lookup, GetHit, GetStale, GetMiss, Uses
        <4> QED
          BY <3>1, <4>1, ToFrontDescends
      <3>2. CASE k \notin Cached
        <4>1. lruList' = lruList /\ lastUse' = lastUse
          BY <1>3, <3>2 DEF Lookup, GetHit, GetStale, GetMiss
        <4> QED
          BY <4>1 DEF HInv
      <3> QED
        BY <3>1, <3>2
    <2>3. /\ stats'.stores = stats.stores /\ stats'.entries = stats.entries
          /\ stats'.evictions = stats.evictions
      BY <1>2, <1>3 DEF Lookup, GetHit, GetStale, GetMiss, Stats
    <2>4. StoresBalance'
      BY <1>2, <1>3, <2>3 DEF StoresBalance
    <2> QED
      BY <1>1, <2>1, <2>2, <2>4 DEF HInv, Descending
  <1>4. ASSUME NEW w \in Writers, EndSet(w), Uses(setting[w].key),
               pushedOut' = pushedOut + Gone, UNCHANGED removed
        PROVE  HInv'
    <2> DEFINE k == setting[w].key
               entry == setting[w].entry
    <2>1. k \in Keys /\ entry \in Entries
      BY <1>4 DEF EndSet, HInv, IInv, TypeOK, Idle, Done
    <2>2. Store(k, entry) /\ lastUse' = [lastUse EXCEPT ![k] = uses + 1]
      BY <1>4 DEF EndSet, Uses
    <2> HIDE DEF k, entry
    <2>0. Uses(k)
      BY <1>4 DEF k
    <2>3. pushedOut' \in Nat => HTypeOK'
      BY <1>2, <1>4, <2>0, <2>1, UsesType DEF HInv
    <2>4. CASE Replace(k, entry)
      <3>1. Descending(lruList', lastUse')
        BY <2>2, <2>4, ToFrontDescends DEF Replace
      <3>2. Len(lruList') = Len(lruList)
        BY <2>4, ToFrontLists DEF Replace, HInv, IInv, TypeOK, ListHoldsMap
      <3>3. stats'.stores = stats.stores /\ stats'.evictions = stats.evictions
        BY <1>2, <2>4 DEF Replace, Stats
      <3>4. pushedOut' = pushedOut /\ StoresBalance'
        <4>1. Gone = 0
          BY <2>1, <2>4, GoneFacts
        <4> QED
          BY <1>2, <1>4, <3>2, <3>3, <4>1 DEF StoresBalance
      <3> QED
        BY <1>1, <1>2, <2>3, <3>1, <3>4 DEF HInv, Descending
    <2>5. CASE Insert(k, entry)
      <3>1. Descending(lruList', lastUse')
        BY <2>1, <2>2, <2>5, InsertDescends DEF Insert
      <3>2. Len(lruList') = Len(lruList) + 1
        BY <2>1, <2>5, PushLists DEF Insert, HInv, IInv, ListHoldsMap
      <3>3. stats'.stores = stats.stores + 1 /\ stats'.evictions = stats.evictions
        BY <1>2, <2>5 DEF Insert, Stats
      <3>4. pushedOut' = pushedOut /\ StoresBalance'
        <4>1. stats.stores \in Nat /\ stats.evictions \in Nat
          BY <1>2 DEF Stats
        <4>2. Gone = 0
          BY <2>1, <2>5, GoneFacts
        <4> QED
          BY <1>2, <1>4, <3>2, <3>3, <4>1, <4>2, SMTT(30) DEF StoresBalance
      <3> QED
        BY <1>1, <1>2, <2>3, <3>1, <3>4 DEF HInv, Descending
    <2>6. CASE InsertEvicting(k, entry)
      <3> DEFINE pushed == <<k>> \o lruList
      <3>1. /\ Lists(pushed, Cached \cup {k})
            /\ Len(pushed) = Len(lruList) + 1
            /\ Len(pushed) \in 1..Len(pushed)
            /\ lruList' = RemoveAt(pushed, Len(pushed))
        BY <2>1, <2>6, Evicts DEF HInv
      <3>2. Descending(pushed, lastUse')
        BY <2>1, <2>2, <2>6, InsertDescends DEF InsertEvicting
      <3> HIDE DEF pushed
      <3>3. Descending(lruList', lastUse') /\ Len(lruList') = Len(pushed) - 1
        BY <3>1, <3>2, RemoveDescends, RemoveLists
      <3>4. stats'.stores = stats.stores + 1 /\ stats'.evictions = stats.evictions + 1
        BY <1>2, <2>6 DEF InsertEvicting, Stats
      <3>5. pushedOut' \in Nat /\ StoresBalance'
        <4>1. stats.stores \in Nat /\ stats.evictions \in Nat
          BY <1>2 DEF Stats
        <4>2. Gone = 1
          BY <2>1, <2>6, GoneFacts
        <4> QED
          BY <1>2, <1>4, <3>1, <3>3, <3>4, <4>1, <4>2, SMTT(30) DEF StoresBalance
      <3> QED
        BY <1>1, <2>3, <3>3, <3>5 DEF HInv, Descending
    <2> QED
      BY <2>2, <2>4, <2>5, <2>6 DEF Store
  <1>5. ASSUME PurgeAll, removed' = removed + Gone, UNCHANGED <<lastUse, uses, pushedOut>>
        PROVE  HInv'
    <2>0. Gone = Cardinality(Cached)
      BY <1>5, GoneFacts
    <2>1. HTypeOK'
      BY <1>2, <1>5, <2>0 DEF HInv, HTypeOK
    <2>2. lruList' = <<>> /\ Descending(lruList', lastUse')
      BY <1>5 DEF PurgeAll, Purge, Descending
    <2>3. stats'.stores = stats.stores /\ stats'.evictions = stats.evictions /\ stats'.entries = 0
      BY <1>2, <1>5 DEF PurgeAll, Purge, Stats
    <2>4. StoresBalance'
      <3>1. stats.stores \in Nat /\ stats.evictions \in Nat
        BY <1>2 DEF Stats
      <3> QED
        BY <1>2, <1>5, <2>0, <2>3, <3>1 DEF StoresBalance
    <2> QED
      BY <1>1, <2>1, <2>2, <2>4 DEF HInv, Descending
  <1>6. ASSUME NEW k \in Keys, DeleteKey(k), removed' = removed + Gone,
               UNCHANGED <<lastUse, uses, pushedOut>>
        PROVE  HInv'
    <2>0. Gone = 1
      BY <1>6, GoneFacts
    <2>1. HTypeOK'
      BY <1>2, <1>6, <2>0 DEF HInv, HTypeOK
    <2>2. k \in Cached /\ lruList' = Without(k)
      BY <1>6 DEF DeleteKey, Delete
    <2>3. Descending(lruList', lastUse') /\ Len(lruList') = Len(lruList) - 1
      BY <1>6, <2>2, WithoutDescends, WithoutLists DEF HInv, IInv, ListHoldsMap
    <2>4. stats'.stores = stats.stores /\ stats'.evictions = stats.evictions + 1
      BY <1>2, <1>6 DEF DeleteKey, Delete, Stats
    <2>5. StoresBalance'
      <3>1. stats.stores \in Nat /\ stats.evictions \in Nat
        BY <1>2 DEF Stats
      <3> QED
        BY <1>2, <1>6, <2>0, <2>3, <2>4, <3>1 DEF StoresBalance
    <2> QED
      BY <1>1, <2>1, <2>3, <2>5 DEF HInv, Descending
  <1>7. ASSUME UNCHANGED <<lruList, stats, lastUse, uses, pushedOut, removed>>
        PROVE  HInv'
    BY <1>1, <1>7 DEF HInv, HTypeOK, Descending, StoresBalance
  <1> QED
    BY <1>3, <1>4, <1>5, <1>6, <1>7 DEF HNext, BeginSet, Tick, historyVars

\* The invariant with the history holds throughout.
THEOREM HistoryInvariance == HSpec => []HInv
  <1>1. HInit => HInv
    <2> SUFFICES ASSUME HInit PROVE HInv
      OBVIOUS
    <2>1. IInv /\ HTypeOK
      BY InitIInv DEF HInit, HTypeOK
    <2>2. Descending(lruList, lastUse) /\ StoresBalance
      BY DEF HInit, Init, Descending, StoresBalance
    <2> QED
      BY <2>1, <2>2 DEF HInv
  <1> QED
    BY <1>1, NextHInv, PTL DEF HSpec

\* Nothing leaves the cache unaccounted: the entries ever stored are those still
\* there and those pushed out, deleted or purged, and every push is counted.
THEOREM StoresAreAccounted == HSpec => []StoresBalance
  <1>1. HInv => StoresBalance
    BY DEF HInv
  <1> QED
    BY <1>1, HistoryInvariance, PTL

\* A Set that pushes an entry out pushes out the one used longest ago, for
\* every capacity and after every sequence of operations.
THEOREM LeastRecentlyUsedGoes == HSpec => EvictsLeastRecent
  <1> DEFINE LeastRecent ==
       \A k \in Cached \ DOMAIN items' :
         stats'.stores = stats.stores + 1 =>
           \A j \in Cached : lastUse[k] <= lastUse[j]
  <1>1. HInv /\ [HNext]_historyVars => [LeastRecent]_historyVars
    <2> SUFFICES ASSUME HInv, HNext, NEW k \in Cached, k \notin Cached',
                        stats'.stores = stats.stores + 1, NEW j \in Cached
                 PROVE  lastUse[k] <= lastUse[j]
      BY DEF Cached
    <2>1. stats \in Stats /\ stats.stores \in Nat
      BY DEF HInv, IInv, TypeOK, Stats
    <2>2. PICK w \in Writers : EndSet(w)
      <3>1. ASSUME NEW x \in Keys, Lookup(x) PROVE stats'.stores = stats.stores
        BY <2>1, <3>1 DEF Lookup, GetHit, GetStale, GetMiss, Stats
      <3>2. ASSUME NEW x \in Keys, DeleteKey(x) PROVE stats'.stores = stats.stores
        BY <2>1, <3>2 DEF DeleteKey, Delete, Stats
      <3>3. ASSUME PurgeAll PROVE stats'.stores = stats.stores
        BY <2>1, <3>3 DEF PurgeAll, Purge, Stats
      <3>4. ASSUME UNCHANGED stats PROVE stats'.stores = stats.stores
        BY <3>4
      <3>5. stats'.stores # stats.stores
        BY <2>1
      <3> QED
        BY <3>1, <3>2, <3>3, <3>4, <3>5 DEF HNext, BeginSet, Tick
    <2> DEFINE n == setting[w].key
               entry == setting[w].entry
    <2>3. n \in Keys /\ entry \in Entries /\ Store(n, entry)
      BY <2>2 DEF EndSet, HInv, IInv, TypeOK, Idle, Done
    <2> HIDE DEF n, entry
    <2>4. InsertEvicting(n, entry)
      <3>1. ASSUME Insert(n, entry) PROVE FALSE
        <4>1. Cached' = Cached \cup {n}
          BY <3>1 DEF Insert, Cached
        <4> QED
          BY <4>1
      <3>2. ASSUME Replace(n, entry) PROVE FALSE
        BY <2>1, <3>2 DEF Replace, Stats
      <3> QED
        BY <2>3, <3>1, <3>2 DEF Store
    <2> DEFINE pushed == <<n>> \o lruList
               last == Len(lruList)
    <2>5. /\ Len(pushed) = last + 1
          /\ Cached' = (Cached \cup {n}) \ {pushed[Len(pushed)]}
      BY <2>3, <2>4, Evicts DEF HInv
    <2>6. Lists(lruList, Cached) /\ last \in Nat
      BY ListLength DEF HInv, IInv, ListHoldsMap
    <2>7. PICK h \in 1..last : lruList[h] = j
      BY <2>6 DEF Lists, Range
    <2>8. last \in 1..last
      BY <2>6, <2>7
    <2>9. pushed[last + 1] = lruList[last]
      <3>1. lruList \in Seq(Keys) /\ <<n>> \in Seq(Keys) /\ Len(<<n>>) = 1
        BY <2>3, <2>6 DEF Lists
      <3> QED
        BY <2>6, <2>8, <3>1
    <2>10. k = lruList[last]
      BY <2>5, <2>9
    <2>11. lastUse[lruList[last]] <= lastUse[lruList[h]]
      <3>1. CASE h = last
        <4>1. lastUse[lruList[last]] \in Nat
          BY <2>10 DEF HInv, HTypeOK, IInv, TypeOK
        <4> QED
          BY <3>1, <4>1
      <3>2. CASE h # last
        BY <2>6, <2>7, <2>8, <3>2 DEF HInv, Descending
      <3> QED
        BY <3>1, <3>2
    <2> QED
      BY <2>7, <2>10, <2>11
  <1> QED
    BY <1>1, HistoryInvariance, PTL DEF HSpec, EvictsLeastRecent

\* The history only records: what it observes is a behaviour of the cache.  So
\* the theorems about Spec hold for HSpec, the specification that TLC checks.
THEOREM HistoryOnlyRecords == HSpec => Spec
  <1>1. HInit => Init
    BY DEF HInit
  <1>2. [HNext]_historyVars => [Next]_vars
    <2> SUFFICES ASSUME [HNext]_historyVars PROVE [Next]_vars
      OBVIOUS
    <2>1. CASE HNext
      BY <2>1 DEF HNext, Next
    <2>2. CASE UNCHANGED historyVars
      BY <2>2 DEF historyVars, vars
    <2> QED
      BY <2>1, <2>2
  <1> QED
    BY <1>1, <1>2, PTL DEF HSpec, Spec

-----------------------------------------------------------------------------
(* The policy.  It shares the default lifetime with the cache.             *)

\* A header of n segments.
Header(h, n) == n \in Nat /\ h \in [1..n -> [name : ResponseNames, value : Values]]

\* The verdict, once there is one, is the decision on this request and this
\* response.
PolicyInv ==
  /\ \E n : Header(Get(response.cacheControl), n)
  /\ response \in [cacheControl : {response.cacheControl}, status : {200, 500},
                   expires : {-1, 0, 5}]
  /\ verdict = Undecided \/ verdict = Decision(request, response)

\* The position whose value parseCacheControl keeps for a name: the last.
LEMMA LastIsKept ==
  ASSUME NEW h, NEW n, Header(h, n), NEW i \in 1..n,
         \A j \in 1..n : h[j].name = h[i].name => j <= i
  PROVE  /\ h[i].name \in DOMAIN parseCacheControl(h)
         /\ parseCacheControl(h)[h[i].name] = h[i].value
<1> DEFINE nm == h[i].name
           P(k) == /\ h[k].name = nm
                   /\ \A m \in DOMAIN h : h[m].name = nm => m <= k
           last == CHOOSE k \in DOMAIN h : P(k)
<1>1. DOMAIN h = 1..n /\ n \in Nat
  BY DEF Header
<1>2. i \in DOMAIN h /\ P(i)
  BY <1>1
<1>3. last \in DOMAIN h /\ P(last)
  BY <1>2, Zenon
<1>4. last = i
  BY <1>1, <1>2, <1>3
<1>5. nm \in Names(h)
  BY <1>2 DEF Names
<1>6. parseCacheControl(h)[nm] = h[last].value
  BY <1>5 DEF parseCacheControl
<1>7. DOMAIN parseCacheControl(h) = Names(h)
  BY DEF parseCacheControl
<1> HIDE DEF last, P
<1>8. QED
  BY <1>4, <1>5, <1>6, <1>7

\* What Last and Reverse make of a header.
LEMMA HeaderFacts ==
  ASSUME NEW h, NEW n, Header(h, n)
  PROVE  /\ Last(h) = h[n]
         /\ n = 0 => h = <<>>
         /\ Header(Reverse(h), n)
         /\ \A i \in 1..n : Reverse(h)[i] = h[(n - i) + 1]
<1> DEFINE S == [name : ResponseNames, value : Values]
<1>1. n \in Nat /\ h \in [1..n -> S]
  BY DEF Header
<1> HIDE DEF S
<1>2. h \in Seq(S) /\ Len(h) = n
  BY <1>1
<1>3. Last(h) = h[n]
  BY <1>2 DEF Last
<1>4. Reverse(h) = [i \in 1..n |-> h[(n - i) + 1]]
  BY <1>2 DEF Reverse
<1>5. \A i \in 1..n : (n - i) + 1 \in 1..n
  BY <1>1
<1>6. Reverse(h) \in [1..n -> S]
  BY <1>1, <1>4, <1>5
<1>7. n = 0 => h = <<>>
  BY <1>2
<1>8. QED
  BY <1>1, <1>3, <1>4, <1>6, <1>7 DEF Header, S

\* Without repeated names the order of the segments leaves no trace.
LEMMA OrderForgotten ==
  ASSUME NEW h, NEW n, Header(h, n),
         \A i, j \in 1..n : h[i].name = h[j].name => i = j
  PROVE  parseCacheControl(Reverse(h)) = parseCacheControl(h)
<1>1. PICK g : g = Reverse(h)
  OBVIOUS
<1>2. Header(g, n) /\ \A i \in 1..n : g[i] = h[(n - i) + 1]
  BY <1>1, HeaderFacts
<1>3. n \in Nat /\ DOMAIN h = 1..n /\ DOMAIN g = 1..n
  BY <1>2 DEF Header
<1>4. \A i \in 1..n : (n - i) + 1 \in 1..n /\ (n - ((n - i) + 1)) + 1 = i
  BY <1>3
<1>5. \A i \in 1..n : g[(n - i) + 1] = h[i]
  BY <1>2, <1>4
<1>6. \A i, j \in 1..n : g[i].name = g[j].name => i = j
  <2> SUFFICES ASSUME NEW i \in 1..n, NEW j \in 1..n, g[i].name = g[j].name PROVE i = j
    OBVIOUS
  <2>1. (n - i) + 1 = (n - j) + 1
    BY <1>2, <1>4
  <2>2. QED
    BY <1>3, <2>1
<1>7. Names(g) = Names(h)
  BY <1>2, <1>3, <1>4, <1>5 DEF Names
<1>8. ASSUME NEW k, Header(k, n), \A i, j \in 1..n : k[i].name = k[j].name => i = j,
             NEW i \in 1..n
      PROVE  parseCacheControl(k)[k[i].name] = k[i].value
  <2>1. \A j \in 1..n : k[j].name = k[i].name => j <= i
    BY <1>3, <1>8
  <2>2. QED
    BY <1>8, <2>1, LastIsKept
<1>9. ASSUME NEW name \in Names(h)
      PROVE  parseCacheControl(g)[name] = parseCacheControl(h)[name]
  <2>1. PICK i \in 1..n : name = h[i].name
    BY <1>3 DEF Names
  <2>2. PICK m : m = (n - i) + 1
    OBVIOUS
  <2>3. m \in 1..n /\ g[m] = h[i]
    BY <1>4, <1>5, <2>2
  <2>4. parseCacheControl(g)[g[m].name] = g[m].value
    BY <1>2, <1>6, <1>8, <2>3
  <2>5. parseCacheControl(h)[h[i].name] = h[i].value
    BY <1>8
  <2>6. QED
    BY <2>1, <2>3, <2>4, <2>5
<1>10. QED
  <2> DEFINE f == parseCacheControl(g)
             e == parseCacheControl(h)
  <2>1. f = [name \in Names(h) |-> f[name]] /\ e = [name \in Names(h) |-> e[name]]
    BY <1>7 DEF parseCacheControl
  <2>2. \A name \in Names(h) : f[name] = e[name]
    BY <1>9
  <2> HIDE DEF f, e
  <2>3. f = e
    BY <2>1, <2>2
  <2>4. QED
    BY <1>1, <2>3 DEF f, e

\* Headers are sequences of segments, and nothing is decided yet.
LEMMA PolicyInitially == PolicyInit => PolicyInv
<1> SUFFICES ASSUME PolicyInit PROVE PolicyInv
  OBVIOUS
<1>1. response \in [cacheControl : Headers(ResponseNames, Values),
                    status : {200, 500}, expires : {-1, 0, 5}]
  BY DEF PolicyInit
<1>2. PICK n \in 0..MaxSegments :
        Get(response.cacheControl) \in [1..n -> [name : ResponseNames, value : Values]]
  <2>1. response.cacheControl \in Headers(ResponseNames, Values)
    BY <1>1
  <2>2. PICK h \in Segments(ResponseNames, Values) :
          response.cacheControl = <<h>> \/ response.cacheControl = <<h, NoStoreLine>>
    BY <2>1, Zenon DEF Headers
  <2>3. Get(response.cacheControl) = h
    BY <2>2 DEF Get
  <2> QED
    BY <2>2, <2>3 DEF Segments
<1>3. n \in Nat
  OBVIOUS
<1>4. Header(Get(response.cacheControl), n)
  BY <1>2, <1>3 DEF Header
<1>5. response \in [cacheControl : {response.cacheControl}, status : {200, 500},
                   expires : {-1, 0, 5}]
  BY <1>1
<1>6. verdict = Undecided
  BY DEF PolicyInit
<1>7. QED
  BY <1>4, <1>5, <1>6 DEF PolicyInv

\* Request and response stay as they are, and the verdict is the decision on them.
LEMMA PolicyStep == PolicyInv /\ [PolicyNext]_policyVars => PolicyInv'
<1> SUFFICES ASSUME PolicyInv, [PolicyNext]_policyVars PROVE PolicyInv'
  OBVIOUS
<1>1. request' = request /\ response' = response
  BY DEF PolicyNext, Decide, Decided, policyVars
<1>2. verdict' = verdict \/ verdict' = Decision(request, response)
  BY DEF PolicyNext, Decide, Decided, policyVars
<1>3. Decision(request, response)' = Decision(request, response)
  BY <1>1 DEF Decision, isCacheableResponse, Eligible,
              isCacheableRequest, clientNoCache, parseCacheControl, Names, Get
<1>4. Undecided' = Undecided
  BY DEF Undecided
<1>5. QED
  BY <1>1, <1>2, <1>3, <1>4 DEF PolicyInv, Header, Get

\* The verdict of isCacheableRequest and isCacheableResponse on every pair of
\* headers of any length.
THEOREM PolicyInvariance == PolicySpec => []PolicyInv
BY PolicyInitially, PolicyStep, PTL DEF PolicySpec

\* What is stored was vetoed by neither side, and a positive lifetime that the
\* upstream grants in its last word or with Expires is the one it is stored
\* with, for headers of any length with any directives.
THEOREM StoresOnlyWhatIsAllowed == PolicySpec => []StoredAsAllowed
<1>1. PolicyInv => StoredAsAllowed
  <2> SUFFICES ASSUME PolicyInv, verdict.xCache = "MISS"
               PROVE  ~Vetoed /\ \A v \in {2, 5} : Grants(v) => verdict.lifetime = v
    BY DEF StoredAsAllowed
  <2>1. verdict = Decision(request, response)
    BY DEF PolicyInv, Undecided
  <2>2. PICK r : r = isCacheableResponse(response)
    OBVIOUS
  <2>3. Eligible(request) /\ r.ok /\ verdict.lifetime = SetTTL(r.ttl)
    BY <2>1, <2>2 DEF Decision
  <2>4. PICK line : line = Get(response.cacheControl)
    OBVIOUS
  <2>5. PICK cc : cc = parseCacheControl(line)
    OBVIOUS
  <2>6. "no-store" \notin DOMAIN cc /\ DOMAIN cc = Names(line)
    <3>1. "no-store" \notin DOMAIN cc
      BY <2>2, <2>3, <2>4, <2>5 DEF isCacheableResponse
    <3>2. DOMAIN cc = Names(line)
      BY <2>5 DEF parseCacheControl
    <3>3. QED
      BY <3>1, <3>2
  <2>7. ~Vetoed
    BY <2>3, <2>4, <2>6 DEF Vetoed, Eligible, isCacheableRequest, clientNoCache
  <2>8. ASSUME NEW v \in {2, 5}, Grants(v)
        PROVE  verdict.lifetime = v
    <3>1. CASE line # <<>>
      <4>1. PICK n : Header(line, n)
        BY <2>4 DEF PolicyInv
      <4>2. n \in 1..n /\ \A j \in 1..n : j <= n
        <5>1. n \in Nat /\ n # 0
          BY <3>1, <4>1, HeaderFacts DEF Header
        <5>2. QED
          BY <5>1
      <4>3. PICK seg : seg = line[n] /\ seg = Last(line)
        BY <4>1, HeaderFacts
      <4>4. seg.name \in DOMAIN cc /\ cc[seg.name] = seg.value
        <5>1. \A j \in 1..n : line[j].name = line[n].name => j <= n
          BY <4>2
        <5>2. /\ line[n].name \in DOMAIN parseCacheControl(line)
              /\ parseCacheControl(line)[line[n].name] = line[n].value
          BY <4>1, <4>2, <5>1, LastIsKept
        <5>3. QED
          BY <2>5, <4>3, <5>2
      <4>5. /\ Parses(seg.value) /\ v = Seconds[seg.value]
            /\ \/ seg.name = "s-maxage"
               \/ seg.name = "max-age" /\ "s-maxage" \notin DOMAIN cc
        BY <2>4, <2>6, <2>8, <3>1, <4>3 DEF Grants
      <4>6. r.ttl = Seconds[seg.value]
        BY <2>2, <2>3, <2>4, <2>5, <4>4, <4>5 DEF isCacheableResponse
      <4>7. QED
        BY <2>3, <4>5, <4>6 DEF SetTTL
    <3>2. CASE line = <<>>
      <4>1. v = response.expires
        BY <2>4, <2>8, <3>2 DEF Grants
      <4>2. DOMAIN cc = {}
        BY <2>6, <3>2 DEF Names
      <4>3. r.ttl = v
        BY <2>2, <2>3, <2>4, <2>5, <4>1, <4>2 DEF isCacheableResponse
      <4>4. QED
        BY <2>3, <4>3 DEF SetTTL
    <3>3. QED
      BY <3>1, <3>2
  <2>9. QED
    BY <2>7, <2>8
<1>2. QED
  BY PolicyInvariance, <1>1, PTL

\* The order of the segments of a response header does not matter as long as no
\* directive is repeated: parseCacheControl builds the same map.
THEOREM OrderDoesNotMatter == PolicySpec => []OrderIrrelevant
<1>1. PolicyInv => OrderIrrelevant
  <2> DEFINE h == Get(response.cacheControl)
             turned == [response EXCEPT !.cacheControl = <<Reverse(h)>>]
  <2> SUFFICES ASSUME PolicyInv, verdict # Undecided,
                      \A m, n \in DOMAIN h : h[m].name = h[n].name => m = n
               PROVE  verdict = Decision(request, turned)
    BY DEF OrderIrrelevant
  <2>1. verdict = Decision(request, response)
    BY DEF PolicyInv
  <2>2. PICK n : Header(h, n)
    BY DEF PolicyInv
  <2>3. DOMAIN h = 1..n
    BY <2>2 DEF Header
  <2>4. parseCacheControl(Reverse(h)) = parseCacheControl(h)
    BY <2>2, <2>3, OrderForgotten
  <2>5. turned.status = response.status /\ turned.expires = response.expires
        /\ Get(turned.cacheControl) = Reverse(h)
    BY DEF PolicyInv, Get
  <2> HIDE DEF turned
  <2>6. isCacheableResponse(turned) = isCacheableResponse(response)
    BY <2>4, <2>5, Zenon DEF isCacheableResponse
  <2>7. QED
    BY <2>1, <2>6 DEF Decision
<1>2. QED
  BY PolicyInvariance, <1>1, PTL
==============================================================================
