----------------------------- MODULE ItemsProofs -----------------------------
(***************************************************************************)
(* What holds of the example upstream behind the cache for every set of    *)
(* requests and operations and every size of the cache: acknowledged       *)
(* writes happened, identifiers are never given twice, the upstream's      *)
(* metrics are exact, and a read served from the cache is what the store   *)
(* held when the answer was made.                                          *)
(***************************************************************************)
EXTENDS Items, FiniteSetTheorems, TLAPS

-----------------------------------------------------------------------------
(* The inductive invariant.                                                *)

Stages == {"outside", "inside", "handled", "left"}
Places == {"arriving", "upstream", "caching", "done"}

TypeOK ==
  /\ op \in [Requests -> Operations]
  /\ nextID \in Nat /\ nextID >= 3
  /\ DOMAIN data \subseteq 1..(nextID - 1)
  /\ writes \in Nat
  /\ stage \in [Requests -> Stages]
  /\ DOMAIN reply = Requests
  /\ upInflight \in Int
  /\ upRequestsTotal \in [Statuses -> Nat]
  /\ pc \in [Requests -> Places]
  /\ DOMAIN answer = Requests
  /\ storedAt \in [Requests -> Nat]
  /\ readAt \in [Requests -> Nat]
  /\ now \in Nat
  /\ DOMAIN setting = Requests

Handled(r) == stage[r] \in {"handled", "left"}

\* What is known of the reply to r, by status: a creation shows the item it
\* made, under an id given out before now;
Creates(r) ==
  reply[r].status = 201 =>
    /\ op[r].method = "POST"
    /\ \E id \in 3..(nextID - 1) : DOMAIN reply[r].body = {id}

\* an update shows what was sent;
Updates(r) ==
  (op[r].method = "PUT" /\ reply[r].status < 400) =>
    /\ reply[r].status = 200
    /\ reply[r].body[op[r].id].value = r
    /\ NamesInFull(r) => reply[r].body[op[r].id].name = r

\* a deletion left the store without the item, for good;
Deletes(r) ==
  op[r].method = "DELETE" =>
    /\ op[r].path = "item" => reply[r].status \in {204, 404}
    /\ op[r].path = "items" => reply[r].status = 405
    /\ reply[r].status = 204 => op[r].id \in (1..(nextID - 1)) \ DOMAIN data

\* and a read is what the store holds, unless it has changed since.
Reads(r) ==
  op[r].method = "GET" =>
    /\ readAt[r] <= writes
    /\ readAt[r] = writes => reply[r] = Current(op[r])

ReplyOK(r) ==
  Handled(r) =>
    /\ reply[r].status \in Statuses
    /\ Creates(r) /\ Updates(r) /\ Deletes(r) /\ Reads(r)

\* No two creations share an id, and of several requests for a deletion one
\* at most carries it out.
Apart(p, q) ==
  (p # q /\ Handled(p) /\ Handled(q)) =>
    /\ (reply[p].status = 201 /\ reply[q].status = 201) =>
         DOMAIN reply[p].body \cap DOMAIN reply[q].body = {}
    /\ (op[p].method = "DELETE" /\ op[q] = op[p] /\ reply[p].status = 204) =>
         reply[q].status = 404

StoreInv ==
  /\ \A r \in Requests : ReplyOK(r)
  /\ \A p, q \in Requests : Apart(p, q)

\* p went upstream, and its client was told that the answer is cached.
CachedFrom(p) ==
  /\ p \in Requests
  /\ pc[p] \in {"caching", "done"}
  /\ stage[p] = "left"
  /\ reply[p].status \in CacheableStatus
  /\ answer[p] = [cache |-> "MISS", of |-> p]

\* Or that it is not.
Bypassed(r) ==
  /\ pc[r] = "done"
  /\ stage[r] = "left"
  /\ reply[r].status \notin CacheableStatus
  /\ answer[r].of = r

\* Where the answer to r comes from.
AnswerOK(r) ==
  /\ answer[r] # <<>> =>
       \/ CachedFrom(answer[r].of) /\ op[answer[r].of] = op[r]
       \/ Bypassed(r)
  /\ pc[r] = "caching" => CachedFrom(r)

\* A Set in progress stores the answer of the request that runs it.
SettingOK(r) ==
  setting[r].phase = "storing" =>
    /\ setting[r].key = op[r]
    /\ setting[r].entry = [resp |-> r, expiresAt |-> storedAt[r] + MaxAge]

\* An entry is such an answer to a request like the ones it is served to.
EntryOK(k) ==
  LET p == items[k].resp
  IN /\ CachedFrom(p)
     /\ op[p] = k
     /\ setting[p] = Cache!Done
     /\ items[k].expiresAt = storedAt[p] + MaxAge

ProxyInv ==
  /\ \A r \in Requests : AnswerOK(r) /\ SettingOK(r)
  /\ \A k \in DOMAIN items : EntryOK(k)

IInv == TypeOK /\ StoreInv /\ ProxyInv /\ UpstreamMetricsExact

-----------------------------------------------------------------------------
(* The handlers, one by one.                                               *)

\* What every handler does besides its work on the store.
LEMMA HandlesOne ==
  ASSUME TypeOK, NEW r \in Requests, NEW p, NEW m, NEW status, NEW body,
         Handles(r, p, m, status, body)
  PROVE  /\ stage[r] = "inside" /\ op[r].path = p /\ op[r].method = m
         /\ stage'[r] = "handled" /\ stage' \in [Requests -> Stages]
         /\ reply'[r] = [status |-> status, body |-> body]
         /\ reply'[r].status = status /\ reply'[r].body = body
         /\ DOMAIN reply' = Requests
         /\ \A q \in Requests : q # r => stage'[q] = stage[q] /\ reply'[q] = reply[q]
         /\ op' = op /\ upInflight' = upInflight /\ upRequestsTotal' = upRequestsTotal
<1>1. stage[r] = "inside" /\ op[r].path = p /\ op[r].method = m
  BY DEF Handles
<1>2. stage'[r] = "handled" /\ stage' \in [Requests -> Stages]
  BY DEF Handles, TypeOK, Stages
<1>3. /\ reply'[r] = [status |-> status, body |-> body]
      /\ DOMAIN reply' = Requests
      /\ \A q \in Requests : q # r => stage'[q] = stage[q] /\ reply'[q] = reply[q]
  BY DEF Handles, TypeOK
<1>4. reply'[r].status = status /\ reply'[r].body = body
  BY <1>3
<1>5. op' = op /\ upInflight' = upInflight /\ upRequestsTotal' = upRequestsTotal
  BY DEF Handles, upstreamMetrics
<1>6. QED
  BY <1>1, <1>2, <1>3, <1>4, <1>5

\* How a handler moves the store: ids are given out in order and never again,
\* and every change is counted.
StoreMove ==
  /\ nextID' \in Nat /\ nextID' >= nextID
  /\ DOMAIN data' \subseteq 1..(nextID' - 1)
  /\ \A id \in DOMAIN data' : id \in DOMAIN data \/ id >= nextID
  /\ writes' \in Nat
  /\ (data' = data /\ writes' = writes) \/ writes' = writes + 1

\* What the handler replied to r, by method.
Replied(r) ==
  /\ reply'[r].status \in Statuses
  /\ reply'[r].status = 201 => /\ op[r].method = "POST"
                               /\ DOMAIN reply'[r].body = {nextID}
                               /\ nextID' = nextID + 1
  /\ (op[r].method = "PUT" /\ reply'[r].status < 400) =>
       /\ reply'[r].status = 200
       /\ reply'[r].body[op[r].id].value = r
       /\ NamesInFull(r) => reply'[r].body[op[r].id].name = r
  /\ (op[r].method = "DELETE" /\ op[r].path = "item") =>
       \/ reply'[r].status = 204 /\ op[r].id \in DOMAIN data /\ op[r].id \notin DOMAIN data'
       \/ reply'[r].status = 404 /\ op[r].id \notin DOMAIN data
  /\ (op[r].method = "DELETE" /\ op[r].path = "items") => reply'[r].status = 405
  /\ op[r].method = "GET" => data' = data /\ reply'[r] = Current(op[r])

LEMMA StoreStays ==
  ASSUME TypeOK, UNCHANGED storeVars
  PROVE  StoreMove /\ data' = data
BY DEF TypeOK, storeVars, StoreMove

\* A found item has an id in the store, a missing one has none.
LEMMA FoundIsThere ==
  ASSUME TypeOK, NEW r \in Requests
  PROVE  Found(r) <=> op[r].id \in DOMAIN data
<1>1. \A id \in DOMAIN data : id \in Nat \ {0}
  BY DEF TypeOK
<1>2. QED
  BY <1>1 DEF Found, ParsedID

LEMMA ListReplies ==
  ASSUME TypeOK, NEW r \in Requests, list(r)
  PROVE  Replied(r) /\ StoreMove
<1>1. Handles(r, "items", "GET", 200, data) /\ UNCHANGED storeVars
  BY DEF list
<1>2. /\ op[r].path = "items" /\ op[r].method = "GET" /\ reply'[r].status = 200
      /\ reply'[r] = [status |-> 200, body |-> data]
  BY <1>1, HandlesOne
<1>3. data' = data /\ StoreMove
  BY <1>1, StoreStays
<1>4. Current(op[r]) = [status |-> 200, body |-> data]
  BY <1>2 DEF Current
<1>5. QED
  BY <1>2, <1>3, <1>4 DEF Replied, Statuses

LEMMA CreateReplies ==
  ASSUME TypeOK, NEW r \in Requests, create(r)
  PROVE  Replied(r) /\ StoreMove
<1>1. PICK input \in Decoded(r) \ {"none", "malformed"} :
        LET item == [name |-> Named(r, input), value |-> r]
        IN /\ ~Blank(input)
           /\ Handles(r, "items", "POST", 201, [id \in {nextID} |-> item])
           /\ nextID' = nextID + 1
           /\ Write([id \in DOMAIN data \cup {nextID} |->
                       IF id = nextID THEN item ELSE data[id]])
  BY Zenon DEF create
<1> DEFINE item == [name |-> Named(r, input), value |-> r]
           shown == [id \in {nextID} |-> item]
           new == [id \in DOMAIN data \cup {nextID} |-> IF id = nextID THEN item ELSE data[id]]
<1>2. Handles(r, "items", "POST", 201, shown) /\ nextID' = nextID + 1 /\ Write(new)
  BY <1>1
<1>3. DOMAIN shown = {nextID} /\ DOMAIN new = DOMAIN data \cup {nextID}
  OBVIOUS
<1> HIDE DEF item, shown, new
<1>4. /\ op[r].path = "items" /\ op[r].method = "POST" /\ reply'[r].status = 201
      /\ reply'[r].body = shown
  BY <1>2 DEF Handles, TypeOK
<1>5. data' = new /\ writes' = writes + 1
  BY <1>2 DEF Write
<1>6. StoreMove
  <2>1. /\ nextID \in Nat /\ nextID >= 3 /\ writes \in Nat
        /\ \A id \in DOMAIN data : id \in 1..(nextID - 1)
    BY DEF TypeOK
  <2>2. \A id \in DOMAIN data' : id \in DOMAIN data \/ id = nextID
    BY <1>3, <1>5
  <2>3. \A id \in DOMAIN data' : id \in 1..((nextID + 1) - 1)
    BY <2>1, <2>2
  <2>4. QED
    BY <1>2, <1>5, <2>1, <2>2, <2>3 DEF StoreMove
<1>7. QED
  BY <1>2, <1>3, <1>4, <1>6 DEF Replied, Statuses

LEMMA CreateInvalidReplies ==
  ASSUME TypeOK, NEW r \in Requests, CreateInvalid(r)
  PROVE  Replied(r) /\ StoreMove
<1>1. Handles(r, "items", "POST", 400, None) /\ UNCHANGED storeVars
  BY DEF CreateInvalid
<1>2. op[r].method = "POST" /\ reply'[r].status = 400
  BY <1>1 DEF Handles, TypeOK
<1>3. QED
  BY <1>1, <1>2, StoreStays DEF Replied, Statuses

LEMMA GetReplies ==
  ASSUME TypeOK, NEW r \in Requests, get(r)
  PROVE  Replied(r) /\ StoreMove
<1>1. /\ Handles(r, "item", "GET", 200, Restrict(data, {op[r].id}))
      /\ UNCHANGED storeVars /\ op[r].id \in DOMAIN data
  BY FoundIsThere DEF get
<1>2. /\ op[r].path = "item" /\ op[r].method = "GET" /\ reply'[r].status = 200
      /\ reply'[r] = [status |-> 200, body |-> Restrict(data, {op[r].id})]
  BY <1>1, HandlesOne
<1>3. data' = data /\ StoreMove
  BY <1>1, StoreStays
<1>4. Current(op[r]) = [status |-> 200, body |-> Restrict(data, {op[r].id})]
  BY <1>1, <1>2 DEF Current
<1>5. QED
  BY <1>2, <1>3, <1>4 DEF Replied, Statuses

LEMMA UpdateReplies ==
  ASSUME TypeOK, NEW r \in Requests, update(r)
  PROVE  Replied(r) /\ StoreMove
<1>1. PICK input \in Decoded(r) \ {"none", "malformed"} :
        LET name == IF Blank(input) THEN data[op[r].id].name ELSE Named(r, input)
            item == [name |-> name, value |-> r]
        IN /\ Found(r)
           /\ Handles(r, "item", "PUT", 200, [id \in {op[r].id} |-> item])
           /\ Write([data EXCEPT ![op[r].id] = item])
           /\ UNCHANGED nextID
  BY Zenon DEF update
<1> DEFINE name == IF Blank(input) THEN data[op[r].id].name ELSE Named(r, input)
           item == [name |-> name, value |-> r]
           shown == [id \in {op[r].id} |-> item]
           new == [data EXCEPT ![op[r].id] = item]
<1>2. /\ Handles(r, "item", "PUT", 200, shown) /\ Write(new) /\ nextID' = nextID
  BY <1>1
<1>3. DOMAIN new = DOMAIN data /\ shown[op[r].id] = item
  OBVIOUS
<1>4. item.value = r /\ item.name = name
  OBVIOUS
<1>5. NamesInFull(r) => name = r
  BY DEF Decoded, Blank, Named, NamesInFull
<1> HIDE DEF name, item, shown, new
<1>6. /\ op[r].method = "PUT" /\ reply'[r].status = 200 /\ reply'[r].body = shown
  BY <1>2 DEF Handles, TypeOK
<1>7. data' = new /\ writes' = writes + 1
  BY <1>2 DEF Write
<1>8. StoreMove
  BY <1>2, <1>3, <1>7 DEF TypeOK, StoreMove
<1>9. QED
  BY <1>3, <1>4, <1>5, <1>6, <1>8 DEF Replied, Statuses

LEMMA UpdateInvalidReplies ==
  ASSUME TypeOK, NEW r \in Requests, UpdateInvalid(r)
  PROVE  Replied(r) /\ StoreMove
<1>1. Handles(r, "item", "PUT", 400, None) /\ UNCHANGED storeVars
  BY DEF UpdateInvalid
<1>2. op[r].method = "PUT" /\ reply'[r].status = 400
  BY <1>1 DEF Handles, TypeOK
<1>3. QED
  BY <1>1, <1>2, StoreStays DEF Replied, Statuses

LEMMA DeleteReplies ==
  ASSUME TypeOK, NEW r \in Requests, delete(r)
  PROVE  Replied(r) /\ StoreMove
<1> DEFINE new == Restrict(data, DOMAIN data \ {op[r].id})
<1>1. /\ Handles(r, "item", "DELETE", 204, None) /\ Write(new) /\ nextID' = nextID
      /\ op[r].id \in DOMAIN data
  BY FoundIsThere DEF delete
<1>2. DOMAIN new = DOMAIN data \ {op[r].id}
  BY DEF Restrict
<1> HIDE DEF new
<1>3. op[r].method = "DELETE" /\ op[r].path = "item" /\ reply'[r].status = 204
  BY <1>1 DEF Handles, TypeOK
<1>4. data' = new /\ writes' = writes + 1
  BY <1>1 DEF Write
<1>5. StoreMove
  BY <1>1, <1>2, <1>4 DEF TypeOK, StoreMove
<1>6. QED
  BY <1>1, <1>2, <1>3, <1>4, <1>5 DEF Replied, Statuses

LEMMA NotFoundReplies ==
  ASSUME TypeOK, NEW r \in Requests, NotFound(r)
  PROVE  Replied(r) /\ StoreMove
<1>1. /\ Handles(r, "item", op[r].method, 404, None) /\ UNCHANGED storeVars
      /\ op[r].id \notin DOMAIN data
  BY FoundIsThere DEF NotFound
<1>2. /\ op[r].path = "item" /\ reply'[r].status = 404
      /\ reply'[r] = [status |-> 404, body |-> None]
  BY <1>1, HandlesOne
<1>3. data' = data /\ StoreMove
  BY <1>1, StoreStays
<1>4. Current(op[r]) = [status |-> 404, body |-> None]
  BY <1>1, <1>2 DEF Current
<1>5. QED
  BY <1>1, <1>2, <1>3, <1>4 DEF Replied, Statuses

LEMMA MethodNotAllowedReplies ==
  ASSUME TypeOK, NEW r \in Requests, MethodNotAllowed(r)
  PROVE  Replied(r) /\ StoreMove
<1>1. Handles(r, op[r].path, op[r].method, 405, None) /\ UNCHANGED storeVars
  BY DEF MethodNotAllowed
<1>2. reply'[r].status = 405
  BY <1>1 DEF Handles, TypeOK
<1>3. /\ op[r].method # "GET"
      /\ op[r].path = "item" => op[r].method # "DELETE"
  BY DEF MethodNotAllowed
<1>4. QED
  BY <1>1, <1>2, <1>3, StoreStays DEF Replied, Statuses

LEMMA HandleReplies ==
  ASSUME TypeOK, NEW r \in Requests, Handle(r)
  PROVE  /\ Replied(r) /\ StoreMove
         /\ stage[r] = "inside" /\ stage'[r] = "handled" /\ stage' \in [Requests -> Stages]
         /\ DOMAIN reply' = Requests
         /\ \A q \in Requests : q # r => stage'[q] = stage[q] /\ reply'[q] = reply[q]
         /\ op' = op /\ upInflight' = upInflight /\ upRequestsTotal' = upRequestsTotal
<1>1. Replied(r) /\ StoreMove
  BY ListReplies, CreateReplies, CreateInvalidReplies, GetReplies, UpdateReplies,
     UpdateInvalidReplies, DeleteReplies, NotFoundReplies, MethodNotAllowedReplies
     DEF Handle
<1>2. \E p, m, status, body : Handles(r, p, m, status, body)
  BY ZenonT(60) DEF Handle, list, create, CreateInvalid, get, update, UpdateInvalid, delete,
         NotFound, MethodNotAllowed
<1>3. QED
  BY <1>1, <1>2, HandlesOne

-----------------------------------------------------------------------------
(* The store.                                                              *)

\* An id given out stays one, and is not given out again.
LEMMA GivenOut ==
  ASSUME NEW n \in Nat, NEW m \in Nat, m >= n, NEW id \in 1..(n - 1)
  PROVE  id \in 1..(m - 1) /\ ~(id >= n)
OBVIOUS

\* What is known of a reply stays true while the store moves on.
LEMMA ReplyKept ==
  ASSUME TypeOK, StoreMove, NEW q \in Requests, ReplyOK(q), op' = op,
         Handled(q)' => Handled(q),
         Handled(q) => reply'[q] = reply[q] /\ readAt'[q] = readAt[q]
  PROVE  ReplyOK(q)'
<1> SUFFICES ASSUME Handled(q)'
             PROVE  /\ reply'[q].status \in Statuses
                    /\ Creates(q)' /\ Updates(q)' /\ Deletes(q)' /\ Reads(q)'
  BY DEF ReplyOK
<1>1. /\ reply'[q] = reply[q] /\ readAt'[q] = readAt[q]
      /\ reply[q].status \in Statuses
      /\ Creates(q) /\ Updates(q) /\ Deletes(q) /\ Reads(q)
  BY DEF ReplyOK
<1>2. /\ nextID \in Nat /\ nextID' \in Nat /\ nextID' >= nextID
      /\ writes \in Nat /\ writes' \in Nat /\ readAt[q] \in Nat
  BY DEF TypeOK, StoreMove
<1>3. Creates(q)'
  <2>1. \A id \in 3..(nextID - 1) : id \in 3..(nextID' - 1)
    BY <1>2
  <2>2. QED
    BY <1>1, <2>1 DEF Creates
<1>4. Updates(q)'
  BY <1>1 DEF Updates, NamesInFull
<1>5. Deletes(q)'
  <2>1. \A id \in (1..(nextID - 1)) \ DOMAIN data : id \in (1..(nextID' - 1)) \ DOMAIN data'
    <3>1. \A id \in 1..(nextID - 1) : id \in 1..(nextID' - 1) /\ ~(id >= nextID)
      BY <1>2, GivenOut
    <3>2. \A id \in DOMAIN data' : id \in DOMAIN data \/ id >= nextID
      BY DEF StoreMove
    <3>3. QED
      BY <3>1, <3>2
  <2>2. QED
    BY <1>1, <2>1 DEF Deletes
<1>6. Reads(q)'
  <2>1. data' = data => Current(op[q])' = Current(op[q])
    BY DEF Current
  <2>2. writes' >= writes /\ (writes' = writes => data' = data)
    <3>1. (data' = data /\ writes' = writes) \/ writes' = writes + 1
      BY DEF StoreMove
    <3>2. QED
      BY <1>2, <3>1
  <2>3. CASE writes' = writes
    BY <1>1, <2>1, <2>2, <2>3 DEF Reads
  <2>4. CASE writes' # writes
    <3>1. op[q].method = "GET" => readAt[q] <= writes
      BY <1>1 DEF Reads
    <3>2. op[q].method = "GET" => readAt[q] <= writes' /\ readAt[q] # writes'
      BY <1>2, <2>2, <2>4, <3>1
    <3>3. QED
      BY <1>1, <3>2 DEF Reads
  <2>5. QED
    BY <2>3, <2>4
<1>7. QED
  BY <1>1, <1>3, <1>4, <1>5, <1>6

\* A new reply is as the handler made it.
LEMMA ReplyMade ==
  ASSUME TypeOK, TypeOK', NEW r \in Requests, Replied(r), StoreMove, op' = op,
         readAt'[r] = writes'
  PROVE  ReplyOK(r)'
<1>1. /\ nextID \in Nat /\ nextID' \in Nat /\ nextID >= 3
      /\ DOMAIN data \subseteq 1..(nextID - 1) /\ nextID' >= nextID
  BY DEF TypeOK, StoreMove
<1>2. Creates(r)'
  <2>1. nextID' = nextID + 1 => nextID \in 3..(nextID' - 1)
    BY <1>1
  <2>2. QED
    BY <2>1 DEF Replied, Creates
<1>3. Updates(r)'
  BY DEF Replied, Updates, NamesInFull
<1>4. Deletes(r)'
  <2>1. op[r].path \in {"items", "item"}
    BY OperationsAssumption DEF TypeOK
  <2>2. \A id \in DOMAIN data : id \notin DOMAIN data' => id \in (1..(nextID' - 1)) \ DOMAIN data'
    BY <1>1
  <2>3. QED
    BY <2>1, <2>2 DEF Replied, Deletes
<1>5. Reads(r)'
  <2>1. data' = data => Current(op[r])' = Current(op[r])
    BY DEF Current
  <2>2. writes' <= writes'
    BY DEF TypeOK
  <2>3. QED
    BY <2>1, <2>2 DEF Replied, Reads
<1>6. QED
  BY <1>2, <1>3, <1>4, <1>5 DEF ReplyOK, Replied

\* A reply is made apart from all others: a creation takes a new id, and a
\* deletion finds the item only if no other has.
LEMMA ApartMade ==
  ASSUME TypeOK, StoreInv, NEW r \in Requests, Replied(r), op' = op,
         NEW q \in Requests, q # r, Handled(q)' => Handled(q), reply'[q] = reply[q]
  PROVE  Apart(r, q)' /\ Apart(q, r)'
<1> SUFFICES ASSUME Handled(q)
             PROVE  Apart(r, q)' /\ Apart(q, r)'
  BY DEF Apart
<1>1. Creates(q) /\ Deletes(q)
  BY DEF StoreInv, ReplyOK
<1>2. (reply'[r].status = 201 /\ reply[q].status = 201) =>
        DOMAIN reply'[r].body \cap DOMAIN reply[q].body = {}
  <2>1. nextID \in Nat /\ \A id \in 3..(nextID - 1) : id # nextID
    BY DEF TypeOK
  <2>2. QED
    BY <1>1, <2>1 DEF Creates, Replied
<1>3. op[q].path \in {"items", "item"}
  BY OperationsAssumption DEF TypeOK
<1>4. (op[r].method = "DELETE" /\ op[q] = op[r] /\ reply'[r].status = 204) =>
        reply[q].status = 404
  <2> SUFFICES ASSUME op[r].method = "DELETE", op[q] = op[r], reply'[r].status = 204
               PROVE  reply[q].status = 404
    OBVIOUS
  <2>1. op[r].path = "item"
    BY <1>3 DEF Replied
  <2>2. op[q].id \in DOMAIN data
    BY <2>1 DEF Replied
  <2>3. reply[q].status # 204 /\ reply[q].status \in {204, 404}
    BY <1>1, <2>1, <2>2 DEF Deletes
  <2>4. QED
    BY <2>3
<1>5. (op[q].method = "DELETE" /\ op[r] = op[q] /\ reply[q].status = 204) =>
        reply'[r].status = 404
  <2> SUFFICES ASSUME op[q].method = "DELETE", op[r] = op[q], reply[q].status = 204
               PROVE  reply'[r].status = 404
    OBVIOUS
  <2>1. op[q].path = "item"
    BY <1>1, <1>3 DEF Deletes
  <2>2. op[r].id \notin DOMAIN data
    BY <1>1 DEF Deletes
  <2>3. QED
    BY <2>1, <2>2 DEF Replied
<1>6. QED
  BY <1>2, <1>4, <1>5 DEF Apart

\* Steps that leave the upstream alone leave what is known of it.
LEMMA StoreUntouched ==
  ASSUME StoreInv, op' = op, UNCHANGED <<nextID, data, writes, readAt, reply>>,
         \A r \in Requests : Handled(r)' <=> Handled(r)
  PROVE  StoreInv'
<1>1. ASSUME NEW r \in Requests
      PROVE  ReplyOK(r)'
  <2>1. Current(op[r])' = Current(op[r])
    BY DEF Current
  <2>2. QED
    BY <2>1 DEF StoreInv, ReplyOK, Creates, Updates, NamesInFull, Deletes, Reads
<1>2. ASSUME NEW p \in Requests, NEW q \in Requests
      PROVE  Apart(p, q)'
  BY DEF StoreInv, Apart
<1>3. QED
  BY <1>1, <1>2 DEF StoreInv

LEMMA HandleStore ==
  ASSUME TypeOK, TypeOK', StoreInv, NEW r \in Requests, Handle(r), AtUpstream(r)
  PROVE  StoreInv'
<1>1. /\ Replied(r) /\ StoreMove /\ op' = op
      /\ stage[r] = "inside"
      /\ \A q \in Requests : q # r => stage'[q] = stage[q] /\ reply'[q] = reply[q]
  BY HandleReplies
<1>2. /\ readAt'[r] = writes'
      /\ \A q \in Requests : q # r => readAt'[q] = readAt[q]
  BY <1>1 DEF AtUpstream, TypeOK
<1>3. \A q \in Requests : q # r => (Handled(q)' <=> Handled(q))
  BY <1>1 DEF Handled
<1>4. ReplyOK(r)'
  BY <1>1, <1>2, ReplyMade
<1>5. ASSUME NEW q \in Requests, q # r
      PROVE  ReplyOK(q)'
  BY <1>1, <1>2, <1>3, <1>5, ReplyKept DEF StoreInv
<1>6. ASSUME NEW q \in Requests, q # r
      PROVE  Apart(r, q)' /\ Apart(q, r)'
  BY <1>1, <1>3, <1>6, ApartMade
<1>7. ASSUME NEW p \in Requests, NEW q \in Requests, p # r, q # r
      PROVE  Apart(p, q)'
  BY <1>1, <1>3, <1>7 DEF StoreInv, Apart
<1>8. Apart(r, r)'
  BY DEF Apart
<1>9. QED
  BY <1>4, <1>5, <1>6, <1>7, <1>8 DEF StoreInv

-----------------------------------------------------------------------------
(* The steps of the proxy.                                                 *)

\* Except at the upstream, a step leaves the upstream alone.
LEMMA UpstreamAlone ==
  ASSUME NEW r \in Requests, Hit(r) \/ Miss(r) \/ Relay(r) \/ BeginStore(r) \/ EndStore(r)
  PROVE  UNCHANGED <<upstreamVars, readAt>>
BY DEF Hit, Miss, Relay, BeginStore, EndStore

LEMMA TypeNext ==
  ASSUME TypeOK, NEW r \in Requests, Steps(r)
  PROVE  TypeOK'
<1> USE DEF TypeOK, Places
<1>1. CASE Hit(r)
  BY <1>1 DEF Hit, Goto, Answer, upstreamVars, storeVars, upstreamMetrics
<1>2. CASE Miss(r)
  BY <1>2 DEF Miss, Goto, upstreamVars, storeVars, upstreamMetrics
<1>3. CASE AtUpstream(r)
  <2>1. UNCHANGED <<pc, answer, storedAt, now, setting>>
    BY <1>3 DEF AtUpstream, cacheVars
  <2>2. CASE Enter(r)
    <3>1. UNCHANGED <<op, nextID, data, writes, reply, upRequestsTotal>>
      BY <2>2 DEF Enter, storeVars
    <3>2. stage' \in [Requests -> Stages] /\ upInflight' \in Int
      BY <2>2 DEF Enter, Stages
    <3>3. readAt' \in [Requests -> Nat]
      BY <1>3, <3>1 DEF AtUpstream
    <3>4. QED
      BY <2>1, <3>1, <3>2, <3>3
  <2>3. CASE Leave(r)
    <3>1. UNCHANGED <<op, nextID, data, writes, reply>>
      BY <2>3 DEF Leave, storeVars
    <3>2. stage' \in [Requests -> Stages] /\ upInflight' \in Int
      BY <2>3 DEF Leave, Stages, upstreamMetrics
    <3>3. upRequestsTotal' \in [Statuses -> Nat]
      <4> DEFINE s == reply[r].status
      <4>1. \/ upRequestsTotal' = [upRequestsTotal EXCEPT ![s] = @ + 1]
            \/ upRequestsTotal' = upRequestsTotal
        BY <2>3 DEF Leave, upstreamMetrics
      <4>2. upRequestsTotal \in [Statuses -> Nat]
        OBVIOUS
      <4> HIDE DEF s
      <4>3. \A t \in Statuses : upRequestsTotal'[t] \in Nat
        BY <4>1, <4>2
      <4>4. QED
        BY <4>1, <4>2, <4>3
    <3>4. readAt' \in [Requests -> Nat]
      BY <1>3, <3>1 DEF AtUpstream
    <3>5. QED
      BY <2>1, <3>1, <3>2, <3>3, <3>4
  <2>4. CASE Handle(r)
    <3>1. /\ StoreMove /\ stage' \in [Requests -> Stages] /\ DOMAIN reply' = Requests
          /\ op' = op /\ upInflight' = upInflight /\ upRequestsTotal' = upRequestsTotal
      BY <2>4, HandleReplies
    <3>2. /\ nextID' \in Nat /\ nextID' >= 3 /\ DOMAIN data' \subseteq 1..(nextID' - 1)
          /\ writes' \in Nat
      BY <3>1 DEF StoreMove
    <3>3. readAt' \in [Requests -> Nat]
      BY <1>3, <3>2 DEF AtUpstream
    <3>4. QED
      BY <2>1, <3>1, <3>2, <3>3
  <2>5. QED
    BY <1>3, <2>2, <2>3, <2>4 DEF AtUpstream
<1>4. CASE Relay(r)
  <2>1. UNCHANGED <<upstreamVars, storedAt, readAt, now, setting>>
    BY <1>4 DEF Relay, cacheVars
  <2>2. pc' \in [Requests -> Places] /\ DOMAIN answer' = Requests
    BY <1>4 DEF Relay, Goto, Answer
  <2>3. QED
    BY <2>1, <2>2 DEF upstreamVars, storeVars, upstreamMetrics
<1>5. CASE BeginStore(r)
  BY <1>5 DEF BeginStore, Cache!BeginSet, upstreamVars, storeVars, upstreamMetrics
<1>6. CASE EndStore(r)
  BY <1>6 DEF EndStore, Goto, Cache!EndSet, upstreamVars, storeVars, upstreamMetrics
<1>7. QED
  BY <1>1, <1>2, <1>3, <1>4, <1>5, <1>6 DEF Steps

\* Every step keeps what is known of the replies.
LEMMA StoreNext ==
  ASSUME TypeOK, TypeOK', StoreInv, NEW r \in Requests, Steps(r)
  PROVE  StoreInv'
<1>1. CASE Hit(r) \/ Miss(r) \/ Relay(r) \/ BeginStore(r) \/ EndStore(r)
  <2>1. UNCHANGED <<op, nextID, data, writes, readAt, reply, stage>>
    BY <1>1, UpstreamAlone DEF upstreamVars, storeVars
  <2>2. \A q \in Requests : Handled(q)' <=> Handled(q)
    BY <2>1 DEF Handled
  <2>3. QED
    BY <2>1, <2>2, StoreUntouched
<1>2. CASE AtUpstream(r) /\ (Enter(r) \/ Leave(r))
  <2>1. UNCHANGED <<op, nextID, data, writes, reply>>
    BY <1>2 DEF Enter, Leave, storeVars
  <2>2. \A q \in Requests : Handled(q)' <=> Handled(q)
    BY <1>2 DEF Handled, Enter, Leave, TypeOK
  <2>3. stage[r] # "inside"
    BY <1>2 DEF Enter, Leave
  <2>4. readAt' = readAt
    BY <1>2, <2>3 DEF AtUpstream, TypeOK
  <2>5. QED
    BY <2>1, <2>2, <2>4, StoreUntouched
<1>3. CASE AtUpstream(r) /\ Handle(r)
  BY <1>3, HandleStore
<1>4. QED
  BY <1>1, <1>2, <1>3 DEF Steps, AtUpstream

-----------------------------------------------------------------------------
(* Answers and the cache.                                                  *)

\* What became of a request that went upstream does not change any more.
LEMMA AnsweredStay ==
  ASSUME TypeOK, NEW r \in Requests, Steps(r), NEW q \in Requests
  PROVE  /\ CachedFrom(q) => CachedFrom(q)'
         /\ Bypassed(q) => Bypassed(q)'
         /\ op' = op
<1>1. op' = op
  BY UpstreamAlone, HandleReplies
     DEF Steps, AtUpstream, Enter, Leave, upstreamVars
<1>2. ASSUME pc[q] \in {"caching", "done"}, stage[q] = "left"
      PROVE  /\ stage'[q] = "left" /\ reply'[q] = reply[q] /\ answer'[q] = answer[q]
             /\ pc'[q] \in {"caching", "done"}
             /\ pc[q] = "done" => pc'[q] = "done"
  <2>1. CASE Hit(r)
    BY <1>2, <2>1, UpstreamAlone DEF Hit, Goto, Answer, TypeOK, upstreamVars
  <2>2. CASE Miss(r)
    BY <1>2, <2>2, UpstreamAlone DEF Miss, Goto, TypeOK, upstreamVars
  <2>3. CASE AtUpstream(r)
    <3>1. r # q /\ pc' = pc /\ answer' = answer
      BY <1>2, <2>3 DEF AtUpstream
    <3>2. stage'[q] = stage[q] /\ reply'[q] = reply[q]
      BY <2>3, <3>1, HandleReplies DEF AtUpstream, Enter, Leave, TypeOK
    <3>3. QED
      BY <1>2, <3>1, <3>2
  <2>4. CASE Relay(r)
    BY <1>2, <2>4, UpstreamAlone DEF Relay, Goto, Answer, TypeOK, upstreamVars
  <2>5. CASE BeginStore(r)
    BY <1>2, <2>5, UpstreamAlone DEF BeginStore, TypeOK, upstreamVars
  <2>6. CASE EndStore(r)
    BY <1>2, <2>6, UpstreamAlone DEF EndStore, Goto, TypeOK, upstreamVars
  <2>7. QED
    BY <2>1, <2>2, <2>3, <2>4, <2>5, <2>6 DEF Steps
<1>3. QED
  BY <1>1, <1>2 DEF CachedFrom, Bypassed

\* Set writes one entry and touches no other response, whichever way it goes.
LEMMA SetWritesOne ==
  ASSUME NEW r \in Requests, Cache!EndSet(r)
  PROVE  \A j \in DOMAIN items' :
           \/ j = setting[r].key /\ items'[j] = setting[r].entry
           \/ j \in DOMAIN items /\ items'[j] = items[j]
<1> DEFINE k == setting[r].key
           entry == setting[r].entry
<1> USE DEF Cache!Cached
<1>1. CASE Cache!Replace(k, entry)
  BY <1>1 DEF Cache!Replace
<1>2. CASE Cache!Insert(k, entry)
  BY <1>2 DEF Cache!Insert
<1>3. CASE Cache!InsertEvicting(k, entry)
  BY <1>3 DEF Cache!InsertEvicting, Cache!Restrict
<1>4. QED
  BY <1>1, <1>2, <1>3 DEF Cache!EndSet, Cache!Store

\* Who is answered, and with what.
LEMMA AnswerNext ==
  ASSUME TypeOK, ProxyInv, NEW r \in Requests, Steps(r), NEW q \in Requests
  PROVE  AnswerOK(q)'
<1>1. op' = op /\ \A p \in Requests : CachedFrom(p) => CachedFrom(p)'
  BY AnsweredStay
<1>2. Bypassed(q) => Bypassed(q)'
  BY AnsweredStay
<1>3. AnswerOK(q)
  BY DEF ProxyInv
<1>4. CASE answer'[q] = answer[q] /\ (pc'[q] = "caching" => pc[q] = "caching")
  <2>1. \A p : CachedFrom(p) => CachedFrom(p)'
    BY <1>1 DEF CachedFrom
  <2>2. QED
    BY <1>1, <1>2, <1>3, <1>4, <2>1 DEF AnswerOK
<1>5. CASE Hit(r) /\ q = r
  <2>1. /\ pc'[r] = "done" /\ op[r] \in DOMAIN items
        /\ answer'[r] = [cache |-> "HIT", of |-> items[op[r]].resp]
    BY <1>5 DEF Hit, Goto, Answer, Cache!GetHit, Cache!Cached, cacheKey, TypeOK
  <2>2. PICK p : p = items[op[r]].resp
    OBVIOUS
  <2>3. CachedFrom(p) /\ op[p] = op[r]
    BY <2>1, <2>2 DEF ProxyInv, EntryOK
  <2>4. CachedFrom(p)'
    BY <1>1, <2>3 DEF CachedFrom
  <2>5. answer'[r].of = p
    BY <2>1, <2>2
  <2>6. QED
    BY <1>1, <1>5, <2>1, <2>3, <2>4, <2>5 DEF AnswerOK
<1>6. CASE Relay(r) /\ q = r
  <2>1. stage[r] = "left" /\ UNCHANGED <<stage, reply>>
    BY <1>6, UpstreamAlone DEF Relay, upstreamVars
  <2>2. CASE reply[r].status \in CacheableStatus
    <3>1. pc'[r] = "caching" /\ answer'[r] = [cache |-> "MISS", of |-> r]
      BY <1>6, <2>2 DEF Relay, Goto, Answer, TypeOK
    <3>2. CachedFrom(r)'
      BY <2>1, <2>2, <3>1 DEF CachedFrom
    <3>3. QED
      BY <1>1, <1>6, <3>1, <3>2 DEF AnswerOK
  <2>3. CASE reply[r].status \notin CacheableStatus
    <3>1. pc'[r] = "done" /\ answer'[r] = [cache |-> "BYPASS", of |-> r]
      BY <1>6, <2>3 DEF Relay, Goto, Answer, TypeOK
    <3>2. Bypassed(r)'
      BY <2>1, <2>3, <3>1 DEF Bypassed
    <3>3. QED
      BY <1>1, <1>6, <3>1, <3>2 DEF AnswerOK
  <2>4. QED
    BY <2>2, <2>3
<1>7. ASSUME ~(Hit(r) /\ q = r), ~(Relay(r) /\ q = r)
      PROVE  answer'[q] = answer[q] /\ (pc'[q] = "caching" => pc[q] = "caching")
  BY <1>7 DEF Steps, Hit, Miss, AtUpstream, Relay, BeginStore, EndStore, Goto, Answer, TypeOK
<1>8. QED
  BY <1>4, <1>5, <1>6, <1>7

\* A Set computes the expiry once, from the clock it reads.
LEMMA SettingNext ==
  ASSUME TypeOK, ProxyInv, NEW r \in Requests, Steps(r), NEW q \in Requests
  PROVE  /\ SettingOK(q)'
         /\ setting[q] = Cache!Done => setting'[q] = Cache!Done /\ storedAt'[q] = storedAt[q]
<1>1. op' = op
  BY AnsweredStay
<1>2. SettingOK(q)
  BY DEF ProxyInv
<1>3. CASE setting'[q] = setting[q] /\ storedAt'[q] = storedAt[q]
  BY <1>1, <1>2, <1>3 DEF SettingOK
<1>4. CASE BeginStore(r) /\ q = r
  <2>1. /\ setting[r] = Cache!Idle
        /\ setting'[r] = [phase |-> "storing", key |-> op[r],
                          entry |-> [resp |-> r, expiresAt |-> Cache!Expiry(MaxAge)]]
        /\ storedAt'[r] = now
    BY <1>4 DEF BeginStore, Cache!BeginSet, cacheKey, TypeOK
  <2>2. Cache!Expiry(MaxAge) = now + MaxAge
    BY MaxAgeAssumption DEF Cache!Expiry, Cache!SetTTL
  <2>3. Cache!Idle.phase # Cache!Done.phase
    BY DEF Cache!Idle, Cache!Done
  <2>4. SettingOK(r)'
    BY <1>1, <2>1, <2>2 DEF SettingOK
  <2>5. QED
    BY <1>4, <2>1, <2>3, <2>4
<1>5. CASE EndStore(r) /\ q = r
  <2>1. setting'[r] = Cache!Done /\ setting[r].phase = "storing"
    BY <1>5 DEF EndStore, Cache!EndSet, TypeOK
  <2>2. Cache!Done.phase # "storing"
    BY DEF Cache!Done
  <2>3. QED
    BY <1>5, <2>1, <2>2 DEF SettingOK
<1>6. ASSUME ~(BeginStore(r) /\ q = r), ~(EndStore(r) /\ q = r)
      PROVE  setting'[q] = setting[q] /\ storedAt'[q] = storedAt[q]
  BY <1>6 DEF Steps, Hit, Miss, AtUpstream, Relay, BeginStore, EndStore,
              Cache!BeginSet, Cache!EndSet, cacheVars, TypeOK
<1>7. QED
  BY <1>3, <1>4, <1>5, <1>6

\* Only EndStore writes the cache.
LEMMA ItemsChange ==
  ASSUME NEW r \in Requests, Steps(r)
  PROVE  items' = items \/ EndStore(r)
<1>1. CASE Hit(r) \/ Miss(r)
  BY <1>1 DEF Hit, Miss, Cache!GetHit, Cache!GetStale, Cache!GetMiss
<1>2. CASE AtUpstream(r) \/ Relay(r) \/ BeginStore(r)
  BY <1>2 DEF AtUpstream, Relay, BeginStore, Cache!BeginSet, cacheVars
<1>3. QED
  BY <1>1, <1>2 DEF Steps

\* The entries of the cache are the answers its clients were promised.
LEMMA EntryNext ==
  ASSUME TypeOK, ProxyInv, NEW r \in Requests, Steps(r), NEW k \in DOMAIN items'
  PROVE  EntryOK(k)'
<1>1. /\ op' = op
      /\ \A p \in Requests : CachedFrom(p) => CachedFrom(p)'
      /\ \A p \in Requests :
           setting[p] = Cache!Done => setting'[p] = Cache!Done /\ storedAt'[p] = storedAt[p]
  BY AnsweredStay, SettingNext
<1>2. CASE k \in DOMAIN items /\ items'[k] = items[k]
  <2>1. EntryOK(k)
    BY <1>2 DEF ProxyInv
  <2>2. PICK p : p = items[k].resp
    OBVIOUS
  <2>3. /\ p \in Requests /\ CachedFrom(p) /\ op[p] = k /\ setting[p] = Cache!Done
        /\ items[k].expiresAt = storedAt[p] + MaxAge
    BY <2>1, <2>2 DEF EntryOK, CachedFrom
  <2>4. /\ CachedFrom(p)' /\ op'[p] = k /\ setting'[p] = Cache!Done
        /\ items'[k].expiresAt = storedAt'[p] + MaxAge /\ items'[k].resp = p
    BY <1>1, <1>2, <2>2, <2>3
  <2>5. QED
    BY <2>4 DEF EntryOK
<1>3. CASE EndStore(r) /\ k = setting[r].key /\ items'[k] = setting[r].entry
  <2>1. /\ pc[r] = "caching" /\ setting[r].phase = "storing" /\ setting'[r] = Cache!Done
        /\ storedAt' = storedAt
    BY <1>3 DEF EndStore, Goto, Cache!EndSet, TypeOK
  <2>2. CachedFrom(r)
    BY <2>1 DEF ProxyInv, AnswerOK
  <2>3. k = op[r] /\ items'[k] = [resp |-> r, expiresAt |-> storedAt[r] + MaxAge]
    BY <1>3, <2>1 DEF ProxyInv, SettingOK
  <2>4. items'[k].resp = r /\ items'[k].expiresAt = storedAt[r] + MaxAge
    BY <2>3
  <2>5. CachedFrom(r)' /\ op'[r] = k
    BY <1>1, <2>2, <2>3
  <2>6. QED
    BY <2>1, <2>4, <2>5 DEF EntryOK
<1>4. CASE EndStore(r)
  BY <1>2, <1>3, <1>4, SetWritesOne DEF EndStore
<1>5. CASE items' = items
  BY <1>2, <1>5
<1>6. QED
  BY <1>4, <1>5, ItemsChange

-----------------------------------------------------------------------------
(* The upstream's metrics.                                                 *)

InsideNow == {r \in Requests \ Scrapes : stage[r] \in {"inside", "handled"}}
LeftWith(s) == {r \in Requests \ Scrapes : stage[r] = "left" /\ reply[r].status = s}

\* One request more, or one less.
LEMMA OneMore ==
  ASSUME NEW S, IsFiniteSet(S), NEW x, x \notin S
  PROVE  Cardinality(S \cup {x}) = Cardinality(S) + 1
BY FS_AddElement

LEMMA OneLess ==
  ASSUME NEW S, IsFiniteSet(S), NEW x \in S
  PROVE  Cardinality(S \ {x}) = Cardinality(S) - 1
BY FS_RemoveElement

LEMMA CountsAreFinite ==
  /\ IsFiniteSet(InsideNow)
  /\ \A s : IsFiniteSet(LeftWith(s))
<1>1. InsideNow \subseteq Requests /\ \A s : LeftWith(s) \subseteq Requests
  BY DEF InsideNow, LeftWith
<1>2. QED
  BY <1>1, RequestsAssumption, FS_Subset

\* The gauge goes up and down on every path, and a reply is counted once.
LEMMA MetricsNext ==
  ASSUME TypeOK, StoreInv, UpstreamMetricsExact, NEW r \in Requests, Steps(r)
  PROVE  UpstreamMetricsExact'
<1>1. /\ upInflight = Cardinality(InsideNow)
      /\ \A s \in Statuses : upRequestsTotal[s] = Cardinality(LeftWith(s))
  BY DEF UpstreamMetricsExact, InsideNow, LeftWith
<1>2. SUFFICES /\ upInflight' = Cardinality(InsideNow')
               /\ \A s \in Statuses : upRequestsTotal'[s] = Cardinality(LeftWith(s)')
  BY DEF UpstreamMetricsExact, InsideNow, LeftWith
<1>3. CASE UNCHANGED <<stage, reply, upInflight, upRequestsTotal>>
  <2>1. InsideNow' = InsideNow /\ \A s : LeftWith(s)' = LeftWith(s)
    BY <1>3 DEF InsideNow, LeftWith
  <2>2. QED
    BY <1>1, <1>3, <2>1
<1>4. CASE Enter(r) /\ r \notin Scrapes
  <2>1. /\ upInflight' = upInflight + 1 /\ UNCHANGED <<reply, upRequestsTotal>>
        /\ stage[r] = "outside" /\ stage'[r] = "inside"
        /\ \A q \in Requests : q # r => stage'[q] = stage[q]
    BY <1>4 DEF Enter, TypeOK
  <2>2. InsideNow' = InsideNow \cup {r} /\ r \notin InsideNow
    BY <1>4, <2>1 DEF InsideNow
  <2>3. \A s : LeftWith(s)' = LeftWith(s)
    BY <2>1 DEF LeftWith
  <2>4. QED
    BY <1>1, <2>1, <2>2, <2>3, OneMore, CountsAreFinite
<1>5. CASE Handle(r)
  <2>1. /\ UNCHANGED <<upInflight, upRequestsTotal>>
        /\ stage[r] = "inside" /\ stage'[r] = "handled"
        /\ \A q \in Requests : q # r => stage'[q] = stage[q] /\ reply'[q] = reply[q]
    BY <1>5, HandleReplies
  <2>2. InsideNow' = InsideNow
    BY <2>1 DEF InsideNow
  <2>3. \A s : LeftWith(s)' = LeftWith(s)
    BY <2>1 DEF LeftWith
  <2>4. QED
    BY <1>1, <2>1, <2>2, <2>3
<1>6. CASE Leave(r) /\ r \notin Scrapes
  <2>1. /\ upInflight' = upInflight - 1 /\ reply' = reply
        /\ upRequestsTotal' = [upRequestsTotal EXCEPT ![reply[r].status] = @ + 1]
        /\ stage[r] = "handled" /\ stage'[r] = "left"
        /\ \A q \in Requests : q # r => stage'[q] = stage[q]
    BY <1>6 DEF Leave, TypeOK
  <2>2. InsideNow' = InsideNow \ {r} /\ r \in InsideNow
    BY <1>6, <2>1 DEF InsideNow
  <2>3. upInflight' = Cardinality(InsideNow')
    BY <1>1, <2>1, <2>2, OneLess, CountsAreFinite
  <2>4. PICK t : t = reply[r].status
    OBVIOUS
  <2>5. t \in Statuses
    BY <2>1, <2>4 DEF StoreInv, ReplyOK, Handled
  <2>6. LeftWith(t)' = LeftWith(t) \cup {r} /\ r \notin LeftWith(t)
    BY <1>6, <2>1, <2>4 DEF LeftWith
  <2>7. \A s : s # t => LeftWith(s)' = LeftWith(s)
    BY <2>1, <2>4 DEF LeftWith
  <2>8. upRequestsTotal'[t] = upRequestsTotal[t] + 1
    BY <2>1, <2>4, <2>5 DEF TypeOK
  <2>9. \A s \in Statuses : s # t => upRequestsTotal'[s] = upRequestsTotal[s]
    BY <2>1, <2>4 DEF TypeOK
  <2>10. Cardinality(LeftWith(t)') = Cardinality(LeftWith(t)) + 1
    BY <2>6, OneMore, CountsAreFinite
  <2>11. upRequestsTotal'[t] = Cardinality(LeftWith(t)')
    BY <1>1, <2>5, <2>8, <2>10
  <2>12. QED
    BY <1>1, <2>3, <2>7, <2>9, <2>11
<1>7. CASE (Enter(r) \/ Leave(r)) /\ r \in Scrapes
  <2>1. /\ UNCHANGED <<reply, upInflight, upRequestsTotal>>
        /\ \A q \in Requests \ Scrapes : stage'[q] = stage[q]
    BY <1>7 DEF Enter, Leave, TypeOK, upstreamMetrics
  <2>2. InsideNow' = InsideNow /\ \A s : LeftWith(s)' = LeftWith(s)
    BY <2>1 DEF InsideNow, LeftWith
  <2>3. QED
    BY <1>1, <2>1, <2>2
<1>8. QED
  <2>1. CASE AtUpstream(r)
    BY <1>4, <1>5, <1>6, <1>7, <2>1 DEF AtUpstream
  <2>2. CASE ~AtUpstream(r)
    BY <1>3, <2>2, UpstreamAlone DEF Steps, upstreamVars, upstreamMetrics
  <2>3. QED
    BY <2>1, <2>2

-----------------------------------------------------------------------------
(* The invariant, and what follows from it.                                *)

LEMMA InitInv == Init => IInv
<1> SUFFICES ASSUME Init PROVE IInv
  OBVIOUS
<1>1. StoreInit /\ Cache!Init
  BY DEF Init
<1>2. \A r \in Requests : stage[r] = "outside" /\ answer[r] = <<>> /\ pc[r] = "arriving"
  BY DEF Init, StoreInit
<1>3. TypeOK
  <2>1. op \in [Requests -> Operations] /\ nextID = 3 /\ DOMAIN data = {1, 2}
        /\ writes = 0 /\ DOMAIN reply = Requests /\ upInflight = 0
    BY <1>1 DEF StoreInit
  <2>2. /\ nextID \in Nat /\ nextID >= 3 /\ DOMAIN data \subseteq 1..(nextID - 1)
        /\ writes \in Nat /\ upInflight \in Int
    BY <2>1
  <2>3. stage \in [Requests -> Stages] /\ upRequestsTotal \in [Statuses -> Nat]
    BY <1>1 DEF StoreInit, Stages
  <2>4. /\ pc \in [Requests -> Places] /\ DOMAIN answer = Requests
        /\ storedAt \in [Requests -> Nat] /\ readAt \in [Requests -> Nat]
    BY DEF Init, Places
  <2>5. now \in Nat /\ DOMAIN setting = Requests
    BY <1>1 DEF Cache!Init
  <2>6. QED
    BY <2>1, <2>2, <2>3, <2>4, <2>5 DEF TypeOK
<1>4. StoreInv
  BY <1>2 DEF StoreInv, ReplyOK, Apart, Handled
<1>5. ProxyInv
  <2>1. \A r \in Requests : AnswerOK(r)
    BY <1>2 DEF AnswerOK
  <2>2. \A r \in Requests : setting[r].phase = "idle"
    BY <1>1 DEF Cache!Init, Cache!Idle
  <2>3. \A r \in Requests : SettingOK(r)
    BY <2>2 DEF SettingOK
  <2>4. DOMAIN items = {}
    BY <1>1 DEF Cache!Init
  <2>5. QED
    BY <2>1, <2>3, <2>4 DEF ProxyInv
<1>6. UpstreamMetricsExact
  <2>1. /\ {r \in Requests \ Scrapes : stage[r] \in {"inside", "handled"}} = {}
        /\ \A s : {r \in Requests \ Scrapes : stage[r] = "left" /\ reply[r].status = s} = {}
    BY <1>2
  <2>2. upInflight = 0 /\ \A s \in Statuses : upRequestsTotal[s] = 0
    BY <1>1 DEF StoreInit
  <2>3. QED
    BY <2>1, <2>2, FS_EmptySet DEF UpstreamMetricsExact
<1>7. QED
  BY <1>3, <1>4, <1>5, <1>6 DEF IInv

\* Nothing changes but the clock.
LEMMA ClockKeeps ==
  ASSUME IInv, now' \in Nat,
         UNCHANGED <<op, nextID, data, writes, stage, reply, upInflight, upRequestsTotal,
                     pc, answer, storedAt, readAt, items, setting>>
  PROVE  IInv'
<1>1. TypeOK'
  BY DEF IInv, TypeOK
<1>2. StoreInv'
  BY StoreUntouched DEF IInv, Handled
<1>3. \A r : CachedFrom(r)' <=> CachedFrom(r)
  BY DEF CachedFrom
<1>4. ProxyInv'
  <2>1. ASSUME NEW r \in Requests
        PROVE  AnswerOK(r)' /\ SettingOK(r)'
    BY <1>3 DEF IInv, ProxyInv, AnswerOK, SettingOK, Bypassed
  <2>2. ASSUME NEW k \in DOMAIN items
        PROVE  EntryOK(k)'
    BY <1>3 DEF IInv, ProxyInv, EntryOK
  <2>3. QED
    BY <2>1, <2>2 DEF ProxyInv
<1>5. UpstreamMetricsExact'
  BY DEF IInv, UpstreamMetricsExact
<1>6. QED
  BY <1>1, <1>2, <1>4, <1>5 DEF IInv

LEMMA StepInv ==
  ASSUME IInv, [Next]_vars
  PROVE  IInv'
<1>1. ASSUME NEW r \in Requests, Steps(r)
      PROVE  IInv'
  <2>1. TypeOK /\ StoreInv /\ ProxyInv /\ UpstreamMetricsExact
    BY DEF IInv
  <2>2. TypeOK'
    BY <1>1, <2>1, TypeNext
  <2>3. StoreInv'
    BY <1>1, <2>1, <2>2, StoreNext
  <2>4. ProxyInv'
    BY <1>1, <2>1, AnswerNext, SettingNext, EntryNext DEF ProxyInv
  <2>5. UpstreamMetricsExact'
    BY <1>1, <2>1, MetricsNext
  <2>6. QED
    BY <2>2, <2>3, <2>4, <2>5 DEF IInv
<1>2. CASE Tick
  <2>1. /\ UNCHANGED <<op, nextID, data, writes, stage, reply, upInflight, upRequestsTotal,
                       pc, answer, storedAt, readAt, items, setting>>
        /\ now' = now + 1
    BY <1>2 DEF Tick, Cache!Tick, upstreamVars, storeVars, upstreamMetrics
  <2>2. QED
    BY <2>1, ClockKeeps DEF IInv, TypeOK
<1>3. CASE UNCHANGED vars
  <2>1. UNCHANGED <<op, nextID, data, writes, stage, reply, upInflight, upRequestsTotal,
                    pc, answer, storedAt, readAt, items, setting, now>>
    BY <1>3 DEF vars, cacheVars, upstreamVars, storeVars, upstreamMetrics
  <2>2. QED
    BY <2>1, ClockKeeps DEF IInv, TypeOK
<1>4. QED
  BY <1>1, <1>2, <1>3 DEF Next, AllAnswered

\* Requests, replies, cache entries and metrics stay as the invariant says, for
\* any number of requests and any size of the cache.
THEOREM Invariance == Spec => []IInv
<1>1. IInv /\ [Next]_vars => IInv'
  BY StepInv
<1>2. QED
  BY InitInv, <1>1, PTL DEF Spec

\* The upstream's gauge and its counters are exact on every path.
THEOREM UpstreamMetricsAreExact == Spec => []UpstreamMetricsExact
BY Invariance, PTL DEF IInv

\* A creation that is acknowledged happened, for this request alone, under an
\* id no other item ever had: 201 is not cacheable, so the answer is the
\* request's own, and nextID only grows.
THEOREM CreationsAreExact == Spec => []CreatesExact
<1>1. IInv => CreatesExact
  <2> SUFFICES ASSUME IInv, NEW r \in Requests,
                      Answered(r), op[r].method = "POST", StatusOf(r) = 201
               PROVE  /\ answer[r].of = r
                      /\ DOMAIN reply[r].body \cap {1, 2} = {}
                      /\ \A q \in Requests \ {r} :
                           (stage[q] = "left" /\ reply[q].status = 201) =>
                             DOMAIN reply[q].body \cap DOMAIN reply[r].body = {}
    BY DEF CreatesExact
  <2>1. StoreInv /\ AnswerOK(r)
    BY DEF IInv, ProxyInv
  <2>2. ~CachedFrom(answer[r].of)
    BY DEF CachedFrom, CacheableStatus, StatusOf
  <2>3. Bypassed(r)
    BY <2>1, <2>2 DEF AnswerOK, Answered
  <2>4. answer[r].of = r /\ reply[r].status = 201 /\ Handled(r)
    BY <2>3 DEF Bypassed, StatusOf, Handled
  <2>5. PICK id \in 3..(nextID - 1) : DOMAIN reply[r].body = {id}
    BY <2>1, <2>4 DEF StoreInv, ReplyOK, Creates
  <2>6. id # 1 /\ id # 2
    BY DEF IInv, TypeOK
  <2>7. DOMAIN reply[r].body \cap {1, 2} = {}
    BY <2>5, <2>6
  <2>8. ASSUME NEW q \in Requests \ {r}, stage[q] = "left", reply[q].status = 201
        PROVE  DOMAIN reply[q].body \cap DOMAIN reply[r].body = {}
    BY <2>1, <2>4, <2>8 DEF StoreInv, Apart, Handled
  <2>9. QED
    BY <2>4, <2>7, <2>8
<1>2. QED
  BY Invariance, <1>1, PTL

\* An update or a deletion that is acknowledged was carried out, for this
\* request or for one like it whose client got the acknowledgement as a MISS,
\* and a deletion was carried out once.
THEOREM AcknowledgedWritesHappened == Spec => []AckedWritesApplied
<1>1. IInv => AckedWritesApplied
  <2> SUFFICES ASSUME IInv, NEW r \in Requests,
                      Answered(r), op[r].method \in {"PUT", "DELETE"}, StatusOf(r) < 400,
                      NEW p, p = answer[r].of
               PROVE  /\ op[p] = op[r]
                      /\ answer[p] = [cache |-> "MISS", of |-> p]
                      /\ op[r].method = "PUT" =>
                           /\ reply[p].body[op[r].id].value = p
                           /\ NamesInFull(p) => reply[p].body[op[r].id].name = p
                      /\ op[r].method = "DELETE" =>
                           \A q \in Requests \ {p} :
                             (op[q] = op[p] /\ stage[q] = "left") => reply[q].status = 404
    BY DEF AckedWritesApplied
  <2>1. StoreInv /\ AnswerOK(r) /\ reply[p].status < 400
    BY DEF IInv, ProxyInv, StatusOf
  <2>2. ~Bypassed(r)
    <3> SUFFICES ASSUME Bypassed(r) PROVE FALSE
      OBVIOUS
    <3>1. p = r /\ Handled(r) /\ reply[r].status \notin CacheableStatus
      BY DEF Bypassed, Handled
    <3>2. Updates(r) /\ Deletes(r) /\ reply[r].status < 400
      BY <2>1, <3>1 DEF StoreInv, ReplyOK
    <3>3. op[r].path \in {"items", "item"}
      BY OperationsAssumption DEF IInv, TypeOK
    <3>4. op[r].method # "PUT"
      BY <3>1, <3>2 DEF Updates, CacheableStatus
    <3>5. op[r].method # "DELETE"
      BY <3>1, <3>2, <3>3 DEF Deletes, CacheableStatus
    <3>6. QED
      BY <3>4, <3>5
  <2>3. CachedFrom(p) /\ op[p] = op[r]
    BY <2>1, <2>2 DEF AnswerOK, Answered
  <2>4. p \in Requests /\ Handled(p) /\ answer[p] = [cache |-> "MISS", of |-> p]
    BY <2>3 DEF CachedFrom, Handled
  <2>5. Updates(p) /\ Deletes(p)
    BY <2>1, <2>4 DEF StoreInv, ReplyOK
  <2>6. op[r].method = "PUT" =>
          /\ reply[p].body[op[r].id].value = p
          /\ NamesInFull(p) => reply[p].body[op[r].id].name = p
    BY <2>1, <2>3, <2>5 DEF Updates
  <2>7. ASSUME op[r].method = "DELETE", NEW q \in Requests \ {p},
               op[q] = op[p], stage[q] = "left"
        PROVE  reply[q].status = 404
    <3>1. op[p].path \in {"items", "item"}
      BY <2>4, OperationsAssumption DEF IInv, TypeOK
    <3>2. reply[p].status = 204
      BY <2>1, <2>3, <2>5, <2>7, <3>1 DEF Deletes
    <3>3. Apart(p, q)
      BY <2>1, <2>4 DEF StoreInv
    <3>4. QED
      BY <2>3, <2>4, <2>7, <3>2, <3>3 DEF Apart, Handled
  <2>8. QED
    BY <2>3, <2>4, <2>6, <2>7
<1>2. QED
  BY Invariance, <1>1, PTL

\* A read answered from the cache is what the store held when the answer was
\* made: it differs from the store only if the store changed since, and only
\* for the lifetime that began when the answer was cached.
THEOREM HitsReflectTheStore == Spec => HitReflectsStore
<1> DEFINE A == \A r \in Requests : (Hit(r) /\ op[r].method = "GET") =>
                  LET p == answer'[r].of
                  IN /\ now <= storedAt[p] + MaxAge
                     /\ readAt[p] = writes => reply[p] = Current(op[r])
<1>1. IInv /\ [Next]_vars => [A]_vars
  <2> SUFFICES ASSUME IInv, NEW r \in Requests, Hit(r), op[r].method = "GET",
                      NEW p, p = answer'[r].of
               PROVE  /\ now <= storedAt[p] + MaxAge
                      /\ readAt[p] = writes => reply[p] = Current(op[r])
    OBVIOUS
  <2>1. /\ op[r] \in DOMAIN items /\ ~Cache!Expired(op[r])
        /\ answer'[r] = [cache |-> "HIT", of |-> items[op[r]].resp]
    BY DEF IInv, TypeOK, Hit, Answer, Cache!GetHit, Cache!Cached, cacheKey
  <2>2. p = items[op[r]].resp
    BY <2>1
  <2>3. /\ CachedFrom(p) /\ op[p] = op[r]
        /\ items[op[r]].expiresAt = storedAt[p] + MaxAge
    BY <2>1, <2>2 DEF IInv, ProxyInv, EntryOK
  <2>4. p \in Requests /\ Handled(p)
    BY <2>3 DEF CachedFrom, Handled
  <2>5. now <= storedAt[p] + MaxAge
    <3>1. now \in Nat /\ storedAt[p] \in Nat /\ MaxAge \in Nat
      BY <2>4, MaxAgeAssumption DEF IInv, TypeOK
    <3>2. ~(now > storedAt[p] + MaxAge)
      BY <2>1, <2>3 DEF Cache!Expired
    <3>3. QED
      BY <3>1, <3>2
  <2>6. readAt[p] = writes => reply[p] = Current(op[r])
    BY <2>3, <2>4 DEF IInv, StoreInv, ReplyOK, Reads
  <2>7. QED
    BY <2>5, <2>6
<1>2. QED
  BY Invariance, <1>1, PTL DEF Spec, HitReflectsStore
=============================================================================
