------------------------------ MODULE ItemStore ------------------------------
(***************************************************************************)
(* internal/upstream/server.go: the item store of the example upstream,    *)
(* its handlers for /api/items and /api/items/{id}, and the middleware of  *)
(* internal/log/logUpstream.go around them.  Requests are served           *)
(* concurrently; every store method runs under the store's mutex and is    *)
(* one action.                                                             *)
(*                                                                         *)
(* An item's name is the request that named it, its value and UpdatedAt    *)
(* are the request that wrote it last.  The body of an answer is the items *)
(* it shows, by id.                                                        *)
(***************************************************************************)
EXTENDS Integers, FiniteSets, Functions

CONSTANTS Requests,     \* requests of all clients
          Scrapes,      \* the requests isMetricsScrape takes for scrapes
          Operations    \* what a request may ask for: method, path, id, body

VARIABLES
  op,                \* op[r]: what request r asks for
  nextID, data,      \* the store
  stage,             \* stage[r]: "outside", "inside", "handled" or "left"
  reply,             \* reply[r]: status and body, <<>> before the handler ran
  upInflight,        \* the gauge upstream_inflight
  upRequestsTotal,   \* upRequestsTotal[status]: the counter
  writes             \* history: number of changes of the store

storeVars == <<nextID, data, writes>>
upstreamMetrics == <<upInflight, upRequestsTotal>>
upstreamVars == <<op, storeVars, stage, reply, upstreamMetrics>>

Statuses == {200, 201, 204, 400, 404, 405}
Bodies == {"none", "named", "blank", "malformed", "long"}

ASSUME RequestsAssumption == IsFiniteSet(Requests) /\ Scrapes \subseteq Requests

ASSUME OperationsAssumption ==
  \A o \in Operations : /\ o.path \in {"items", "item"}
                        /\ o.id \in Int
                        /\ o.body \in Bodies

\* newStore and the two items Start creates.
StoreInit ==
  /\ op \in [Requests -> Operations]
  /\ nextID = 3
  /\ data = [id \in {1, 2} |->
               IF id = 1 THEN [name |-> "alpha", value |-> "10"]
               ELSE [name |-> "beta", value |-> "20"]]
  /\ stage = [r \in Requests |-> "outside"]
  /\ reply = [r \in Requests |-> <<>>]
  /\ upInflight = 0
  /\ upRequestsTotal = [s \in Statuses |-> 0]
  /\ writes = 0

-----------------------------------------------------------------------------
(* WithRequestID and WithRequestLogging.  A request whose User-Agent names *)
(* Prometheus, or whose Accept asks for openmetrics, is taken for a scrape *)
(* whatever its path is: it goes straight to the handler, and neither its  *)
(* body nor the metrics are touched.  (The User-Agent is no part of the    *)
(* proxy's cache key, so such a request shares cached answers with others.) *)

\* What json.Decode makes of the body the handler is given.  WithRequestLogging
\* reads one byte more than its preview of 8 KB and replays the preview and
\* the rest: a body longer than that reaches the handler without the byte in
\* between, so that it decodes to something else or not at all.
Decoded(r) ==
  IF op[r].body = "long" /\ r \notin Scrapes THEN {"altered", "malformed"}
  ELSE {op[r].body}

Enter(r) ==
  /\ stage[r] = "outside"
  /\ stage' = [stage EXCEPT ![r] = "inside"]
  /\ upInflight' = IF r \in Scrapes THEN upInflight ELSE upInflight + 1
  /\ UNCHANGED <<op, storeVars, reply, upRequestsTotal>>

\* Mutant: the gauge is decremented before the fast path is taken.
LeaveUncounted(r) ==
  /\ stage[r] = "handled"
  /\ stage' = [stage EXCEPT ![r] = "left"]
  /\ upInflight' = upInflight - 1
  /\ upRequestsTotal' = IF r \in Scrapes THEN upRequestsTotal
                        ELSE [upRequestsTotal EXCEPT ![reply[r].status] = @ + 1]
  /\ UNCHANGED <<op, storeVars, reply>>

\* After the handler: the response is observed, the gauge decremented, and
\* net/http completes the response.
Leave(r) ==
  /\ stage[r] = "handled"
  /\ stage' = [stage EXCEPT ![r] = "left"]
  /\ IF r \in Scrapes THEN UNCHANGED upstreamMetrics
     ELSE /\ upInflight' = upInflight - 1
          /\ upRequestsTotal' = [upRequestsTotal EXCEPT ![reply[r].status] = @ + 1]
  /\ UNCHANGED <<op, storeVars, reply>>

-----------------------------------------------------------------------------
(* The handlers.                                                           *)

\* The handler of path p and method m runs and replies.
Handles(r, p, m, status, body) ==
  /\ stage[r] = "inside"
  /\ op[r].path = p /\ op[r].method = m
  /\ stage' = [stage EXCEPT ![r] = "handled"]
  /\ reply' = [reply EXCEPT ![r] = [status |-> status, body |-> body]]
  /\ UNCHANGED <<op, upstreamMetrics>>

\* The store now holds d.
Write(d) == data' = d /\ writes' = writes + 1

\* The id in the path of r, if parseID takes it.
ParsedID(r) == {op[r].id} \cap (Nat \ {0})
Found(r) == ParsedID(r) \cap DOMAIN data # {}

Blank(name) == name = "blank"

\* An answer that shows no item.
None == [id \in {} |-> {}]

\* The name an item gets from r.
Named(r, input) == IF input = "altered" THEN "altered" ELSE r

list(r) ==
  /\ Handles(r, "items", "GET", 200, data)
  /\ UNCHANGED storeVars

\* Mutant: the new id is one more than the number of items.
createCounts(r) ==
  \E input \in Decoded(r) \ {"none", "malformed"} :
    LET id == Cardinality(DOMAIN data) + 1
        item == [name |-> Named(r, input), value |-> r]
    IN /\ ~Blank(input)
       /\ Handles(r, "items", "POST", 201, [i \in {id} |-> item])
       /\ Write([i \in DOMAIN data \cup {id} |-> IF i = id THEN item ELSE data[i]])
       /\ UNCHANGED nextID

create(r) ==
  \E input \in Decoded(r) \ {"none", "malformed"} :
    LET item == [name |-> Named(r, input), value |-> r]
    IN /\ ~Blank(input)
       /\ Handles(r, "items", "POST", 201, [id \in {nextID} |-> item])
       /\ nextID' = nextID + 1
       /\ Write([id \in DOMAIN data \cup {nextID} |->
                   IF id = nextID THEN item ELSE data[id]])

\* "invalid JSON body", or "name is required".
CreateInvalid(r) ==
  /\ \E input \in Decoded(r) :
       input \in {"none", "malformed"} \/ Blank(input)
  /\ Handles(r, "items", "POST", 400, None)
  /\ UNCHANGED storeVars

get(r) ==
  /\ Found(r)
  /\ Handles(r, "item", "GET", 200, Restrict(data, {op[r].id}))
  /\ UNCHANGED storeVars

\* A blank name leaves the name alone.
update(r) ==
  \E input \in Decoded(r) \ {"none", "malformed"} :
    LET name == IF Blank(input) THEN data[op[r].id].name ELSE Named(r, input)
        item == [name |-> name, value |-> r]
    IN /\ Found(r)
       /\ Handles(r, "item", "PUT", 200, [id \in {op[r].id} |-> item])
       /\ Write([data EXCEPT ![op[r].id] = item])
       /\ UNCHANGED nextID

\* The body is decoded before the item is looked for.
UpdateInvalid(r) ==
  /\ ParsedID(r) # {}
  /\ Decoded(r) \cap {"none", "malformed"} # {}
  /\ Handles(r, "item", "PUT", 400, None)
  /\ UNCHANGED storeVars

delete(r) ==
  /\ Found(r)
  /\ Handles(r, "item", "DELETE", 204, None)
  /\ Write(Restrict(data, DOMAIN data \ {op[r].id}))
  /\ UNCHANGED nextID

\* No such item, or no such id at all.
NotFound(r) ==
  /\ ~Found(r)
  /\ op[r].method = "PUT" /\ ParsedID(r) # {} =>
       Decoded(r) \ {"none", "malformed"} # {}
  /\ op[r].method \in {"GET", "PUT", "DELETE"} \/ ParsedID(r) = {}
  /\ Handles(r, "item", op[r].method, 404, None)
  /\ UNCHANGED storeVars

MethodNotAllowed(r) ==
  /\ CASE op[r].path = "items" -> op[r].method \notin {"GET", "POST"}
       [] OTHER -> /\ ParsedID(r) # {}
                   /\ op[r].method \notin {"GET", "PUT", "DELETE"}
  /\ Handles(r, op[r].path, op[r].method, 405, None)
  /\ UNCHANGED storeVars

Handle(r) ==
  \/ list(r) \/ create(r) \/ CreateInvalid(r)
  \/ get(r) \/ update(r) \/ UpdateInvalid(r) \/ delete(r) \/ NotFound(r)
  \/ MethodNotAllowed(r)
=============================================================================
