------------------------------ MODULE Admission ------------------------------
(***************************************************************************)
(* What the admission queue promises to the handlers it wraps, with no     *)
(* channels, goroutines, timers or counters: a request is refused at the   *)
(* door when MaxQueue others are waiting, waits, and then either runs      *)
(* beside at most MaxConcurrent others or is turned away.  RequestQueue    *)
(* implements this specification.                                          *)
(***************************************************************************)
EXTENDS Integers, FiniteSets

CONSTANTS Requests,   \* the requests that ever reach the handler
          QueueCap,   \* how many may wait
          SlotCap     \* how many may run

VARIABLE phase        \* phase[r]: where request r stands

Phases == {"outside", "queued", "running", "refused", "expired", "served"}

In(p) == {r \in Requests : phase[r] = p}

Init == phase = [r \in Requests |-> "outside"]

Move(r, from, to) ==
  /\ phase[r] = from
  /\ phase' = [phase EXCEPT ![r] = to]

Admit(r)  == Move(r, "outside", "queued")  /\ Cardinality(In("queued")) < QueueCap
Refuse(r) == Move(r, "outside", "refused") /\ Cardinality(In("queued")) >= QueueCap
Start(r)  == Move(r, "queued", "running")  /\ Cardinality(In("running")) < SlotCap
Expire(r) == Move(r, "queued", "expired")
Finish(r) == Move(r, "running", "served")

Next == \E r \in Requests :
          Admit(r) \/ Refuse(r) \/ Start(r) \/ Expire(r) \/ Finish(r)

Spec == Init /\ [][Next]_phase

TypeOK == phase \in [Requests -> Phases]
=============================================================================
