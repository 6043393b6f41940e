--------------------------- MODULE DeliveryPromise ---------------------------
(***************************************************************************)
(* What the delivery queue promises an application, with no worker, clock  *)
(* or retry schedule: a delivery is open until the destination accepted it *)
(* or PayMux gave up, and only an operator opens it again.                 *)
(***************************************************************************)
CONSTANT Deliveries

VARIABLES
  fate,     \* "absent", "open", "delivered", "abandoned" or "deleted"
  accepted  \* has the destination taken the event since it was last opened?

vars == <<fate, accepted>>

Init ==
  /\ fate = [d \in Deliveries |-> "absent"]
  /\ accepted = [d \in Deliveries |-> FALSE]

(* An event opens all of its deliveries at once. *)
Publish(D) ==
  /\ \A d \in D : fate[d] = "absent"
  /\ fate' = [d \in Deliveries |-> IF d \in D THEN "open" ELSE fate[d]]
  /\ UNCHANGED accepted

Accept(d) ==
  /\ fate[d] \in {"open", "deleted"}
  /\ accepted' = [accepted EXCEPT ![d] = TRUE]
  /\ UNCHANGED fate

Deliver(d) ==
  /\ fate[d] = "open"
  /\ accepted[d]
  /\ fate' = [fate EXCEPT ![d] = "delivered"]
  /\ UNCHANGED accepted

Abandon(d) ==
  /\ fate[d] = "open"
  /\ fate' = [fate EXCEPT ![d] = "abandoned"]
  /\ UNCHANGED accepted

Reopen(d) ==
  /\ fate[d] \in {"open", "delivered", "abandoned"}
  /\ fate' = [fate EXCEPT ![d] = "open"]
  /\ accepted' = [accepted EXCEPT ![d] = FALSE]

(* A destination goes with its deliveries, also those it might have had.   *)
Delete(D) ==
  /\ fate' = [d \in Deliveries |-> IF d \in D THEN "deleted" ELSE fate[d]]
  /\ UNCHANGED accepted

Next ==
  \/ \E D \in SUBSET Deliveries : Publish(D) \/ Delete(D)
  \/ \E d \in Deliveries : Accept(d) \/ Deliver(d) \/ Abandon(d) \/ Reopen(d)

Spec == Init /\ [][Next]_vars
=============================================================================
