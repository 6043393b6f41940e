-------------------------- MODULE PaymentLifecycle --------------------------
(***************************************************************************)
(* What PayMux promises an application about one of its orders: a payment  *)
(* is open until it is decided, it is decided once, a payment that was won *)
(* (the money was captured) stays won and is never withdrawn, and the      *)
(* outcome the application is told is the outcome there is.                *)
(***************************************************************************)
CONSTANT Orders

VARIABLES phase, told

vars == <<phase, told>>

Phases == {"absent", "open", "lost", "won"}

Init ==
  /\ phase = [o \in Orders |-> "absent"]
  /\ told = [o \in Orders |-> {}]

Open(o) ==
  /\ phase[o] = "absent"
  /\ phase' = [phase EXCEPT ![o] = "open"]
  /\ UNCHANGED told

(* A payment the gateway never opened for the application is removed.       *)
Withdraw(o) ==
  /\ phase[o] \in {"open", "lost"}
  /\ phase' = [phase EXCEPT ![o] = "absent"]
  /\ UNCHANGED told

Decide(o) ==
  /\ phase[o] = "open"
  /\ \E p \in {"lost", "won"} : phase' = [phase EXCEPT ![o] = p]
  /\ UNCHANGED told

(* Only one outcome is ever told, the one the payment has.                  *)
Tell(o) ==
  /\ told[o] = {}
  /\ phase[o] \in {"lost", "won"}
  /\ told' = [told EXCEPT ![o] = {phase[o]}]
  /\ UNCHANGED phase

Next == \E o \in Orders : Open(o) \/ Withdraw(o) \/ Decide(o) \/ Tell(o)

Spec == Init /\ [][Next]_vars
=============================================================================
