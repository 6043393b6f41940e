-------------------------- MODULE PayoutLifecycle --------------------------
(***************************************************************************)
(* What the payout component promises, with no worker, wire or clock: a    *)
(* payout moves along the allow-list and stops in a terminal state, and    *)
(* money moves only for a payout that has been released.                   *)
(***************************************************************************)
EXTENDS Naturals, PayoutStatus

CONSTANT Payouts

VARIABLES
  status,  \* the state of each payout, "ABSENT" before it is requested
  moved    \* how many transfers the gateway has made for each payout

vars == <<status, moved>>

Init ==
  /\ status = [p \in Payouts |-> "ABSENT"]
  /\ moved = [p \in Payouts |-> 0]

(* A payout enters the system waiting for a person, or released at once.    *)
Request(p) ==
  /\ status[p] = "ABSENT"
  /\ \E s \in {"REQUESTED", "APPROVED"} : status' = [status EXCEPT ![p] = s]
  /\ UNCHANGED moved

Advance(p) ==
  /\ \E s \in PayoutSuccessors(status[p]) : status' = [status EXCEPT ![p] = s]
  /\ UNCHANGED moved

Transfer(p) ==
  /\ status[p] \in ReleasedPayouts
  /\ moved' = [moved EXCEPT ![p] = @ + 1]
  /\ UNCHANGED status

Next == \E p \in Payouts : Request(p) \/ Advance(p) \/ Transfer(p)

Spec == Init /\ [][Next]_vars
=============================================================================
