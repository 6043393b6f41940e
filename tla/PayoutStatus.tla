---------------------------- MODULE PayoutStatus ----------------------------
(***************************************************************************)
(* The normalized payout states and the transitions between them, from     *)
(* internal/gateway/payout.go.  The repository puts PayoutPredecessorsOf   *)
(* into the WHERE clause of the UPDATE that changes a payout, so this      *)
(* relation is what every concurrent writer is held to.                    *)
(***************************************************************************)

PayoutStatuses ==
  {"REQUESTED", "APPROVED", "SUBMITTED", "UNRESOLVED",
   "COMPLETED", "FAILED", "REJECTED"}

(* Mutant of PayoutSuccessors: a released payout may still be rejected. *)
BugPayoutSuccessors(s) ==
  CASE s = "REQUESTED"  -> {"APPROVED", "REJECTED", "FAILED"}
    [] s = "APPROVED"   -> {"SUBMITTED", "FAILED", "UNRESOLVED", "REJECTED"}
    [] s = "SUBMITTED"  -> {"COMPLETED", "FAILED"}
    [] s = "UNRESOLVED" -> {"SUBMITTED", "COMPLETED", "FAILED"}
    [] OTHER            -> {}

(* The explicit allow-list of transitions. *)
PayoutSuccessors(s) ==
  CASE s = "REQUESTED"  -> {"APPROVED", "REJECTED", "FAILED"}
    [] s = "APPROVED"   -> {"SUBMITTED", "FAILED", "UNRESOLVED"}
    [] s = "SUBMITTED"  -> {"COMPLETED", "FAILED"}
    [] s = "UNRESOLVED" -> {"SUBMITTED", "COMPLETED", "FAILED"}
    [] OTHER            -> {}

CanTransitionTo(s, next) == next \in PayoutSuccessors(s)

PayoutPredecessorsOf(next) == {s \in PayoutStatuses : next \in PayoutSuccessors(s)}

(* States from which no transition leaves. *)
TerminalPayouts == {"COMPLETED", "FAILED", "REJECTED"}

(* States the reconciliation loop still has work for. *)
InFlightPayouts == {"APPROVED", "SUBMITTED", "UNRESOLVED"}

(* States a payout reaches only after somebody (or the configuration)       *)
(* released it: the money may have moved.                                    *)
ReleasedPayouts == {"APPROVED", "SUBMITTED", "UNRESOLVED", "COMPLETED", "FAILED"}
=============================================================================
