---------------------------- MODULE PaymentStatus ----------------------------
(***************************************************************************)
(* The normalized payment states of internal/gateway/status.go, the rule   *)
(* for moving between them, and the mapping of Midtrans's transaction      *)
(* states onto them (midtrans/mapper.go).  The payment repository puts     *)
(* PredecessorsOf into the WHERE clause of the UPDATE that changes a       *)
(* payment, so this rule is what every concurrent writer is held to.       *)
(***************************************************************************)
EXTENDS Naturals

Statuses == {"PENDING", "AUTHORIZED", "FAILED", "CANCELED", "EXPIRED", "PAID",
             "PARTIALLY_REFUNDED", "REFUNDED"}

Terminal == {"FAILED", "CANCELED", "EXPIRED", "REFUNDED"}
Settled  == {"PAID", "REFUNDED", "PARTIALLY_REFUNDED"}

(* Statuses in which a payment may still be cancelled. *)
Cancelable == {"PENDING", "AUTHORIZED"}

Rank == [s \in Statuses |->
           CASE s = "PENDING"    -> 10
             [] s = "AUTHORIZED" -> 20
             [] s \in {"FAILED", "CANCELED", "EXPIRED"} -> 30
             [] s = "PAID" -> 40
             [] s = "PARTIALLY_REFUNDED" -> 50
             [] s = "REFUNDED" -> 60]

(* Out of a settled payment only refunds lead, out of any other terminal    *)
(* one nothing does, and everything else must climb.                        *)
CanTransitionTo(s, next) ==
  /\ s \in Statuses /\ next \in Statuses
  /\ s # next
  /\ IF s \in Settled
     THEN next \in {"PARTIALLY_REFUNDED", "REFUNDED"}
     ELSE s \notin Terminal /\ Rank[next] > Rank[s]

PredecessorsOf(next) == {s \in Statuses : CanTransitionTo(s, next)}

-----------------------------------------------------------------------------
(* Midtrans reports a transaction status and, for cards, a fraud status.    *)
(* "challenge" and "fraud" stand for a capture that fraud screening holds   *)
(* or denies, "chargeback" for any status this build does not map, "none"   *)
(* for an order Midtrans does not know.                                     *)
GatewayStatuses == {"none", "pending", "authorize", "challenge", "fraud", "capture",
                    "settlement", "deny", "failure", "cancel", "expire", "refund",
                    "partial_refund", "chargeback"}

(* The gateway holds the customer's money or has given it back. *)
Captured == {"capture", "settlement", "refund", "partial_refund", "chargeback"}

Unmapped == "unmapped"

(* Mutant of NormalizeStatus: every capture counts as paid. *)
BugCaptureIsPaid(g) ==
  CASE g = "pending" -> "PENDING"
    [] g = "authorize" -> "AUTHORIZED"
    [] g \in {"capture", "challenge", "fraud", "settlement"} -> "PAID"
    [] g \in {"deny", "failure"} -> "FAILED"
    [] g = "cancel" -> "CANCELED"
    [] g = "expire" -> "EXPIRED"
    [] g = "refund" -> "REFUNDED"
    [] g = "partial_refund" -> "PARTIALLY_REFUNDED"
    [] OTHER -> Unmapped

NormalizeStatus(g) ==
  CASE g = "pending" -> "PENDING"
    [] g \in {"authorize", "challenge"} -> "AUTHORIZED"
    [] g \in {"capture", "settlement"} -> "PAID"
    [] g \in {"deny", "failure", "fraud"} -> "FAILED"
    [] g = "cancel" -> "CANCELED"
    [] g = "expire" -> "EXPIRED"
    [] g = "refund" -> "REFUNDED"
    [] g = "partial_refund" -> "PARTIALLY_REFUNDED"
    [] OTHER -> Unmapped
=============================================================================
