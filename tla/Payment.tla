------------------------------- MODULE Payment -------------------------------
(***************************************************************************)
(* Money in: internal/payment (service.go, refund_service.go and their     *)
(* repositories), the notification pipeline of internal/notification, and  *)
(* the part of the Midtrans client they reach.                             *)
(*                                                                         *)
(* Callers are API requests under way: they open a payment, ask the        *)
(* gateway about it, cancel or expire it, and refund it.  Handlers are     *)
(* notification requests under way.  All of them hold copies between two   *)
(* statements: the gateway is called outside any transaction, a row        *)
(* changes only through ApplyState, and an event is published in a         *)
(* transaction of its own afterwards.  Any of them may stop for good       *)
(* between two steps (Crash, HandlerCrash): the process dies, the client   *)
(* hangs up and its context with it, or a statement fails.                 *)
(*                                                                         *)
(* Assumed of the gateway: it moves along GatewayMoves and notifies every  *)
(* move, it redelivers a notification until it is answered with success,   *)
(* in any order, and it refunds at most what it captured and at most once  *)
(* per refund key.                                                         *)
(***************************************************************************)
EXTENDS Naturals, Sums, PaymentStatus

CONSTANTS
  Orders,          \* gateway order ids, fresh per attempt, of one application order
  Callers,         \* API requests
  Handlers,        \* notification requests
  NoOrder,
  Refunds,         \* refund rows, which are also refund keys
  NoRefund,
  Operations,      \* what callers may ask for
  GatewayMoves,    \* pairs of gateway statuses
  Amount,          \* what the customer pays
  RefundAmounts,   \* amounts callers ask to have refunded, 0 for the rest
  MaxFaults        \* bound on crashes, lost answers, redeliveries and key changes

OperationNames == {"create", "sync", "cancel", "expire", "session", "refund"}

ASSUME PaymentAssumption ==
  /\ NoOrder \notin Orders
  /\ NoRefund \notin Refunds
  /\ Operations \subseteq OperationNames
  /\ GatewayMoves \subseteq GatewayStatuses \X (GatewayStatuses \ {"none"})
  /\ Amount \in Nat \ {0}
  /\ RefundAmounts \subseteq Nat
  /\ MaxFaults \in Nat

VARIABLES
  (* the payments and refunds tables, gateway_transactions, the published
     events, and which statuses a payment was in *)
  row, was, refunds, ledger, published,
  (* gateway_events, and whether the stored server key is the gateway's *)
  recorded, keyGood,
  (* the gateway: transactions, what each went through, what it returned,
     the refund keys it executed, notifications not yet answered *)
  gw, went, returned, executed, pending,
  caller, handler, faults

storeVars   == <<row, was, refunds, ledger, published, recorded, keyGood>>
gatewayVars == <<gw, went, returned, executed, pending>>
vars == <<storeVars, gatewayVars, caller, handler, faults>>

-----------------------------------------------------------------------------
(* A payment: its status, the refunded amount, and whether it has the       *)
(* checkout session a customer pays through.                                *)
Rows == [status : Statuses \cup {"ABSENT"}, refunded : 0..Amount, session : BOOLEAN]
NoRow == [status |-> "ABSENT", refunded |-> 0, session |-> FALSE]

RefundRows == [status : {"NONE", "PENDING", "SUCCEEDED", "FAILED"}, amount : 0..Amount,
               order : Orders \cup {NoOrder}]

(* A notification is identified by what DedupeKey hashes: the order, its    *)
(* transaction and the reported status.                                     *)
Notices == Orders \X (GatewayStatuses \ {"none"})

Routings == {"none", "open", "routed", "ignored", "unrouted", "rejected"}

(* An event's dedupe key: the payment, the type (named after the status it  *)
(* announces) and a discriminator.  The notification pipeline passes none   *)
(* (NoDiscriminator), the service the refunded amount for refund events.    *)
NoDiscriminator == Amount + 1
EventKeys == Orders \X (Statuses \cup {"CREATED"}) \X (0..Amount + 1)
RefundEvents == Refunds \X {"COMPLETED", "FAILED"}

CallerStages == {"idle", "inserted", "refused", "opened", "loaded", "answered",
                 "announcing", "reserved", "refunded", "accounted", "closing"}

Idle == [stage |-> "idle", op |-> "none", order |-> NoOrder, status |-> "none",
         total |-> 0, event |-> "none", refund |-> NoRefund]

Resting == [stage |-> "idle", notice |-> <<NoOrder, "pending">>, verified |-> FALSE,
            owned |-> FALSE, event |-> "none", routing |-> "none"]

Exists(o) == row[o].status # "ABSENT"

TypeOK ==
  /\ row \in [Orders -> Rows]
  /\ was \in [Orders -> SUBSET Statuses]
  /\ refunds \in [Refunds -> RefundRows]
  /\ ledger \in [Orders -> GatewayStatuses]
  /\ published \subseteq EventKeys \cup RefundEvents
  /\ recorded \in [Notices -> Routings]
  /\ keyGood \in BOOLEAN
  /\ gw \in [Orders -> GatewayStatuses]
  /\ went \in [Orders -> SUBSET GatewayStatuses]
  /\ returned \in [Orders -> 0..Amount]
  /\ executed \subseteq Refunds
  /\ pending \subseteq Notices
  /\ caller \in [Callers ->
       [stage : CallerStages, op : OperationNames \cup {"none"}, order : Orders \cup {NoOrder},
        status : GatewayStatuses \cup Statuses \cup {Unmapped}, total : 0..Amount,
        event : Statuses \cup {"CREATED", "none"}, refund : Refunds \cup {NoRefund}]]
  /\ handler \in [Handlers ->
       [stage : {"idle", "taken", "recorded", "publishing", "marking"},
        notice : (Orders \cup {NoOrder}) \X (GatewayStatuses \ {"none"}),
        verified : BOOLEAN, owned : BOOLEAN, event : Statuses \cup {"none"},
        routing : Routings]]
  /\ faults \in 0..MaxFaults

Init ==
  /\ row = [o \in Orders |-> NoRow]
  /\ was = [o \in Orders |-> {}]
  /\ refunds = [r \in Refunds |-> [status |-> "NONE", amount |-> 0, order |-> NoOrder]]
  /\ ledger = [o \in Orders |-> "none"]
  /\ published = {}
  /\ recorded = [n \in Notices |-> "none"]
  /\ keyGood = TRUE
  /\ gw = [o \in Orders |-> "none"]
  /\ went = [o \in Orders |-> {}]
  /\ returned = [o \in Orders |-> 0]
  /\ executed = {}
  /\ pending = {}
  /\ caller = [c \in Callers |-> Idle]
  /\ handler = [h \in Handlers |-> Resting]
  /\ faults = 0

Fault == faults < MaxFaults /\ faults' = faults + 1
NoFault == UNCHANGED faults

-----------------------------------------------------------------------------
(* Rows and events *)

(* Mutant of Stale: the UPDATE loses its WHERE clause on the status. *)
BugStale(o, s) == ~Exists(o) \/ s = row[o].status

(* ApplyState's UPDATE matches no row: the payment is gone, or its status   *)
(* is not a predecessor of the new one.                                     *)
Stale(o, s) == row[o].status \notin PredecessorsOf(s)

(* The UPDATE itself.  A caller without a refunded amount leaves the one    *)
(* that is stored.                                                          *)
SetStatus(o, s) ==
  /\ row' = [row EXCEPT ![o].status = s]
  /\ was' = [was EXCEPT ![o] = @ \cup {s}]

SetRefunded(o, s, total) ==
  /\ row' = [row EXCEPT ![o].status = s, ![o].refunded = total]
  /\ was' = [was EXCEPT ![o] = @ \cup {s}]

(* UpsertGatewayTransaction keeps the last view of the gateway that was     *)
(* written, whatever the payment's own status.                              *)
Upsert(o, g) == ledger' = IF Exists(o) THEN [ledger EXCEPT ![o] = g] ELSE ledger

(* paymentDiscriminator, from the refunded amount of the updated row.       *)
Discriminator(e, refunded) ==
  IF e \in {"REFUNDED", "PARTIALLY_REFUNDED"} THEN refunded ELSE NoDiscriminator

(* Publisher.Publish stores the event, or fails: the key is taken (the      *)
(* violated index has already aborted the transaction it would commit), or  *)
(* the payment it refers to has been deleted.                               *)
CanPublish(o, key) == Exists(o) /\ key \notin published
Publish(o, key) == published' = IF CanPublish(o, key) THEN published \cup {key} ELSE published

-----------------------------------------------------------------------------
(* Callers *)

Step(c, next) == caller' = [caller EXCEPT ![c] = next]
Done(c) == Step(c, Idle)

(* Repository.Create: the unique index on the application's own order id    *)
(* allows one row.                                                          *)
InsertRow(o) ==
  /\ \A x \in Orders : ~Exists(x)
  /\ row' = [row EXCEPT ![o] = [NoRow EXCEPT !.status = "PENDING"]]
  /\ was' = [was EXCEPT ![o] = {"PENDING"}]

(* Service.Create, up to the insert, with a fresh gateway order id.         *)
Insert(c, o) ==
  /\ "create" \in Operations
  /\ caller[c].stage = "idle"
  /\ gw[o] = "none" /\ was[o] = {}
  /\ InsertRow(o)
  /\ Step(c, [Idle EXCEPT !.stage = "inserted", !.op = "create", !.order = o])
  /\ UNCHANGED <<refunds, ledger, published, recorded, keyGood, gatewayVars, handler>>
  /\ NoFault

(* The gateway opens the transaction or refuses it; the caller learns which *)
(* it was, or takes a lost answer for a refusal.                            *)
OpenAtGateway(c) ==
  LET o == caller[c].order IN
  /\ caller[c].stage = "inserted"
  /\ \/ /\ gw' = [gw EXCEPT ![o] = "pending"]
        /\ went' = [went EXCEPT ![o] = @ \cup {"pending"}]
        /\ \/ Step(c, [caller[c] EXCEPT !.stage = "opened"]) /\ NoFault
           \/ Step(c, [caller[c] EXCEPT !.stage = "refused"]) /\ Fault
     \/ /\ Step(c, [caller[c] EXCEPT !.stage = "refused"])
        /\ UNCHANGED <<gw, went>>
        /\ NoFault
  /\ UNCHANGED <<storeVars, returned, executed, pending, handler>>

(* The row is removed; its refunds and gateway transaction go with it.      *)
DeleteRow(c) ==
  LET o == caller[c].order IN
  /\ caller[c].stage = "refused"
  /\ row' = [row EXCEPT ![o] = NoRow]
  /\ ledger' = [ledger EXCEPT ![o] = "none"]
  /\ Done(c)
  /\ UNCHANGED <<was, refunds, published, recorded, keyGood, gatewayVars, handler>>
  /\ NoFault

(* SetCheckoutSession: from here on a customer can pay. *)
SaveSession(c) ==
  LET o == caller[c].order IN
  /\ caller[c].stage = "opened"
  /\ row' = IF Exists(o) THEN [row EXCEPT ![o].session = TRUE] ELSE row
  /\ Step(c, [caller[c] EXCEPT !.stage = "announcing", !.event = "CREATED"])
  /\ UNCHANGED <<was, refunds, ledger, published, recorded, keyGood, gatewayVars, handler>>
  /\ NoFault

(* Sync, Cancel, Expire and CancelCheckoutSession load the row; Cancel      *)
(* refuses a status past cancelling on that copy.                           *)
Load(c, o, op) ==
  /\ op \in Operations \cap {"sync", "cancel", "expire", "session"}
  /\ caller[c].stage = "idle"
  /\ Exists(o)
  /\ op = "cancel" => row[o].status \in Cancelable
  /\ Step(c, [Idle EXCEPT !.stage = "loaded", !.op = op, !.order = o])
  /\ UNCHANGED <<storeVars, gatewayVars, handler>>
  /\ NoFault

(* What the gateway does with the request: it cancels what has not settled, *)
(* expires what is pending, and only reports for a sync.                    *)
Moved(o, op) ==
  CASE op = "cancel" /\ gw[o] \in {"pending", "authorize", "challenge"} -> "cancel"
    [] op \in {"expire", "session"} /\ gw[o] = "pending" -> "expire"
    [] op = "sync" -> gw[o]
    [] OTHER -> "none"

(* The gateway call.  A refusal, or an order it does not know, ends the     *)
(* request; retiring a session is followed by a sync.                       *)
AskGateway(c) ==
  LET o == caller[c].order
      g == Moved(o, caller[c].op) IN
  /\ caller[c].stage = "loaded"
  /\ IF g = "none"
     THEN Done(c) /\ UNCHANGED <<gw, went, pending>>
     ELSE /\ IF g = gw[o]
             THEN UNCHANGED <<gw, went, pending>>
             ELSE /\ gw' = [gw EXCEPT ![o] = g]
                  /\ went' = [went EXCEPT ![o] = @ \cup {g}]
                  /\ pending' = pending \cup {<<o, g>>}
          /\ IF caller[c].op = "session"
             THEN Step(c, [caller[c] EXCEPT !.op = "sync"])
             ELSE Step(c, [caller[c] EXCEPT !.stage = "answered", !.status = g])
  /\ UNCHANGED <<storeVars, returned, executed, handler>>
  /\ NoFault

(* Mutant of ApplyAnswer: what the gateway said is announced, stale or not. *)
BugApplyAnswer(c) ==
  LET o == caller[c].order
      s == NormalizeStatus(caller[c].status) IN
  /\ caller[c].stage = "answered" /\ s # Unmapped
  /\ Upsert(o, caller[c].status)
  /\ IF Stale(o, s) THEN UNCHANGED <<row, was>> ELSE SetStatus(o, s)
  /\ Step(c, [caller[c] EXCEPT !.stage = "announcing", !.event = s])
  /\ UNCHANGED <<refunds, published, recorded, keyGood, gatewayVars, handler>>
  /\ NoFault

(* applyGatewayTransaction: an unmapped or stale status only touches        *)
(* last_synced_at, any other changes the row and is then announced.         *)
ApplyAnswer(c) ==
  LET o == caller[c].order
      s == NormalizeStatus(caller[c].status) IN
  /\ caller[c].stage = "answered"
  /\ Upsert(o, caller[c].status)
  /\ IF s = Unmapped \/ Stale(o, s)
     THEN Done(c) /\ UNCHANGED <<row, was>>
     ELSE /\ SetStatus(o, s)
          /\ Step(c, [caller[c] EXCEPT !.stage = "announcing", !.event = s,
                                       !.total = row[o].refunded])
  /\ UNCHANGED <<refunds, published, recorded, keyGood, gatewayVars, handler>>
  /\ NoFault

(* publishPaymentEvent only logs a failure.  A refund goes on to its own    *)
(* event.                                                                   *)
Announce(c) ==
  LET o == caller[c].order
      e == caller[c].event IN
  /\ caller[c].stage = "announcing"
  /\ \/ Publish(o, <<o, e, Discriminator(e, caller[c].total)>>) /\ NoFault
     \/ UNCHANGED published /\ Fault
  /\ IF caller[c].op = "refund"
     THEN Step(c, [caller[c] EXCEPT !.stage = "closing", !.event = "none"])
     ELSE Done(c)
  /\ UNCHANGED <<row, was, refunds, ledger, recorded, keyGood, gatewayVars, handler>>

Crash(c) ==
  /\ caller[c].stage # "idle"
  /\ Done(c)
  /\ Fault
  /\ UNCHANGED <<storeVars, gatewayVars, handler>>

-----------------------------------------------------------------------------
(* Refunds *)

Sum(S) == SumOf([r \in Refunds |-> refunds[r].amount], S)

(* Mutant of SucceededRefundTotal: refunds still under way count as done. *)
BugSucceededRefundTotal(o) ==
  Sum({r \in Refunds : refunds[r].status \in {"PENDING", "SUCCEEDED"} /\ refunds[r].order = o})

SucceededRefundTotal(o) ==
  Sum({r \in Refunds : refunds[r].status = "SUCCEEDED" /\ refunds[r].order = o})

RefundableAmount(o) == Amount - SucceededRefundTotal(o)
Refundable(o) == row[o].status \in Settled /\ RefundableAmount(o) > 0

(* Phase one, under the row's lock: the amount must fit what is left after  *)
(* the refunds that succeeded, and the refund key must be new.              *)
ReserveRefund(c, o, r, asked) ==
  LET amount == IF asked = 0 THEN RefundableAmount(o) ELSE asked IN
  /\ "refund" \in Operations
  /\ caller[c].stage = "idle"
  /\ Refundable(o)
  /\ amount <= RefundableAmount(o)
  /\ refunds[r].status = "NONE"
  /\ refunds' = [refunds EXCEPT ![r] = [status |-> "PENDING", amount |-> amount, order |-> o]]
  /\ Step(c, [Idle EXCEPT !.stage = "reserved", !.op = "refund", !.order = o, !.refund = r])
  /\ UNCHANGED <<row, was, ledger, published, recorded, keyGood, gatewayVars, handler>>
  /\ NoFault

(* Phase two, outside any transaction.  Midtrans refunds at most what it    *)
(* captured; its answer may leave out the payment's status or the total.    *)
(* A lost answer is taken for a refusal.                                    *)
RefundAtGateway(c) ==
  LET o == caller[c].order
      r == caller[c].refund
      total == returned[o] + refunds[r].amount
      g == IF total = Amount THEN "refund" ELSE "partial_refund"
      failed == [caller[c] EXCEPT !.stage = "refunded", !.event = "FAILED"] IN
  /\ caller[c].stage = "reserved"
  /\ \/ /\ gw[o] \in {"capture", "settlement", "partial_refund"} /\ total <= Amount
        /\ gw' = [gw EXCEPT ![o] = g]
        /\ went' = [went EXCEPT ![o] = @ \cup {g}]
        /\ returned' = [returned EXCEPT ![o] = total]
        /\ executed' = executed \cup {r}
        /\ pending' = pending \cup {<<o, g>>}
        /\ \/ /\ \E s \in {g, "none"}, t \in {total, 0} :
                   Step(c, [caller[c] EXCEPT !.stage = "refunded", !.status = s, !.total = t])
              /\ NoFault
           \/ Step(c, failed) /\ Fault
     \/ /\ Step(c, failed)
        /\ UNCHANGED gatewayVars
        /\ NoFault
  /\ UNCHANGED <<storeVars, handler>>

(* UpdateRefund.  When recording a failure itself fails that is only        *)
(* logged.                                                                  *)
RecordRefund(c) ==
  LET r == caller[c].refund IN
  /\ caller[c].stage = "refunded"
  /\ IF caller[c].event = "FAILED"
     THEN /\ Step(c, [caller[c] EXCEPT !.stage = "closing"])
          /\ \/ refunds' = [refunds EXCEPT ![r].status = "FAILED"] /\ NoFault
             \/ UNCHANGED refunds /\ Fault
     ELSE /\ Step(c, [caller[c] EXCEPT !.stage = "accounted"])
          /\ refunds' = [refunds EXCEPT ![r].status = "SUCCEEDED"]
          /\ NoFault
  /\ UNCHANGED <<row, was, ledger, published, recorded, keyGood, gatewayVars, handler>>

(* Mutant of RefundedTotal: this refund is counted once more. *)
BugRefundedTotal(c) ==
  LET r == caller[c].refund IN
  IF caller[c].total = 0 THEN SucceededRefundTotal(caller[c].order) + refunds[r].amount
  ELSE caller[c].total

(* The cumulative amount the gateway gave, or the sum of PayMux's own.      *)
RefundedTotal(c) ==
  IF caller[c].total = 0 THEN SucceededRefundTotal(caller[c].order) ELSE caller[c].total

(* Mutant of StatusAfterRefund: any refund that was carried out is complete. *)
BugStatusAfterRefund(c) ==
  IF NormalizeStatus(caller[c].status) # Unmapped
  THEN NormalizeStatus(caller[c].status) ELSE "REFUNDED"

(* The gateway's word for the payment, when it gave one.                    *)
StatusAfterRefund(c) ==
  LET s == NormalizeStatus(caller[c].status) IN
  CASE s # Unmapped -> s
    [] s = Unmapped /\ RefundedTotal(c) >= Amount -> "REFUNDED"
    [] OTHER -> "PARTIALLY_REFUNDED"

ApplyRefundToPayment(c) ==
  LET o == caller[c].order
      s == StatusAfterRefund(c) IN
  /\ caller[c].stage = "accounted"
  /\ IF Stale(o, s)
     THEN Step(c, [caller[c] EXCEPT !.stage = "closing"]) /\ UNCHANGED <<row, was>>
     ELSE /\ SetRefunded(o, s, RefundedTotal(c))
          /\ Step(c, [caller[c] EXCEPT !.stage = "announcing", !.event = s,
                                       !.total = RefundedTotal(c)])
  /\ UNCHANGED <<refunds, ledger, published, recorded, keyGood, gatewayVars, handler>>
  /\ NoFault

(* publishRefundEvent *)
CloseRefund(c) ==
  LET o == caller[c].order
      key == <<caller[c].refund, IF caller[c].event = "FAILED" THEN "FAILED" ELSE "COMPLETED">> IN
  /\ caller[c].stage = "closing"
  /\ Publish(o, key)
  /\ Done(c)
  /\ UNCHANGED <<row, was, refunds, ledger, recorded, keyGood, gatewayVars, handler>>
  /\ NoFault

-----------------------------------------------------------------------------
(* Notifications *)

Proceed(h, next) == handler' = [handler EXCEPT ![h] = next]
Rest(h) == Proceed(h, Resting)
Acknowledge(h) == pending' = pending \ {handler[h].notice}

(* Process verifies the signature and looks the owner up.                   *)
Receive(h, n) ==
  /\ handler[h].stage = "idle"
  /\ n \in pending
  /\ Proceed(h, [Resting EXCEPT !.stage = "taken", !.notice = n, !.verified = keyGood,
                                !.owned = Exists(n[1])])
  /\ UNCHANGED <<storeVars, gatewayVars, caller>>
  /\ NoFault

(* Mutant of RoutingOf: a recorded notification counts as done, so its   *)
(* routing is final before it is applied.                                   *)
BugRoutingOf(h) ==
  CASE ~handler[h].verified -> "rejected"
    [] handler[h].verified /\ ~handler[h].owned -> "unrouted"
    [] OTHER -> "routed"

(* Stored as routed, and unprocessed until MarkProcessed: "open".           *)
RoutingOf(h) ==
  CASE ~handler[h].verified -> "rejected"
    [] handler[h].verified /\ ~handler[h].owned -> "unrouted"
    [] OTHER -> "open"

(* The unique dedupe key refuses a notification already recorded: one that  *)
(* verified is answered with success, one that did not with a failure.  The *)
(* payment may have been deleted since it was looked up; the insert then    *)
(* violates its foreign key.                                                *)
RecordNotice(h) ==
  LET n == handler[h].notice IN
  /\ handler[h].stage = "taken"
  /\ \/ /\ recorded[n] # "none"
        /\ Rest(h)
        /\ IF handler[h].verified THEN Acknowledge(h) ELSE UNCHANGED pending
        /\ UNCHANGED recorded
     \/ /\ recorded[n] = "none"
        /\ handler[h].verified /\ handler[h].owned /\ ~Exists(n[1])
        /\ Rest(h)
        /\ UNCHANGED <<recorded, pending>>
     \/ /\ recorded[n] = "none"
        /\ handler[h].verified /\ handler[h].owned => Exists(n[1])
        /\ recorded' = [recorded EXCEPT ![n] = RoutingOf(h)]
        /\ CASE ~handler[h].verified -> Rest(h) /\ UNCHANGED pending
             [] handler[h].verified /\ ~handler[h].owned -> Rest(h) /\ Acknowledge(h)
             [] OTHER -> /\ Proceed(h, [handler[h] EXCEPT !.stage = "recorded"])
                         /\ UNCHANGED pending
  /\ UNCHANGED <<row, was, refunds, ledger, published, keyGood, gw, went, returned, executed, caller>>
  /\ NoFault

(* Processor.apply: an unmapped or stale status is marked ignored, any      *)
(* other changes the row.                                                   *)
ApplyNotice(h) ==
  LET n == handler[h].notice
      s == NormalizeStatus(n[2]) IN
  /\ handler[h].stage = "recorded"
  /\ IF s = Unmapped THEN UNCHANGED ledger ELSE Upsert(n[1], n[2])
  /\ IF s = Unmapped \/ Stale(n[1], s)
     THEN /\ Proceed(h, [handler[h] EXCEPT !.stage = "marking", !.routing = "ignored"])
          /\ UNCHANGED <<row, was>>
     ELSE /\ SetStatus(n[1], s)
          /\ Proceed(h, [handler[h] EXCEPT !.stage = "publishing", !.event = s])
  /\ UNCHANGED <<refunds, published, recorded, keyGood, gatewayVars, caller>>
  /\ NoFault

(* A publication that fails fails the request: the gateway is asked to      *)
(* redeliver.                                                               *)
PublishNotice(h) ==
  LET o == handler[h].notice[1]
      key == <<o, handler[h].event, NoDiscriminator>> IN
  /\ handler[h].stage = "publishing"
  /\ Publish(o, key)
  /\ IF CanPublish(o, key)
     THEN Proceed(h, [handler[h] EXCEPT !.stage = "marking", !.routing = "routed"])
     ELSE Rest(h)
  /\ UNCHANGED <<row, was, refunds, ledger, recorded, keyGood, gatewayVars, caller>>
  /\ NoFault

MarkProcessed(h) ==
  /\ handler[h].stage = "marking"
  /\ recorded' = [recorded EXCEPT ![handler[h].notice] = handler[h].routing]
  /\ Acknowledge(h)
  /\ Rest(h)
  /\ UNCHANGED <<row, was, refunds, ledger, published, keyGood, gw, went, returned, executed, caller>>
  /\ NoFault

HandlerCrash(h) ==
  /\ handler[h].stage # "idle"
  /\ Rest(h)
  /\ Fault
  /\ UNCHANGED <<storeVars, gatewayVars, caller>>

(* The gateway sends again what was already answered.                       *)
Redeliver(n) ==
  /\ recorded[n] # "none" /\ n \notin pending
  /\ pending' = pending \cup {n}
  /\ Fault
  /\ UNCHANGED <<storeVars, gw, went, returned, executed, caller, handler>>

(* An administrator stores a server key that is not the gateway's, and      *)
(* corrects it.                                                             *)
ChangeServerKey ==
  /\ keyGood' = ~keyGood
  /\ Fault
  /\ UNCHANGED <<row, was, refunds, ledger, published, recorded, gatewayVars, caller, handler>>

-----------------------------------------------------------------------------
(* A customer pays, or does not, through the session; the gateway decides   *)
(* and notifies.                                                            *)
GatewayMove(o) ==
  /\ row[o].session
  /\ \E m \in GatewayMoves :
       /\ m[1] = gw[o]
       /\ gw' = [gw EXCEPT ![o] = m[2]]
       /\ went' = [went EXCEPT ![o] = @ \cup {m[2]}]
       /\ pending' = pending \cup {<<o, m[2]>>}
  /\ UNCHANGED <<storeVars, returned, executed, caller, handler>>
  /\ NoFault

CallerStep(c) ==
  \/ OpenAtGateway(c) \/ DeleteRow(c) \/ SaveSession(c)
  \/ AskGateway(c) \/ ApplyAnswer(c) \/ Announce(c)
  \/ RefundAtGateway(c) \/ RecordRefund(c) \/ ApplyRefundToPayment(c) \/ CloseRefund(c)

HandlerStep(h) ==
  RecordNotice(h) \/ ApplyNotice(h) \/ PublishNotice(h) \/ MarkProcessed(h)

Next ==
  \/ \E c \in Callers, o \in Orders : Insert(c, o)
  \/ \E c \in Callers, o \in Orders, op \in Operations : Load(c, o, op)
  \/ \E c \in Callers, o \in Orders, r \in Refunds, a \in RefundAmounts : ReserveRefund(c, o, r, a)
  \/ \E c \in Callers : CallerStep(c) \/ Crash(c)
  \/ \E h \in Handlers, n \in Notices : Receive(h, n)
  \/ \E h \in Handlers : HandlerStep(h) \/ HandlerCrash(h)
  \/ \E n \in Notices : Redeliver(n)
  \/ ChangeServerKey
  \/ \E o \in Orders : GatewayMove(o)

Spec == Init /\ [][Next]_vars

-----------------------------------------------------------------------------
(* Properties *)

(* The row and the money agree, whatever order answers, notifications and   *)
(* refunds are applied in: a settled payment was captured, one written off  *)
(* as failed, canceled or expired was not, and a refunded one was returned  *)
(* in full (NormalizeStatus, ApplyState's guard, applyRefundToPayment).     *)
MoneyMatchesRow ==
  \A o \in Orders :
    /\ row[o].status \in Settled => went[o] \cap Captured # {}
    /\ row[o].status \in Terminal \ Settled => went[o] \cap Captured = {}
    /\ row[o].status = "REFUNDED" => returned[o] = Amount

(* PayMux never claims to have given back more than the gateway did: not in *)
(* a refund it calls successful, nor in the payment's refunded amount, with *)
(* other refunds of the payment under way.                                  *)
RefundsHappened ==
  /\ \A r \in Refunds : refunds[r].status = "SUCCEEDED" => r \in executed
  /\ \A o \in Orders : row[o].refunded <= returned[o]

(* An event announces a status the payment really was in, although it is    *)
(* published after, and apart from, the change; a refund announced as       *)
(* completed was carried out.                                               *)
EventsAreTrue ==
  /\ \A k \in published \ RefundEvents :
       IF k[2] = "CREATED" THEN gw[k[1]] # "none" ELSE k[2] \in was[k[1]]
  /\ \A r \in Refunds : <<r, "COMPLETED">> \in published => r \in executed

(* The abstract promise: decided once, a won payment stays won, and the     *)
(* outcome told is the outcome there is.                                    *)
Phase(o) ==
  CASE row[o].status = "ABSENT" -> "absent"
    [] row[o].status \in Cancelable -> "open"
    [] row[o].status \in Settled -> "won"
    [] OTHER -> "lost"

Told(o) ==
  {IF k[2] \in Settled THEN "won" ELSE "lost" :
     k \in {e \in published \ RefundEvents : e[1] = o /\ e[2] \in Settled \cup Terminal}}

Lifecycle == INSTANCE PaymentLifecycle WITH
  phase <- [o \in Orders |-> Phase(o)], told <- [o \in Orders |-> Told(o)]
LifecycleHolds == Lifecycle!Spec

-----------------------------------------------------------------------------
(* Liveness.  Requests under way go on (Go runs their goroutines) and the   *)
(* gateway redelivers each unanswered notification again and again.         *)
(* Customers, callers, faults and administrators are not fair.              *)
Fairness ==
  /\ \A c \in Callers : WF_vars(CallerStep(c))
  /\ \A h \in Handlers : WF_vars(HandlerStep(h))
  /\ \A n \in Orders \X Captured : SF_vars(\E h \in Handlers : Receive(h, n))

FairSpec == Spec /\ Fairness

(* A recorded notification that an operator can find unsettled: unprocessed,*)
(* unrouted or rejected.                                                    *)
Flagged(o) == \E g \in Captured : recorded[<<o, g>>] \in {"open", "unrouted", "rejected"}

(* Captured money is not forgotten: whatever is lost, repeated, reordered   *)
(* or cut off by a crash, the payment ends up settled for good, or its      *)
(* notification stays flagged for an operator.                              *)
CaptureIsNotForgotten ==
  \A o \in Orders :
    gw[o] \in Captured ~> [](row[o].status \in Settled \/ Flagged(o))

-----------------------------------------------------------------------------
(* Statements of the documentation that the code does not keep *)

(* gateway/status.go: "a payment never moves backwards, and never leaves a  *)
(* terminal status"; its rank exists "to stop a delayed or reordered        *)
(* notification from downgrading a payment".                                *)
NeverBackwards ==
  [][\A o \in Orders : row[o].status \in Terminal /\ Exists(o)' =>
       row'[o].status = row[o].status]_vars

=============================================================================
