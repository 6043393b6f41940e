-------------------------- MODULE PaymentSafetyProofs --------------------------
(***************************************************************************)
(* What Payment promises, for every value of the constants.  It refines    *)
(* PaymentLifecycle: the inductive invariant of PaymentProofs gives the    *)
(* two facts that needs, that a payment that was in an outcome is still in *)
(* it, and that what is announced is what the payment was in.  Then money: *)
(* a payment written off was not captured, a refund called successful was  *)
(* carried out, a payment called refunded was returned in full.  Last the  *)
(* types, which need what is known of amounts and of requests under way.   *)
(***************************************************************************)
EXTENDS PaymentProofs, SumLemmas

phaseOf == [o \in Orders |-> Phase(o)]
toldOf == [o \in Orders |-> Told(o)]

(* Nobody can have paid a payment that is about to be removed.              *)
LEMMA Removable ==
  ASSUME PaymentInv, NEW o \in Orders, Exists(o), ~row[o].session PROVE Phase(o) \in {"open", "lost"}
<1>1. row[o].status \notin Settled
  BY DEF PaymentInv, MoneyInv, CapturedThroughSession, SettledWasCaptured
<1> QED
  BY <1>1 DEF Phase, Exists

LEMMA NothingTold ==
  UNCHANGED published => toldOf' = toldOf
BY DEF toldOf, Told

LEMMA NothingDecided ==
  ASSUME \A p \in Orders : row'[p].status = row[p].status PROVE phaseOf' = phaseOf
BY DEF phaseOf, Phase

(* A step on one row is the abstract step on one phase.                     *)
LEMMA RowMaps ==
  ASSUME PaymentInv, NEW o \in Orders, NEW x, row' = [row EXCEPT ![o] = x]
  PROVE  phaseOf' = [phaseOf EXCEPT ![o] = Phase(o)']
<1>1. row'[o] = x /\ \A p \in Orders \ {o} : row'[p] = row[p]
  BY DEF PaymentInv, RowsAreTrue
<1>2. \A p \in Orders \ {o} : Phase(p)' = Phase(p)
  BY <1>1 DEF Phase
<1> QED
  BY <1>2 DEF phaseOf

(* ApplyState decides an open payment or leaves the outcome alone.          *)
LEMMA StatusMaps ==
  ASSUME PaymentInv, NEW o \in Orders, NEW s, ~Stale(o, s), NEW x, x.status = s,
         row' = [row EXCEPT ![o] = x], UNCHANGED published
  PROVE  [Lifecycle!Next]_(Lifecycle!vars)
<1>1. toldOf' = toldOf /\ phaseOf' = [phaseOf EXCEPT ![o] = Phase(o)']
  BY NothingTold, RowMaps
<1>2. row'[o].status = s
  BY DEF PaymentInv, RowsAreTrue
<1>3. /\ row[o].status \in Statuses /\ s \in Statuses
      /\ row[o].status \in Settled => s \in Settled
      /\ row[o].status \notin Settled => row[o].status \notin Terminal
  BY StatusFacts DEF Stale
<1>4. \/ Phase(o) = "won" /\ Phase(o)' = "won"
      \/ Phase(o) = "open" /\ Phase(o)' \in {"open", "won", "lost"}
  BY <1>2, <1>3 DEF Phase, Statuses, Settled, Terminal, Cancelable
<1>5. CASE Phase(o)' = Phase(o)
  <2>1. phaseOf' = phaseOf
    BY <1>1, <1>5 DEF phaseOf
  <2> QED
    BY <1>1, <2>1 DEF Lifecycle!vars, phaseOf, toldOf
<1>6. CASE Phase(o)' # Phase(o)
  <2>1. PICK p \in {"lost", "won"} : Phase(o)' = p
    BY <1>4, <1>6
  <2>2. phaseOf' = [phaseOf EXCEPT ![o] = p] /\ phaseOf[o] = "open"
    BY <1>1, <1>4, <1>6, <2>1 DEF phaseOf
  <2>3. Lifecycle!Decide(o)
    BY <1>1, <2>2 DEF Lifecycle!Decide, phaseOf, toldOf
  <2> QED
    BY <2>3 DEF Lifecycle!Next
<1> QED
  BY <1>5, <1>6

LEMMA SetStatusMaps ==
  ASSUME PaymentInv, NEW o \in Orders, NEW s, ~Stale(o, s), SetStatus(o, s), UNCHANGED published
  PROVE  [Lifecycle!Next]_(Lifecycle!vars)
<1>1. PICK x : x = [row[o] EXCEPT !.status = s]
  OBVIOUS
<1>2. x.status = s
  BY <1>1 DEF PaymentInv, RowsAreTrue, IsRow
<1> QED
  BY <1>1, <1>2, StatusMaps DEF SetStatus

LEMMA SetRefundedMaps ==
  ASSUME PaymentInv, NEW o \in Orders, NEW s, NEW t, ~Stale(o, s), SetRefunded(o, s, t),
         UNCHANGED published
  PROVE  [Lifecycle!Next]_(Lifecycle!vars)
<1>1. PICK x : x = [row[o] EXCEPT !.status = s, !.refunded = t]
  OBVIOUS
<1>2. IsRow(row[o])
  BY DEF PaymentInv, RowsAreTrue
<1>3. x.status = s
  BY <1>1, <1>2 DEF IsRow
<1>4. row' = [row EXCEPT ![o] = x]
  BY <1>1, <1>2 DEF SetRefunded, IsRow
<1> QED
  BY <1>3, <1>4, StatusMaps

(* What has been told of a payment that exists is the outcome it has.       *)
LEMMA ToldIsPhase ==
  ASSUME PaymentInv, NEW o \in Orders, Exists(o) PROVE Told(o) \subseteq {Phase(o)}
<1> SUFFICES ASSUME NEW k \in published \ RefundEvents, k[1] = o, k[2] \in Outcomes
             PROVE  OutcomeOf(k[2]) = Phase(o)
  BY DEF Told, OutcomeOf, Outcomes
<1>1. k[2] # "CREATED"
  BY DEF Outcomes, Settled, Terminal
<1>2. k[2] \in was[o]
  BY <1>1 DEF PaymentInv, EventsInv, EventsAreTrue
<1> QED
  BY <1>2 DEF PaymentInv, RowsAreTrue

LEMMA PublishMaps ==
  ASSUME PaymentInv, NEW o \in Orders, NEW e, NEW d, Publish(o, <<o, e, d>>),
         e = "CREATED" \/ e \in was[o], UNCHANGED row
  PROVE  [Lifecycle!Next]_(Lifecycle!vars)
<1>1. phaseOf' = phaseOf
  BY NothingDecided
<1>2. CASE UNCHANGED published
  BY <1>1, <1>2, NothingTold DEF Lifecycle!vars, phaseOf, toldOf
<1>3. CASE published' # published
  <2>1. Exists(o) /\ published' = published \cup {<<o, e, d>>}
    BY <1>3 DEF Publish, CanPublish
  <2>2. PICK k : k = <<o, e, d>>
    OBVIOUS
  <2>3. k \notin RefundEvents /\ k[1] = o /\ k[2] = e
    BY <2>2 DEF RefundEvents
  <2>4. published' \ RefundEvents = (published \ RefundEvents) \cup {k}
    BY <2>1, <2>2, <2>3
  <2>5. \A p \in Orders \ {o} : Told(p)' = Told(p)
    BY <2>3, <2>4 DEF Told, RefundEvents
  <2>6. CASE e \notin Outcomes
    <3>1. Told(o)' = Told(o)
      BY <2>3, <2>4, <2>6 DEF Told, RefundEvents, Outcomes
    <3>2. toldOf' = toldOf
      BY <2>5, <3>1 DEF toldOf
    <3> QED
      BY <1>1, <3>2 DEF Lifecycle!vars, phaseOf, toldOf
  <2>7. CASE e \in Outcomes
    <3>1. e \in was[o]
      BY <2>7 DEF Outcomes, Settled, Terminal
    <3>2. Phase(o) = OutcomeOf(e)
      BY <2>1, <2>7, <3>1 DEF PaymentInv, RowsAreTrue
    <3>3. Told(o)' = Told(o) \cup {Phase(o)}
      BY <2>3, <2>4, <2>7, <3>2 DEF Told, RefundEvents, OutcomeOf, Outcomes
    <3>4. Told(o) = {} \/ Told(o) = {Phase(o)}
      BY <2>1, ToldIsPhase
    <3>5. CASE Told(o) = {}
      <4>1. toldOf' = [toldOf EXCEPT ![o] = {Phase(o)}]
        BY <2>5, <3>3, <3>5 DEF toldOf
      <4>2. Lifecycle!Tell(o)
        BY <1>1, <3>2, <3>5, <4>1 DEF Lifecycle!Tell, phaseOf, toldOf, OutcomeOf
      <4> QED
        BY <4>2 DEF Lifecycle!Next
    <3>6. CASE Told(o) = {Phase(o)}
      <4>1. toldOf' = toldOf
        BY <2>5, <3>3, <3>6 DEF toldOf
      <4> QED
        BY <1>1, <4>1 DEF Lifecycle!vars, phaseOf, toldOf
    <3> QED
      BY <3>4, <3>5, <3>6
  <2> QED
    BY <2>6, <2>7
<1> QED
  BY <1>2, <1>3

(* Steps that change no status and tell of no outcome.                      *)
LEMMA Stutters ==
  ASSUME \A p \in Orders : row'[p].status = row[p].status,
         published' \ RefundEvents = published \ RefundEvents
  PROVE  [Lifecycle!Next]_(Lifecycle!vars)
<1>1. toldOf' = toldOf
  BY DEF toldOf, Told, RefundEvents
<1> QED
  BY <1>1, NothingDecided DEF Lifecycle!vars, phaseOf, toldOf

-----------------------------------------------------------------------------

LEMMA CallerMaps ==
  ASSUME PaymentInv, NEW c \in Callers, CallerStep(c) PROVE [Lifecycle!Next]_(Lifecycle!vars)
<1>1. PICK q : q = caller[c]
  OBVIOUS
<1>2. PICK o : o = q.order
  OBVIOUS
<1>3. CallIsTrue(q) /\ (q.stage # "idle" => o \in Orders)
  BY <1>1, <1>2 DEF PaymentInv, CallsAreTrue, CallIsTrue
<1>4. CASE DeleteRow(c)
  <2>1. /\ o \in Orders /\ Exists(o) /\ ~row[o].session
        /\ row' = [row EXCEPT ![o] = NoRow] /\ UNCHANGED published
    BY <1>1, <1>2, <1>3, <1>4 DEF DeleteRow, CallIsTrue, Creating
  <2>2. row'[o].status = "ABSENT"
    BY <2>1, NoRowFacts DEF PaymentInv, RowsAreTrue
  <2>3. Phase(o)' = "absent"
    BY <2>2 DEF Phase, Cancelable, Settled
  <2>4. Lifecycle!Withdraw(o)
    BY <2>1, <2>3, RowMaps, NothingTold, Removable DEF Lifecycle!Withdraw, phaseOf, toldOf
  <2> QED
    BY <2>1, <2>4 DEF Lifecycle!Next
<1>5. CASE SaveSession(c)
  <2>1. o \in Orders /\ UNCHANGED published
        /\ row' = IF Exists(o) THEN [row EXCEPT ![o].session = TRUE] ELSE row
    BY <1>1, <1>2, <1>3, <1>5 DEF SaveSession
  <2>2. \A p \in Orders : row'[p].status = row[p].status
    BY <2>1 DEF PaymentInv, RowsAreTrue, IsRow
  <2> QED
    BY <2>1, <2>2, Stutters
<1>6. CASE ApplyAnswer(c)
  <2>1. PICK s : s = NormalizeStatus(q.status)
    OBVIOUS
  <2>2. o \in Orders /\ UNCHANGED published
        /\ (UNCHANGED row \/ (~Stale(o, s) /\ SetStatus(o, s)))
    BY <1>1, <1>2, <1>3, <1>6, <2>1 DEF ApplyAnswer
  <2> QED
    BY <2>2, SetStatusMaps, Stutters
<1>7. CASE ApplyRefundToPayment(c)
  <2>1. PICK s : s = StatusAfterRefund(c)
    OBVIOUS
  <2>2. PICK t : t = RefundedTotal(c)
    OBVIOUS
  <2>3. o \in Orders /\ UNCHANGED published
        /\ (UNCHANGED row \/ (~Stale(o, s) /\ SetRefunded(o, s, t)))
    BY <1>1, <1>2, <1>3, <1>7, <2>1, <2>2 DEF ApplyRefundToPayment
  <2> QED
    BY <2>3, SetRefundedMaps, Stutters
<1>8. CASE Announce(c)
  <2>1. /\ o \in Orders /\ UNCHANGED row
        /\ q.event = "CREATED" \/ q.event \in was[o]
        /\ UNCHANGED published \/ Publish(o, <<o, q.event, Discriminator(q.event, q.total)>>)
    BY <1>1, <1>2, <1>3, <1>8 DEF Announce, CallIsTrue
  <2> QED
    BY <2>1, PublishMaps, Stutters
<1>9. CASE CloseRefund(c)
  <2>1. PICK t \in {"COMPLETED", "FAILED"} : Publish(o, <<q.refund, t>>)
    BY <1>1, <1>2, <1>9 DEF CloseRefund
  <2>2. q.refund \in Refunds /\ UNCHANGED row
    BY <1>1, <1>3, <1>9 DEF CloseRefund, CallIsTrue, Refunding
  <2>3. published' \ RefundEvents = published \ RefundEvents
    BY <2>1, <2>2 DEF Publish, RefundEvents
  <2> QED
    BY <2>2, <2>3, Stutters
<1>10. CASE OpenAtGateway(c) \/ AskGateway(c) \/ RefundAtGateway(c) \/ RecordRefund(c)
  BY <1>10, Stutters DEF OpenAtGateway, AskGateway, RefundAtGateway, RecordRefund, storeVars
<1> QED
  BY <1>4, <1>5, <1>6, <1>7, <1>8, <1>9, <1>10 DEF CallerStep

LEMMA HandlerMaps ==
  ASSUME PaymentInv, NEW h \in Handlers, HandlerStep(h) PROVE [Lifecycle!Next]_(Lifecycle!vars)
<1>1. PICK q : q = handler[h]
  OBVIOUS
<1>2. PICK o : o = q.notice[1]
  OBVIOUS
<1>3. HandlerIsTrue(q) /\ (q.stage # "idle" => o \in Orders)
  BY <1>1, <1>2 DEF PaymentInv, NoticesAreTrue, HandlerIsTrue, NoticeIsTrue, Notices
<1>4. CASE ApplyNotice(h)
  <2>1. PICK s : s = NormalizeStatus(q.notice[2])
    OBVIOUS
  <2>2. o \in Orders /\ UNCHANGED published
        /\ (UNCHANGED row \/ (~Stale(o, s) /\ SetStatus(o, s)))
    BY <1>1, <1>2, <1>3, <1>4, <2>1 DEF ApplyNotice
  <2> QED
    BY <2>2, SetStatusMaps, Stutters
<1>5. CASE PublishNotice(h)
  <2>1. /\ o \in Orders /\ UNCHANGED row /\ q.event \in was[o]
        /\ Publish(o, <<o, q.event, NoDiscriminator>>)
    BY <1>1, <1>2, <1>3, <1>5 DEF PublishNotice, HandlerIsTrue
  <2> QED
    BY <2>1, PublishMaps
<1>6. CASE RecordNotice(h) \/ MarkProcessed(h)
  BY <1>6, Stutters DEF RecordNotice, MarkProcessed
<1> QED
  BY <1>4, <1>5, <1>6 DEF HandlerStep

LEMMA StepMaps == PaymentInv /\ [Next]_vars => [Lifecycle!Next]_(Lifecycle!vars)
<1> SUFFICES ASSUME PaymentInv, [Next]_vars PROVE [Lifecycle!Next]_(Lifecycle!vars)
  OBVIOUS
<1>1. ASSUME NEW c \in Callers, NEW o \in Orders, Insert(c, o)
      PROVE  [Lifecycle!Next]_(Lifecycle!vars)
  <2>1. PICK x : x = [NoRow EXCEPT !.status = "PENDING"]
    OBVIOUS
  <2>2. ~Exists(o) /\ row' = [row EXCEPT ![o] = x] /\ UNCHANGED published /\ x.status = "PENDING"
    BY <1>1, <2>1 DEF Insert, InsertRow, NoRow
  <2>3. row[o].status = "ABSENT" /\ row'[o].status = "PENDING"
    BY <2>2 DEF PaymentInv, RowsAreTrue, Exists
  <2>4. Phase(o) = "absent" /\ Phase(o)' = "open"
    BY <2>3 DEF Phase, Cancelable, Settled
  <2>5. Lifecycle!Open(o)
    BY <2>2, <2>4, RowMaps, NothingTold DEF Lifecycle!Open, phaseOf, toldOf
  <2> QED
    BY <2>5 DEF Lifecycle!Next
<1>2. ASSUME UNCHANGED <<row, published>> PROVE [Lifecycle!Next]_(Lifecycle!vars)
  BY <1>2, Stutters
<1>3. ASSUME NEW c \in Callers, NEW o \in Orders, NEW r \in Refunds, NEW a \in RefundAmounts,
             ReserveRefund(c, o, r, a)
      PROVE  [Lifecycle!Next]_(Lifecycle!vars)
  BY <1>2, <1>3 DEF ReserveRefund
<1> QED
  BY <1>1, <1>2, <1>3, CallerMaps, HandlerMaps
     DEF Next, Load, Crash, Receive, HandlerCrash, Redeliver, ChangeServerKey, GatewayMove,
         vars, storeVars

(* A payment is decided once: whatever answers, notifications and refunds   *)
(* arrive in whatever order, one that was won stays won and is not          *)
(* withdrawn, and the outcome the application is told is the one it has.    *)
THEOREM ImplementsLifecycle == Spec => LifecycleHolds
<1>1. Init => Lifecycle!Init
  <2> SUFFICES ASSUME Init PROVE Lifecycle!Init
    OBVIOUS
  <2>1. \A o \in Orders : Phase(o) = "absent"
    BY NoRowFacts DEF Init, Phase, Cancelable, Settled
  <2>2. \A o \in Orders : Told(o) = {}
    BY DEF Init, Told
  <2> QED
    BY <2>1, <2>2 DEF Lifecycle!Init
<1> QED
  BY <1>1, StepMaps, PaymentInvHolds, PTL DEF Spec, LifecycleHolds, Lifecycle!Spec

-----------------------------------------------------------------------------
(* Payments written off.  What the gateway refused and what it took are     *)
(* apart as long as its own moves do not lead from one to the other.        *)

Lost == {"deny", "failure", "fraud", "cancel", "expire"}
WrittenOff == Terminal \ Settled

(* Money taken stays taken or is given back, a refused transaction stays    *)
(* refused.                                                                 *)
GatewayDecides ==
  \A m \in GatewayMoves : (m[1] \in Captured => m[2] \in Captured) /\ (m[1] \in Lost => m[2] \in Lost)

(* Where a transaction is tells which of the two it ever was.               *)
WentOneWay(o) ==
  /\ gw[o] = "none" => went[o] = {}
  /\ went[o] \cap Captured # {} => gw[o] \in Captured
  /\ went[o] \cap Lost # {} => gw[o] \in Lost

WrittenOffWasLost == \A o \in Orders : row[o].status \in WrittenOff => went[o] \cap Lost # {}

(* No transaction before its creation request asks for it.                  *)
Unopened == \A c \in Callers : caller[c].stage = "inserted" => gw[caller[c].order] = "none"

LossInv == (\A o \in Orders : WentOneWay(o)) /\ WrittenOffWasLost /\ Unopened

LEMMA LostIsLost ==
  /\ \A g : NormalizeStatus(g) \in WrittenOff => g \in Lost
  /\ Lost \cap Captured = {} /\ "none" \notin Lost \cup Captured
BY DEF NormalizeStatus, WrittenOff, Terminal, Settled, Lost, Captured, Unmapped

(* A move of a transaction that keeps to its side.                          *)
LEMMA GoesOneWay ==
  ASSUME PaymentInv, \A p \in Orders : WentOneWay(p), NEW o \in Orders, NEW g, g # "none",
         gw[o] \in Captured => g \in Captured, gw[o] \in Lost => g \in Lost,
         gw' = [gw EXCEPT ![o] = g], went' = [went EXCEPT ![o] = @ \cup {g}]
  PROVE  \A p \in Orders : WentOneWay(p)' /\ went[p] \subseteq went'[p]
<1>1. /\ gw'[o] = g /\ went'[o] = went[o] \cup {g}
      /\ \A p \in Orders \ {o} : gw'[p] = gw[p] /\ went'[p] = went[p]
  BY DEF PaymentInv, MoneyInv, GatewayIsWhereItWent
<1>2. WentOneWay(o)'
  <2>1. went[o] \cap Captured # {} => g \in Captured
    BY DEF WentOneWay
  <2>2. went[o] \cap Lost # {} => g \in Lost
    BY DEF WentOneWay
  <2> QED
    BY <1>1, <2>1, <2>2 DEF WentOneWay
<1>3. \A p \in Orders \ {o} : WentOneWay(p)'
  BY <1>1 DEF WentOneWay
<1> QED
  BY <1>1, <1>2, <1>3

(* Only a creation request moves a transaction there is not.                *)
LEMMA GatewayGoesOneWay ==
  ASSUME PaymentInv, LossInv, GatewayDecides, [Next]_vars
  PROVE  /\ \A p \in Orders : WentOneWay(p)' /\ went[p] \subseteq went'[p]
         /\ \A p \in Orders :
              \/ gw'[p] = gw[p] \/ gw[p] # "none" \/ row[p].session
              \/ \E c \in Callers : OpenAtGateway(c) /\ caller[c].order = p
<1>1. CASE UNCHANGED <<gw, went>>
  BY <1>1 DEF LossInv, WentOneWay
<1>2. ASSUME NEW c \in Callers, OpenAtGateway(c), ~UNCHANGED <<gw, went>>
      PROVE  /\ \A p \in Orders : WentOneWay(p)' /\ went[p] \subseteq went'[p]
             /\ \A p \in Orders \ {caller[c].order} : gw'[p] = gw[p]
  <2>1. PICK o : o = caller[c].order
    OBVIOUS
  <2>2. /\ o \in Orders /\ gw[o] = "none"
        /\ gw' = [gw EXCEPT ![o] = "pending"] /\ went' = [went EXCEPT ![o] = @ \cup {"pending"}]
    BY <1>2, <2>1 DEF OpenAtGateway, PaymentInv, CallsAreTrue, CallIsTrue, LossInv, Unopened
  <2>3. gw[o] \notin Captured \cup Lost
    BY <2>2, LostIsLost
  <2> QED
    BY <2>1, <2>2, <2>3, GoesOneWay DEF LossInv, PaymentInv, MoneyInv, GatewayIsWhereItWent
<1>3. ASSUME NEW o \in Orders, NEW g, g # "none", gw[o] # "none" \/ row[o].session,
             gw[o] \in Captured => g \in Captured, gw[o] \in Lost => g \in Lost,
             gw' = [gw EXCEPT ![o] = g], went' = [went EXCEPT ![o] = @ \cup {g}]
      PROVE  /\ \A p \in Orders : WentOneWay(p)' /\ went[p] \subseteq went'[p]
             /\ \A p \in Orders : gw'[p] = gw[p] \/ gw[p] # "none" \/ row[p].session
  BY <1>3, GoesOneWay DEF LossInv, PaymentInv, MoneyInv, GatewayIsWhereItWent
<1>4. ASSUME NEW c \in Callers, AskGateway(c), ~UNCHANGED <<gw, went>>
      PROVE  /\ \A p \in Orders : WentOneWay(p)' /\ went[p] \subseteq went'[p]
             /\ \A p \in Orders : gw'[p] = gw[p] \/ gw[p] # "none" \/ row[p].session
  <2>1. PICK o : o = caller[c].order
    OBVIOUS
  <2>2. PICK g : g = Moved(o, caller[c].op)
    OBVIOUS
  <2>3. /\ o \in Orders /\ g # "none" /\ g # gw[o]
        /\ gw' = [gw EXCEPT ![o] = g] /\ went' = [went EXCEPT ![o] = @ \cup {g}]
    BY <1>4, <2>1, <2>2 DEF AskGateway, PaymentInv, CallsAreTrue, CallIsTrue
  <2>4. gw[o] \in {"pending", "authorize", "challenge"}
    BY <2>2, <2>3 DEF Moved
  <2> QED
    BY <1>3, <2>3, <2>4 DEF Captured, Lost
<1>5. ASSUME NEW c \in Callers, RefundAtGateway(c), ~UNCHANGED <<gw, went>>
      PROVE  /\ \A p \in Orders : WentOneWay(p)' /\ went[p] \subseteq went'[p]
             /\ \A p \in Orders : gw'[p] = gw[p] \/ gw[p] # "none" \/ row[p].session
  <2>1. PICK o : o = caller[c].order
    OBVIOUS
  <2>2. PICK g \in {"refund", "partial_refund"} :
          /\ o \in Orders /\ gw[o] \in {"capture", "settlement", "partial_refund"}
          /\ gw' = [gw EXCEPT ![o] = g] /\ went' = [went EXCEPT ![o] = @ \cup {g}]
    BY <1>5, <2>1 DEF RefundAtGateway, gatewayVars, PaymentInv, CallsAreTrue, CallIsTrue
  <2> QED
    BY <1>3, <2>2 DEF Captured, Lost
<1>6. ASSUME NEW o \in Orders, GatewayMove(o)
      PROVE  /\ \A p \in Orders : WentOneWay(p)' /\ went[p] \subseteq went'[p]
             /\ \A p \in Orders : gw'[p] = gw[p] \/ gw[p] # "none" \/ row[p].session
  <2>1. PICK m \in GatewayMoves :
          /\ m[1] = gw[o]
          /\ gw' = [gw EXCEPT ![o] = m[2]] /\ went' = [went EXCEPT ![o] = @ \cup {m[2]}]
    BY <1>6 DEF GatewayMove
  <2>2. PICK g : g = m[2]
    OBVIOUS
  <2>3. g # "none" /\ (gw[o] \in Captured => g \in Captured) /\ (gw[o] \in Lost => g \in Lost)
    BY <2>1, <2>2, PaymentAssumption DEF GatewayDecides
  <2> QED
    BY <1>3, <1>6, <2>1, <2>2, <2>3 DEF GatewayMove
<1>7. \/ UNCHANGED <<gw, went>>
      \/ \E c \in Callers : OpenAtGateway(c) \/ AskGateway(c) \/ RefundAtGateway(c)
      \/ \E o \in Orders : GatewayMove(o)
  BY DEF Next, CallerStep, HandlerStep, Insert, Load, ReserveRefund, Crash, DeleteRow, SaveSession,
         ApplyAnswer, Announce, RecordRefund, ApplyRefundToPayment, CloseRefund, Receive,
         RecordNotice, ApplyNotice, PublishNotice, MarkProcessed, HandlerCrash, Redeliver,
         ChangeServerKey, vars, gatewayVars
<1> QED
  BY <1>1, <1>2, <1>4, <1>5, <1>6, <1>7

(* No other step leaves a request where Insert leaves it.                   *)
LEMMA OnlyInsertsBegin ==
  ASSUME PaymentInv, [Next]_vars, NEW c \in Callers, caller'[c].stage = "inserted",
         ~\E d \in Callers, o \in Orders : Insert(d, o)
  PROVE  caller'[c] = caller[c] /\ ~OpenAtGateway(c)
<1> DEFINE Leaves(d) == /\ caller'[d].stage # "inserted"
                        /\ \A e \in Callers \ {d} : caller'[e] = caller[e]
<1>1. \A d \in Callers : Leaves(d) => d # c /\ caller'[c] = caller[c]
  OBVIOUS
<1>2. \A d \in Callers : IsCall(caller[d])
  BY DEF PaymentInv, CallsAreTrue
<1>3. ASSUME NEW d \in Callers, NEW k, Step(d, k), k.stage # "inserted" PROVE Leaves(d)
  BY <1>3 DEF Step, PaymentInv, CallsAreTrue
<1>4. ASSUME NEW d \in Callers, NEW s, s # "inserted",
             Step(d, [caller[d] EXCEPT !.stage = s])
      PROVE  Leaves(d)
  <2>1. PICK k : k = [caller[d] EXCEPT !.stage = s]
    OBVIOUS
  <2>2. k.stage = s
    BY <1>2, <2>1 DEF IsCall
  <2> QED
    BY <1>3, <1>4, <2>1, <2>2
<1>5. ASSUME NEW d \in Callers, NEW s, NEW e, NEW t, s # "inserted",
             Step(d, [caller[d] EXCEPT !.stage = s, !.event = e, !.total = t])
      PROVE  Leaves(d)
  <2>1. PICK k : k = [caller[d] EXCEPT !.stage = s, !.event = e, !.total = t]
    OBVIOUS
  <2>2. k.stage = s
    BY <1>2, <2>1 DEF IsCall
  <2> QED
    BY <1>3, <1>5, <2>1, <2>2
<1>6. ASSUME NEW d \in Callers, Crash(d) \/ DeleteRow(d) \/ CloseRefund(d) PROVE Leaves(d)
  BY <1>3, <1>6, IdleFacts DEF Crash, DeleteRow, CloseRefund, Done
<1>7. ASSUME NEW d \in Callers, NEW o \in Orders, NEW op \in Operations, Load(d, o, op)
      PROVE  Leaves(d)
  BY <1>3, <1>7 DEF Load, Idle
<1>8. ASSUME NEW d \in Callers, NEW o \in Orders, NEW r \in Refunds, NEW a \in RefundAmounts,
             ReserveRefund(d, o, r, a)
      PROVE  Leaves(d)
  BY <1>3, <1>8 DEF ReserveRefund, Idle
<1>9. ASSUME NEW d \in Callers, OpenAtGateway(d) PROVE Leaves(d)
  <2>1. PICK s \in {"opened", "refused"} : Step(d, [caller[d] EXCEPT !.stage = s])
    BY <1>9 DEF OpenAtGateway
  <2> QED
    BY <1>4, <2>1
<1>10. ASSUME NEW d \in Callers, SaveSession(d) PROVE Leaves(d)
  <2>1. PICK k : k = [caller[d] EXCEPT !.stage = "announcing", !.event = "CREATED"]
    OBVIOUS
  <2>2. Step(d, k) /\ k.stage = "announcing"
    BY <1>2, <1>10, <2>1 DEF SaveSession, IsCall
  <2> QED
    BY <1>3, <2>2
<1>11. ASSUME NEW d \in Callers, AskGateway(d) PROVE Leaves(d)
  <2>1. caller[d].stage = "loaded"
    BY <1>11 DEF AskGateway
  <2>2. \/ Step(d, Idle)
        \/ Step(d, [caller[d] EXCEPT !.op = "sync"])
        \/ \E g : Step(d, [caller[d] EXCEPT !.stage = "answered", !.status = g])
    BY <1>11 DEF AskGateway, Done
  <2> QED
    BY <1>2, <1>3, <2>1, <2>2, IdleFacts DEF IsCall
<1>12. ASSUME NEW d \in Callers, ApplyAnswer(d) PROVE Leaves(d)
  BY <1>2, <1>3, <1>12, IdleFacts DEF ApplyAnswer, Done, IsCall
<1>13. ASSUME NEW d \in Callers, Announce(d) PROVE Leaves(d)
  BY <1>2, <1>3, <1>13, IdleFacts DEF Announce, Done, IsCall
<1>14. ASSUME NEW d \in Callers, RefundAtGateway(d) PROVE Leaves(d)
  <2>1. ASSUME NEW k, \/ k = [caller[d] EXCEPT !.stage = "refunded", !.event = "FAILED"]
                     \/ \E s, t : k = [caller[d] EXCEPT !.stage = "refunded", !.status = s, !.total = t]
        PROVE  k.stage = "refunded"
    BY <1>2, <2>1 DEF IsCall
  <2>2. CASE Step(d, [caller[d] EXCEPT !.stage = "refunded", !.event = "FAILED"])
    BY <1>3, <2>1, <2>2
  <2>3. CASE \E s : \E t : Step(d, [caller[d] EXCEPT !.stage = "refunded", !.status = s, !.total = t])
    BY <1>3, <2>1, <2>3
  <2> QED
    BY <1>14, <2>2, <2>3 DEF RefundAtGateway
<1>15. ASSUME NEW d \in Callers, RecordRefund(d) PROVE Leaves(d)
  BY <1>4, <1>15 DEF RecordRefund
<1>16. ASSUME NEW d \in Callers, ApplyRefundToPayment(d) PROVE Leaves(d)
  <2>1. \/ Step(d, [caller[d] EXCEPT !.stage = "closing"])
        \/ \E s : \E t : Step(d, [caller[d] EXCEPT !.stage = "announcing", !.event = s, !.total = t])
    BY <1>16 DEF ApplyRefundToPayment
  <2> QED
    BY <1>4, <1>5, <2>1
<1>17. UNCHANGED caller \/ \E d \in Callers : Leaves(d)
  BY <1>6, <1>7, <1>8, <1>9, <1>10, <1>11, <1>12, <1>13, <1>14, <1>15, <1>16
     DEF Next, CallerStep, HandlerStep, Receive, RecordNotice, ApplyNotice, PublishNotice,
         MarkProcessed, HandlerCrash, Redeliver, ChangeServerKey, GatewayMove, vars
<1> QED
  BY <1>1, <1>9, <1>17

LEMMA StaysUnopened ==
  ASSUME PaymentInv, LossInv, GatewayDecides, [Next]_vars PROVE Unopened'
<1> SUFFICES ASSUME NEW c \in Callers, caller'[c].stage = "inserted"
             PROVE  gw'[caller'[c].order] = "none"
  BY DEF Unopened
<1>1. ASSUME NEW d \in Callers, NEW o \in Orders, Insert(d, o) PROVE gw'[caller'[c].order] = "none"
  <2>1. PICK k : k = [Idle EXCEPT !.stage = "inserted", !.op = "create", !.order = o]
    OBVIOUS
  <2>2. k.order = o
    BY <2>1 DEF Idle
  <2>3. /\ gw[o] = "none" /\ UNCHANGED gw
        /\ caller'[d] = k /\ \A e \in Callers \ {d} : caller'[e] = caller[e]
    BY <1>1, <2>1 DEF Insert, Step, gatewayVars, PaymentInv, CallsAreTrue
  <2> QED
    BY <2>2, <2>3 DEF LossInv, Unopened
<1>2. CASE ~\E d \in Callers, o \in Orders : Insert(d, o)
  <2>1. caller'[c] = caller[c] /\ ~OpenAtGateway(c)
    BY <1>2, OnlyInsertsBegin
  <2>2. PICK o : o = caller[c].order
    OBVIOUS
  <2>3. /\ o \in Orders /\ caller[c].stage = "inserted" /\ gw[o] = "none" /\ ~row[o].session
    BY <2>1, <2>2 DEF PaymentInv, CallsAreTrue, CallIsTrue, Creating, LossInv, Unopened
  <2>4. \A d \in Callers : OpenAtGateway(d) => caller[d].order # o
    BY <2>1, <2>2, <2>3 DEF OpenAtGateway, PaymentInv, OneCreator, Creating
  <2> QED
    BY <2>1, <2>2, <2>3, <2>4, GatewayGoesOneWay
<1> QED
  BY <1>1, <1>2

(* Only an answer or a notice of a refused transaction writes a payment off.*)
LEMMA StatusLost ==
  ASSUME PaymentInv, WrittenOffWasLost, \A p \in Orders : went[p] \subseteq went'[p],
         NEW o \in Orders, NEW x, row' = [row EXCEPT ![o] = x],
         x.status \in WrittenOff => went[o] \cap Lost # {}
  PROVE  WrittenOffWasLost'
<1>1. row'[o] = x /\ \A p \in Orders \ {o} : row'[p] = row[p]
  BY DEF PaymentInv, RowsAreTrue
<1> QED
  BY <1>1 DEF WrittenOffWasLost

LEMMA NormalizedLost ==
  ASSUME PaymentInv, WrittenOffWasLost, UNCHANGED went, NEW o \in Orders, NEW g, g \in went[o],
         SetStatus(o, NormalizeStatus(g))
  PROVE  WrittenOffWasLost'
<1>1. PICK x : x = [row[o] EXCEPT !.status = NormalizeStatus(g)]
  OBVIOUS
<1>2. x.status = NormalizeStatus(g)
  BY <1>1 DEF PaymentInv, RowsAreTrue, IsRow
<1>3. x.status \in WrittenOff => g \in Lost
  BY <1>2, LostIsLost
<1> QED
  BY <1>1, <1>3, StatusLost DEF SetStatus

LEMMA StaysLost ==
  ASSUME PaymentInv, LossInv, GatewayDecides, [Next]_vars PROVE WrittenOffWasLost'
<1>0. \A p \in Orders : went[p] \subseteq went'[p]
  BY GatewayGoesOneWay
<1>1. CASE \A p \in Orders : row'[p].status = row[p].status
  BY <1>0, <1>1 DEF LossInv, WrittenOffWasLost
<1>2. ASSUME NEW c \in Callers, NEW o \in Orders, Insert(c, o) PROVE WrittenOffWasLost'
  <2>1. PICK x : x = [NoRow EXCEPT !.status = "PENDING"]
    OBVIOUS
  <2>2. row' = [row EXCEPT ![o] = x] /\ x.status \notin WrittenOff
    BY <1>2, <2>1 DEF Insert, InsertRow, NoRow, WrittenOff, Terminal
  <2> QED
    BY <1>0, <2>2, StatusLost DEF LossInv
<1>3. ASSUME NEW c \in Callers, DeleteRow(c) PROVE WrittenOffWasLost'
  <2>1. PICK o : o = caller[c].order
    OBVIOUS
  <2>2. o \in Orders /\ row' = [row EXCEPT ![o] = NoRow] /\ NoRow.status \notin WrittenOff
    BY <1>3, <2>1, NoRowFacts
       DEF DeleteRow, PaymentInv, CallsAreTrue, CallIsTrue, WrittenOff, Terminal
  <2> QED
    BY <1>0, <2>2, StatusLost DEF LossInv
<1>4. ASSUME NEW c \in Callers, SaveSession(c) PROVE WrittenOffWasLost'
  <2>1. PICK o : o = caller[c].order
    OBVIOUS
  <2>2. o \in Orders /\ row' = IF Exists(o) THEN [row EXCEPT ![o].session = TRUE] ELSE row
    BY <1>4, <2>1 DEF SaveSession, PaymentInv, CallsAreTrue, CallIsTrue
  <2>3. \A p \in Orders : row'[p].status = row[p].status
    BY <2>2 DEF PaymentInv, RowsAreTrue, IsRow
  <2> QED
    BY <1>1, <2>3
<1>5. ASSUME NEW c \in Callers, ApplyAnswer(c) PROVE WrittenOffWasLost'
  <2>1. PICK o : o = caller[c].order
    OBVIOUS
  <2>2. PICK g : g = caller[c].status
    OBVIOUS
  <2>3. /\ o \in Orders /\ g \in went[o] /\ UNCHANGED went
        /\ UNCHANGED row \/ SetStatus(o, NormalizeStatus(g))
    BY <1>5, <2>1, <2>2 DEF ApplyAnswer, gatewayVars, PaymentInv, CallsAreTrue, CallIsTrue
  <2> QED
    BY <1>1, <2>3, NormalizedLost DEF LossInv
<1>6. ASSUME NEW h \in Handlers, ApplyNotice(h) PROVE WrittenOffWasLost'
  <2>1. PICK o : o = handler[h].notice[1]
    OBVIOUS
  <2>2. PICK g : g = handler[h].notice[2]
    OBVIOUS
  <2>3. /\ o \in Orders /\ g \in went[o] /\ UNCHANGED went
        /\ UNCHANGED row \/ SetStatus(o, NormalizeStatus(g))
    BY <1>6, <2>1, <2>2
       DEF ApplyNotice, gatewayVars, PaymentInv, NoticesAreTrue, HandlerIsTrue, NoticeIsTrue, Notices
  <2> QED
    BY <1>1, <2>3, NormalizedLost DEF LossInv
<1>7. ASSUME NEW c \in Callers, ApplyRefundToPayment(c) PROVE WrittenOffWasLost'
  <2>1. PICK o : o = caller[c].order
    OBVIOUS
  <2>2. PICK s : s = StatusAfterRefund(c)
    OBVIOUS
  <2>3. PICK t : t = RefundedTotal(c)
    OBVIOUS
  <2>4. /\ o \in Orders /\ caller[c].status \in {"refund", "partial_refund", "none"}
        /\ UNCHANGED row \/ SetRefunded(o, s, t)
    BY <1>7, <2>1, <2>2, <2>3 DEF ApplyRefundToPayment, PaymentInv, CallsAreTrue, CallIsTrue
  <2>5. s \in {"REFUNDED", "PARTIALLY_REFUNDED"}
    BY <2>2, <2>4 DEF StatusAfterRefund, NormalizeStatus, Unmapped
  <2>6. ASSUME SetRefunded(o, s, t) PROVE WrittenOffWasLost'
    <3>1. PICK x : x = [row[o] EXCEPT !.status = s, !.refunded = t]
      OBVIOUS
    <3>2. IsRow(row[o])
      BY <2>4 DEF PaymentInv, RowsAreTrue
    <3>3. x.status = s /\ row' = [row EXCEPT ![o] = x]
      BY <2>6, <3>1, <3>2 DEF SetRefunded, IsRow
    <3>4. x.status \notin WrittenOff
      BY <2>5, <3>3 DEF WrittenOff, Settled
    <3> QED
      BY <1>0, <2>4, <3>3, <3>4, StatusLost DEF LossInv
  <2> QED
    BY <1>1, <2>4, <2>6
<1>8. \/ UNCHANGED row
      \/ \E c \in Callers, o \in Orders : Insert(c, o)
      \/ \E c \in Callers : \/ DeleteRow(c) \/ SaveSession(c) \/ ApplyAnswer(c)
                            \/ ApplyRefundToPayment(c)
      \/ \E h \in Handlers : ApplyNotice(h)
  BY DEF Next, CallerStep, HandlerStep, Load, ReserveRefund, Crash, OpenAtGateway, AskGateway,
         Announce, RefundAtGateway, RecordRefund, CloseRefund, Receive, RecordNotice,
         PublishNotice, MarkProcessed, HandlerCrash, Redeliver, ChangeServerKey, GatewayMove,
         vars, storeVars
<1> QED
  BY <1>1, <1>2, <1>3, <1>4, <1>5, <1>6, <1>7, <1>8

LEMMA LossInvHolds == ASSUME GatewayDecides PROVE Spec => []LossInv
<1>1. Init => LossInv
  BY NoRowFacts DEF Init, LossInv, WentOneWay, WrittenOffWasLost, WrittenOff, Terminal, Unopened, Idle
<1>2. PaymentInv /\ LossInv /\ [Next]_vars => LossInv'
  BY GatewayGoesOneWay, StaysLost, StaysUnopened DEF LossInv
<1> QED
  BY <1>1, <1>2, PaymentInvHolds, PTL DEF Spec

(* No payment is written off whose money the gateway took, in whatever      *)
(* order its answers and notifications are applied (ApplyState's guard and  *)
(* NormalizeStatus), as long as the gateway itself does not take money      *)
(* for what it refused.                                                     *)
THEOREM WrittenOffWasNotCaptured ==
  ASSUME GatewayDecides
  PROVE  Spec => [](\A o \in Orders :
                      row[o].status \in Terminal \ Settled => went[o] \cap Captured = {})
<1>1. LossInv => \A o \in Orders :
                   row[o].status \in Terminal \ Settled => went[o] \cap Captured = {}
  BY LostIsLost DEF LossInv, WentOneWay, WrittenOffWasLost, WrittenOff
<1> QED
  BY <1>1, LossInvHolds, PTL

-----------------------------------------------------------------------------
(* Refunds and what the gateway returned *)

RefundsTyped == refunds \in [Refunds -> RefundRows]

(* The refunds of a payment that the gateway carried out.                   *)
Carried(o) == {r \in executed : refunds[r].order = o}

(* The gateway returned what it was asked to, once per refund key, and only *)
(* what it carried out is called successful.                                *)
ReturnedIsCarried ==
  /\ returned \in [Orders -> 0..Amount]
  /\ executed \subseteq Refunds /\ IsFiniteSet(executed)
  /\ \A r \in Refunds : /\ refunds[r].status = "NONE" => r \notin executed
                        /\ refunds[r].status = "SUCCEEDED" => r \in executed
  /\ \A o \in Orders : returned[o] = Sum(Carried(o))

RefundedWasReturned == \A o \in Orders : row[o].refunded \in 0..returned[o]

(* A request holds a refund of its payment.  Until the gateway answers it   *)
(* was not carried out, and what the gateway answers it did return.         *)
CallCounts(k) ==
  k.op = "refund" =>
    /\ refunds[k.refund].status # "NONE" /\ refunds[k.refund].order = k.order
    /\ k.stage = "reserved" => k.refund \notin executed /\ k.status = "none" /\ k.total = 0
    /\ k.stage \in {"refunded", "accounted"} =>
         k.total \in 0..returned[k.order] /\ (k.status = "refund" => returned[k.order] = Amount)

CallsCount == \A c \in Callers : CallCounts(caller[c])

(* No two requests ask the gateway for one refund.                          *)
OneRefunder ==
  \A c, d \in Callers : /\ caller[c].stage = "reserved" /\ caller[d].stage = "reserved"
                        /\ caller[c].refund = caller[d].refund
                        => c = d

RefundInv ==
  RefundsTyped /\ ReturnedIsCarried /\ RefundedWasReturned /\ CallsCount /\ OneRefunder

amounts == [r \in Refunds |-> refunds[r].amount]

LEMMA AmountsFit ==
  ASSUME RefundsTyped PROVE \A r \in Refunds : amounts[r] = refunds[r].amount /\ amounts[r] \in 0..Amount
BY DEF RefundsTyped, RefundRows, amounts

(* PayMux's own total of a payment is part of what was carried out.         *)
LEMMA TotalWasReturned ==
  ASSUME RefundsTyped, ReturnedIsCarried, NEW o \in Orders
  PROVE  /\ SucceededRefundTotal(o) \in 0..returned[o] /\ returned[o] \in 0..Amount
         /\ RefundableAmount(o) \in 0..Amount
<1>1. PICK T : T = {r \in Refunds : refunds[r].status = "SUCCEEDED" /\ refunds[r].order = o}
  OBVIOUS
<1>2. PICK S : S = Carried(o)
  OBVIOUS
<1>3. T \in SUBSET S /\ S \in SUBSET executed /\ S \subseteq Refunds /\ IsFiniteSet(executed)
  BY <1>1, <1>2 DEF ReturnedIsCarried, Carried
<1>4. IsFiniteSet(S)
  BY <1>3, FS_Subset
<1>5. \A r \in S : amounts[r] \in 0..Amount
  BY <1>3, AmountsFit
<1>6. SumOf(amounts, T) <= SumOf(amounts, S) /\ SumOf(amounts, T) \in Nat
  BY <1>3, <1>4, <1>5, SumGrows, PaymentAssumption
<1>7. SucceededRefundTotal(o) = SumOf(amounts, T) /\ returned[o] = SumOf(amounts, S)
  BY <1>1, <1>2 DEF SucceededRefundTotal, ReturnedIsCarried, Sum, amounts
<1>8. returned[o] \in 0..Amount
  BY DEF ReturnedIsCarried
<1> QED
  BY <1>6, <1>7, <1>8, PaymentAssumption DEF RefundableAmount

(* Steps that move no money and no refund, and leave the refunded amounts.  *)
LEMMA NoMoneyMoves ==
  ASSUME RefundInv, UNCHANGED <<refunds, returned, executed>>,
         \A o \in Orders : row'[o].refunded \in {row[o].refunded, 0}
  PROVE  /\ RefundsTyped' /\ ReturnedIsCarried' /\ RefundedWasReturned'
         /\ \A k : CallCounts(k) => CallCounts(k)'
<1>1. RefundsTyped' /\ ReturnedIsCarried'
  BY DEF RefundInv, RefundsTyped, ReturnedIsCarried, Carried, Sum
<1>2. RefundedWasReturned'
  BY DEF RefundInv, RefundedWasReturned, ReturnedIsCarried
<1> QED
  BY <1>1, <1>2 DEF CallCounts

(* A step of one request.                                                   *)
LEMMA CallsStillCount ==
  ASSUME CallsCount, OneRefunder, NEW c \in Callers,
         \A d \in Callers \ {c} : caller'[d] = caller[d],
         NEW k, caller'[c] = k, CallCounts(k)',
         k.stage = "reserved" =>
           \A d \in Callers \ {c} : caller[d].stage = "reserved" => caller[d].refund # k.refund,
         \A d \in Callers \ {c} : \A q : q = caller[d] => CallCounts(q)'
  PROVE  CallsCount' /\ OneRefunder'
<1>1. ASSUME NEW d \in Callers \ {c}, k.stage = "reserved", caller'[d].stage = "reserved"
      PROVE  caller'[d].refund # k.refund
  BY <1>1
<1>2. OneRefunder'
  BY <1>1 DEF OneRefunder
<1>3. ASSUME NEW d \in Callers PROVE CallCounts(caller[d])'
  <2>1. CASE d = c
    BY <2>1 DEF CallCounts
  <2>2. CASE d # c
    <3>1. PICK q : q = caller[d]
      OBVIOUS
    <3>2. caller'[d] = q /\ CallCounts(q)'
      BY <2>2, <3>1
    <3> QED
      BY <3>2 DEF CallCounts
  <2> QED
    BY <2>1, <2>2
<1> QED
  BY <1>2, <1>3 DEF CallsCount

(* Requests that are not about a refund.                                    *)
NoRefundStep(c) ==
  /\ caller'[c].op # "refund" /\ caller'[c].stage # "reserved"
  /\ \A d \in Callers \ {c} : caller'[d] = caller[d]

LEMMA QuietCalls ==
  ASSUME PaymentInv, RefundInv, UNCHANGED <<refunds, returned, executed>>,
         \A o \in Orders : row'[o].refunded \in {row[o].refunded, 0},
         NEW c \in Callers, NoRefundStep(c)
  PROVE  RefundInv'
<1>1. PICK k : k = caller'[c]
  OBVIOUS
<1>2. k.op # "refund" /\ k.stage # "reserved"
  BY <1>1 DEF NoRefundStep
<1>3. CallCounts(k)'
  BY <1>2 DEF CallCounts
<1>4. \A d \in Callers \ {c} : \A q : q = caller[d] => CallCounts(q)'
  BY NoMoneyMoves DEF RefundInv, CallsCount
<1>5. CallsCount' /\ OneRefunder'
  BY <1>1, <1>2, <1>3, <1>4, CallsStillCount DEF RefundInv, NoRefundStep
<1> QED
  BY <1>5, NoMoneyMoves DEF RefundInv

LEMMA CallersRest ==
  ASSUME PaymentInv, RefundInv, UNCHANGED <<refunds, returned, executed, caller>>,
         \A o \in Orders : row'[o].refunded \in {row[o].refunded, 0}
  PROVE  RefundInv'
<1>1. CallsCount' /\ OneRefunder'
  BY DEF RefundInv, CallsCount, CallCounts, OneRefunder
<1> QED
  BY <1>1, NoMoneyMoves DEF RefundInv

LEMMA StepIs ==
  ASSUME PaymentInv, NEW c \in Callers, NEW k, Step(c, k)
  PROVE  caller'[c] = k /\ \A d \in Callers \ {c} : caller'[d] = caller[d]
BY DEF Step, PaymentInv, CallsAreTrue

LEMMA RestsAfter ==
  ASSUME PaymentInv, NEW c \in Callers, Done(c) PROVE NoRefundStep(c)
<1>1. Idle.op # "refund" /\ Idle.stage # "reserved"
  BY DEF Idle
<1> QED
  BY <1>1, StepIs DEF Done, NoRefundStep

LEMMA InsertCounts ==
  ASSUME PaymentInv, RefundInv, NEW c \in Callers, NEW o \in Orders, Insert(c, o) PROVE RefundInv'
<1>1. PICK k : k = [Idle EXCEPT !.stage = "inserted", !.op = "create", !.order = o]
  OBVIOUS
<1>2. Step(c, k) /\ k.op = "create" /\ k.stage = "inserted"
  BY <1>1 DEF Insert, Idle
<1>3. PICK x : x = [NoRow EXCEPT !.status = "PENDING"]
  OBVIOUS
<1>4. x.refunded = 0 /\ row' = [row EXCEPT ![o] = x]
  BY <1>3 DEF Insert, InsertRow, NoRow
<1>5. \A p \in Orders : row'[p].refunded \in {row[p].refunded, 0}
  BY <1>4 DEF PaymentInv, RowsAreTrue
<1>6. NoRefundStep(c)
  BY <1>2, StepIs DEF NoRefundStep
<1> QED
  BY <1>5, <1>6, QuietCalls DEF Insert, gatewayVars

LEMMA LoadCounts ==
  ASSUME PaymentInv, RefundInv, NEW c \in Callers, NEW o \in Orders, NEW op \in Operations,
         Load(c, o, op)
  PROVE  RefundInv'
<1>1. PICK k : k = [Idle EXCEPT !.stage = "loaded", !.op = op, !.order = o]
  OBVIOUS
<1>2. Step(c, k) /\ k.op = op /\ k.stage = "loaded" /\ op # "refund"
  BY <1>1 DEF Load, Idle
<1>3. NoRefundStep(c)
  BY <1>2, StepIs DEF NoRefundStep
<1> QED
  BY <1>3, QuietCalls DEF Load, storeVars, gatewayVars

(* What is left of a record when its stage changes.                         *)
LEMMA StageSet ==
  ASSUME NEW q, IsCall(q), NEW s, NEW k, k = [q EXCEPT !.stage = s]
  PROVE  /\ k.stage = s /\ k.op = q.op /\ k.order = q.order /\ k.refund = q.refund
         /\ k.status = q.status /\ k.total = q.total
BY DEF IsCall

LEMMA StatusAlone ==
  ASSUME PaymentInv, NEW o \in Orders, NEW s, SetStatus(o, s)
  PROVE  \A p \in Orders : row'[p].refunded = row[p].refunded
<1>1. PICK x : x = [row[o] EXCEPT !.status = s]
  OBVIOUS
<1>2. x.refunded = row[o].refunded
  BY <1>1 DEF PaymentInv, RowsAreTrue, IsRow
<1>3. row' = [row EXCEPT ![o] = x]
  BY <1>1 DEF SetStatus
<1> QED
  BY <1>2, <1>3 DEF PaymentInv, RowsAreTrue

LEMMA PlainCallerCounts ==
  ASSUME PaymentInv, RefundInv, NEW c \in Callers,
         OpenAtGateway(c) \/ DeleteRow(c) \/ SaveSession(c) \/ AskGateway(c) \/ ApplyAnswer(c) \/ Crash(c)
  PROVE  RefundInv'
<1>1. PICK q : q = caller[c]
  OBVIOUS
<1>2. PICK o : o = q.order
  OBVIOUS
<1>3. IsCall(q) /\ CallIsTrue(q) /\ (q.stage # "idle" => o \in Orders)
  BY <1>1, <1>2 DEF PaymentInv, CallsAreTrue, CallIsTrue
<1>4. \A p \in Orders : IsRow(row[p])
  BY DEF PaymentInv, RowsAreTrue
<1>5. CASE OpenAtGateway(c)
  <2>1. PICK s \in {"opened", "refused"} : Step(c, [q EXCEPT !.stage = s])
    BY <1>1, <1>5 DEF OpenAtGateway
  <2>2. PICK k : k = [q EXCEPT !.stage = s]
    OBVIOUS
  <2>3. q.op = "create"
    BY <1>1, <1>3, <1>5 DEF OpenAtGateway, CallIsTrue, Creating
  <2>4. k.op = "create" /\ k.stage # "reserved"
    BY <1>3, <2>2, <2>3, StageSet
  <2>5. NoRefundStep(c)
    BY <2>1, <2>2, <2>4, StepIs DEF NoRefundStep
  <2> QED
    BY <1>5, <2>5, QuietCalls DEF OpenAtGateway, storeVars
<1>6. CASE DeleteRow(c)
  <2>1. o \in Orders /\ row' = [row EXCEPT ![o] = NoRow] /\ NoRow.refunded = 0 /\ Done(c)
    BY <1>1, <1>2, <1>3, <1>6 DEF DeleteRow, NoRow
  <2>2. \A p \in Orders : row'[p].refunded \in {row[p].refunded, 0}
    BY <2>1 DEF PaymentInv, RowsAreTrue
  <2> QED
    BY <1>6, <2>1, <2>2, RestsAfter, QuietCalls DEF DeleteRow, gatewayVars
<1>7. CASE SaveSession(c)
  <2>1. PICK k : k = [q EXCEPT !.stage = "announcing", !.event = "CREATED"]
    OBVIOUS
  <2>2. q.op = "create"
    BY <1>1, <1>3, <1>7 DEF SaveSession, CallIsTrue, Creating
  <2>3. k.op = "create" /\ k.stage = "announcing" /\ Step(c, k)
    BY <1>1, <1>3, <1>7, <2>1, <2>2 DEF SaveSession, IsCall
  <2>4. NoRefundStep(c)
    BY <2>3, StepIs DEF NoRefundStep
  <2>5. o \in Orders /\ row' = IF Exists(o) THEN [row EXCEPT ![o].session = TRUE] ELSE row
    BY <1>1, <1>2, <1>3, <1>7 DEF SaveSession
  <2>6. \A p \in Orders : row'[p].refunded = row[p].refunded
    BY <1>4, <2>5 DEF PaymentInv, RowsAreTrue, IsRow
  <2> QED
    BY <1>7, <2>4, <2>6, QuietCalls DEF SaveSession, gatewayVars
<1>8. CASE AskGateway(c)
  <2>1. q.stage = "loaded" /\ q.op # "refund"
    BY <1>1, <1>3, <1>8 DEF AskGateway, CallIsTrue, Refunding
  <2>2. PICK k : /\ \/ k = Idle \/ k = [q EXCEPT !.op = "sync"]
                    \/ \E g : k = [q EXCEPT !.stage = "answered", !.status = g]
                 /\ Step(c, k)
    BY <1>1, <1>8 DEF AskGateway, Done
  <2>3. ASSUME k = Idle PROVE k.op # "refund" /\ k.stage # "reserved"
    BY <2>3 DEF Idle
  <2>4. ASSUME k = [q EXCEPT !.op = "sync"] PROVE k.op # "refund" /\ k.stage # "reserved"
    BY <1>3, <2>1, <2>4 DEF IsCall
  <2>5. ASSUME NEW g, k = [q EXCEPT !.stage = "answered", !.status = g]
        PROVE  k.op # "refund" /\ k.stage # "reserved"
    BY <1>3, <2>1, <2>5 DEF IsCall
  <2>6. k.op # "refund" /\ k.stage # "reserved"
    BY <2>2, <2>3, <2>4, <2>5
  <2>7. NoRefundStep(c)
    BY <2>2, <2>6, StepIs DEF NoRefundStep
  <2> QED
    BY <1>8, <2>7, QuietCalls DEF AskGateway, storeVars
<1>9. CASE ApplyAnswer(c)
  <2>1. q.op # "refund"
    BY <1>1, <1>3, <1>9 DEF ApplyAnswer, CallIsTrue, Refunding
  <2>2. PICK s : s = NormalizeStatus(q.status)
    OBVIOUS
  <2>3. CASE UNCHANGED row /\ Done(c)
    BY <1>9, <2>3, RestsAfter, QuietCalls DEF ApplyAnswer, gatewayVars
  <2>4. CASE /\ SetStatus(o, s)
             /\ Step(c, [q EXCEPT !.stage = "announcing", !.event = s, !.total = row[o].refunded])
    <3>1. PICK k : k = [q EXCEPT !.stage = "announcing", !.event = s, !.total = row[o].refunded]
      OBVIOUS
    <3>2. k.op # "refund" /\ k.stage = "announcing"
      BY <1>3, <2>1, <3>1 DEF IsCall
    <3>3. NoRefundStep(c)
      BY <2>4, <3>1, <3>2, StepIs DEF NoRefundStep
    <3>4. o \in Orders
      BY <1>1, <1>3, <1>9 DEF ApplyAnswer
    <3>5. \A p \in Orders : row'[p].refunded = row[p].refunded
      BY <2>4, <3>4, StatusAlone
    <3> QED
      BY <1>9, <3>3, <3>5, QuietCalls DEF ApplyAnswer, gatewayVars
  <2> QED
    BY <1>1, <1>2, <1>9, <2>2, <2>3, <2>4 DEF ApplyAnswer
<1>10. CASE Crash(c)
  BY <1>10, RestsAfter, QuietCalls DEF Crash, storeVars, gatewayVars
<1> QED
  BY <1>5, <1>6, <1>7, <1>8, <1>9, <1>10

LEMMA HandlerCounts ==
  ASSUME PaymentInv, RefundInv, NEW h \in Handlers, HandlerStep(h) PROVE RefundInv'
<1>1. CASE UNCHANGED row
  BY <1>1, CallersRest
     DEF HandlerStep, RecordNotice, ApplyNotice, PublishNotice, MarkProcessed, gatewayVars
<1>2. ASSUME ApplyNotice(h), row' # row PROVE RefundInv'
  <2>1. PICK o : o = handler[h].notice[1]
    OBVIOUS
  <2>2. PICK s : SetStatus(o, s)
    BY <1>2, <2>1 DEF ApplyNotice
  <2>3. o \in Orders
    BY <1>2, <2>1 DEF ApplyNotice, PaymentInv, NoticesAreTrue, HandlerIsTrue, NoticeIsTrue, Notices
  <2>4. \A p \in Orders : row'[p].refunded = row[p].refunded
    BY <2>2, <2>3, StatusAlone
  <2> QED
    BY <1>2, <2>4, CallersRest DEF ApplyNotice, gatewayVars
<1> QED
  BY <1>1, <1>2 DEF HandlerStep, RecordNotice, PublishNotice, MarkProcessed

-----------------------------------------------------------------------------
(* The steps of a refund *)

LEMMA CarriedKept ==
  ASSUME RefundsTyped, ReturnedIsCarried, NEW o \in Orders, UNCHANGED <<returned, executed>>,
         \A r \in executed : refunds'[r].order = refunds[r].order /\ refunds'[r].amount = refunds[r].amount
  PROVE  returned'[o] = Sum(Carried(o))'
<1>1. Carried(o)' = Carried(o)
  BY DEF Carried
<1>2. PICK f : f = [r \in Refunds |-> refunds'[r].amount]
  OBVIOUS
<1>3. \A r \in Carried(o) : f[r] = amounts[r]
  BY <1>2 DEF Carried, ReturnedIsCarried, amounts
<1>4. SumOf(f, Carried(o)) = SumOf(amounts, Carried(o))
  BY <1>3, SumIsOfAmounts
<1> QED
  BY <1>1, <1>2, <1>4 DEF ReturnedIsCarried, Sum, amounts

LEMMA ReserveCounts ==
  ASSUME PaymentInv, RefundInv, NEW c \in Callers, NEW o \in Orders, NEW r \in Refunds,
         NEW a \in RefundAmounts, ReserveRefund(c, o, r, a)
  PROVE  RefundInv'
<1>1. PICK n : n = IF a = 0 THEN RefundableAmount(o) ELSE a
  OBVIOUS
<1>2. PICK x : x = [status |-> "PENDING", amount |-> n, order |-> o]
  OBVIOUS
<1>3. PICK k : k = [Idle EXCEPT !.stage = "reserved", !.op = "refund", !.order = o, !.refund = r]
  OBVIOUS
<1>4. /\ refunds[r].status = "NONE" /\ refunds' = [refunds EXCEPT ![r] = x] /\ Step(c, k)
      /\ n <= RefundableAmount(o)
      /\ UNCHANGED <<row, returned, executed>>
  BY <1>1, <1>2, <1>3 DEF ReserveRefund, gatewayVars
<1>5. n \in 0..Amount
  BY <1>1, <1>4, TotalWasReturned, PaymentAssumption DEF RefundInv
<1>6. RefundsTyped'
  BY <1>2, <1>4, <1>5 DEF RefundInv, RefundsTyped, RefundRows
<1>7. r \notin executed
  BY <1>4 DEF RefundInv, ReturnedIsCarried
<1>8. \A p \in Refunds \ {r} : refunds'[p] = refunds[p]
  BY <1>4 DEF RefundInv, RefundsTyped
<1>9. refunds'[r] = x /\ x.status = "PENDING" /\ x.order = o
  BY <1>2, <1>4 DEF RefundInv, RefundsTyped
<1>10. ReturnedIsCarried'
  <2>1. \A p \in executed : refunds'[p] = refunds[p]
    BY <1>7, <1>8 DEF RefundInv, ReturnedIsCarried
  <2>2. \A p \in Orders : returned'[p] = Sum(Carried(p))'
    BY <1>4, <2>1, CarriedKept DEF RefundInv
  <2> QED
    BY <1>4, <1>7, <1>8, <1>9, <2>2 DEF RefundInv, ReturnedIsCarried
<1>11. RefundedWasReturned'
  BY <1>4 DEF RefundInv, RefundedWasReturned
<1>12. \A d \in Callers : caller[d].op = "refund" =>
         caller[d].refund \in Refunds /\ refunds[caller[d].refund].status # "NONE"
  BY DEF RefundInv, CallsCount, CallCounts, PaymentInv, CallsAreTrue, CallIsTrue
<1>13. ASSUME NEW d \in Callers \ {c}, NEW q, q = caller[d] PROVE CallCounts(q)'
  <2>1. CallCounts(q)
    BY <1>13 DEF RefundInv, CallsCount
  <2>2. q.op = "refund" => q.refund \in Refunds /\ q.refund # r
    BY <1>4, <1>12, <1>13
  <2> QED
    BY <1>4, <1>8, <2>1, <2>2 DEF CallCounts
<1>14. /\ k.op = "refund" /\ k.refund = r /\ k.order = o /\ k.stage = "reserved" /\ k.status = "none"
       /\ k.total = 0
  BY <1>3 DEF Idle
<1>15. CallCounts(k)'
  BY <1>4, <1>7, <1>9, <1>14 DEF CallCounts
<1>16. \A d \in Callers : caller[d].stage = "reserved" => caller[d].refund # r
  BY <1>4, <1>12 DEF PaymentInv, CallsAreTrue, CallIsTrue, Refunding
<1>17. CallsCount' /\ OneRefunder'
  BY <1>4, <1>13, <1>14, <1>15, <1>16, StepIs, CallsStillCount DEF RefundInv
<1> QED
  BY <1>6, <1>10, <1>11, <1>17 DEF RefundInv

(* A request told of a refusal.                                             *)
LEMMA RefusedCounts ==
  ASSUME PaymentInv, RefundInv, NEW q, CallCounts(q)', q.op = "refund", q.stage = "reserved",
         q.order \in Orders, IsCall(q), q.status = "none", q.total = 0,
         NEW k, k = [q EXCEPT !.stage = "refunded", !.event = "FAILED"], returned'[q.order] \in Nat
  PROVE  CallCounts(k)' /\ k.stage = "refunded"
<1>1. /\ k.stage = "refunded" /\ k.op = "refund" /\ k.order = q.order /\ k.refund = q.refund
      /\ k.status = "none" /\ k.total = 0
  BY DEF IsCall
<1> QED
  BY <1>1 DEF CallCounts

LEMMA RefundAtGatewayCounts ==
  ASSUME PaymentInv, RefundInv, NEW c \in Callers, RefundAtGateway(c) PROVE RefundInv'
<1>1. PICK q : q = caller[c]
  OBVIOUS
<1>2. PICK o : o = q.order
  OBVIOUS
<1>3. PICK r : r = q.refund
  OBVIOUS
<1>4. /\ q.stage = "reserved" /\ q.op = "refund" /\ IsCall(q) /\ o \in Orders /\ r \in Refunds
      /\ UNCHANGED <<row, refunds>>
  BY <1>1, <1>2, <1>3
     DEF RefundAtGateway, PaymentInv, CallsAreTrue, CallIsTrue, Refunding, storeVars
<1>5. CallCounts(q) /\ refunds[r].order = o /\ r \notin executed /\ q.status = "none" /\ q.total = 0
  BY <1>1, <1>2, <1>3, <1>4 DEF RefundInv, CallsCount, CallCounts
<1>6. PICK n : n = refunds[r].amount
  OBVIOUS
<1>7. n \in 0..Amount /\ returned[o] \in 0..Amount
  BY <1>4, <1>6 DEF RefundInv, RefundsTyped, RefundRows, ReturnedIsCarried
<1>8. PICK f : f = [q EXCEPT !.stage = "refunded", !.event = "FAILED"]
  OBVIOUS
<1>9. CASE Step(c, f) /\ UNCHANGED gatewayVars
  <2>1. \A k : CallCounts(k) => CallCounts(k)'
    BY <1>4, <1>9, NoMoneyMoves DEF gatewayVars
  <2>2. returned'[q.order] \in Nat
    BY <1>2, <1>7, <1>9 DEF gatewayVars
  <2>3. CallCounts(f)' /\ f.stage = "refunded"
    BY <1>2, <1>4, <1>5, <1>8, <2>1, <2>2, RefusedCounts
  <2>4. \A d \in Callers \ {c} : \A x : x = caller[d] => CallCounts(x)'
    BY <2>1 DEF RefundInv, CallsCount
  <2>5. CallsCount' /\ OneRefunder'
    BY <1>9, <2>3, <2>4, StepIs, CallsStillCount DEF RefundInv
  <2> QED
    BY <1>4, <1>9, <2>5, NoMoneyMoves DEF RefundInv, gatewayVars
<1>10. ASSUME ~(Step(c, f) /\ UNCHANGED gatewayVars) PROVE RefundInv'
  <2>1. PICK t : t = returned[o] + n
    OBVIOUS
  <2>2. PICK g : g = IF t = Amount THEN "refund" ELSE "partial_refund"
    OBVIOUS
  <2>3. /\ t <= Amount
        /\ returned' = [returned EXCEPT ![o] = t] /\ executed' = executed \cup {r}
        /\ \/ \E s \in {g, "none"}, p \in {t, 0} :
                Step(c, [q EXCEPT !.stage = "refunded", !.status = s, !.total = p])
           \/ Step(c, f)
    BY <1>1, <1>2, <1>3, <1>6, <1>8, <1>10, <2>1, <2>2 DEF RefundAtGateway
  <2>4. t \in 0..Amount /\ returned[o] <= t
    BY <1>7, <2>1, <2>3, PaymentAssumption
  <2>5. returned'[o] = t /\ \A p \in Orders \ {o} : returned'[p] = returned[p]
    BY <1>4, <2>3 DEF RefundInv, ReturnedIsCarried
  <2>6. ReturnedIsCarried'
    <3>1. PICK S : S = Carried(o)
      OBVIOUS
    <3>2. S \subseteq executed /\ IsFiniteSet(executed) /\ r \notin S /\ executed \subseteq Refunds
      BY <1>5, <3>1 DEF RefundInv, ReturnedIsCarried, Carried
    <3>3. IsFiniteSet(S) /\ \A x \in S \cup {r} : amounts[x] \in 0..Amount
      BY <1>4, <3>2, FS_Subset, AmountsFit DEF RefundInv
    <3>4. SumOf(amounts, S \cup {r}) = SumOf(amounts, S) + amounts[r]
      BY <3>2, <3>3, SumOfMore, PaymentAssumption
    <3>5. Carried(o)' = S \cup {r} /\ \A p \in Orders \ {o} : Carried(p)' = Carried(p)
      BY <1>4, <1>5, <2>3, <3>1 DEF Carried
    <3>6. amounts[r] = n
      BY <1>4, <1>6 DEF amounts
    <3>7. Sum(Carried(o))' = t
      <4>1. Sum(Carried(o))' = SumOf(amounts, S \cup {r})
        BY <1>4, <3>5 DEF Sum, amounts
      <4>2. returned[o] = SumOf(amounts, S)
        BY <1>4, <3>1 DEF RefundInv, ReturnedIsCarried, Sum, amounts
      <4> QED
        BY <2>1, <3>4, <3>6, <4>1, <4>2
    <3>8. \A p \in Orders \ {o} : returned'[p] = Sum(Carried(p))'
      BY <1>4, <2>5, <3>5 DEF RefundInv, ReturnedIsCarried, Sum
    <3>9. IsFiniteSet(executed') /\ executed' \subseteq Refunds
      BY <1>4, <2>3, <3>2, FS_AddElement
    <3>10. returned' \in [Orders -> 0..Amount]
      BY <2>3, <2>4 DEF RefundInv, ReturnedIsCarried
    <3>11. refunds[r].status # "NONE"
      BY <1>3, <1>4, <1>5 DEF CallCounts
    <3>12. \A x \in Refunds : /\ refunds[x].status = "NONE" => x \notin executed'
                              /\ refunds[x].status = "SUCCEEDED" => x \in executed'
      BY <2>3, <3>11 DEF RefundInv, ReturnedIsCarried
    <3>13. \A p \in Orders : returned'[p] = Sum(Carried(p))'
      BY <2>5, <3>7, <3>8
    <3> QED
      BY <1>4, <3>9, <3>10, <3>12, <3>13 DEF ReturnedIsCarried
  <2>7. RefundsTyped' /\ RefundedWasReturned'
    BY <1>4, <2>4, <2>5 DEF RefundInv, RefundsTyped, RefundedWasReturned, ReturnedIsCarried
  <2>8. ASSUME NEW d \in Callers \ {c}, NEW x, x = caller[d] PROVE CallCounts(x)'
    <3>1. CallCounts(x) /\ (x.op = "refund" /\ x.stage = "reserved" => x.refund # r)
      BY <1>1, <1>3, <1>4, <2>8 DEF RefundInv, CallsCount, OneRefunder
    <3>2. x.op = "refund" => x.order \in Orders
      BY <2>8 DEF PaymentInv, CallsAreTrue, CallIsTrue, Refunding
    <3>3. \A p \in Orders : \A m : m \in 0..returned[p] => m \in 0..returned'[p]
      BY <2>4, <2>5 DEF RefundInv, ReturnedIsCarried
    <3>4. \A p \in Orders : returned[p] = Amount => returned'[p] = Amount
      BY <2>4, <2>5 DEF RefundInv, ReturnedIsCarried
    <3> QED
      BY <1>4, <2>3, <3>1, <3>2, <3>3, <3>4 DEF CallCounts
  <2>9. ASSUME Step(c, f) PROVE CallsCount' /\ OneRefunder'
    <3>1. /\ f.stage = "refunded" /\ f.op = "refund" /\ f.order = o /\ f.refund = r
          /\ f.status = "none" /\ f.total = 0
      BY <1>2, <1>3, <1>4, <1>5, <1>8 DEF IsCall
    <3>2. CallCounts(f)'
      BY <1>2, <1>3, <1>4, <1>5, <2>4, <2>5, <3>1 DEF CallCounts
    <3> QED
      BY <2>8, <2>9, <3>1, <3>2, StepIs, CallsStillCount DEF RefundInv
  <2>10. ASSUME NEW s \in {g, "none"}, NEW p \in {t, 0}, NEW k,
                k = [q EXCEPT !.stage = "refunded", !.status = s, !.total = p], Step(c, k)
         PROVE  CallsCount' /\ OneRefunder'
    <3>1. /\ k.stage = "refunded" /\ k.op = "refund" /\ k.order = o /\ k.refund = r
          /\ k.status = s /\ k.total = p
      BY <1>2, <1>3, <1>4, <2>10 DEF IsCall
    <3>2. s = "refund" => t = Amount
      BY <2>2
    <3>3. p \in 0..t
      BY <2>4
    <3>4. CallCounts(k)'
      BY <1>2, <1>3, <1>4, <1>5, <2>5, <3>1, <3>2, <3>3 DEF CallCounts
    <3> QED
      BY <2>8, <2>10, <3>1, <3>4, StepIs, CallsStillCount DEF RefundInv
  <2> QED
    BY <2>3, <2>6, <2>7, <2>9, <2>10 DEF RefundInv
<1> QED
  BY <1>9, <1>10

LEMMA RecordCounts ==
  ASSUME PaymentInv, RefundInv, NEW c \in Callers, RecordRefund(c) PROVE RefundInv'
<1>1. PICK q : q = caller[c]
  OBVIOUS
<1>2. PICK r : r = q.refund
  OBVIOUS
<1>3. /\ q.stage = "refunded" /\ q.op = "refund" /\ IsCall(q) /\ r \in Refunds
      /\ q.event = "FAILED" \/ r \in executed
      /\ CallCounts(q) /\ refunds[r].status # "NONE" /\ q.order \in Orders
      /\ UNCHANGED <<row, returned, executed>>
  BY <1>1, <1>2
     DEF RecordRefund, gatewayVars, PaymentInv, CallsAreTrue, CallIsTrue, Refunding, RefundDone,
         RefundInv, CallsCount, CallCounts
<1>4. PICK s : s = IF q.event = "FAILED" THEN "FAILED" ELSE "SUCCEEDED"
  OBVIOUS
<1>5. UNCHANGED refunds \/ refunds' = [refunds EXCEPT ![r].status = s]
  BY <1>1, <1>2, <1>4 DEF RecordRefund
<1>6. PICK x : x = [refunds[r] EXCEPT !.status = s]
  OBVIOUS
<1>7. refunds[r] \in RefundRows
  BY <1>3 DEF RefundInv, RefundsTyped
<1>8. /\ x \in RefundRows /\ x.status = s /\ x.amount = refunds[r].amount
      /\ x.order = refunds[r].order
  BY <1>4, <1>6, <1>7 DEF RefundRows
<1>9. UNCHANGED refunds \/ refunds' = [refunds EXCEPT ![r] = x]
  BY <1>5, <1>6
<1>10. RefundsTyped'
  BY <1>3, <1>8, <1>9 DEF RefundInv, RefundsTyped
<1>11. /\ \A p \in Refunds \ {r} : refunds'[p] = refunds[p]
       /\ refunds'[r] \in {refunds[r], x}
  BY <1>3, <1>9 DEF RefundInv, RefundsTyped
<1>12. \A p \in Refunds : /\ refunds'[p].order = refunds[p].order
                          /\ refunds'[p].amount = refunds[p].amount
                          /\ refunds[p].status # "NONE" => refunds'[p].status # "NONE"
                          /\ refunds'[p].status = "NONE" => refunds[p].status = "NONE"
                          /\ refunds'[p].status = "SUCCEEDED" => p \in executed
  <2>1. s # "NONE" /\ (s = "SUCCEEDED" => r \in executed)
    BY <1>3, <1>4
  <2>2. \A p \in Refunds : refunds[p].status = "SUCCEEDED" => p \in executed
    BY DEF RefundInv, ReturnedIsCarried
  <2> QED
    BY <1>3, <1>8, <1>11, <2>1, <2>2
<1>13. ReturnedIsCarried'
  <2>1. \A p \in Orders : returned'[p] = Sum(Carried(p))'
    BY <1>3, <1>12, CarriedKept DEF RefundInv, ReturnedIsCarried
  <2> QED
    BY <1>3, <1>12, <2>1 DEF RefundInv, ReturnedIsCarried
<1>14. RefundedWasReturned'
  BY <1>3 DEF RefundInv, RefundedWasReturned
<1>15. ASSUME NEW y, CallCounts(y), y.op = "refund" => y.refund \in Refunds PROVE CallCounts(y)'
  BY <1>3, <1>12, <1>15 DEF CallCounts
<1>16. PICK k : k = [q EXCEPT !.stage = IF q.event = "FAILED" THEN "closing" ELSE "accounted"]
  OBVIOUS
<1>17. Step(c, k)
  BY <1>1, <1>16 DEF RecordRefund
<1>18. /\ k.stage \in {"closing", "accounted"} /\ k.op = "refund" /\ k.order = q.order
       /\ k.refund = q.refund /\ k.status = q.status /\ k.total = q.total
  BY <1>3, <1>16 DEF IsCall
<1>19. CallCounts(k)
  BY <1>3, <1>18 DEF CallCounts
<1>20. \A d \in Callers \ {c} : \A y : y = caller[d] => CallCounts(y)'
  BY <1>15 DEF RefundInv, CallsCount, PaymentInv, CallsAreTrue, CallIsTrue
<1>21. CallCounts(k)' /\ k.stage # "reserved"
  BY <1>2, <1>3, <1>15, <1>18, <1>19
<1>22. CallsCount' /\ OneRefunder'
  BY <1>17, <1>20, <1>21, StepIs, CallsStillCount DEF RefundInv
<1> QED
  BY <1>10, <1>13, <1>14, <1>22 DEF RefundInv

(* What a carried-out refund says of the payment.                           *)
LEMMA ToldTotal ==
  ASSUME PaymentInv, RefundInv, NEW c \in Callers, caller[c].stage = "accounted"
  PROVE  /\ RefundedTotal(c) \in 0..returned[caller[c].order]
         /\ StatusAfterRefund(c) = "REFUNDED" => returned[caller[c].order] = Amount
<1>1. PICK q : q = caller[c]
  OBVIOUS
<1>2. PICK o : o = q.order
  OBVIOUS
<1>3. /\ q.op = "refund" /\ o \in Orders /\ CallCounts(q)
      /\ q.status \in {"refund", "partial_refund", "none"}
  BY <1>1, <1>2
     DEF PaymentInv, CallsAreTrue, CallIsTrue, Refunding, RefundInv, CallsCount
<1>4. RefundedTotal(c) \in 0..returned[o] /\ returned[o] \in 0..Amount
  BY <1>1, <1>2, <1>3, TotalWasReturned DEF CallCounts, RefundedTotal, RefundInv
<1>5. ASSUME StatusAfterRefund(c) = "REFUNDED" PROVE returned[o] = Amount
  <2>1. CASE q.status = "refund"
    BY <1>1, <1>2, <1>3, <2>1 DEF CallCounts
  <2>2. CASE q.status = "partial_refund"
    BY <1>1, <1>5, <2>2 DEF StatusAfterRefund, NormalizeStatus, Unmapped
  <2>3. CASE q.status = "none"
    <3>1. RefundedTotal(c) >= Amount
      BY <1>1, <1>5, <2>3 DEF StatusAfterRefund, NormalizeStatus, Unmapped
    <3> QED
      BY <1>4, <3>1, PaymentAssumption
  <2> QED
    BY <1>3, <2>1, <2>2, <2>3
<1> QED
  BY <1>1, <1>2, <1>4, <1>5

(* The refunded amount of a row that was updated after a refund.            *)
LEMMA RefundedSet ==
  ASSUME PaymentInv, NEW o \in Orders, NEW s, NEW t, SetRefunded(o, s, t)
  PROVE  /\ row'[o].status = s /\ row'[o].refunded = t
         /\ \A p \in Orders \ {o} : row'[p] = row[p]
<1>1. PICK x : x = [row[o] EXCEPT !.status = s, !.refunded = t]
  OBVIOUS
<1>2. IsRow(row[o])
  BY DEF PaymentInv, RowsAreTrue
<1>3. x.status = s /\ x.refunded = t
  BY <1>1, <1>2 DEF IsRow
<1>4. row' = [row EXCEPT ![o] = x]
  BY <1>1, <1>2 DEF SetRefunded, IsRow
<1> QED
  BY <1>3, <1>4 DEF PaymentInv, RowsAreTrue

LEMMA ApplyRefundCounts ==
  ASSUME PaymentInv, RefundInv, NEW c \in Callers, ApplyRefundToPayment(c) PROVE RefundInv'
<1>1. PICK q : q = caller[c]
  OBVIOUS
<1>2. PICK o : o = q.order
  OBVIOUS
<1>3. PICK t : t = RefundedTotal(c)
  OBVIOUS
<1>4. /\ q.stage = "accounted" /\ q.op = "refund" /\ IsCall(q) /\ o \in Orders /\ CallCounts(q)
      /\ UNCHANGED <<refunds, returned, executed>>
  BY <1>1, <1>2
     DEF ApplyRefundToPayment, gatewayVars, PaymentInv, CallsAreTrue, CallIsTrue, Refunding,
         RefundInv, CallsCount
<1>5. t \in 0..returned[o]
  BY <1>1, <1>2, <1>3, <1>4, ToldTotal
<1>6. PICK s : s = StatusAfterRefund(c)
  OBVIOUS
<1>7. \/ UNCHANGED row /\ Step(c, [q EXCEPT !.stage = "closing"])
      \/ /\ SetRefunded(o, s, t)
         /\ Step(c, [q EXCEPT !.stage = "announcing", !.event = s, !.total = t])
  BY <1>1, <1>2, <1>3, <1>6 DEF ApplyRefundToPayment
<1>8. PICK k : /\ \/ k = [q EXCEPT !.stage = "closing"]
                  \/ k = [q EXCEPT !.stage = "announcing", !.event = s, !.total = t]
               /\ Step(c, k)
  BY <1>7
<1>9. /\ k.stage \in {"closing", "announcing"} /\ k.op = "refund" /\ k.order = o
      /\ k.refund = q.refund
  BY <1>2, <1>4, <1>8 DEF IsCall
<1>10. RefundsTyped' /\ ReturnedIsCarried' /\ (\A y : CallCounts(y) => CallCounts(y)')
  BY <1>4 DEF RefundInv, RefundsTyped, ReturnedIsCarried, Carried, Sum, CallCounts
<1>11. CallCounts(k)
  BY <1>2, <1>4, <1>9 DEF CallCounts
<1>12. CallCounts(k)' /\ k.stage # "reserved"
  BY <1>9, <1>10, <1>11
<1>13. \A d \in Callers \ {c} : \A y : y = caller[d] => CallCounts(y)'
  BY <1>10 DEF RefundInv, CallsCount
<1>14. CallsCount' /\ OneRefunder'
  BY <1>8, <1>12, <1>13, StepIs, CallsStillCount DEF RefundInv
<1>15. RefundedWasReturned'
  BY <1>4, <1>5, <1>7, RefundedSet DEF RefundInv, RefundedWasReturned
<1> QED
  BY <1>10, <1>14, <1>15 DEF RefundInv

LEMMA ToldCounts ==
  ASSUME PaymentInv, RefundInv, NEW c \in Callers, Announce(c) \/ CloseRefund(c) PROVE RefundInv'
<1>1. PICK q : q = caller[c]
  OBVIOUS
<1>2. IsCall(q) /\ CallCounts(q) /\ UNCHANGED <<row, refunds, returned, executed>>
  BY <1>1
     DEF PaymentInv, CallsAreTrue, RefundInv, CallsCount, Announce, CloseRefund, gatewayVars
<1>3. CASE Done(c)
  BY <1>2, <1>3, RestsAfter, QuietCalls
<1>4. CASE Announce(c) /\ q.op = "refund"
  <2>1. PICK k : k = [q EXCEPT !.stage = "closing", !.event = "none"]
    OBVIOUS
  <2>2. Step(c, k) /\ k.stage = "closing" /\ k.op = "refund" /\ k.order = q.order /\ k.refund = q.refund
    BY <1>1, <1>2, <1>4, <2>1 DEF Announce, IsCall
  <2>3. CallCounts(k)
    BY <1>2, <1>4, <2>2 DEF CallCounts
  <2>4. \A y : CallCounts(y) => CallCounts(y)'
    BY <1>2, NoMoneyMoves
  <2>5. \A d \in Callers \ {c} : \A y : y = caller[d] => CallCounts(y)'
    BY <2>4 DEF RefundInv, CallsCount
  <2>6. CallCounts(k)' /\ k.stage # "reserved"
    BY <2>2, <2>3, <2>4
  <2>7. CallsCount' /\ OneRefunder'
    BY <2>2, <2>5, <2>6, StepIs, CallsStillCount DEF RefundInv
  <2> QED
    BY <1>2, <2>7, NoMoneyMoves DEF RefundInv
<1> QED
  BY <1>1, <1>3, <1>4 DEF Announce, CloseRefund

LEMMA RefundStep == PaymentInv /\ RefundInv /\ [Next]_vars => RefundInv'
<1> SUFFICES ASSUME PaymentInv, RefundInv, [Next]_vars PROVE RefundInv'
  OBVIOUS
<1>1. ASSUME NEW c \in Callers, CallerStep(c) PROVE RefundInv'
  BY <1>1, PlainCallerCounts, ToldCounts, RefundAtGatewayCounts, RecordCounts, ApplyRefundCounts
     DEF CallerStep
<1>2. ASSUME UNCHANGED <<row, refunds, returned, executed, caller>> PROVE RefundInv'
  BY <1>2, CallersRest
<1>3. ASSUME NEW c \in Callers, Crash(c) PROVE RefundInv'
  BY <1>3, PlainCallerCounts
<1> QED
  BY <1>1, <1>2, <1>3, InsertCounts, LoadCounts, ReserveCounts, HandlerCounts
     DEF Next, Receive, HandlerCrash, Redeliver, ChangeServerKey, GatewayMove,
         vars, storeVars, gatewayVars

LEMMA RefundInvHolds == Spec => []RefundInv
<1>1. Init => RefundInv
  <2> SUFFICES ASSUME Init PROVE RefundInv
    OBVIOUS
  <2>1. RefundsTyped
    BY PaymentAssumption DEF Init, RefundsTyped, RefundRows
  <2>2. \A o \in Orders : Sum(Carried(o)) = 0
    <3>1. \A o : Carried(o) = {}
      BY DEF Init, Carried
    <3> QED
      BY <3>1, SumOfNone DEF Sum
  <2>3. ReturnedIsCarried
    BY <2>2, FS_EmptySet, PaymentAssumption DEF Init, ReturnedIsCarried
  <2>4. RefundedWasReturned
    BY DEF Init, RefundedWasReturned, NoRow
  <2>5. CallsCount /\ OneRefunder
    BY DEF Init, CallsCount, CallCounts, OneRefunder, Idle
  <2> QED
    BY <2>1, <2>3, <2>4, <2>5 DEF RefundInv
<1> QED
  BY <1>1, RefundStep, PaymentInvHolds, PTL DEF Spec

(* PayMux never claims to have given back more than the gateway did: a      *)
(* refund it calls successful was carried out, and the refunded amount it   *)
(* shows was returned, with other refunds of the payment under way and      *)
(* requests cut off anywhere (RefundPayment, applyRefundToPayment).         *)
THEOREM RefundsAreReal == Spec => []RefundsHappened
<1>1. RefundInv => RefundsHappened
  BY DEF RefundInv, ReturnedIsCarried, RefundedWasReturned, RefundsHappened
<1> QED
  BY <1>1, RefundInvHolds, PTL

(* What PayMux adds up as refunded fits in the payment, so that the amount  *)
(* it still offers to refund is no negative number, whatever refunds run    *)
(* side by side (SucceededRefundTotal, RefundableAmount).                   *)
THEOREM TotalsFit ==
  Spec => [](\A o \in Orders : SucceededRefundTotal(o) <= returned[o] /\ returned[o] <= Amount)
<1>1. RefundInv => \A o \in Orders : SucceededRefundTotal(o) <= returned[o] /\ returned[o] <= Amount
  BY TotalWasReturned DEF RefundInv
<1> QED
  BY <1>1, RefundInvHolds, PTL

-----------------------------------------------------------------------------
(* Payments refunded in full *)

(* Refunds are asked for through PayMux: the gateway does not come to       *)
(* report a payment as refunded by itself.                                  *)
RefundsAreAskedFor == \A m \in GatewayMoves : m[2] # "refund"

FullyReported == \A o \in Orders : "refund" \in went[o] => returned[o] = Amount
FullyReturned == \A o \in Orders : row[o].status = "REFUNDED" => returned[o] = Amount

(* What was returned in full stays so.                                      *)
LEMMA ReturnedStays ==
  ASSUME PaymentInv, RefundInv, [Next]_vars, NEW o \in Orders, returned[o] = Amount
  PROVE  returned'[o] = Amount
<1>1. CASE UNCHANGED returned
  BY <1>1
<1>2. ASSUME NEW c \in Callers, RefundAtGateway(c), returned' # returned PROVE returned'[o] = Amount
  <2>1. PICK p : p = caller[c].order
    OBVIOUS
  <2>2. PICK n : n = refunds[caller[c].refund].amount
    OBVIOUS
  <2>3. p \in Orders /\ caller[c].refund \in Refunds
    BY <1>2, <2>1 DEF RefundAtGateway, PaymentInv, CallsAreTrue, CallIsTrue, Refunding
  <2>4. n \in 0..Amount
    BY <2>2, <2>3 DEF RefundInv, RefundsTyped, RefundRows
  <2>5. returned[p] + n <= Amount /\ returned' = [returned EXCEPT ![p] = returned[p] + n]
    BY <1>2, <2>1, <2>2 DEF RefundAtGateway, gatewayVars
  <2>6. CASE p = o
    BY <2>3, <2>4, <2>5, <2>6, PaymentAssumption DEF RefundInv, ReturnedIsCarried
  <2>7. CASE p # o
    BY <2>5, <2>7 DEF RefundInv, ReturnedIsCarried
  <2> QED
    BY <2>6, <2>7
<1> QED
  BY <1>1, <1>2
     DEF Next, CallerStep, HandlerStep, Insert, Load, ReserveRefund, Crash, OpenAtGateway, DeleteRow,
         SaveSession, AskGateway, ApplyAnswer, Announce, RecordRefund, ApplyRefundToPayment,
         CloseRefund, Receive, RecordNotice, ApplyNotice, PublishNotice, MarkProcessed,
         HandlerCrash, Redeliver, ChangeServerKey, GatewayMove, vars, gatewayVars

(* A move to another status than "refund".                                  *)
LEMMA OtherMoves ==
  ASSUME PaymentInv, FullyReported, NEW o \in Orders, NEW g, g # "refund",
         went' = [went EXCEPT ![o] = @ \cup {g}], UNCHANGED returned
  PROVE  FullyReported'
<1>1. \A p \in Orders : "refund" \in went'[p] => "refund" \in went[p]
  BY DEF PaymentInv, MoneyInv, GatewayIsWhereItWent
<1> QED
  BY <1>1 DEF FullyReported

LEMMA ReportStays ==
  ASSUME PaymentInv, RefundInv, FullyReported, RefundsAreAskedFor, [Next]_vars PROVE FullyReported'
<1>1. CASE UNCHANGED went
  BY <1>1, ReturnedStays DEF FullyReported
<1>2. ASSUME NEW c \in Callers, OpenAtGateway(c), went' # went PROVE FullyReported'
  <2>1. PICK o : o = caller[c].order
    OBVIOUS
  <2>2. o \in Orders /\ went' = [went EXCEPT ![o] = @ \cup {"pending"}] /\ UNCHANGED returned
    BY <1>2, <2>1 DEF OpenAtGateway, PaymentInv, CallsAreTrue, CallIsTrue
  <2> QED
    BY <2>2, OtherMoves
<1>3. ASSUME NEW c \in Callers, AskGateway(c), went' # went PROVE FullyReported'
  <2>1. PICK o : o = caller[c].order
    OBVIOUS
  <2>2. PICK g : g = Moved(o, caller[c].op)
    OBVIOUS
  <2>3. /\ o \in Orders /\ g # "none" /\ g # gw[o] /\ UNCHANGED returned
        /\ went' = [went EXCEPT ![o] = @ \cup {g}]
    BY <1>3, <2>1, <2>2 DEF AskGateway, PaymentInv, CallsAreTrue, CallIsTrue
  <2>4. g \in {"cancel", "expire"}
    BY <2>2, <2>3 DEF Moved
  <2> QED
    BY <2>3, <2>4, OtherMoves
<1>4. ASSUME NEW c \in Callers, RefundAtGateway(c), went' # went PROVE FullyReported'
  <2>1. PICK o : o = caller[c].order
    OBVIOUS
  <2>2. PICK t : t = returned[o] + refunds[caller[c].refund].amount
    OBVIOUS
  <2>3. PICK g : g = IF t = Amount THEN "refund" ELSE "partial_refund"
    OBVIOUS
  <2>4. /\ o \in Orders /\ went' = [went EXCEPT ![o] = @ \cup {g}]
        /\ returned' = [returned EXCEPT ![o] = t]
    BY <1>4, <2>1, <2>2, <2>3
       DEF RefundAtGateway, gatewayVars, PaymentInv, CallsAreTrue, CallIsTrue
  <2>5. "refund" \in went'[o] => "refund" \in went[o] \/ t = Amount
    BY <2>3, <2>4 DEF PaymentInv, MoneyInv, GatewayIsWhereItWent
  <2>6. returned'[o] = t
    BY <2>4 DEF RefundInv, ReturnedIsCarried
  <2>7. \A p \in Orders : p # o => went'[p] = went[p]
    BY <2>4 DEF PaymentInv, MoneyInv, GatewayIsWhereItWent
  <2> QED
    BY <2>5, <2>6, <2>7, ReturnedStays DEF FullyReported
<1>5. ASSUME NEW o \in Orders, GatewayMove(o) PROVE FullyReported'
  <2>1. PICK m \in GatewayMoves : went' = [went EXCEPT ![o] = @ \cup {m[2]}]
    BY <1>5 DEF GatewayMove
  <2>2. PICK g : g = m[2]
    OBVIOUS
  <2>3. g # "refund" /\ UNCHANGED returned
    BY <1>5, <2>2 DEF GatewayMove, RefundsAreAskedFor
  <2> QED
    BY <2>1, <2>2, <2>3, OtherMoves
<1> QED
  BY <1>1, <1>2, <1>3, <1>4, <1>5
     DEF Next, CallerStep, HandlerStep, Insert, Load, ReserveRefund, Crash, DeleteRow, SaveSession,
         ApplyAnswer, Announce, RecordRefund, ApplyRefundToPayment, CloseRefund, Receive,
         RecordNotice, ApplyNotice, PublishNotice, MarkProcessed, HandlerCrash, Redeliver,
         ChangeServerKey, vars, gatewayVars

LEMMA StatusFull ==
  ASSUME PaymentInv, RefundInv, FullyReturned, [Next]_vars, NEW o \in Orders,
         \A p \in Orders : p # o => row'[p] = row[p],
         row'[o].status = "REFUNDED" => returned[o] = Amount
  PROVE  FullyReturned'
<1>1. ASSUME NEW p \in Orders, row'[p].status = "REFUNDED" PROVE returned[p] = Amount
  BY <1>1 DEF FullyReturned
<1> QED
  BY <1>1, ReturnedStays DEF FullyReturned

(* Only an answer or a notice of a refund, or a refund, refunds a row.      *)
LEMMA NormalizedFull ==
  ASSUME PaymentInv, RefundInv, FullyReported, FullyReturned, [Next]_vars, NEW o \in Orders, NEW g,
         g \in went[o], SetStatus(o, NormalizeStatus(g))
  PROVE  FullyReturned'
<1>1. PICK x : x = [row[o] EXCEPT !.status = NormalizeStatus(g)]
  OBVIOUS
<1>2. x.status = NormalizeStatus(g)
  BY <1>1 DEF PaymentInv, RowsAreTrue, IsRow
<1>3. row'[o] = x /\ \A p \in Orders : p # o => row'[p] = row[p]
  BY <1>1 DEF SetStatus, PaymentInv, RowsAreTrue
<1>4. NormalizeStatus(g) = "REFUNDED" => g = "refund"
  BY DEF NormalizeStatus, Unmapped
<1> QED
  BY <1>2, <1>3, <1>4, StatusFull DEF FullyReported

LEMMA FullStays ==
  ASSUME PaymentInv, RefundInv, FullyReported, FullyReturned, [Next]_vars PROVE FullyReturned'
<1>1. CASE \A p \in Orders : row'[p].status = row[p].status
  BY <1>1, ReturnedStays DEF FullyReturned
<1>2. ASSUME NEW c \in Callers, NEW o \in Orders, Insert(c, o) PROVE FullyReturned'
  <2>1. PICK x : x = [NoRow EXCEPT !.status = "PENDING"]
    OBVIOUS
  <2>2. x.status = "PENDING" /\ row' = [row EXCEPT ![o] = x]
    BY <1>2, <2>1 DEF Insert, InsertRow, NoRow
  <2>3. row'[o] = x /\ \A p \in Orders : p # o => row'[p] = row[p]
    BY <2>2 DEF PaymentInv, RowsAreTrue
  <2> QED
    BY <2>2, <2>3, StatusFull
<1>3. ASSUME NEW c \in Callers, DeleteRow(c) PROVE FullyReturned'
  <2>1. PICK o : o = caller[c].order
    OBVIOUS
  <2>2. o \in Orders /\ row' = [row EXCEPT ![o] = NoRow]
    BY <1>3, <2>1 DEF DeleteRow, PaymentInv, CallsAreTrue, CallIsTrue
  <2>3. row'[o] = NoRow /\ \A p \in Orders : p # o => row'[p] = row[p]
    BY <2>2 DEF PaymentInv, RowsAreTrue
  <2> QED
    BY <2>2, <2>3, NoRowFacts, StatusFull
<1>4. ASSUME NEW c \in Callers, SaveSession(c) PROVE FullyReturned'
  <2>1. PICK o : o = caller[c].order
    OBVIOUS
  <2>2. o \in Orders /\ row' = IF Exists(o) THEN [row EXCEPT ![o].session = TRUE] ELSE row
    BY <1>4, <2>1 DEF SaveSession, PaymentInv, CallsAreTrue, CallIsTrue
  <2>3. \A p \in Orders : row'[p].status = row[p].status
    BY <2>2 DEF PaymentInv, RowsAreTrue, IsRow
  <2> QED
    BY <1>1, <2>3
<1>5. ASSUME NEW c \in Callers, ApplyAnswer(c) PROVE FullyReturned'
  <2>1. PICK o : o = caller[c].order
    OBVIOUS
  <2>2. PICK g : g = caller[c].status
    OBVIOUS
  <2>3. o \in Orders /\ g \in went[o] /\ (UNCHANGED row \/ SetStatus(o, NormalizeStatus(g)))
    BY <1>5, <2>1, <2>2 DEF ApplyAnswer, PaymentInv, CallsAreTrue, CallIsTrue
  <2> QED
    BY <1>1, <2>3, NormalizedFull
<1>6. ASSUME NEW h \in Handlers, ApplyNotice(h) PROVE FullyReturned'
  <2>1. PICK o : o = handler[h].notice[1]
    OBVIOUS
  <2>2. PICK g : g = handler[h].notice[2]
    OBVIOUS
  <2>3. o \in Orders /\ g \in went[o] /\ (UNCHANGED row \/ SetStatus(o, NormalizeStatus(g)))
    BY <1>6, <2>1, <2>2
       DEF ApplyNotice, PaymentInv, NoticesAreTrue, HandlerIsTrue, NoticeIsTrue, Notices
  <2> QED
    BY <1>1, <2>3, NormalizedFull
<1>7. ASSUME NEW c \in Callers, ApplyRefundToPayment(c) PROVE FullyReturned'
  <2>1. PICK o : o = caller[c].order
    OBVIOUS
  <2>2. PICK s : s = StatusAfterRefund(c)
    OBVIOUS
  <2>3. PICK t : t = RefundedTotal(c)
    OBVIOUS
  <2>4. /\ o \in Orders
        /\ UNCHANGED row \/ SetRefunded(o, s, t)
        /\ s = "REFUNDED" => returned[o] = Amount
    BY <1>7, <2>1, <2>2, <2>3, ToldTotal
       DEF ApplyRefundToPayment, PaymentInv, CallsAreTrue, CallIsTrue
  <2>5. ASSUME SetRefunded(o, s, t) PROVE FullyReturned'
    <3>1. row'[o].status = s /\ \A p \in Orders : p # o => row'[p] = row[p]
      BY <2>4, <2>5, RefundedSet
    <3> QED
      BY <2>4, <3>1, StatusFull
  <2> QED
    BY <1>1, <2>4, <2>5
<1> QED
  BY <1>1, <1>2, <1>3, <1>4, <1>5, <1>6, <1>7
     DEF Next, CallerStep, HandlerStep, Load, ReserveRefund, Crash, OpenAtGateway, AskGateway,
         Announce, RefundAtGateway, RecordRefund, CloseRefund, Receive, RecordNotice,
         PublishNotice, MarkProcessed, HandlerCrash, Redeliver, ChangeServerKey, GatewayMove,
         vars, storeVars

LEMMA FullHolds == ASSUME RefundsAreAskedFor PROVE Spec => [](FullyReported /\ FullyReturned)
<1>1. Init => FullyReported /\ FullyReturned
  BY NoRowFacts DEF Init, FullyReported, FullyReturned
<1>2. PaymentInv /\ RefundInv /\ FullyReported /\ FullyReturned /\ [Next]_vars
      => (FullyReported /\ FullyReturned)'
  BY ReportStays, FullStays
<1> QED
  BY <1>1, <1>2, PaymentInvHolds, RefundInvHolds, PTL DEF Spec

(* The row and the money agree, in whatever order answers, notifications    *)
(* and refunds are applied: a settled payment was captured, one written off *)
(* was not, and a refunded one was returned in full; as long as the gateway *)
(* takes no money for what it refused and is asked for its refunds through  *)
(* PayMux (NormalizeStatus, ApplyState, applyRefundToPayment).              *)
THEOREM MoneyIsMatched ==
  ASSUME GatewayDecides, RefundsAreAskedFor PROVE Spec => []MoneyMatchesRow
<1>1. PaymentInv /\ LossInv /\ FullyReturned => MoneyMatchesRow
  BY LostIsLost
     DEF PaymentInv, MoneyInv, SettledWasCaptured, LossInv, WentOneWay, WrittenOffWasLost,
         WrittenOff, FullyReturned, MoneyMatchesRow
<1> QED
  BY <1>1, PaymentInvHolds, LossInvHolds, FullHolds, PTL

-----------------------------------------------------------------------------
(* Types.  What the invariants above say of refunds, amounts and notices is *)
(* not said again.                                                          *)

CallRecords ==
  [stage : CallerStages, op : OperationNames \cup {"none"}, order : Orders \cup {NoOrder},
   status : GatewayStatuses \cup Statuses \cup {Unmapped}, total : 0..Amount,
   event : Statuses \cup {"CREATED", "none"}, refund : Refunds \cup {NoRefund}]

HandlerRecords ==
  [stage : {"idle", "taken", "recorded", "publishing", "marking"},
   notice : (Orders \cup {NoOrder}) \X (GatewayStatuses \ {"none"}),
   verified : BOOLEAN, owned : BOOLEAN, event : Statuses \cup {"none"}, routing : Routings]

RowsTyped == row \in [Orders -> Rows] /\ was \in [Orders -> SUBSET Statuses]
GatewayTyped == gw \in [Orders -> GatewayStatuses] /\ went \in [Orders -> SUBSET GatewayStatuses]
CallersTyped == caller \in [Callers -> CallRecords]
HandlersTyped == handler \in [Handlers -> HandlerRecords]
EventsTyped == published \subseteq EventKeys \cup RefundEvents
TracesTyped == ledger \in [Orders -> GatewayStatuses] /\ recorded \in [Notices -> Routings]
RestTyped == keyGood \in BOOLEAN /\ faults \in 0..MaxFaults

TypesInv ==
  /\ RowsTyped /\ GatewayTyped /\ CallersTyped /\ HandlersTyped /\ EventsTyped /\ TracesTyped
  /\ RestTyped

(* What else is known of the state before a step.                           *)
Known == PaymentInv /\ RefundInv /\ TypesInv

LEMMA StatusTyped ==
  ASSUME RowsTyped, NEW o \in Orders, NEW s, ~Stale(o, s), SetStatus(o, s) PROVE RowsTyped'
<1>1. s \in Statuses
  BY StatusFacts DEF Stale
<1> QED
  BY <1>1 DEF RowsTyped, Rows, SetStatus

LEMMA RowTypesStay == ASSUME Known, [Next]_vars PROVE RowsTyped'
<1>1. RowsTyped /\ Amount \in Nat
  BY PaymentAssumption DEF Known, TypesInv
<1>2. ASSUME NEW c \in Callers, NEW o \in Orders, Insert(c, o) PROVE RowsTyped'
  <2>1. NoRow \in Rows /\ "PENDING" \in Statuses
    BY <1>1 DEF NoRow, Rows, Statuses
  <2>2. [NoRow EXCEPT !.status = "PENDING"] \in Rows
    BY <2>1 DEF Rows
  <2> QED
    BY <1>1, <1>2, <2>1, <2>2 DEF Insert, InsertRow, RowsTyped
<1>3. ASSUME NEW c \in Callers, DeleteRow(c) PROVE RowsTyped'
  <2>1. NoRow \in Rows
    BY <1>1 DEF NoRow, Rows
  <2> QED
    BY <1>1, <1>3, <2>1 DEF DeleteRow, RowsTyped
<1>4. ASSUME NEW c \in Callers, SaveSession(c) PROVE RowsTyped'
  BY <1>1, <1>4 DEF SaveSession, RowsTyped, Rows
<1>5. ASSUME NEW c \in Callers, ApplyAnswer(c) PROVE RowsTyped'
  <2>1. PICK o : o = caller[c].order
    OBVIOUS
  <2>2. PICK s : s = NormalizeStatus(caller[c].status)
    OBVIOUS
  <2>3. o \in Orders
    BY <1>5, <2>1 DEF ApplyAnswer, Known, PaymentInv, CallsAreTrue, CallIsTrue
  <2>4. UNCHANGED <<row, was>> \/ (~Stale(o, s) /\ SetStatus(o, s))
    BY <1>5, <2>1, <2>2 DEF ApplyAnswer
  <2> QED
    BY <1>1, <2>3, <2>4, StatusTyped DEF RowsTyped
<1>6. ASSUME NEW h \in Handlers, ApplyNotice(h) PROVE RowsTyped'
  <2>1. PICK o : o = handler[h].notice[1]
    OBVIOUS
  <2>2. PICK s : s = NormalizeStatus(handler[h].notice[2])
    OBVIOUS
  <2>3. o \in Orders
    BY <1>6, <2>1
       DEF ApplyNotice, Known, PaymentInv, NoticesAreTrue, HandlerIsTrue, NoticeIsTrue, Notices
  <2>4. UNCHANGED <<row, was>> \/ (~Stale(o, s) /\ SetStatus(o, s))
    BY <1>6, <2>1, <2>2 DEF ApplyNotice
  <2> QED
    BY <1>1, <2>3, <2>4, StatusTyped DEF RowsTyped
<1>7. ASSUME NEW c \in Callers, ApplyRefundToPayment(c) PROVE RowsTyped'
  <2>1. PICK o : o = caller[c].order
    OBVIOUS
  <2>2. PICK s : s = StatusAfterRefund(c)
    OBVIOUS
  <2>3. PICK t : t = RefundedTotal(c)
    OBVIOUS
  <2>4. o \in Orders /\ t \in 0..returned[o] /\ returned[o] \in 0..Amount
    BY <1>7, <2>1, <2>3, ToldTotal, TotalWasReturned
       DEF ApplyRefundToPayment, Known, PaymentInv, CallsAreTrue, CallIsTrue, RefundInv
  <2>5. UNCHANGED <<row, was>> \/ (~Stale(o, s) /\ SetRefunded(o, s, t))
    BY <1>7, <2>1, <2>2, <2>3 DEF ApplyRefundToPayment
  <2>6. t \in 0..Amount
    BY <1>1, <2>4
  <2>7. ~Stale(o, s) => s \in Statuses
    BY StatusFacts DEF Stale
  <2> QED
    BY <1>1, <2>4, <2>5, <2>6, <2>7 DEF RowsTyped, Rows, SetRefunded
<1> QED
  BY <1>1, <1>2, <1>3, <1>4, <1>5, <1>6, <1>7
     DEF RowsTyped, Next, CallerStep, HandlerStep, Load, ReserveRefund, Crash, OpenAtGateway,
         AskGateway, Announce, RefundAtGateway, RecordRefund, CloseRefund, Receive, RecordNotice,
         PublishNotice, MarkProcessed, HandlerCrash, Redeliver, ChangeServerKey, GatewayMove,
         vars, storeVars

LEMMA GatewayTypesStay == ASSUME Known, [Next]_vars PROVE GatewayTyped'
<1>1. GatewayTyped
  BY DEF Known, TypesInv
<1>2. ASSUME NEW o \in Orders, NEW g \in GatewayStatuses,
             gw' = [gw EXCEPT ![o] = g], went' = [went EXCEPT ![o] = @ \cup {g}]
      PROVE  GatewayTyped'
  BY <1>1, <1>2 DEF GatewayTyped
<1>3. \A c \in Callers : caller[c].stage # "idle" => caller[c].order \in Orders
  BY DEF Known, PaymentInv, CallsAreTrue, CallIsTrue
<1>4. ASSUME UNCHANGED <<gw, went>> PROVE GatewayTyped'
  BY <1>1, <1>4 DEF GatewayTyped
<1>5. ASSUME NEW c \in Callers, OpenAtGateway(c) PROVE GatewayTyped'
  BY <1>2, <1>3, <1>4, <1>5 DEF OpenAtGateway, GatewayStatuses
<1>6. ASSUME NEW c \in Callers, AskGateway(c), ~UNCHANGED <<gw, went>> PROVE GatewayTyped'
  <2>1. PICK o : o = caller[c].order
    OBVIOUS
  <2>2. PICK g : g = Moved(o, caller[c].op)
    OBVIOUS
  <2>3. /\ o \in Orders /\ g # gw[o] /\ g # "none"
        /\ gw' = [gw EXCEPT ![o] = g] /\ went' = [went EXCEPT ![o] = @ \cup {g}]
    BY <1>3, <1>6, <2>1, <2>2 DEF AskGateway
  <2>4. g \in {"cancel", "expire"}
    BY <2>2, <2>3 DEF Moved
  <2> QED
    BY <1>2, <2>3, <2>4 DEF GatewayStatuses
<1>7. ASSUME NEW c \in Callers, RefundAtGateway(c), ~UNCHANGED <<gw, went>> PROVE GatewayTyped'
  <2>1. PICK g \in {"refund", "partial_refund"} :
          /\ gw' = [gw EXCEPT ![caller[c].order] = g]
          /\ went' = [went EXCEPT ![caller[c].order] = @ \cup {g}]
    BY <1>7 DEF RefundAtGateway, gatewayVars
  <2>2. caller[c].order \in Orders
    BY <1>3, <1>7 DEF RefundAtGateway
  <2> QED
    BY <1>2, <2>1, <2>2 DEF GatewayStatuses
<1>8. ASSUME NEW o \in Orders, GatewayMove(o) PROVE GatewayTyped'
  <2>1. PICK m \in GatewayMoves :
          gw' = [gw EXCEPT ![o] = m[2]] /\ went' = [went EXCEPT ![o] = @ \cup {m[2]}]
    BY <1>8 DEF GatewayMove
  <2>2. PICK g : g = m[2]
    OBVIOUS
  <2>3. g \in GatewayStatuses
    BY <2>2, PaymentAssumption
  <2> QED
    BY <1>2, <2>1, <2>2, <2>3
<1> QED
  BY <1>4, <1>5, <1>6, <1>7, <1>8
     DEF Next, CallerStep, HandlerStep, Insert, Load, ReserveRefund, Crash, DeleteRow, SaveSession,
         ApplyAnswer, Announce, RecordRefund, ApplyRefundToPayment, CloseRefund, Receive,
         RecordNotice, ApplyNotice, PublishNotice, MarkProcessed, HandlerCrash, Redeliver,
         ChangeServerKey, vars, gatewayVars

LEMMA CallerTypesStay == ASSUME Known, [Next]_vars PROVE CallersTyped'
<1>1. CallersTyped /\ Amount \in Nat /\ \A c \in Callers : caller[c] \in CallRecords
  BY PaymentAssumption DEF Known, TypesInv, CallersTyped
<1>2. ASSUME NEW c \in Callers, NEW k \in CallRecords, Step(c, k) PROVE CallersTyped'
  BY <1>1, <1>2 DEF CallersTyped, Step
<1>3. Idle \in CallRecords
  BY <1>1 DEF Idle, CallRecords, CallerStages, GatewayStatuses
<1>4. ASSUME NEW c \in Callers, Done(c) PROVE CallersTyped'
  BY <1>2, <1>3, <1>4 DEF Done
<1>5. ASSUME UNCHANGED caller PROVE CallersTyped'
  BY <1>1, <1>5 DEF CallersTyped
<1>6. ASSUME NEW c \in Callers, NEW s \in CallerStages, Step(c, [caller[c] EXCEPT !.stage = s])
      PROVE  CallersTyped'
  <2>1. [caller[c] EXCEPT !.stage = s] \in CallRecords
    BY <1>1 DEF CallRecords
  <2> QED
    BY <1>2, <1>6, <2>1
<1>7. \A o \in Orders : row[o].refunded \in 0..Amount
  BY DEF Known, TypesInv, RowsTyped, Rows
<1>8. \A o : \A s : ~Stale(o, s) => s \in Statuses
  BY StatusFacts DEF Stale
<1>9. \A c \in Callers : caller[c].stage # "idle" => caller[c].order \in Orders
  BY DEF Known, PaymentInv, CallsAreTrue, CallIsTrue
<1>10. ASSUME NEW c \in Callers, NEW o \in Orders, Insert(c, o) PROVE CallersTyped'
  <2>1. [Idle EXCEPT !.stage = "inserted", !.op = "create", !.order = o] \in CallRecords
    BY <1>3, <1>10 DEF Idle, CallRecords, CallerStages, OperationNames
  <2> QED
    BY <1>2, <1>10, <2>1 DEF Insert
<1>11. ASSUME NEW c \in Callers, NEW o \in Orders, NEW op \in Operations, Load(c, o, op)
       PROVE  CallersTyped'
  <2>1. [Idle EXCEPT !.stage = "loaded", !.op = op, !.order = o] \in CallRecords
    BY <1>3, <1>11, PaymentAssumption DEF Idle, CallRecords, CallerStages
  <2> QED
    BY <1>2, <1>11, <2>1 DEF Load
<1>12. ASSUME NEW c \in Callers, NEW o \in Orders, NEW r \in Refunds, NEW a \in RefundAmounts,
              ReserveRefund(c, o, r, a)
       PROVE  CallersTyped'
  <2>1. [Idle EXCEPT !.stage = "reserved", !.op = "refund", !.order = o, !.refund = r] \in CallRecords
    BY <1>3, <1>12 DEF Idle, CallRecords, CallerStages, OperationNames
  <2> QED
    BY <1>2, <1>12, <2>1 DEF ReserveRefund
<1>13. ASSUME NEW c \in Callers, OpenAtGateway(c) \/ DeleteRow(c) \/ RecordRefund(c) PROVE CallersTyped'
  BY <1>4, <1>6, <1>13 DEF OpenAtGateway, DeleteRow, RecordRefund, CallerStages
<1>14. ASSUME NEW c \in Callers, SaveSession(c) PROVE CallersTyped'
  <2>1. [caller[c] EXCEPT !.stage = "announcing", !.event = "CREATED"] \in CallRecords
    BY <1>1 DEF CallRecords, CallerStages
  <2> QED
    BY <1>2, <1>14, <2>1 DEF SaveSession
<1>15. ASSUME NEW c \in Callers, AskGateway(c) PROVE CallersTyped'
  <2>1. PICK o : o = caller[c].order
    OBVIOUS
  <2>2. PICK g : g = Moved(o, caller[c].op)
    OBVIOUS
  <2>3. o \in Orders
    BY <1>9, <1>15, <2>1 DEF AskGateway
  <2>4. g \in GatewayStatuses
    BY <2>2, <2>3 DEF Moved, GatewayStatuses, Known, TypesInv, GatewayTyped
  <2>5. [caller[c] EXCEPT !.stage = "answered", !.status = g] \in CallRecords
    BY <1>1, <2>4 DEF CallRecords, CallerStages
  <2>6. caller[c].op = "session" => [caller[c] EXCEPT !.op = "sync"] \in CallRecords
    BY <1>1 DEF CallRecords, OperationNames
  <2> QED
    BY <1>2, <1>4, <1>15, <2>1, <2>2, <2>5, <2>6 DEF AskGateway
<1>16. ASSUME NEW c \in Callers, ApplyAnswer(c) PROVE CallersTyped'
  <2>1. PICK o : o = caller[c].order
    OBVIOUS
  <2>2. PICK s : s = NormalizeStatus(caller[c].status)
    OBVIOUS
  <2>3. o \in Orders
    BY <1>9, <1>16, <2>1 DEF ApplyAnswer
  <2>4. \/ Done(c)
        \/ /\ s \in Statuses
           /\ Step(c, [caller[c] EXCEPT !.stage = "announcing", !.event = s, !.total = row[o].refunded])
    BY <1>8, <1>16, <2>1, <2>2 DEF ApplyAnswer
  <2>5. s \in Statuses =>
          [caller[c] EXCEPT !.stage = "announcing", !.event = s, !.total = row[o].refunded] \in CallRecords
    BY <1>1, <1>7, <2>3 DEF CallRecords, CallerStages
  <2> QED
    BY <1>2, <1>4, <2>4, <2>5
<1>17. ASSUME NEW c \in Callers, Announce(c) PROVE CallersTyped'
  <2>1. [caller[c] EXCEPT !.stage = "closing", !.event = "none"] \in CallRecords
    BY <1>1 DEF CallRecords, CallerStages
  <2> QED
    BY <1>2, <1>4, <1>17, <2>1 DEF Announce
<1>18. ASSUME NEW c \in Callers, RefundAtGateway(c) PROVE CallersTyped'
  <2>1. [caller[c] EXCEPT !.stage = "refunded", !.event = "FAILED"] \in CallRecords
    BY <1>1 DEF CallRecords, CallerStages, Statuses
  <2>2. PICK o : o = caller[c].order
    OBVIOUS
  <2>3. PICK t : t = returned[o] + refunds[caller[c].refund].amount
    OBVIOUS
  <2>4. \/ Step(c, [caller[c] EXCEPT !.stage = "refunded", !.event = "FAILED"])
        \/ /\ t <= Amount
           /\ \E s \in {"refund", "partial_refund", "none"}, p \in {t, 0} :
                Step(c, [caller[c] EXCEPT !.stage = "refunded", !.status = s, !.total = p])
    BY <1>18, <2>2, <2>3 DEF RefundAtGateway
  <2>5. t \in Nat
    <3>1. o \in Orders /\ caller[c].refund \in Refunds
      BY <1>18, <2>2 DEF RefundAtGateway, Known, PaymentInv, CallsAreTrue, CallIsTrue, Refunding
    <3> QED
      BY <2>3, <3>1 DEF Known, RefundInv, RefundsTyped, RefundRows, ReturnedIsCarried
  <2>6. ASSUME NEW s \in {"refund", "partial_refund", "none"}, NEW p \in {t, 0}, t <= Amount
        PROVE  [caller[c] EXCEPT !.stage = "refunded", !.status = s, !.total = p] \in CallRecords
    <3>1. s \in GatewayStatuses /\ p \in 0..Amount
      BY <1>1, <2>5, <2>6 DEF GatewayStatuses
    <3> QED
      BY <1>1, <3>1 DEF CallRecords, CallerStages
  <2> QED
    BY <1>2, <2>1, <2>4, <2>6
<1>19. ASSUME NEW c \in Callers, ApplyRefundToPayment(c) PROVE CallersTyped'
  <2>1. PICK o : o = caller[c].order
    OBVIOUS
  <2>2. PICK s : s = StatusAfterRefund(c)
    OBVIOUS
  <2>3. PICK t : t = RefundedTotal(c)
    OBVIOUS
  <2>4. o \in Orders /\ t \in 0..returned[o] /\ returned[o] \in 0..Amount
    BY <1>9, <1>19, <2>1, <2>3, ToldTotal, TotalWasReturned
       DEF ApplyRefundToPayment, Known, RefundInv
  <2>5. \/ Step(c, [caller[c] EXCEPT !.stage = "closing"])
        \/ /\ s \in Statuses
           /\ Step(c, [caller[c] EXCEPT !.stage = "announcing", !.event = s, !.total = t])
    BY <1>8, <1>19, <2>1, <2>2, <2>3 DEF ApplyRefundToPayment
  <2>6. t \in 0..Amount
    BY <1>1, <2>4
  <2>7. s \in Statuses =>
          [caller[c] EXCEPT !.stage = "announcing", !.event = s, !.total = t] \in CallRecords
    BY <1>1, <2>6 DEF CallRecords, CallerStages
  <2> QED
    BY <1>2, <1>6, <2>5, <2>7 DEF CallerStages
<1>20. ASSUME NEW c \in Callers, Crash(c) \/ CloseRefund(c) PROVE CallersTyped'
  BY <1>4, <1>20 DEF Crash, CloseRefund
<1> QED
  BY <1>5, <1>10, <1>11, <1>12, <1>13, <1>14, <1>15, <1>16, <1>17, <1>18, <1>19, <1>20
     DEF Next, CallerStep, HandlerStep, Receive, RecordNotice, ApplyNotice, PublishNotice,
         MarkProcessed, HandlerCrash, Redeliver, ChangeServerKey, GatewayMove, vars

LEMMA HandlerTypesStay == ASSUME Known, [Next]_vars PROVE HandlersTyped' /\ TracesTyped'
<1>1. /\ HandlersTyped /\ TracesTyped
      /\ \A h \in Handlers : handler[h] \in HandlerRecords
  BY DEF Known, TypesInv, HandlersTyped
<1>2. ASSUME NEW h \in Handlers, NEW x \in HandlerRecords, Proceed(h, x) PROVE HandlersTyped'
  BY <1>1, <1>2 DEF HandlersTyped, Proceed
<1>3. Resting \in HandlerRecords
  BY DEF Resting, HandlerRecords, GatewayStatuses, Routings
<1>4. ASSUME NEW h \in Handlers, Rest(h) PROVE HandlersTyped'
  BY <1>2, <1>3, <1>4 DEF Rest
<1>5. ASSUME UNCHANGED handler PROVE HandlersTyped'
  BY <1>1, <1>5 DEF HandlersTyped
<1>6. ASSUME UNCHANGED <<ledger, recorded>> PROVE TracesTyped'
  BY <1>1, <1>6 DEF TracesTyped
<1>7. \A h \in Handlers : handler[h].stage # "idle" =>
        /\ handler[h].notice \in Notices /\ handler[h].notice[1] \in Orders
        /\ handler[h].notice[2] \in GatewayStatuses
  BY DEF Known, PaymentInv, NoticesAreTrue, HandlerIsTrue, NoticeIsTrue, Notices
<1>8. ASSUME NEW o \in Orders, NEW g \in GatewayStatuses, Upsert(o, g), UNCHANGED recorded
      PROVE  TracesTyped'
  BY <1>1, <1>8 DEF Upsert, TracesTyped
<1>9. ASSUME NEW h \in Handlers, NEW n \in Notices, Receive(h, n)
      PROVE  HandlersTyped' /\ TracesTyped'
  <2>1. keyGood \in BOOLEAN /\ Exists(n[1]) \in BOOLEAN
    BY DEF Known, TypesInv, RestTyped, Exists
  <2>2. n \in (Orders \cup {NoOrder}) \X (GatewayStatuses \ {"none"})
    BY DEF Notices
  <2>3. [Resting EXCEPT !.stage = "taken", !.notice = n, !.verified = keyGood,
                        !.owned = Exists(n[1])] \in HandlerRecords
    BY <1>3, <2>1, <2>2 DEF HandlerRecords
  <2> QED
    BY <1>2, <1>6, <1>9, <2>3 DEF Receive, storeVars
<1>10. ASSUME NEW h \in Handlers, RecordNotice(h) PROVE HandlersTyped' /\ TracesTyped'
  <2>1. [handler[h] EXCEPT !.stage = "recorded"] \in HandlerRecords
    BY <1>1 DEF HandlerRecords
  <2>2. Rest(h) \/ Proceed(h, [handler[h] EXCEPT !.stage = "recorded"])
    BY <1>10 DEF RecordNotice
  <2>3. RoutingOf(h) \in Routings
    BY DEF RoutingOf, Routings
  <2>4. TracesTyped'
    BY <1>1, <1>7, <1>10, <2>3 DEF RecordNotice, TracesTyped
  <2> QED
    BY <1>2, <1>4, <2>1, <2>2, <2>4
<1>11. ASSUME NEW h \in Handlers, ApplyNotice(h) PROVE HandlersTyped' /\ TracesTyped'
  <2>1. [handler[h] EXCEPT !.stage = "marking", !.routing = "ignored"] \in HandlerRecords
    BY <1>1 DEF HandlerRecords, Routings
  <2>2. PICK s : s = NormalizeStatus(handler[h].notice[2])
    OBVIOUS
  <2>3. ~Stale(handler[h].notice[1], s) => s \in Statuses
    BY StatusFacts DEF Stale
  <2>4. s \in Statuses =>
          [handler[h] EXCEPT !.stage = "publishing", !.event = s] \in HandlerRecords
    BY <1>1 DEF HandlerRecords
  <2>5. HandlersTyped'
    BY <1>2, <1>11, <2>1, <2>2, <2>3, <2>4 DEF ApplyNotice
  <2>6. TracesTyped'
    BY <1>6, <1>7, <1>8, <1>11 DEF ApplyNotice
  <2> QED
    BY <2>5, <2>6
<1>12. ASSUME NEW h \in Handlers, PublishNotice(h) PROVE HandlersTyped' /\ TracesTyped'
  <2>1. [handler[h] EXCEPT !.stage = "marking", !.routing = "routed"] \in HandlerRecords
    BY <1>1 DEF HandlerRecords, Routings
  <2> QED
    BY <1>2, <1>4, <1>6, <1>12, <2>1 DEF PublishNotice
<1>13. ASSUME NEW h \in Handlers, MarkProcessed(h) PROVE HandlersTyped' /\ TracesTyped'
  <2>1. handler[h].routing \in Routings
    BY <1>1 DEF HandlerRecords
  <2>2. TracesTyped'
    BY <1>1, <1>7, <1>13, <2>1 DEF MarkProcessed, TracesTyped
  <2> QED
    BY <1>4, <1>13, <2>2 DEF MarkProcessed
<1>14. ASSUME NEW h \in Handlers, HandlerCrash(h) PROVE HandlersTyped' /\ TracesTyped'
  BY <1>4, <1>6, <1>14 DEF HandlerCrash, storeVars
<1>15. ASSUME NEW c \in Callers, DeleteRow(c) PROVE TracesTyped'
  BY <1>1, <1>15 DEF DeleteRow, TracesTyped, GatewayStatuses
<1>16. ASSUME NEW c \in Callers, ApplyAnswer(c) PROVE TracesTyped'
  <2>1. /\ caller[c].order \in Orders
        /\ caller[c].status \in went[caller[c].order]
    BY <1>16 DEF ApplyAnswer, Known, PaymentInv, CallsAreTrue, CallIsTrue
  <2>2. caller[c].status \in GatewayStatuses
    BY <2>1 DEF Known, TypesInv, GatewayTyped
  <2> QED
    BY <1>8, <1>16, <2>1, <2>2 DEF ApplyAnswer
<1>17. ASSUME NEW c \in Callers, CallerStep(c) PROVE HandlersTyped' /\ TracesTyped'
  BY <1>5, <1>6, <1>15, <1>16, <1>17
     DEF CallerStep, OpenAtGateway, DeleteRow, SaveSession, AskGateway, ApplyAnswer, Announce,
         RefundAtGateway, RecordRefund, ApplyRefundToPayment, CloseRefund, storeVars
<1> QED
  BY <1>5, <1>6, <1>9, <1>10, <1>11, <1>12, <1>13, <1>14, <1>17
     DEF Next, HandlerStep, Insert, Load, ReserveRefund, Crash, Redeliver, ChangeServerKey,
         GatewayMove, vars, storeVars

LEMMA EventTypesStay == ASSUME Known, [Next]_vars PROVE EventsTyped'
<1>1. EventsTyped /\ Amount \in Nat
  BY PaymentAssumption DEF Known, TypesInv
<1>2. ASSUME UNCHANGED published PROVE EventsTyped'
  BY <1>1, <1>2 DEF EventsTyped
<1>3. ASSUME NEW o, NEW key, key \in EventKeys \cup RefundEvents, Publish(o, key) PROVE EventsTyped'
  BY <1>1, <1>3 DEF Publish, EventsTyped
<1>4. ASSUME NEW c \in Callers, Announce(c) PROVE EventsTyped'
  <2>1. PICK q : q = caller[c]
    OBVIOUS
  <2>2. q \in CallRecords /\ q.stage = "announcing" /\ CallIsTrue(q)
    BY <1>4, <2>1
       DEF Announce, Known, TypesInv, CallersTyped, PaymentInv, CallsAreTrue
  <2>3. q.order \in Orders /\ q.event \in Statuses \cup {"CREATED"} /\ q.total \in 0..Amount
    <3>1. q.order \in Orders /\ (q.event = "CREATED" \/ q.event \in was[q.order])
      BY <2>2 DEF CallIsTrue
    <3> QED
      BY <2>2, <3>1 DEF CallRecords, Known, TypesInv, RowsTyped
  <2>4. Discriminator(q.event, q.total) \in 0..Amount + 1
    BY <1>1, <2>3 DEF Discriminator, NoDiscriminator
  <2>5. <<q.order, q.event, Discriminator(q.event, q.total)>> \in EventKeys
    BY <2>3, <2>4 DEF EventKeys
  <2> QED
    BY <1>2, <1>3, <1>4, <2>1, <2>5 DEF Announce
<1>5. ASSUME NEW c \in Callers, CloseRefund(c) PROVE EventsTyped'
  <2>1. caller[c].refund \in Refunds
    BY <1>5 DEF CloseRefund, Known, PaymentInv, CallsAreTrue, CallIsTrue, Refunding
  <2>2. PICK t \in {"COMPLETED", "FAILED"} : Publish(caller[c].order, <<caller[c].refund, t>>)
    BY <1>5 DEF CloseRefund
  <2>3. <<caller[c].refund, t>> \in RefundEvents
    BY <2>1 DEF RefundEvents
  <2> QED
    BY <1>3, <2>2, <2>3
<1>6. ASSUME NEW h \in Handlers, PublishNotice(h) PROVE EventsTyped'
  <2>1. PICK q : q = handler[h]
    OBVIOUS
  <2>2. q.notice[1] \in Orders /\ q.event \in was[q.notice[1]]
    BY <1>6, <2>1
       DEF PublishNotice, Known, PaymentInv, NoticesAreTrue, HandlerIsTrue, NoticeIsTrue, Notices
  <2>3. q.event \in Statuses /\ NoDiscriminator \in 0..Amount + 1
    BY <1>1, <2>2 DEF NoDiscriminator, Known, TypesInv, RowsTyped
  <2>4. <<q.notice[1], q.event, NoDiscriminator>> \in EventKeys
    BY <2>2, <2>3 DEF EventKeys
  <2> QED
    BY <1>3, <1>6, <2>1, <2>4 DEF PublishNotice
<1> QED
  BY <1>2, <1>4, <1>5, <1>6
     DEF Next, CallerStep, HandlerStep, Insert, Load, ReserveRefund, Crash, OpenAtGateway, DeleteRow,
         SaveSession, AskGateway, ApplyAnswer, RefundAtGateway, RecordRefund, ApplyRefundToPayment,
         Receive, RecordNotice, ApplyNotice, MarkProcessed, HandlerCrash, Redeliver,
         ChangeServerKey, GatewayMove, vars, storeVars

LEMMA RestTypesStay == ASSUME Known, [Next]_vars PROVE RestTyped'
<1>1. RestTyped /\ MaxFaults \in Nat
  BY PaymentAssumption DEF Known, TypesInv
<1>2. UNCHANGED faults \/ Fault
  BY DEF Next, CallerStep, HandlerStep, Insert, Load, ReserveRefund, Crash, OpenAtGateway, DeleteRow,
         SaveSession, AskGateway, ApplyAnswer, Announce, RefundAtGateway, RecordRefund,
         ApplyRefundToPayment, CloseRefund, Receive, RecordNotice, ApplyNotice, PublishNotice,
         MarkProcessed, HandlerCrash, Redeliver, ChangeServerKey, GatewayMove, vars, NoFault
<1>3. UNCHANGED keyGood \/ keyGood' = ~keyGood
  BY DEF Next, CallerStep, HandlerStep, Insert, Load, ReserveRefund, Crash, OpenAtGateway, DeleteRow,
         SaveSession, AskGateway, ApplyAnswer, Announce, RefundAtGateway, RecordRefund,
         ApplyRefundToPayment, CloseRefund, Receive, RecordNotice, ApplyNotice, PublishNotice,
         MarkProcessed, HandlerCrash, Redeliver, ChangeServerKey, GatewayMove, vars, storeVars
<1>4. faults' \in 0..MaxFaults
  BY <1>1, <1>2 DEF RestTyped, Fault
<1>5. keyGood' \in BOOLEAN
  BY <1>1, <1>3 DEF RestTyped
<1> QED
  BY <1>4, <1>5 DEF RestTyped

LEMMA TypesInvHolds == Spec => []TypesInv
<1>1. Init => TypesInv
  <2> SUFFICES ASSUME Init PROVE TypesInv
    OBVIOUS
  <2>1. RowsTyped /\ GatewayTyped /\ EventsTyped
    BY PaymentAssumption
       DEF Init, RowsTyped, GatewayTyped, EventsTyped, Rows, NoRow, GatewayStatuses
  <2>2. CallersTyped
    BY PaymentAssumption DEF Init, CallersTyped, CallRecords, CallerStages, Idle, GatewayStatuses
  <2>3. HandlersTyped
    BY DEF Init, HandlersTyped, HandlerRecords, Resting, GatewayStatuses, Routings
  <2>4. TracesTyped /\ RestTyped
    BY PaymentAssumption DEF Init, TracesTyped, RestTyped, GatewayStatuses, Routings
  <2> QED
    BY <2>1, <2>2, <2>3, <2>4 DEF TypesInv
<1>2. Known /\ [Next]_vars => TypesInv'
  BY RowTypesStay, GatewayTypesStay, CallerTypesStay, HandlerTypesStay, EventTypesStay, RestTypesStay
     DEF TypesInv
<1>3. Known <=> PaymentInv /\ RefundInv /\ TypesInv
  BY DEF Known
<1> QED
  BY <1>1, <1>2, <1>3, PaymentInvHolds, RefundInvHolds, PTL DEF Spec

(* Every variable keeps to its values; among them, no refund is reserved    *)
(* beyond the payment, no total a request was told exceeds what was paid,   *)
(* and what is pending or recorded is about a payment there was.            *)
THEOREM PaymentTyped == Spec => []TypeOK
<1>1. PaymentInv /\ RefundInv /\ TypesInv => TypeOK
  <2> SUFFICES ASSUME PaymentInv, RefundInv, TypesInv PROVE TypeOK
    OBVIOUS
  <2>1. pending \subseteq Notices
    BY DEF PaymentInv, NoticesAreTrue, NoticeIsTrue
  <2>2. refunds \in [Refunds -> RefundRows] /\ returned \in [Orders -> 0..Amount] /\ executed \subseteq Refunds
    BY DEF RefundInv, RefundsTyped, ReturnedIsCarried
  <2> QED
    BY <2>1, <2>2
       DEF TypesInv, TypeOK, RowsTyped, GatewayTyped, CallersTyped, CallRecords, HandlersTyped,
           HandlerRecords, EventsTyped, TracesTyped, RestTyped
<1> QED
  BY <1>1, PaymentInvHolds, RefundInvHolds, TypesInvHolds, PTL
=============================================================================
