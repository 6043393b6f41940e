---------------------------- MODULE PaymentProofs ----------------------------
(***************************************************************************)
(* The inductive invariant of Payment, for every set of orders, callers,   *)
(* handlers and refunds, every amount and whatever moves the gateway       *)
(* makes: what callers and handlers carry from one statement to the next   *)
(* is true, and money is captured only through a stored checkout session.  *)
(***************************************************************************)
EXTENDS Payment, TLAPS

-----------------------------------------------------------------------------
(* Records with the fields they ought to have; only the fields that the     *)
(* proofs need are typed further.                                           *)
IsRow(x) == x = [status |-> x.status, refunded |-> x.refunded, session |-> x.session]
IsCall(k) == k = [stage |-> k.stage, op |-> k.op, order |-> k.order, status |-> k.status,
                  total |-> k.total, event |-> k.event, refund |-> k.refund]
IsHandler(h) == h = [stage |-> h.stage, notice |-> h.notice, verified |-> h.verified,
                     owned |-> h.owned, event |-> h.event, routing |-> h.routing]

-----------------------------------------------------------------------------
(* The rows *)

(* The outcome a status stands for. *)
Outcomes == Settled \cup Terminal
OutcomeOf(s) == IF s \in Settled THEN "won" ELSE "lost"

(* A row's status is one of those it was in, and once it was in an outcome  *)
(* its status stands for that outcome.                                      *)
RowsAreTrue ==
  /\ row = [o \in Orders |-> row[o]] /\ was = [o \in Orders |-> was[o]]
  /\ \A o \in Orders :
    /\ IsRow(row[o])
    /\ was[o] \subseteq Statuses
    /\ IF Exists(o) THEN row[o].status \in was[o] ELSE row[o] = NoRow
    /\ \A s \in was[o] \cap Outcomes : Exists(o) => Phase(o) = OutcomeOf(s)

(* The gateway takes money only through a session PayMux has stored, and    *)
(* a payment is settled only after that.                                    *)
CapturedThroughSession == \A o \in Orders : went[o] \cap Captured # {} => row[o].session
SettledWasCaptured == \A o \in Orders : row[o].status \in Settled => went[o] \cap Captured # {}

(* Where the gateway is it has been.                                        *)
GatewayIsWhereItWent ==
  /\ gw = [o \in Orders |-> gw[o]] /\ went = [o \in Orders |-> went[o]]
  /\ \A o \in Orders : gw[o] # "none" => gw[o] \in went[o]

MoneyInv == CapturedThroughSession /\ SettledWasCaptured /\ GatewayIsWhereItWent

-----------------------------------------------------------------------------
(* What callers and handlers carry *)

Creating == {"inserted", "refused", "opened"}
Refunding == {"reserved", "refunded", "accounted", "closing"}

(* The refund of a request was carried out, of money that was captured.     *)
RefundDone(k) == k.refund \in executed /\ went[k.order] \cap Captured # {}

(* A request that is creating a payment has its row, which nobody can pay   *)
(* through; what the gateway answered is what it went through; what is to   *)
(* be announced is what the payment was in.                                 *)
CallIsTrue(k) ==
  /\ k.stage # "idle" => k.order \in Orders
  /\ k.stage \in Creating => k.op = "create" /\ Exists(k.order) /\ ~row[k.order].session
  /\ k.stage = "opened" => gw[k.order] # "none"
  /\ k.stage = "answered" => k.status \in went[k.order]
  /\ k.stage = "announcing" =>
       IF k.event = "CREATED" THEN gw[k.order] # "none" ELSE k.event \in was[k.order]
  /\ k.stage \in Refunding \/ k.op = "refund" => k.op = "refund" /\ k.refund \in Refunds
  /\ k.op = "refund" => k.stage \in Refunding \cup {"announcing"}
  /\ k.stage \in {"refunded", "accounted", "closing"} => k.event = "FAILED" \/ RefundDone(k)
  /\ k.stage = "announcing" /\ k.op = "refund" => RefundDone(k)
  /\ k.stage \in {"reserved", "refunded", "accounted"} =>
       k.status \in {"refund", "partial_refund", "none"}
  /\ k.stage = "accounted" => k.event # "FAILED"

CallsAreTrue ==
  /\ caller = [c \in Callers |-> caller[c]]
  /\ \A c \in Callers : IsCall(caller[c]) /\ CallIsTrue(caller[c])

(* A payment is being created by one request only.                          *)
OneCreator ==
  \A c, d \in Callers : /\ caller[c].stage \in Creating /\ caller[d].stage \in Creating
                        /\ caller[c].order = caller[d].order
                        => c = d

NoticeIsTrue(n) == n \in Notices /\ n[2] \in went[n[1]]

HandlerIsTrue(h) ==
  /\ h.stage # "idle" => NoticeIsTrue(h.notice)
  /\ h.stage = "publishing" => h.event \in was[h.notice[1]]

NoticesAreTrue ==
  /\ \A n \in pending : NoticeIsTrue(n)
  /\ \A n \in Notices : recorded[n] # "none" => NoticeIsTrue(n)
  /\ handler = [h \in Handlers |-> handler[h]] /\ recorded = [n \in Notices |-> recorded[n]]
  /\ \A h \in Handlers : IsHandler(handler[h]) /\ HandlerIsTrue(handler[h])

(* Events are about orders, or about refunds.                               *)
EventsInv == EventsAreTrue /\ \A k \in published \ RefundEvents : k[1] \in Orders

PaymentInv ==
  RowsAreTrue /\ MoneyInv /\ CallsAreTrue /\ OneCreator /\ NoticesAreTrue /\ EventsInv

LEMMA InitPayment == Init => PaymentInv
<1> SUFFICES ASSUME Init PROVE PaymentInv
  OBVIOUS
<1>1. RowsAreTrue
  BY DEF Init, RowsAreTrue, IsRow, NoRow, Exists, Phase
<1>2. MoneyInv
  BY DEF Init, MoneyInv, CapturedThroughSession, SettledWasCaptured, GatewayIsWhereItWent, NoRow,
         Settled
<1>3. CallsAreTrue /\ OneCreator
  BY DEF Init, CallsAreTrue, IsCall, CallIsTrue, OneCreator, Idle, Creating, Refunding
<1>4. NoticesAreTrue
  BY DEF Init, NoticesAreTrue, IsHandler, HandlerIsTrue, Resting
<1>5. EventsInv
  BY DEF Init, EventsInv, EventsAreTrue
<1> QED
  BY <1>1, <1>2, <1>3, <1>4, <1>5 DEF PaymentInv

-----------------------------------------------------------------------------
(* What every step leaves true *)

(* The histories only grow, and what the gateway knows it does not forget.  *)
Grows ==
  /\ \A o \in Orders : was[o] \subseteq was'[o] /\ went[o] \subseteq went'[o]
                      /\ (gw[o] # "none" => gw'[o] # "none")
  /\ executed \subseteq executed'

(* A row a request is creating stays, without a session.                    *)
CreationGoesOn(k) ==
  k.stage \in Creating => row'[k.order].status # "ABSENT" /\ ~row'[k.order].session

LEMMA RowsKept == RowsAreTrue /\ UNCHANGED <<row, was>> => RowsAreTrue'
BY DEF RowsAreTrue, Exists, Phase

LEMMA MoneyKept == MoneyInv /\ UNCHANGED <<row, gw, went>> => MoneyInv'
BY DEF MoneyInv, CapturedThroughSession, SettledWasCaptured, GatewayIsWhereItWent

LEMMA NothingMoved == UNCHANGED <<was, went, gw, executed>> => Grows
BY DEF Grows

LEMMA CallKept ==
  ASSUME NEW k, CallIsTrue(k), Grows, CreationGoesOn(k)
  PROVE  CallIsTrue(k)'
BY DEF CallIsTrue, Grows, CreationGoesOn, RefundDone, Creating, Refunding, Exists

LEMMA CallsKept ==
  ASSUME CallsAreTrue, OneCreator, UNCHANGED caller, Grows,
         \A c \in Callers : CreationGoesOn(caller[c])
  PROVE  CallsAreTrue' /\ OneCreator'
BY CallKept DEF CallsAreTrue, OneCreator

LEMMA StepKeeps ==
  ASSUME CallsAreTrue, OneCreator, Grows, NEW c \in Callers, NEW k, IsCall(k), CallIsTrue(k)',
         Step(c, k),
         \A d \in Callers \ {c} : CreationGoesOn(caller[d]),
         k.stage \in Creating =>
           \A d \in Callers \ {c} : caller[d].stage \in Creating => caller[d].order # k.order
  PROVE  CallsAreTrue' /\ OneCreator'
<1>1. /\ caller' = [d \in Callers |-> caller'[d]] /\ caller'[c] = k
      /\ \A d \in Callers \ {c} : caller'[d] = caller[d]
  BY DEF CallsAreTrue, Step
<1>2. \A d \in Callers \ {c} : CallIsTrue(caller[d]) /\ IsCall(caller[d])
  BY DEF CallsAreTrue
<1>3. CallsAreTrue'
  BY <1>1, <1>2, CallKept DEF CallsAreTrue
<1>4. OneCreator'
  BY <1>1 DEF OneCreator
<1> QED
  BY <1>3, <1>4

LEMMA NoticesKept ==
  ASSUME NoticesAreTrue, Grows, UNCHANGED <<pending, recorded, handler>>
  PROVE  NoticesAreTrue'
<1>1. \A n : NoticeIsTrue(n) => NoticeIsTrue(n)'
  BY DEF NoticeIsTrue, Grows, Notices
<1>2. \A h \in Handlers : HandlerIsTrue(handler[h]) => HandlerIsTrue(handler[h])'
  BY <1>1 DEF HandlerIsTrue, NoticeIsTrue, Grows, Notices
<1> QED
  BY <1>1, <1>2 DEF NoticesAreTrue

LEMMA EventsKept ==
  ASSUME EventsInv, Grows, UNCHANGED published
  PROVE  EventsInv'
BY DEF EventsInv, EventsAreTrue, Grows

-----------------------------------------------------------------------------
(* What the effects of a step leave true *)

LEMMA StatusFacts ==
  /\ Settled \subseteq Statuses /\ Terminal \subseteq Statuses /\ "ABSENT" \notin Statuses
  /\ \A s, t : s \in PredecessorsOf(t) =>
       /\ s \in Statuses /\ t \in Statuses
       /\ s \in Settled => t \in Settled
       /\ s \notin Settled => s \notin Terminal
<1>1. /\ Settled \subseteq Statuses /\ Terminal \subseteq Statuses /\ "ABSENT" \notin Statuses
      /\ {"PARTIALLY_REFUNDED", "REFUNDED"} \subseteq Settled
  BY DEF Settled, Terminal, Statuses
<1> QED
  BY <1>1 DEF PredecessorsOf, CanTransitionTo

LEMMA SettledIsCaptured ==
  \A g : NormalizeStatus(g) \in Settled => g \in Captured
BY DEF NormalizeStatus, Settled, Captured, Unmapped

LEMMA NormalizedIsAStatus ==
  \A g : NormalizeStatus(g) # Unmapped => NormalizeStatus(g) \in Statuses
BY DEF NormalizeStatus, Statuses, Unmapped

(* ApplyState: a payment that was in an outcome stays in it, and a settled  *)
(* one was captured.                                                        *)
LEMMA StatusMoves ==
  ASSUME RowsAreTrue, MoneyInv, NEW o \in Orders, NEW s, ~Stale(o, s), NEW x,
         IsRow(x), x.status = s, x.session = row[o].session,
         row' = [row EXCEPT ![o] = x], was' = [was EXCEPT ![o] = @ \cup {s}],
         UNCHANGED <<gw, went>>, s \in Settled => went[o] \cap Captured # {}
  PROVE  /\ RowsAreTrue' /\ MoneyInv'
         /\ s \in was'[o] /\ \A p \in Orders : was[p] \subseteq was'[p]
         /\ \A p \in Orders : /\ Exists(p) => Exists(p)'
                             /\ row'[p].session = row[p].session
<1>1. /\ row' = [p \in Orders |-> row'[p]] /\ row'[o] = x
      /\ \A p \in Orders \ {o} : row'[p] = row[p]
  BY DEF RowsAreTrue
<1>2. /\ was' = [p \in Orders |-> was'[p]] /\ was'[o] = was[o] \cup {s}
      /\ \A p \in Orders \ {o} : was'[p] = was[p]
  BY DEF RowsAreTrue
<1>3. /\ row[o].status \in Statuses /\ s \in Statuses /\ s # "ABSENT"
      /\ row[o].status \in Settled => s \in Settled
      /\ row[o].status \notin Settled => row[o].status \notin Terminal
  BY StatusFacts DEF Stale
<1>4. row[o].status # "ABSENT"
  BY <1>3, StatusFacts
<1>5. Phase(o)' = IF s \in Settled THEN "won" ELSE IF s \in Cancelable THEN "open" ELSE "lost"
  BY <1>1, <1>3 DEF Phase, Cancelable, Settled
<1>6. ASSUME NEW t \in was'[o] \cap Outcomes PROVE Phase(o)' = OutcomeOf(t)
  <2>1. CASE t = s
    BY <1>5, <2>1 DEF Outcomes, OutcomeOf, Settled, Terminal, Cancelable
  <2>2. CASE t # s
    <3>1. t \in was[o] \cap Outcomes
      BY <1>2, <2>2
    <3>2. Phase(o) = OutcomeOf(t)
      BY <1>4, <3>1 DEF RowsAreTrue, Exists
    <3>3. row[o].status \in Settled /\ OutcomeOf(t) = "won"
      BY <1>3, <1>4, <3>2 DEF Phase, OutcomeOf, Statuses, Settled, Terminal, Cancelable
    <3> QED
      BY <1>3, <1>5, <3>3
  <2> QED
    BY <2>1, <2>2
<1>7. RowsAreTrue'
  <2>1. ASSUME NEW p \in Orders \ {o}
        PROVE  /\ IsRow(row'[p]) /\ was'[p] \subseteq Statuses
               /\ IF Exists(p)' THEN row'[p].status \in was'[p] ELSE row'[p] = NoRow
               /\ \A t \in was'[p] \cap Outcomes : Exists(p)' => Phase(p)' = OutcomeOf(t)
    <3>1. row'[p] = row[p] /\ was'[p] = was[p]
      BY <1>1, <1>2
    <3>2. (Exists(p)' <=> Exists(p)) /\ Phase(p)' = Phase(p)
      BY <3>1 DEF Exists, Phase
    <3> QED
      BY <3>1, <3>2 DEF RowsAreTrue
  <2>2. /\ IsRow(row'[o]) /\ was'[o] \subseteq Statuses
        /\ Exists(o)' /\ row'[o].status \in was'[o]
        /\ \A t \in was'[o] \cap Outcomes : Exists(o)' => Phase(o)' = OutcomeOf(t)
    BY <1>1, <1>2, <1>3, <1>6 DEF RowsAreTrue, Exists
  <2> QED
    BY <1>1, <1>2, <2>1, <2>2 DEF RowsAreTrue
<1>8. MoneyInv'
  BY <1>1 DEF MoneyInv, CapturedThroughSession, SettledWasCaptured, GatewayIsWhereItWent
<1>9. \A p \in Orders : /\ Exists(p) => Exists(p)'
                       /\ row'[p].session = row[p].session
  BY <1>1, <1>3 DEF Exists
<1> QED
  BY <1>2, <1>7, <1>8, <1>9

LEMMA SetStatusMoves ==
  ASSUME RowsAreTrue, MoneyInv, NEW o \in Orders, NEW s, ~Stale(o, s), SetStatus(o, s),
         UNCHANGED <<gw, went>>, s \in Settled => went[o] \cap Captured # {}
  PROVE  /\ RowsAreTrue' /\ MoneyInv'
         /\ s \in was'[o] /\ \A p \in Orders : was[p] \subseteq was'[p]
         /\ \A p \in Orders : /\ Exists(p) => Exists(p)'
                             /\ row'[p].session = row[p].session
<1>1. PICK x : x = [row[o] EXCEPT !.status = s]
  OBVIOUS
<1>2. IsRow(row[o])
  BY DEF RowsAreTrue
<1>3. IsRow(x) /\ x.status = s /\ x.session = row[o].session
  BY <1>1, <1>2 DEF IsRow
<1>4. row' = [row EXCEPT ![o] = x] /\ was' = [was EXCEPT ![o] = @ \cup {s}]
  BY <1>1 DEF SetStatus
<1> QED
  BY <1>3, <1>4, StatusMoves

LEMMA SetRefundedMoves ==
  ASSUME RowsAreTrue, MoneyInv, NEW o \in Orders, NEW s, NEW total, ~Stale(o, s),
         SetRefunded(o, s, total), UNCHANGED <<gw, went>>, went[o] \cap Captured # {}
  PROVE  /\ RowsAreTrue' /\ MoneyInv'
         /\ s \in was'[o] /\ \A p \in Orders : was[p] \subseteq was'[p]
         /\ \A p \in Orders : /\ Exists(p) => Exists(p)'
                             /\ row'[p].session = row[p].session
<1>1. PICK x : x = [row[o] EXCEPT !.status = s, !.refunded = total]
  OBVIOUS
<1>2. IsRow(row[o])
  BY DEF RowsAreTrue
<1>3. IsRow(x) /\ x.status = s /\ x.session = row[o].session
  BY <1>1, <1>2 DEF IsRow
<1>4. row' = [row EXCEPT ![o] = x] /\ was' = [was EXCEPT ![o] = @ \cup {s}]
  BY <1>1, <1>2 DEF SetRefunded, IsRow
<1> QED
  BY <1>3, <1>4, StatusMoves

(* The gateway moves: it takes money only through a stored session.         *)
LEMMA GatewayGoes ==
  ASSUME MoneyInv, NEW o \in Orders, NEW g, g # "none", UNCHANGED <<row, was>>, executed \subseteq executed',
         gw' = [gw EXCEPT ![o] = g], went' = [went EXCEPT ![o] = @ \cup {g}],
         g \in Captured => row[o].session
  PROVE  MoneyInv' /\ Grows /\ g \in went'[o] /\ gw'[o] # "none"
<1>1. /\ gw' = [p \in Orders |-> gw'[p]] /\ gw'[o] = g
      /\ \A p \in Orders \ {o} : gw'[p] = gw[p]
      /\ went' = [p \in Orders |-> went'[p]] /\ went'[o] = went[o] \cup {g}
      /\ \A p \in Orders \ {o} : went'[p] = went[p]
  BY DEF MoneyInv, GatewayIsWhereItWent
<1>2. GatewayIsWhereItWent'
  BY <1>1 DEF MoneyInv, GatewayIsWhereItWent
<1>3. CapturedThroughSession'
  BY <1>1 DEF MoneyInv, CapturedThroughSession
<1>4. SettledWasCaptured'
  BY <1>1 DEF MoneyInv, SettledWasCaptured
<1>5. Grows
  BY <1>1 DEF Grows
<1> QED
  BY <1>1, <1>2, <1>3, <1>4, <1>5 DEF MoneyInv

(* Publishing what a payment was in, or a refund that was carried out.      *)
LEMMA PublishKeeps ==
  ASSUME EventsInv, Grows, NEW o \in Orders, NEW e, NEW d, Publish(o, <<o, e, d>>),
         IF e = "CREATED" THEN gw'[o] # "none" ELSE e \in was'[o]
  PROVE  EventsInv'
<1>1. published' \subseteq published \cup {<<o, e, d>>}
  BY DEF Publish
<1>2. \A r \in Refunds : <<r, "COMPLETED">> # <<o, e, d>>
  OBVIOUS
<1> QED
  BY <1>1, <1>2 DEF EventsInv, EventsAreTrue, Grows

LEMMA PublishRefundKeeps ==
  ASSUME EventsInv, Grows, NEW o, NEW r \in Refunds, NEW t \in {"COMPLETED", "FAILED"},
         Publish(o, <<r, t>>), t = "COMPLETED" => r \in executed'
  PROVE  EventsInv'
<1>1. published' \subseteq published \cup {<<r, t>>} /\ <<r, t>> \in RefundEvents
  BY DEF Publish, RefundEvents
<1> QED
  BY <1>1 DEF EventsInv, EventsAreTrue, Grows

-----------------------------------------------------------------------------
(* Creating a payment *)

LEMMA NoRowFacts == IsRow(NoRow) /\ NoRow.status = "ABSENT" /\ NoRow.session = FALSE
BY DEF IsRow, NoRow

LEMMA IdleFacts ==
  /\ IsCall(Idle) /\ Idle.stage = "idle" /\ Idle.op = "none" /\ Idle.event = "none"
  /\ CallIsTrue(Idle)'
BY DEF IsCall, Idle, CallIsTrue, Creating, Refunding

(* Nobody else is creating what nobody has a row for.                       *)
LEMMA InsertKeeps ==
  ASSUME PaymentInv, NEW c \in Callers, NEW o \in Orders, Insert(c, o) PROVE PaymentInv'
<1>1. PICK x : x = [NoRow EXCEPT !.status = "PENDING"]
  OBVIOUS
<1>2. PICK k : k = [Idle EXCEPT !.stage = "inserted", !.op = "create", !.order = o]
  OBVIOUS
<1>3. IsRow(x) /\ x.status = "PENDING" /\ x.session = FALSE
  BY <1>1 DEF IsRow, NoRow
<1>4. IsCall(k) /\ k.stage = "inserted" /\ k.op = "create" /\ k.order = o
  BY <1>2 DEF IsCall, Idle
<1>5. /\ gw[o] = "none" /\ was[o] = {} /\ \A p \in Orders : ~Exists(p)
      /\ row' = [row EXCEPT ![o] = x] /\ was' = [was EXCEPT ![o] = {"PENDING"}]
      /\ Step(c, k)
      /\ UNCHANGED <<published, recorded, gw, went, executed, pending, handler>>
  BY <1>1, <1>2 DEF Insert, InsertRow, gatewayVars
<1>6. /\ row' = [p \in Orders |-> row'[p]] /\ row'[o] = x
      /\ \A p \in Orders \ {o} : row'[p] = row[p]
      /\ was' = [p \in Orders |-> was'[p]] /\ was'[o] = {"PENDING"}
      /\ \A p \in Orders \ {o} : was'[p] = was[p]
  BY <1>5 DEF PaymentInv, RowsAreTrue
<1>7. \A p \in Orders : ~row[p].session /\ went[p] \cap Captured = {}
  BY <1>5, NoRowFacts DEF PaymentInv, RowsAreTrue, MoneyInv, CapturedThroughSession
<1>8. RowsAreTrue'
  <2>1. Exists(o)' /\ "PENDING" \in Statuses /\ "PENDING" \notin Outcomes
    BY <1>3, <1>6 DEF Exists, Statuses, Outcomes, Settled, Terminal
  <2> QED
    BY <1>3, <1>5, <1>6, <2>1 DEF PaymentInv, RowsAreTrue, Exists, Phase
<1>9. MoneyInv'
  <2>1. \A p \in Orders : row'[p].status \notin Settled
    BY <1>3, <1>5, <1>6 DEF Exists, Settled
  <2> QED
    BY <1>5, <1>7, <2>1 DEF PaymentInv, MoneyInv, CapturedThroughSession, SettledWasCaptured,
                            GatewayIsWhereItWent
<1>10. Grows
  BY <1>5, <1>6 DEF Grows
<1>11. \A d \in Callers : caller[d].stage \notin Creating
  BY <1>5 DEF PaymentInv, CallsAreTrue, CallIsTrue, Creating
<1>12. CallIsTrue(k)'
  BY <1>3, <1>4, <1>6 DEF CallIsTrue, Creating, Refunding, Exists
<1>13. CallsAreTrue' /\ OneCreator'
  BY <1>4, <1>5, <1>10, <1>11, <1>12, StepKeeps DEF PaymentInv, CreationGoesOn
<1> QED
  BY <1>5, <1>8, <1>9, <1>10, <1>13, NoticesKept, EventsKept DEF PaymentInv

(* Rows that stay where they are, with their sessions, let creation go on.  *)
LEMMA RowsStay ==
  ASSUME CallsAreTrue, NEW c \in Callers,
         \A p \in Orders : /\ Exists(p) => Exists(p)'
                          /\ row'[p].session = row[p].session
  PROVE  CreationGoesOn(caller[c])
BY DEF CallsAreTrue, CallIsTrue, CreationGoesOn, Creating, Exists

LEMMA OpenAtGatewayKeeps ==
  ASSUME PaymentInv, NEW c \in Callers, OpenAtGateway(c) PROVE PaymentInv'
<1>1. /\ caller[c].stage = "inserted" /\ IsCall(caller[c]) /\ CallIsTrue(caller[c])
      /\ caller[c].order \in Orders
      /\ UNCHANGED <<row, was, published, recorded, executed, pending, handler>>
  BY DEF PaymentInv, CallsAreTrue, CallIsTrue, OpenAtGateway, storeVars
<1>2. PICK o : o = caller[c].order
  OBVIOUS
<1>3. PICK s \in {"opened", "refused"} :
        /\ Step(c, [caller[c] EXCEPT !.stage = s])
        /\ \/ gw' = [gw EXCEPT ![o] = "pending"] /\ went' = [went EXCEPT ![o] = @ \cup {"pending"}]
           \/ s = "refused" /\ UNCHANGED <<gw, went>>
  BY <1>2 DEF OpenAtGateway
<1>4. MoneyInv' /\ Grows /\ (s = "opened" => gw'[o] # "none")
  BY <1>1, <1>2, <1>3, GatewayGoes, MoneyKept, NothingMoved DEF PaymentInv, Captured
<1>5. PICK k : k = [caller[c] EXCEPT !.stage = s]
  OBVIOUS
<1>6. IsCall(k) /\ k.stage = s /\ k.order = o /\ k.op = "create"
  BY <1>1, <1>2, <1>5 DEF IsCall, CallIsTrue, Creating
<1>7. CallIsTrue(k)'
  BY <1>1, <1>2, <1>4, <1>6 DEF CallIsTrue, Creating, Refunding, Exists
<1>8. \A d \in Callers : CreationGoesOn(caller[d])
  <2>1. \A p \in Orders : (Exists(p) => Exists(p)') /\ row'[p].session = row[p].session
    BY <1>1 DEF Exists
  <2> QED
    BY <2>1, RowsStay DEF PaymentInv
<1>9. \A d \in Callers \ {c} : caller[d].stage \in Creating => caller[d].order # o
  BY <1>1, <1>2 DEF PaymentInv, OneCreator, Creating
<1>10. CallsAreTrue' /\ OneCreator'
  BY <1>3, <1>4, <1>5, <1>6, <1>7, <1>8, <1>9, StepKeeps DEF PaymentInv
<1> QED
  BY <1>1, <1>4, <1>10, RowsKept, NoticesKept, EventsKept DEF PaymentInv

(* Only a payment that nobody can have paid is removed.                     *)
LEMMA DeleteRowKeeps == ASSUME PaymentInv, NEW c \in Callers, DeleteRow(c) PROVE PaymentInv'
<1>1. PICK o : o = caller[c].order
  OBVIOUS
<1>2. /\ caller[c].stage = "refused" /\ o \in Orders /\ ~row[o].session
      /\ row' = [row EXCEPT ![o] = NoRow] /\ Step(c, Idle)
      /\ UNCHANGED <<was, published, recorded, gw, went, executed, pending, handler>>
  BY <1>1 DEF PaymentInv, CallsAreTrue, CallIsTrue, DeleteRow, Done, gatewayVars, Creating
<1>3. /\ row' = [p \in Orders |-> row'[p]] /\ row'[o] = NoRow
      /\ \A p \in Orders \ {o} : row'[p] = row[p]
  BY <1>2 DEF PaymentInv, RowsAreTrue
<1>4. RowsAreTrue'
  BY <1>2, <1>3, NoRowFacts DEF PaymentInv, RowsAreTrue, Exists, Phase
<1>5. MoneyInv'
  <2>1. went[o] \cap Captured = {} /\ NoRow.status \notin Settled
    BY <1>2, NoRowFacts DEF PaymentInv, MoneyInv, CapturedThroughSession, Settled
  <2> QED
    BY <1>2, <1>3, <2>1 DEF PaymentInv, MoneyInv, CapturedThroughSession, SettledWasCaptured,
                            GatewayIsWhereItWent
<1>6. Grows
  BY <1>2, NothingMoved
<1>7. \A d \in Callers \ {c} : CreationGoesOn(caller[d])
  <2> SUFFICES ASSUME NEW d \in Callers \ {c}, caller[d].stage \in Creating
               PROVE  /\ row'[caller[d].order].status # "ABSENT"
                      /\ ~row'[caller[d].order].session
    BY DEF CreationGoesOn
  <2>1. caller[d].order # o
    BY <1>1, <1>2 DEF PaymentInv, OneCreator, Creating
  <2> QED
    BY <1>3, <2>1 DEF PaymentInv, CallsAreTrue, CallIsTrue, Creating, Exists
<1>8. CallsAreTrue' /\ OneCreator'
  BY <1>2, <1>6, <1>7, IdleFacts, StepKeeps DEF PaymentInv, Creating
<1> QED
  BY <1>2, <1>4, <1>5, <1>6, <1>8, NoticesKept, EventsKept DEF PaymentInv

LEMMA SaveSessionKeeps == ASSUME PaymentInv, NEW c \in Callers, SaveSession(c) PROVE PaymentInv'
<1>1. PICK o : o = caller[c].order
  OBVIOUS
<1>2. PICK k : k = [caller[c] EXCEPT !.stage = "announcing", !.event = "CREATED"]
  OBVIOUS
<1>3. PICK x : x = [row[o] EXCEPT !.session = TRUE]
  OBVIOUS
<1>4. /\ caller[c].stage = "opened" /\ IsCall(caller[c]) /\ caller[c].op = "create"
      /\ o \in Orders /\ Exists(o) /\ gw[o] # "none"
  BY <1>1 DEF PaymentInv, CallsAreTrue, CallIsTrue, SaveSession, Creating
<1>5. /\ row' = [row EXCEPT ![o] = x] /\ Step(c, k)
      /\ UNCHANGED <<was, published, recorded, gw, went, executed, pending, handler>>
  BY <1>1, <1>2, <1>3, <1>4 DEF SaveSession, gatewayVars
<1>6. IsRow(x) /\ x.status = row[o].status /\ x.session = TRUE
  <2>1. IsRow(row[o])
    BY <1>4 DEF PaymentInv, RowsAreTrue
  <2> QED
    BY <1>3, <2>1 DEF IsRow
<1>7. /\ row' = [p \in Orders |-> row'[p]] /\ row'[o] = x
      /\ \A p \in Orders \ {o} : row'[p] = row[p]
  BY <1>4, <1>5 DEF PaymentInv, RowsAreTrue
<1>8. RowsAreTrue'
  BY <1>4, <1>5, <1>6, <1>7 DEF PaymentInv, RowsAreTrue, Exists, Phase
<1>9. MoneyInv'
  BY <1>5, <1>6, <1>7 DEF PaymentInv, MoneyInv, CapturedThroughSession, SettledWasCaptured,
                          GatewayIsWhereItWent
<1>10. Grows
  BY <1>5, NothingMoved
<1>11. IsCall(k) /\ k.stage = "announcing" /\ k.event = "CREATED" /\ k.order = o /\ k.op = "create"
  BY <1>1, <1>2, <1>4 DEF IsCall
<1>12. CallIsTrue(k)'
  BY <1>4, <1>5, <1>11 DEF CallIsTrue, Creating, Refunding
<1>13. \A d \in Callers \ {c} : CreationGoesOn(caller[d])
  <2> SUFFICES ASSUME NEW d \in Callers \ {c}, caller[d].stage \in Creating
               PROVE  /\ row'[caller[d].order].status # "ABSENT"
                      /\ ~row'[caller[d].order].session
    BY DEF CreationGoesOn
  <2>1. caller[d].order # o
    BY <1>1, <1>4 DEF PaymentInv, OneCreator, Creating
  <2> QED
    BY <1>7, <2>1 DEF PaymentInv, CallsAreTrue, CallIsTrue, Creating, Exists
<1>14. CallsAreTrue' /\ OneCreator'
  BY <1>5, <1>10, <1>11, <1>12, <1>13, StepKeeps DEF PaymentInv, Creating
<1> QED
  BY <1>5, <1>8, <1>9, <1>10, <1>14, NoticesKept, EventsKept DEF PaymentInv

-----------------------------------------------------------------------------
(* Requests that leave the tables, the gateway and the events alone *)

LEMMA QuietStep ==
  ASSUME PaymentInv, NEW c \in Callers, NEW k, IsCall(k), CallIsTrue(k)', k.stage \notin Creating,
         Step(c, k),
         UNCHANGED <<row, was, published, recorded, gw, went, executed, pending, handler>>
  PROVE  PaymentInv'
<1>1. Grows
  BY NothingMoved
<1>2. \A d \in Callers : CreationGoesOn(caller[d])
  <2>1. \A p \in Orders : (Exists(p) => Exists(p)') /\ row'[p].session = row[p].session
    BY DEF Exists
  <2> QED
    BY <2>1, RowsStay DEF PaymentInv
<1>3. CallsAreTrue' /\ OneCreator'
  BY <1>1, <1>2, StepKeeps DEF PaymentInv
<1> QED
  BY <1>1, <1>3, RowsKept, MoneyKept, NoticesKept, EventsKept DEF PaymentInv

LEMMA CrashKeeps == ASSUME PaymentInv, NEW c \in Callers, Crash(c) PROVE PaymentInv'
BY IdleFacts, QuietStep DEF Crash, Done, storeVars, gatewayVars, Creating

LEMMA LoadKeeps ==
  ASSUME PaymentInv, NEW c \in Callers, NEW o \in Orders, NEW op \in Operations, Load(c, o, op)
  PROVE  PaymentInv'
<1>1. PICK k : k = [Idle EXCEPT !.stage = "loaded", !.op = op, !.order = o]
  OBVIOUS
<1>2. IsCall(k) /\ k.stage = "loaded" /\ k.op # "refund" /\ k.order = o
  BY <1>1 DEF IsCall, Idle, Load
<1>3. CallIsTrue(k)'
  BY <1>2 DEF CallIsTrue, Creating, Refunding
<1> QED
  BY <1>1, <1>2, <1>3, QuietStep DEF Load, storeVars, gatewayVars, Creating

LEMMA ReserveRefundKeeps ==
  ASSUME PaymentInv, NEW c \in Callers, NEW o \in Orders, NEW r \in Refunds,
         NEW a \in RefundAmounts, ReserveRefund(c, o, r, a)
  PROVE  PaymentInv'
<1>1. PICK k : k = [Idle EXCEPT !.stage = "reserved", !.op = "refund", !.order = o, !.refund = r]
  OBVIOUS
<1>2. /\ IsCall(k) /\ k.stage = "reserved" /\ k.op = "refund" /\ k.order = o /\ k.refund = r
      /\ k.status = "none"
  BY <1>1 DEF IsCall, Idle
<1>3. CallIsTrue(k)'
  BY <1>2 DEF CallIsTrue, Creating, Refunding
<1> QED
  BY <1>1, <1>2, <1>3, QuietStep DEF ReserveRefund, gatewayVars, Creating

LEMMA RecordRefundKeeps == ASSUME PaymentInv, NEW c \in Callers, RecordRefund(c) PROVE PaymentInv'
<1>1. PICK q : q = caller[c]
  OBVIOUS
<1>2. /\ q.stage = "refunded" /\ IsCall(q) /\ CallIsTrue(q)
      /\ UNCHANGED <<row, was, published, recorded, gw, went, executed, pending, handler>>
  BY <1>1 DEF PaymentInv, CallsAreTrue, RecordRefund, gatewayVars
<1>3. PICK k : k = [q EXCEPT !.stage = IF q.event = "FAILED" THEN "closing" ELSE "accounted"]
  OBVIOUS
<1>4. Step(c, k)
  BY <1>1, <1>3 DEF RecordRefund
<1>5. /\ IsCall(k) /\ k.stage = (IF q.event = "FAILED" THEN "closing" ELSE "accounted")
      /\ k.op = q.op /\ k.order = q.order /\ k.status = q.status /\ k.event = q.event
      /\ k.refund = q.refund
  BY <1>2, <1>3 DEF IsCall
<1>6. CallIsTrue(k)'
  BY <1>2, <1>5 DEF CallIsTrue, Creating, Refunding, RefundDone
<1> QED
  BY <1>2, <1>4, <1>5, <1>6, QuietStep DEF Creating

-----------------------------------------------------------------------------
(* Requests that ask the gateway *)

(* A request that learnt something while the gateway moved.                 *)
LEMMA GatewayStep ==
  ASSUME PaymentInv, NEW c \in Callers, NEW k, IsCall(k), CallIsTrue(k)', k.stage \notin Creating,
         Step(c, k), MoneyInv', Grows, NEW n, n = <<n[1], n[2]>>, NoticeIsTrue(n)',
         pending' = pending \cup {n},
         UNCHANGED <<row, was, published, recorded, handler>>
  PROVE  PaymentInv'
<1>1. \A d \in Callers : CreationGoesOn(caller[d])
  <2>1. \A p \in Orders : (Exists(p) => Exists(p)') /\ row'[p].session = row[p].session
    BY DEF Exists
  <2> QED
    BY <2>1, RowsStay DEF PaymentInv
<1>2. CallsAreTrue' /\ OneCreator'
  BY <1>1, StepKeeps DEF PaymentInv
<1>3. NoticesAreTrue'
  <2>1. \A m : NoticeIsTrue(m) => NoticeIsTrue(m)'
    BY DEF NoticeIsTrue, Grows, Notices
  <2>2. \A h \in Handlers : HandlerIsTrue(handler[h])'
    BY <2>1 DEF PaymentInv, NoticesAreTrue, HandlerIsTrue, NoticeIsTrue, Grows, Notices
  <2> QED
    BY <2>1, <2>2 DEF PaymentInv, NoticesAreTrue
<1> QED
  BY <1>2, <1>3, RowsKept, EventsKept DEF PaymentInv

LEMMA AskGatewayKeeps == ASSUME PaymentInv, NEW c \in Callers, AskGateway(c) PROVE PaymentInv'
<1>1. PICK q : q = caller[c]
  OBVIOUS
<1>2. PICK g : g = Moved(q.order, q.op)
  OBVIOUS
<1>3. PICK o : o = q.order
  OBVIOUS
<1>4. /\ q.stage = "loaded" /\ IsCall(q) /\ CallIsTrue(q) /\ o \in Orders
      /\ UNCHANGED <<row, was, published, recorded, executed, handler>>
  BY <1>1, <1>3 DEF PaymentInv, CallsAreTrue, CallIsTrue, AskGateway, storeVars
<1>5. g = gw[o] \/ g \in {"cancel", "expire", "none"}
  BY <1>2, <1>3 DEF Moved
<1>6. CASE g = "none"
  <2>1. Step(c, Idle) /\ UNCHANGED <<gw, went, pending>>
    BY <1>1, <1>2, <1>3, <1>6 DEF AskGateway, Done
  <2> QED
    BY <1>4, <2>1, IdleFacts, QuietStep DEF Creating
<1>7. CASE g # "none"
  <2>1. PICK k : k = IF q.op = "session" THEN [q EXCEPT !.op = "sync"]
                                         ELSE [q EXCEPT !.stage = "answered", !.status = g]
    OBVIOUS
  <2>2. Step(c, k)
    BY <1>1, <1>2, <1>3, <1>7, <2>1 DEF AskGateway
  <2>3. /\ IsCall(k) /\ k.order = o /\ (q.op = "refund" <=> k.op = "refund")
        /\ k.refund = q.refund
        /\ \/ k.stage = "loaded"
           \/ k.stage = "answered" /\ k.status = g
    BY <1>3, <1>4, <2>1 DEF IsCall
  <2>4. ASSUME g \in went'[o] PROVE CallIsTrue(k)' /\ k.stage \notin Creating
    BY <1>3, <1>4, <2>3, <2>4 DEF CallIsTrue, Creating, Refunding
  <2>5. CASE g = gw[o]
    <3>1. UNCHANGED <<gw, went, pending>> /\ g \in went'[o]
      BY <1>1, <1>2, <1>3, <1>4, <1>7, <2>5
         DEF AskGateway, PaymentInv, MoneyInv, GatewayIsWhereItWent
    <3> QED
      BY <1>4, <2>2, <2>3, <2>4, <3>1, QuietStep
  <2>6. CASE g # gw[o]
    <3>1. /\ gw' = [gw EXCEPT ![o] = g] /\ went' = [went EXCEPT ![o] = @ \cup {g}]
          /\ pending' = pending \cup {<<o, g>>}
      BY <1>1, <1>2, <1>3, <1>7, <2>6 DEF AskGateway
    <3>2. MoneyInv' /\ Grows /\ g \in went'[o] /\ g \in GatewayStatuses \ {"none"}
      BY <1>4, <1>5, <1>7, <2>6, <3>1, GatewayGoes DEF PaymentInv, Captured, GatewayStatuses
    <3>3. PICK n : n = <<o, g>>
      OBVIOUS
    <3>4. NoticeIsTrue(n)' /\ n = <<n[1], n[2]>>
      BY <1>4, <3>2, <3>3 DEF NoticeIsTrue, Notices
    <3> QED
      BY <1>4, <2>2, <2>3, <2>4, <3>1, <3>2, <3>3, <3>4, GatewayStep
  <2> QED
    BY <2>5, <2>6
<1> QED
  BY <1>6, <1>7

(* What a request was not refused was taken from captured money.            *)
LEMMA RefundAtGatewayKeeps ==
  ASSUME PaymentInv, NEW c \in Callers, RefundAtGateway(c) PROVE PaymentInv'
<1>1. PICK q : q = caller[c]
  OBVIOUS
<1>2. PICK o : o = q.order
  OBVIOUS
<1>3. /\ q.stage = "reserved" /\ IsCall(q) /\ CallIsTrue(q) /\ o \in Orders
      /\ q.op = "refund" /\ q.refund \in Refunds
      /\ UNCHANGED <<row, was, published, recorded, handler>>
  BY <1>1, <1>2 DEF PaymentInv, CallsAreTrue, CallIsTrue, RefundAtGateway, storeVars, Refunding
<1>4. PICK f : f = [q EXCEPT !.stage = "refunded", !.event = "FAILED"]
  OBVIOUS
<1>5. /\ IsCall(f) /\ f.stage = "refunded" /\ f.event = "FAILED" /\ f.op = "refund"
      /\ f.order = o /\ f.refund = q.refund /\ f.status = q.status
  BY <1>2, <1>3, <1>4 DEF IsCall
<1>6. q.status \in {"refund", "partial_refund", "none"}
  BY <1>3 DEF CallIsTrue
<1>7. CallIsTrue(f)' /\ f.stage \notin Creating
  BY <1>3, <1>5, <1>6 DEF CallIsTrue, Creating, Refunding
<1>8. CASE Step(c, f) /\ UNCHANGED gatewayVars
  BY <1>3, <1>5, <1>7, <1>8, QuietStep DEF gatewayVars
<1>9. ASSUME ~(Step(c, f) /\ UNCHANGED gatewayVars) PROVE PaymentInv'
  <2>1. PICK g \in {"refund", "partial_refund"} :
          /\ gw[o] \in {"capture", "settlement", "partial_refund"}
          /\ gw' = [gw EXCEPT ![o] = g] /\ went' = [went EXCEPT ![o] = @ \cup {g}]
          /\ executed' = executed \cup {q.refund} /\ pending' = pending \cup {<<o, g>>}
          /\ \/ \E s \in {g, "none"} : \E t :
                  Step(c, [q EXCEPT !.stage = "refunded", !.status = s, !.total = t])
             \/ Step(c, f)
    BY <1>1, <1>2, <1>4, <1>9 DEF RefundAtGateway
  <2>2. row[o].session
    BY <1>3, <2>1 DEF PaymentInv, MoneyInv, GatewayIsWhereItWent, CapturedThroughSession, Captured
  <2>3. MoneyInv' /\ Grows /\ g \in went'[o]
    BY <1>3, <2>1, <2>2, GatewayGoes DEF PaymentInv
  <2>4. PICK n : n = <<o, g>>
    OBVIOUS
  <2>5. NoticeIsTrue(n)' /\ n = <<n[1], n[2]>>
    BY <1>3, <2>3, <2>4 DEF NoticeIsTrue, Notices, GatewayStatuses
  <2>6. CASE Step(c, f)
    BY <1>3, <1>5, <1>7, <2>1, <2>3, <2>4, <2>5, <2>6, GatewayStep
  <2>7. CASE \E s \in {g, "none"} : \E t :
               Step(c, [q EXCEPT !.stage = "refunded", !.status = s, !.total = t])
    <3>0. PICK s \in {g, "none"} :
            \E t : Step(c, [q EXCEPT !.stage = "refunded", !.status = s, !.total = t])
      BY <2>7
    <3>1. PICK t : Step(c, [q EXCEPT !.stage = "refunded", !.status = s, !.total = t])
      BY <3>0
    <3>2. PICK k : k = [q EXCEPT !.stage = "refunded", !.status = s, !.total = t]
      OBVIOUS
    <3>3. /\ IsCall(k) /\ k.stage = "refunded" /\ k.status = s /\ k.op = "refund" /\ k.order = o
          /\ k.refund = q.refund
      BY <1>2, <1>3, <3>2 DEF IsCall
    <3>4. CallIsTrue(k)' /\ k.stage \notin Creating
      BY <1>3, <2>1, <2>3, <3>3 DEF CallIsTrue, Creating, Refunding, RefundDone, Captured
    <3> QED
      BY <1>3, <2>1, <2>3, <2>4, <2>5, <3>1, <3>2, <3>3, <3>4, GatewayStep
  <2> QED
    BY <2>1, <2>6, <2>7
<1> QED
  BY <1>8, <1>9

-----------------------------------------------------------------------------
(* Requests that change the tables or publish *)

LEMMA TableStep ==
  ASSUME PaymentInv, NEW c \in Callers, NEW k, IsCall(k), CallIsTrue(k)', k.stage \notin Creating,
         Step(c, k), RowsAreTrue', MoneyInv', Grows, EventsInv',
         \A p \in Orders : (Exists(p) => Exists(p)') /\ row'[p].session = row[p].session,
         UNCHANGED <<pending, recorded, handler>>
  PROVE  PaymentInv'
<1>1. \A d \in Callers : CreationGoesOn(caller[d])
  BY RowsStay DEF PaymentInv
<1>2. CallsAreTrue' /\ OneCreator'
  BY <1>1, StepKeeps DEF PaymentInv
<1> QED
  BY <1>2, NoticesKept DEF PaymentInv

LEMMA ApplyAnswerKeeps == ASSUME PaymentInv, NEW c \in Callers, ApplyAnswer(c) PROVE PaymentInv'
<1>1. PICK q : q = caller[c]
  OBVIOUS
<1>2. PICK o : o = q.order
  OBVIOUS
<1>3. PICK s : s = NormalizeStatus(q.status)
  OBVIOUS
<1>4. /\ q.stage = "answered" /\ IsCall(q) /\ CallIsTrue(q) /\ o \in Orders
      /\ q.status \in went[o]
      /\ UNCHANGED <<published, recorded, gw, went, executed, pending, handler>>
  BY <1>1, <1>2 DEF PaymentInv, CallsAreTrue, CallIsTrue, ApplyAnswer, gatewayVars
<1>5. CASE s = Unmapped \/ Stale(o, s)
  BY <1>1, <1>2, <1>3, <1>4, <1>5, IdleFacts, QuietStep DEF ApplyAnswer, Done, Creating
<1>6. CASE ~(s = Unmapped \/ Stale(o, s))
  <2>1. PICK k : k = [q EXCEPT !.stage = "announcing", !.event = s, !.total = row[o].refunded]
    OBVIOUS
  <2>2. SetStatus(o, s) /\ Step(c, k)
    BY <1>1, <1>2, <1>3, <1>6, <2>1 DEF ApplyAnswer
  <2>3. /\ IsCall(k) /\ k.stage = "announcing" /\ k.event = s /\ k.order = o /\ k.op = q.op
        /\ k.refund = q.refund
    BY <1>2, <1>4, <2>1 DEF IsCall
  <2>4. s \in Settled => went[o] \cap Captured # {}
    BY <1>3, <1>4, SettledIsCaptured
  <2>5. /\ RowsAreTrue' /\ MoneyInv'
        /\ s \in was'[o] /\ \A p \in Orders : was[p] \subseteq was'[p]
        /\ \A p \in Orders : (Exists(p) => Exists(p)') /\ row'[p].session = row[p].session
    BY <1>4, <1>6, <2>2, <2>4, SetStatusMoves DEF PaymentInv
  <2>6. Grows
    BY <1>4, <2>5 DEF Grows
  <2>7. EventsInv'
    BY <1>4, <2>6, EventsKept DEF PaymentInv
  <2>8. s # "CREATED" /\ q.op # "refund"
    BY <1>3, <1>4, <1>6, NormalizedIsAStatus DEF Statuses, CallIsTrue, Refunding
  <2>9. CallIsTrue(k)'
    BY <1>4, <2>3, <2>5, <2>8 DEF CallIsTrue, Creating, Refunding
  <2> QED
    BY <1>4, <2>2, <2>3, <2>5, <2>6, <2>7, <2>9, TableStep DEF Creating
<1> QED
  BY <1>5, <1>6

LEMMA AnnounceKeeps == ASSUME PaymentInv, NEW c \in Callers, Announce(c) PROVE PaymentInv'
<1>1. PICK q : q = caller[c]
  OBVIOUS
<1>2. PICK o : o = q.order
  OBVIOUS
<1>3. /\ q.stage = "announcing" /\ IsCall(q) /\ CallIsTrue(q) /\ o \in Orders
      /\ UNCHANGED <<row, was, recorded, gw, went, executed, pending, handler>>
  BY <1>1, <1>2 DEF PaymentInv, CallsAreTrue, CallIsTrue, Announce, gatewayVars
<1>4. IF q.event = "CREATED" THEN gw[o] # "none" ELSE q.event \in was[o]
  BY <1>2, <1>3 DEF CallIsTrue
<1>5. Grows /\ RowsAreTrue' /\ MoneyInv'
  BY <1>3, NothingMoved, RowsKept, MoneyKept DEF PaymentInv
<1>6. EventsInv'
  <2>1. \/ UNCHANGED published
        \/ Publish(o, <<o, q.event, Discriminator(q.event, q.total)>>)
    BY <1>1, <1>2 DEF Announce
  <2>2. CASE UNCHANGED published
    BY <1>5, <2>2, EventsKept DEF PaymentInv
  <2>3. CASE Publish(o, <<o, q.event, Discriminator(q.event, q.total)>>)
    BY <1>3, <1>4, <1>5, <2>3, PublishKeeps DEF PaymentInv
  <2> QED
    BY <2>1, <2>2, <2>3
<1>7. PICK k : k = IF q.op = "refund" THEN [q EXCEPT !.stage = "closing", !.event = "none"] ELSE Idle
  OBVIOUS
<1>8. Step(c, k)
  BY <1>1, <1>7 DEF Announce, Done
<1>9. IsCall(k) /\ CallIsTrue(k)' /\ k.stage \notin Creating
  <2>1. CASE q.op = "refund"
    <3>1. /\ IsCall(k) /\ k.stage = "closing" /\ k.event = "none" /\ k.order = o
          /\ k.op = "refund" /\ k.refund = q.refund
      BY <1>2, <1>3, <1>7, <2>1 DEF IsCall
    <3>2. RefundDone(q) /\ q.refund \in Refunds
      BY <1>3, <2>1 DEF CallIsTrue
    <3> QED
      BY <1>2, <1>3, <3>1, <3>2 DEF CallIsTrue, Creating, Refunding, RefundDone
  <2>2. CASE q.op # "refund"
    BY <1>7, <2>2, IdleFacts DEF Creating
  <2> QED
    BY <2>1, <2>2
<1>10. \A p \in Orders : (Exists(p) => Exists(p)') /\ row'[p].session = row[p].session
  BY <1>3 DEF Exists
<1> QED
  BY <1>3, <1>5, <1>6, <1>8, <1>9, <1>10, TableStep

(* A refund that was carried out leaves its payment settled.                *)
LEMMA ApplyRefundKeeps ==
  ASSUME PaymentInv, NEW c \in Callers, ApplyRefundToPayment(c) PROVE PaymentInv'
<1>1. PICK q : q = caller[c]
  OBVIOUS
<1>2. PICK o : o = q.order
  OBVIOUS
<1>3. PICK s : s = StatusAfterRefund(c)
  OBVIOUS
<1>4. PICK t : t = RefundedTotal(c)
  OBVIOUS
<1>5. /\ q.stage = "accounted" /\ IsCall(q) /\ CallIsTrue(q) /\ o \in Orders
      /\ UNCHANGED <<published, recorded, gw, went, executed, pending, handler>>
  BY <1>1, <1>2 DEF PaymentInv, CallsAreTrue, CallIsTrue, ApplyRefundToPayment, gatewayVars
<1>6. /\ RefundDone(q) /\ q.op = "refund" /\ q.refund \in Refunds
      /\ went[o] \cap Captured # {}
  BY <1>2, <1>5 DEF CallIsTrue, Refunding, RefundDone
<1>7. CASE Stale(o, s)
  <2>1. PICK k : k = [q EXCEPT !.stage = "closing"]
    OBVIOUS
  <2>2. Step(c, k) /\ UNCHANGED <<row, was>>
    BY <1>1, <1>2, <1>3, <1>7, <2>1 DEF ApplyRefundToPayment
  <2>3. /\ IsCall(k) /\ k.stage = "closing" /\ k.event = q.event /\ k.order = o
        /\ k.op = "refund" /\ k.refund = q.refund
    BY <1>2, <1>5, <1>6, <2>1 DEF IsCall
  <2>4. CallIsTrue(k)'
    BY <1>2, <1>5, <1>6, <2>3 DEF CallIsTrue, Creating, Refunding, RefundDone
  <2> QED
    BY <1>5, <2>2, <2>3, <2>4, QuietStep DEF Creating
<1>8. CASE ~Stale(o, s)
  <2>1. PICK k : k = [q EXCEPT !.stage = "announcing", !.event = s, !.total = t]
    OBVIOUS
  <2>2. SetRefunded(o, s, t) /\ Step(c, k)
    BY <1>1, <1>2, <1>3, <1>4, <1>8, <2>1 DEF ApplyRefundToPayment
  <2>3. /\ IsCall(k) /\ k.stage = "announcing" /\ k.event = s /\ k.order = o
        /\ k.op = "refund" /\ k.refund = q.refund
    BY <1>2, <1>5, <1>6, <2>1 DEF IsCall
  <2>4. /\ RowsAreTrue' /\ MoneyInv'
        /\ s \in was'[o] /\ \A p \in Orders : was[p] \subseteq was'[p]
        /\ \A p \in Orders : (Exists(p) => Exists(p)') /\ row'[p].session = row[p].session
    BY <1>5, <1>6, <1>8, <2>2, SetRefundedMoves DEF PaymentInv
  <2>5. Grows
    BY <1>5, <2>4 DEF Grows
  <2>6. EventsInv'
    BY <1>5, <2>5, EventsKept DEF PaymentInv
  <2>7. s # "CREATED"
    BY <1>8, StatusFacts DEF Stale, Statuses
  <2>8. CallIsTrue(k)'
    BY <1>2, <1>5, <1>6, <2>3, <2>4, <2>7 DEF CallIsTrue, Creating, Refunding, RefundDone
  <2> QED
    BY <1>5, <2>2, <2>3, <2>4, <2>5, <2>6, <2>8, TableStep DEF Creating
<1> QED
  BY <1>7, <1>8

LEMMA CloseRefundKeeps == ASSUME PaymentInv, NEW c \in Callers, CloseRefund(c) PROVE PaymentInv'
<1>1. PICK q : q = caller[c]
  OBVIOUS
<1>2. PICK t : t = IF q.event = "FAILED" THEN "FAILED" ELSE "COMPLETED"
  OBVIOUS
<1>3. /\ q.stage = "closing" /\ CallIsTrue(q)
      /\ Publish(q.order, <<q.refund, t>>) /\ Step(c, Idle)
      /\ UNCHANGED <<row, was, recorded, gw, went, executed, pending, handler>>
  BY <1>1, <1>2 DEF PaymentInv, CallsAreTrue, CloseRefund, gatewayVars, Done
<1>4. q.refund \in Refunds /\ (t = "COMPLETED" => q.refund \in executed)
  BY <1>2, <1>3 DEF CallIsTrue, Refunding, RefundDone
<1>5. Grows /\ RowsAreTrue' /\ MoneyInv'
  BY <1>3, NothingMoved, RowsKept, MoneyKept DEF PaymentInv
<1>6. EventsInv'
  BY <1>2, <1>3, <1>4, <1>5, PublishRefundKeeps DEF PaymentInv
<1>7. \A p \in Orders : (Exists(p) => Exists(p)') /\ row'[p].session = row[p].session
  BY <1>3 DEF Exists
<1> QED
  BY <1>3, <1>5, <1>6, <1>7, IdleFacts, TableStep DEF Creating

-----------------------------------------------------------------------------
(* Notifications *)

(* A handler's step: what it holds next is true, and it records, or answers *)
(* for, a notification the gateway did send.                                *)
LEMMA HandlerMoves ==
  ASSUME PaymentInv, NEW h \in Handlers, NEW k, IsHandler(k), HandlerIsTrue(k)', Proceed(h, k),
         NEW n \in Notices, NEW x, NoticeIsTrue(n),
         recorded' = recorded \/ recorded' = [recorded EXCEPT ![n] = x],
         pending' \subseteq pending,
         RowsAreTrue', MoneyInv', Grows, EventsInv',
         \A p \in Orders : (Exists(p) => Exists(p)') /\ row'[p].session = row[p].session,
         UNCHANGED caller
  PROVE  PaymentInv'
<1>1. CallsAreTrue' /\ OneCreator'
  BY RowsStay, CallsKept DEF PaymentInv
<1>2. \A m : NoticeIsTrue(m) => NoticeIsTrue(m)'
  BY DEF NoticeIsTrue, Grows, Notices
<1>3. \A q : HandlerIsTrue(q) => HandlerIsTrue(q)'
  BY <1>2 DEF HandlerIsTrue, NoticeIsTrue, Grows, Notices
<1>4. /\ handler' = [g \in Handlers |-> handler'[g]] /\ handler'[h] = k
      /\ \A g \in Handlers \ {h} : handler'[g] = handler[g]
  BY DEF PaymentInv, NoticesAreTrue, Proceed
<1>5. \A g \in Handlers : IsHandler(handler'[g])
  BY <1>4 DEF PaymentInv, NoticesAreTrue
<1>6. \A g \in Handlers : HandlerIsTrue(handler[g])'
  <2> SUFFICES ASSUME NEW g \in Handlers PROVE HandlerIsTrue(handler[g])'
    OBVIOUS
  <2>1. PICK q : q = handler'[g]
    OBVIOUS
  <2>2. HandlerIsTrue(q)'
    BY <1>3, <1>4, <2>1 DEF PaymentInv, NoticesAreTrue
  <2> QED
    BY <2>1, <2>2 DEF HandlerIsTrue, NoticeIsTrue
<1>7. /\ recorded' = [m \in Notices |-> recorded'[m]]
      /\ \A m \in Notices : recorded'[m] # "none" => NoticeIsTrue(m)'
  BY <1>2 DEF PaymentInv, NoticesAreTrue
<1>8. NoticesAreTrue'
  BY <1>2, <1>5, <1>6, <1>4, <1>7 DEF PaymentInv, NoticesAreTrue
<1> QED
  BY <1>1, <1>8 DEF PaymentInv

(* Nothing but the handler's own state and the record of the notification   *)
(* changes.                                                                 *)
LEMMA QuietHandler ==
  ASSUME PaymentInv, NEW h \in Handlers, NEW k, IsHandler(k), HandlerIsTrue(k)', Proceed(h, k),
         NEW n \in Notices, NEW x, NoticeIsTrue(n),
         recorded' = recorded \/ recorded' = [recorded EXCEPT ![n] = x],
         pending' \subseteq pending,
         UNCHANGED <<row, was, published, gw, went, executed, caller>>
  PROVE  PaymentInv'
<1>1. Grows
  BY NothingMoved
<1>2. RowsAreTrue' /\ MoneyInv' /\ EventsInv'
  BY <1>1, RowsKept, MoneyKept, EventsKept DEF PaymentInv
<1>3. \A p \in Orders : (Exists(p) => Exists(p)') /\ row'[p].session = row[p].session
  BY DEF Exists
<1> QED
  BY <1>1, <1>2, <1>3, HandlerMoves

LEMMA RestingFacts == IsHandler(Resting) /\ Resting.stage = "idle" /\ HandlerIsTrue(Resting)'
BY DEF IsHandler, Resting, HandlerIsTrue

(* The state of a handler at work. *)
LEMMA HandlerFacts ==
  ASSUME PaymentInv, NEW h \in Handlers, handler[h].stage # "idle"
  PROVE  /\ IsHandler(handler[h]) /\ HandlerIsTrue(handler[h])
         /\ handler[h].notice \in Notices /\ NoticeIsTrue(handler[h].notice)
BY DEF PaymentInv, NoticesAreTrue, HandlerIsTrue, NoticeIsTrue

LEMMA ReceiveKeeps ==
  ASSUME PaymentInv, NEW h \in Handlers, NEW n \in Notices, Receive(h, n) PROVE PaymentInv'
<1>1. PICK k : k = [Resting EXCEPT !.stage = "taken", !.notice = n, !.verified = keyGood,
                                   !.owned = Exists(n[1])]
  OBVIOUS
<1>2. IsHandler(k) /\ k.stage = "taken" /\ k.notice = n
  BY <1>1 DEF IsHandler, Resting
<1>3. /\ NoticeIsTrue(n) /\ Proceed(h, k)
      /\ UNCHANGED <<row, was, published, recorded, gw, went, executed, pending, caller>>
  BY <1>1 DEF Receive, PaymentInv, NoticesAreTrue, storeVars, gatewayVars
<1>4. HandlerIsTrue(k)'
  BY <1>2, <1>3 DEF HandlerIsTrue, NoticeIsTrue
<1> QED
  BY <1>2, <1>3, <1>4, QuietHandler

LEMMA RecordNoticeKeeps ==
  ASSUME PaymentInv, NEW h \in Handlers, RecordNotice(h) PROVE PaymentInv'
<1>1. PICK q : q = handler[h]
  OBVIOUS
<1>2. PICK x : x = RoutingOf(h)
  OBVIOUS
<1>3. /\ q.stage = "taken"
      /\ UNCHANGED <<row, was, published, gw, went, executed, caller>>
      /\ recorded' = recorded \/ recorded' = [recorded EXCEPT ![q.notice] = x]
      /\ pending' \subseteq pending
      /\ Rest(h) \/ Proceed(h, [q EXCEPT !.stage = "recorded"])
  BY <1>1, <1>2 DEF RecordNotice, Acknowledge
<1>4. IsHandler(q) /\ q.notice \in Notices /\ NoticeIsTrue(q.notice)
  BY <1>1, <1>3, HandlerFacts
<1>5. CASE Rest(h)
  BY <1>3, <1>4, <1>5, RestingFacts, QuietHandler DEF Rest
<1>6. CASE Proceed(h, [q EXCEPT !.stage = "recorded"])
  <2>1. PICK k : k = [q EXCEPT !.stage = "recorded"]
    OBVIOUS
  <2>2. IsHandler(k) /\ k.stage = "recorded" /\ k.notice = q.notice
    BY <1>4, <2>1 DEF IsHandler
  <2>3. HandlerIsTrue(k)'
    BY <1>3, <1>4, <2>2 DEF HandlerIsTrue, NoticeIsTrue
  <2> QED
    BY <1>3, <1>4, <1>6, <2>1, <2>2, <2>3, QuietHandler
<1> QED
  BY <1>3, <1>5, <1>6

LEMMA MarkProcessedKeeps ==
  ASSUME PaymentInv, NEW h \in Handlers, MarkProcessed(h) PROVE PaymentInv'
<1>1. PICK q : q = handler[h]
  OBVIOUS
<1>2. /\ q.stage = "marking" /\ Proceed(h, Resting)
      /\ recorded' = [recorded EXCEPT ![q.notice] = q.routing]
      /\ pending' \subseteq pending
      /\ UNCHANGED <<row, was, published, gw, went, executed, caller>>
  BY <1>1 DEF MarkProcessed, Acknowledge, Rest
<1>3. q.notice \in Notices /\ NoticeIsTrue(q.notice)
  BY <1>1, <1>2, HandlerFacts
<1> QED
  BY <1>2, <1>3, RestingFacts, QuietHandler

LEMMA HandlerCrashKeeps ==
  ASSUME PaymentInv, NEW h \in Handlers, HandlerCrash(h) PROVE PaymentInv'
<1>1. handler[h].notice \in Notices /\ NoticeIsTrue(handler[h].notice)
  BY HandlerFacts DEF HandlerCrash
<1> QED
  BY <1>1, RestingFacts, QuietHandler DEF HandlerCrash, Rest, storeVars, gatewayVars

LEMMA ApplyNoticeKeeps ==
  ASSUME PaymentInv, NEW h \in Handlers, ApplyNotice(h) PROVE PaymentInv'
<1>1. PICK q : q = handler[h]
  OBVIOUS
<1>2. PICK n : n = q.notice
  OBVIOUS
<1>3. PICK o : o = n[1]
  OBVIOUS
<1>4. PICK s : s = NormalizeStatus(n[2])
  OBVIOUS
<1>5. /\ q.stage = "recorded" /\ IsHandler(q) /\ n \in Notices /\ NoticeIsTrue(n)
      /\ o \in Orders /\ n[2] \in went[o]
      /\ UNCHANGED <<published, recorded, gw, went, executed, pending, caller>>
  BY <1>1, <1>2, <1>3, HandlerFacts DEF ApplyNotice, Notices, NoticeIsTrue, gatewayVars
<1>6. CASE s = Unmapped \/ Stale(o, s)
  <2>1. PICK k : k = [q EXCEPT !.stage = "marking", !.routing = "ignored"]
    OBVIOUS
  <2>2. Proceed(h, k) /\ UNCHANGED <<row, was>>
    BY <1>1, <1>2, <1>3, <1>4, <1>6, <2>1 DEF ApplyNotice
  <2>3. IsHandler(k) /\ k.stage = "marking" /\ k.notice = n
    BY <1>2, <1>5, <2>1 DEF IsHandler
  <2>4. HandlerIsTrue(k)'
    BY <1>5, <2>3 DEF HandlerIsTrue, NoticeIsTrue
  <2> QED
    BY <1>5, <2>2, <2>3, <2>4, QuietHandler
<1>7. CASE ~(s = Unmapped \/ Stale(o, s))
  <2>1. PICK k : k = [q EXCEPT !.stage = "publishing", !.event = s]
    OBVIOUS
  <2>2. SetStatus(o, s) /\ Proceed(h, k)
    BY <1>1, <1>2, <1>3, <1>4, <1>7, <2>1 DEF ApplyNotice
  <2>3. IsHandler(k) /\ k.stage = "publishing" /\ k.notice = n /\ k.event = s
    BY <1>2, <1>5, <2>1 DEF IsHandler
  <2>4. s \in Settled => went[o] \cap Captured # {}
    BY <1>4, <1>5, SettledIsCaptured
  <2>5. /\ RowsAreTrue' /\ MoneyInv'
        /\ s \in was'[o] /\ \A p \in Orders : was[p] \subseteq was'[p]
        /\ \A p \in Orders : (Exists(p) => Exists(p)') /\ row'[p].session = row[p].session
    BY <1>5, <1>7, <2>2, <2>4, SetStatusMoves DEF PaymentInv
  <2>6. Grows
    BY <1>5, <2>5 DEF Grows
  <2>7. EventsInv'
    BY <1>5, <2>6, EventsKept DEF PaymentInv
  <2>8. HandlerIsTrue(k)'
    BY <1>3, <1>5, <2>3, <2>5 DEF HandlerIsTrue, NoticeIsTrue
  <2> QED
    BY <1>5, <2>2, <2>3, <2>5, <2>6, <2>7, <2>8, HandlerMoves
<1> QED
  BY <1>6, <1>7

LEMMA PublishNoticeKeeps ==
  ASSUME PaymentInv, NEW h \in Handlers, PublishNotice(h) PROVE PaymentInv'
<1>1. PICK q : q = handler[h]
  OBVIOUS
<1>2. PICK o : o = q.notice[1]
  OBVIOUS
<1>3. /\ q.stage = "publishing" /\ IsHandler(q) /\ HandlerIsTrue(q)
      /\ q.notice \in Notices /\ NoticeIsTrue(q.notice) /\ o \in Orders /\ q.event \in was[o]
      /\ Publish(o, <<o, q.event, NoDiscriminator>>)
      /\ UNCHANGED <<row, was, recorded, gw, went, executed, pending, caller>>
  BY <1>1, <1>2, HandlerFacts DEF PublishNotice, Notices, HandlerIsTrue, gatewayVars
<1>4. q.event # "CREATED"
  BY <1>3 DEF PaymentInv, RowsAreTrue, Statuses
<1>5. Grows /\ RowsAreTrue' /\ MoneyInv'
  BY <1>3, NothingMoved, RowsKept, MoneyKept DEF PaymentInv
<1>6. EventsInv'
  BY <1>3, <1>4, <1>5, PublishKeeps DEF PaymentInv
<1>7. \A p \in Orders : (Exists(p) => Exists(p)') /\ row'[p].session = row[p].session
  BY <1>3 DEF Exists
<1>8. PICK k : k = IF CanPublish(o, <<o, q.event, NoDiscriminator>>)
                   THEN [q EXCEPT !.stage = "marking", !.routing = "routed"] ELSE Resting
  OBVIOUS
<1>9. Proceed(h, k)
  BY <1>1, <1>2, <1>8 DEF PublishNotice, Rest
<1>10. IsHandler(k) /\ (k = Resting \/ (k.stage = "marking" /\ k.notice = q.notice))
  BY <1>3, <1>8, RestingFacts DEF IsHandler
<1>11. HandlerIsTrue(k)'
  BY <1>3, <1>10, RestingFacts DEF HandlerIsTrue, NoticeIsTrue
<1> QED
  BY <1>3, <1>5, <1>6, <1>7, <1>9, <1>10, <1>11, HandlerMoves

-----------------------------------------------------------------------------
(* The gateway and the world *)

(* What the gateway does of its own accord. *)
LEMMA WorldKeeps ==
  ASSUME PaymentInv, MoneyInv', Grows, NEW n, NoticeIsTrue(n)', pending' = pending \cup {n},
         UNCHANGED <<row, was, published, recorded, caller, handler>>
  PROVE  PaymentInv'
<1>1. \A p \in Orders : (Exists(p) => Exists(p)') /\ row'[p].session = row[p].session
  BY DEF Exists
<1>2. CallsAreTrue' /\ OneCreator'
  BY <1>1, RowsStay, CallsKept DEF PaymentInv
<1>3. \A m : NoticeIsTrue(m) => NoticeIsTrue(m)'
  BY DEF NoticeIsTrue, Grows, Notices
<1>4. \A h \in Handlers : HandlerIsTrue(handler[h])'
  BY <1>3 DEF PaymentInv, NoticesAreTrue, HandlerIsTrue, NoticeIsTrue, Grows, Notices
<1>5. NoticesAreTrue'
  BY <1>3, <1>4 DEF PaymentInv, NoticesAreTrue
<1> QED
  BY <1>2, <1>5, RowsKept, EventsKept DEF PaymentInv

LEMMA RedeliverKeeps == ASSUME PaymentInv, NEW n \in Notices, Redeliver(n) PROVE PaymentInv'
<1>1. /\ UNCHANGED <<row, was, published, recorded, gw, went, executed, caller, handler>>
      /\ NoticeIsTrue(n) /\ pending' = pending \cup {n}
  BY DEF Redeliver, PaymentInv, NoticesAreTrue, storeVars
<1>2. Grows /\ MoneyInv' /\ NoticeIsTrue(n)'
  BY <1>1, NothingMoved, MoneyKept DEF PaymentInv, NoticeIsTrue
<1> QED
  BY <1>1, <1>2, WorldKeeps

LEMMA GatewayMoveKeeps == ASSUME PaymentInv, NEW o \in Orders, GatewayMove(o) PROVE PaymentInv'
<1>1. PICK m \in GatewayMoves :
        /\ gw' = [gw EXCEPT ![o] = m[2]] /\ went' = [went EXCEPT ![o] = @ \cup {m[2]}]
        /\ pending' = pending \cup {<<o, m[2]>>}
  BY DEF GatewayMove
<1>2. PICK g : g = m[2]
  OBVIOUS
<1>3. /\ g \in GatewayStatuses \ {"none"} /\ row[o].session
      /\ UNCHANGED <<row, was, published, recorded, executed, caller, handler>>
  BY <1>1, <1>2, PaymentAssumption DEF GatewayMove, storeVars
<1>4. MoneyInv' /\ Grows /\ g \in went'[o]
  BY <1>1, <1>2, <1>3, GatewayGoes DEF PaymentInv
<1>5. NoticeIsTrue(<<o, g>>)'
  BY <1>3, <1>4 DEF NoticeIsTrue, Notices
<1> QED
  BY <1>1, <1>2, <1>3, <1>4, <1>5, WorldKeeps

(* Nothing the invariant speaks of changes. *)
LEMMA StillHolds ==
  ASSUME PaymentInv,
         UNCHANGED <<row, was, published, recorded, gw, went, executed, pending, caller, handler>>
  PROVE  PaymentInv'
<1>1. Grows
  BY NothingMoved
<1>2. \A p \in Orders : (Exists(p) => Exists(p)') /\ row'[p].session = row[p].session
  BY DEF Exists
<1>3. CallsAreTrue' /\ OneCreator'
  BY <1>1, <1>2, RowsStay, CallsKept DEF PaymentInv
<1> QED
  BY <1>1, <1>3, RowsKept, MoneyKept, NoticesKept, EventsKept DEF PaymentInv

LEMMA PaymentStep == PaymentInv /\ [Next]_vars => PaymentInv'
<1> SUFFICES ASSUME PaymentInv, [Next]_vars PROVE PaymentInv'
  OBVIOUS
<1>1. ASSUME NEW c \in Callers, CallerStep(c) PROVE PaymentInv'
  BY <1>1, OpenAtGatewayKeeps, DeleteRowKeeps, SaveSessionKeeps, AskGatewayKeeps,
     ApplyAnswerKeeps, AnnounceKeeps, RefundAtGatewayKeeps, RecordRefundKeeps,
     ApplyRefundKeeps, CloseRefundKeeps DEF CallerStep
<1>2. ASSUME NEW h \in Handlers, HandlerStep(h) PROVE PaymentInv'
  BY <1>2, RecordNoticeKeeps, ApplyNoticeKeeps, PublishNoticeKeeps, MarkProcessedKeeps
     DEF HandlerStep
<1>3. ASSUME ChangeServerKey \/ UNCHANGED vars PROVE PaymentInv'
  BY <1>3, StillHolds DEF ChangeServerKey, vars, storeVars, gatewayVars
<1> QED
  BY <1>1, <1>2, <1>3, InsertKeeps, LoadKeeps, ReserveRefundKeeps, CrashKeeps, ReceiveKeeps,
     HandlerCrashKeeps, RedeliverKeeps, GatewayMoveKeeps DEF Next

LEMMA PaymentInvHolds == Spec => []PaymentInv
BY InitPayment, PaymentStep, PTL DEF Spec

(* Whatever order answers, notifications and refunds are applied in and     *)
(* wherever they are cut off, an event tells of a status its payment was    *)
(* in, and a refund announced as completed was carried out.                 *)
THEOREM AnnouncedIsTrue == Spec => []EventsAreTrue
BY PaymentInvHolds, PTL DEF PaymentInv, EventsInv

(* No payment is paid or refunded unless the gateway took its money.        *)
THEOREM SettledMeansCaptured == Spec => []SettledWasCaptured
BY PaymentInvHolds, PTL DEF PaymentInv, MoneyInv
=============================================================================
