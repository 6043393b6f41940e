---------------------------- MODULE Subscription ----------------------------
(* Subscriptions (subscription/service.go, subscription/repository.go,      *)
(* api/subscriptions.go and the Midtrans calls of midtrans/subscription.go).*)
(* The gateway owns a subscription and moves it on its own; PayMux keeps a  *)
(* copy.  An operation reads the copy, asks the gateway, writes the copy by *)
(* id and announces the change, each a step of its own, with no lock and no *)
(* guard on the write.  What the gateway reports besides the status (name,  *)
(* amount, interval) is one value, the terms.                               *)
EXTENDS Naturals

CONSTANTS
  Subs,          \* gateway subscription ids; the row of one has the same name here
  SubCallers,    \* requests under way at a time
  Terms,         \* name, amount and interval
  FirstTerms,    \* the terms a subscription is created with
  NoSub,
  MaxTroubles    \* bound: moves of the gateway on its own, failed calls, crashes

ASSUME NoSubAssumption == NoSub \notin Subs
ASSUME FirstTermsAssumption == FirstTerms \in Terms
ASSUME TroublesAssumption == MaxTroubles \in Nat

VARIABLES
  gw,         \* the gateway's subscriptions
  subRow,     \* the table subscriptions
  op,         \* the operation each caller is in
  subEvents,  \* dedupe keys of the events recorded
  disturbed,  \* rows the gateway or another request may have left behind
  troubles

subVars == <<gw, subRow, op, subEvents, disturbed, troubles>>

RawStatuses == {"active", "inactive", "cancelled", "other"}
SubStatuses == {"ACTIVE", "INACTIVE", "CANCELED"}
Absent == [raw |-> "none", terms |-> FirstTerms]
NoSubRow == [status |-> "none", terms |-> FirstTerms]

(* normalizeSubscriptionStatus: what it does not know is CANCELED.          *)
NormalizeSubscriptionStatus(raw) ==
  CASE raw = "active" -> "ACTIVE" [] raw = "inactive" -> "INACTIVE" [] OTHER -> "CANCELED"

(* The lifecycle operations: what the gateway makes of a subscription, the  *)
(* status stored without asking it again, and the event.                    *)
LifecycleKinds == {"enable", "disable", "cancel"}
Kinds == LifecycleKinds \cup {"sync", "update", "create"}
RawAfter(kind) ==
  CASE kind = "enable" -> "active" [] kind = "disable" -> "inactive" [] kind = "cancel" -> "cancelled"
StatusAfter(kind) ==
  CASE kind = "enable" -> "ACTIVE" [] kind = "disable" -> "INACTIVE" [] kind = "cancel" -> "CANCELED"

(* An operation: its subscription, the terms an update asks for, what the   *)
(* gateway answered and whether nothing else touched the subscription       *)
(* since it began.                                                          *)
OpStages == {"idle", "ask", "read", "store", "publish"}
Gateway == [raw : RawStatuses \cup {"none"}, terms : Terms]
SubRows == [status : SubStatuses \cup {"none"}, terms : Terms]
Ops == [stage : OpStages, kind : Kinds, sub : Subs \cup {NoSub}, terms : Terms,
        view : Gateway, alone : BOOLEAN]
NoOp == [stage |-> "idle", kind |-> "sync", sub |-> NoSub, terms |-> FirstTerms,
         view |-> Absent, alone |-> TRUE]

SubTypeOK ==
  /\ gw \in [Subs -> Gateway]
  /\ subRow \in [Subs -> SubRows]
  /\ op \in [SubCallers -> Ops]
  /\ subEvents \subseteq Subs \X Kinds
  /\ disturbed \in SUBSET Subs
  /\ troubles \in 0..MaxTroubles

SubInit ==
  /\ gw = [s \in Subs |-> Absent]
  /\ subRow = [s \in Subs |-> NoSubRow]
  /\ op = [c \in SubCallers |-> NoOp]
  /\ subEvents = {}
  /\ disturbed = {}
  /\ troubles = 0

Exists(s) == subRow[s] # NoSubRow
Busy(s) == \E c \in SubCallers : op[c].sub = s
At(c, stage) == op[c].stage = stage
OpTo(c, stage) == op' = [op EXCEPT ![c].stage = stage]
Done(c) == op' = [op EXCEPT ![c] = NoOp]

Trouble == troubles < MaxTroubles /\ troubles' = troubles + 1

(* Every operation on s learns that it is not alone with it.                *)
NotAlone(ops, s) == [c \in SubCallers |-> [ops[c] EXCEPT !.alone = @ /\ ops[c].sub # s]]

-----------------------------------------------------------------------------
(* The gateway *)

(* A cancelled subscription stays cancelled and takes no more orders.       *)
GatewayAccepts(s) == gw[s].raw \notin {"none", "cancelled"}

(* It ends, fails to charge, or is in a state PayMux does not know.         *)
GatewayMoves(s) ==
  /\ gw[s].raw \in {"active", "other"}
  /\ Trouble
  /\ \E raw \in RawStatuses \ {gw[s].raw} : gw' = [gw EXCEPT ![s].raw = raw]
  /\ disturbed' = disturbed \cup {s}
  /\ op' = NotAlone(op, s)
  /\ UNCHANGED <<subRow, subEvents>>

-----------------------------------------------------------------------------
(* Create: the gateway first, the row after it *)

CreateAtGateway(c) ==
  /\ At(c, "idle")
  /\ \E s \in Subs :
       /\ gw[s] = Absent
       /\ gw' = [gw EXCEPT ![s].raw = "active"]
       /\ op' = [op EXCEPT ![c] = [NoOp EXCEPT !.stage = "store", !.kind = "create", !.sub = s,
                                              !.view = [raw |-> "active", terms |-> FirstTerms]]]
  /\ UNCHANGED <<subRow, subEvents, disturbed, troubles>>

InsertRow(c) ==
  LET o == op[c] IN
  /\ At(c, "store") /\ o.kind = "create"
  /\ subRow' = [subRow EXCEPT ![o.sub] = [status |-> NormalizeSubscriptionStatus(o.view.raw),
                                          terms  |-> o.view.terms]]
  /\ OpTo(c, "publish")
  /\ UNCHANGED <<gw, subEvents, disturbed, troubles>>

-----------------------------------------------------------------------------
(* The operations on a row *)

(* load, for a caller that wants its answer from the gateway or an order    *)
(* carried out there.                                                       *)
Load(c, kind, s, t) ==
  LET busy  == Busy(s)
      began == [op EXCEPT ![c] = [NoOp EXCEPT
                  !.stage = IF kind = "sync" THEN "read" ELSE "ask",
                  !.kind = kind, !.sub = s, !.terms = t]] IN
  /\ At(c, "idle") /\ kind # "create" /\ Exists(s)
  /\ op' = IF busy THEN NotAlone(began, s) ELSE began
  /\ disturbed' = IF busy THEN disturbed \cup {s} ELSE disturbed
  /\ UNCHANGED <<gw, subRow, subEvents, troubles>>

(* PATCH, or POST .../enable, /disable, /cancel.  A refusal ends the call.  *)
AskGateway(c) ==
  LET o == op[c] IN
  /\ At(c, "ask")
  /\ IF GatewayAccepts(o.sub)
       THEN /\ gw' = IF o.kind = "update" THEN [gw EXCEPT ![o.sub].terms = o.terms]
                                          ELSE [gw EXCEPT ![o.sub].raw = RawAfter(o.kind)]
            /\ op' = [op EXCEPT ![c].stage = IF o.kind = "update" THEN "read" ELSE "store",
                                ![c].terms = FirstTerms]
       ELSE Done(c) /\ UNCHANGED gw
  /\ UNCHANGED <<subRow, subEvents, disturbed, troubles>>

(* GET, for a sync and after a PATCH.                                       *)
GetSubscription(c) ==
  /\ At(c, "read")
  /\ op' = [op EXCEPT ![c].view = gw[op[c].sub], ![c].stage = "store"]
  /\ UNCHANGED <<gw, subRow, subEvents, disturbed, troubles>>

(* The terms left as they were. *)
BugApplyGateway(view) == [status |-> NormalizeSubscriptionStatus(view.raw), terms |-> FirstTerms]

(* applyGateway and repo.Update, of the row as the gateway described it.    *)
ApplyGateway(view) == [status |-> NormalizeSubscriptionStatus(view.raw), terms |-> view.terms]

StoreView(c) ==
  LET o == op[c] IN
  /\ At(c, "store") /\ o.kind \in {"sync", "update"}
  /\ subRow' = [subRow EXCEPT ![o.sub] = ApplyGateway(o.view)]
  /\ disturbed' = IF o.alone THEN disturbed \ {o.sub} ELSE disturbed
  /\ IF o.kind = "sync" THEN Done(c) ELSE OpTo(c, "publish")
  /\ UNCHANGED <<gw, subEvents, troubles>>

(* SetStatus, of the status the action is meant to lead to.                 *)
SetStatus(c) ==
  LET o == op[c] IN
  /\ At(c, "store") /\ o.kind \in LifecycleKinds
  /\ subRow' = [subRow EXCEPT ![o.sub].status = StatusAfter(o.kind)]
  /\ OpTo(c, "publish")
  /\ UNCHANGED <<gw, subEvents, disturbed, troubles>>

(* publish.  The dedupe key is the subscription, the event and the status   *)
(* stored, of which a lifecycle event has only one; an event whose key is   *)
(* known is dropped.                                                        *)
DedupeKey(o) == <<o.sub, o.kind>>

Publish(c) ==
  /\ At(c, "publish")
  /\ subEvents' = subEvents \cup {DedupeKey(op[c])}
  /\ Done(c)
  /\ UNCHANGED <<gw, subRow, disturbed, troubles>>

(* An order whose error is not looked at. *)
BugAbort(c) ==
  /\ ~At(c, "idle")
  /\ Trouble
  /\ IF At(c, "ask") /\ op[c].kind \in LifecycleKinds THEN OpTo(c, "store") ELSE Done(c)
  /\ disturbed' = disturbed \cup {op[c].sub}
  /\ UNCHANGED <<gw, subRow, subEvents>>

(* The gateway's answer is lost, a statement fails or the process dies: the *)
(* operation stops where it is.                                             *)
Abort(c) ==
  /\ ~At(c, "idle")
  /\ Trouble
  /\ Done(c)
  /\ disturbed' = disturbed \cup {op[c].sub}
  /\ UNCHANGED <<gw, subRow, subEvents>>

SubNext ==
  \/ \E s \in Subs : GatewayMoves(s)
  \/ \E c \in SubCallers :
       \/ CreateAtGateway(c) \/ InsertRow(c)
       \/ \E kind \in Kinds, s \in Subs, t \in Terms :
            (kind # "update" => t = FirstTerms) /\ Load(c, kind, s, t)
       \/ AskGateway(c) \/ GetSubscription(c) \/ StoreView(c) \/ SetStatus(c)
       \/ Publish(c) \/ Abort(c)

SubSpec == SubInit /\ [][SubNext]_subVars

-----------------------------------------------------------------------------
(* Properties *)

(* A row nothing is under way for says what the gateway says, in status and *)
(* terms, unless requests overlapped, one failed half-way or the gateway    *)
(* moved on its own, and then a sync or an update that is alone with the    *)
(* subscription brings it back (Sync "refreshes a subscription").           *)
RowFollowsGateway ==
  \A s \in Subs : Exists(s) /\ ~Busy(s) /\ s \notin disturbed =>
    /\ subRow[s].status = NormalizeSubscriptionStatus(gw[s].raw)
    /\ subRow[s].terms = gw[s].terms

(* An application is told of a cancellation only if the gateway carried it  *)
(* out, so that nothing is charged any more, whatever else is going on with *)
(* the subscription (Cancel "ends a subscription permanently").             *)
CancellationIsReal ==
  \A s \in Subs : <<s, "cancel">> \in subEvents => gw[s].raw = "cancelled"
=============================================================================
