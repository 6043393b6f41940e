---------------------------- MODULE PayoutProofs ----------------------------
(***************************************************************************)
(* Theorems about Payout for every set of payouts, workers, callers and    *)
(* administrators and every value of the windows and bounds.               *)
(***************************************************************************)
EXTENDS Payout, TLAPS

-----------------------------------------------------------------------------
(* The inductive strengthening of TypeOK, in parts that the actions disturb *)
(* separately.                                                              *)

RowsTyped ==
  /\ status \in [Payouts -> RowStatuses]
  /\ created \in [Payouts -> Nat]
  /\ expires \in [Payouts -> Nat]
  /\ ref \in [Payouts -> Nat]
  /\ requestedBy \in [Payouts -> Admins \cup {NoAdmin}]
  /\ approvedBy \in [Payouts -> Admins \cup {NoAdmin}]
  /\ trail \in [Payouts -> Seq(Steps)]

EventsTyped == events \subseteq Payouts \X PayoutStatuses

GatewayTyped == transfers \in [Payouts -> Seq(Transfers)] /\ keyAt \in [Payouts -> Nat]

ClockTyped == now \in Nat /\ faults \in Nat

(* A worker that is not idle is about a real payout. *)
WorkersTyped ==
  /\ stage \in [Workers -> {"idle", "calling", "answered", "announcing"}]
  /\ batch \in [Workers -> SUBSET Copies]
  /\ held \in [Workers -> Copies]
  /\ answer \in [Workers -> Answers]
  /\ announce \in [Workers -> PayoutStatuses \cup {"none"}]
  /\ \A w \in Workers :
       /\ stage[w] # "idle" => held[w].id \in Payouts
       /\ stage[w] = "announcing" => announce[w] \in PayoutStatuses
       /\ \A c \in batch[w] : c.id \in Payouts

(* A request somebody waits for belongs to the worker that is calling about *)
(* it, which waits for no other.                                            *)
WireTyped ==
  /\ wire \subseteq Requests
  /\ \A m \in wire : m.to # NoWorker => stage[m.to] = "calling" /\ m.id = held[m.to].id
  /\ \A m, n \in wire : m.to = n.to /\ m.to # NoWorker => m = n

(* A handler that is not idle is about a real payout. *)
CallersTyped ==
  /\ api \in [Callers -> Handlers]
  /\ \A c \in Callers :
       /\ api[c].stage # "idle" => api[c].id \in Payouts
       /\ api[c].stage = "announcing" => api[c].todo # <<>>

(* A gateway reference held anywhere is that of a transfer that exists.     *)
RowRefs == \A p \in Payouts : ref[p] <= Len(transfers[p])

WorkerRefs ==
  \A w \in Workers :
    /\ \A c \in batch[w] : c.ref <= Len(transfers[c.id])
    /\ stage[w] # "idle" => held[w].ref <= Len(transfers[held[w].id])
    /\ stage[w] = "answered" => answer[w].ref <= Len(transfers[held[w].id])

Typed ==
  /\ RowsTyped /\ EventsTyped /\ GatewayTyped /\ ClockTyped
  /\ WorkersTyped /\ WireTyped /\ CallersTyped
  /\ RowRefs /\ WorkerRefs

LEMMA TypedIsTypeOK == Typed => TypeOK
  BY DEF Typed, RowsTyped, EventsTyped, GatewayTyped, ClockTyped, WorkersTyped, WireTyped,
     CallersTyped, TypeOK

-----------------------------------------------------------------------------
(* What an UNCHANGED leaves well typed. *)

LEMMA RowsKept == RowsTyped /\ UNCHANGED rowVars => RowsTyped'
  BY DEF RowsTyped, rowVars

LEMMA GatewayKept == GatewayTyped /\ UNCHANGED gatewayVars => GatewayTyped'
  BY DEF GatewayTyped, gatewayVars

LEMMA WorkersKept ==
  /\ WorkersTyped /\ UNCHANGED workerVars => WorkersTyped'
  /\ WireTyped /\ UNCHANGED <<wire, stage, held>> => WireTyped'
  /\ UNCHANGED workerVars => UNCHANGED <<stage, held>>
  BY DEF WorkersTyped, WireTyped, workerVars

LEMMA RefsKept ==
  /\ RowRefs /\ UNCHANGED rowVars /\ UNCHANGED gatewayVars => RowRefs'
  /\ WorkerRefs /\ UNCHANGED workerVars /\ UNCHANGED gatewayVars => WorkerRefs'
  BY DEF RowRefs, WorkerRefs, rowVars, workerVars, gatewayVars

LEMMA CallersKept == CallersTyped /\ UNCHANGED api => CallersTyped'
  BY DEF CallersTyped

LEMMA ClockKept == ClockTyped /\ UNCHANGED <<now, faults>> => ClockTyped'
  BY DEF ClockTyped

LEMMA EventsKept == EventsTyped /\ UNCHANGED events => EventsTyped'
  BY DEF EventsTyped

-----------------------------------------------------------------------------
(* The transition relation. *)

LEMMA StatusFacts ==
  /\ ReleasedPayouts \subseteq PayoutStatuses
  /\ \A s : PayoutSuccessors(s) \subseteq PayoutStatuses
  /\ \A s \in ReleasedPayouts : PayoutSuccessors(s) \subseteq ReleasedPayouts
  /\ \A s, t : s \in PayoutPredecessorsOf(t) => s \in PayoutStatuses /\ t \in PayoutSuccessors(s)
<1>1. \A s : PayoutSuccessors(s) \subseteq PayoutStatuses
  BY DEF PayoutSuccessors, PayoutStatuses
<1>2. \A s \in ReleasedPayouts : PayoutSuccessors(s) \subseteq ReleasedPayouts
  BY DEF PayoutSuccessors, ReleasedPayouts
<1> QED
  BY <1>1, <1>2 DEF PayoutPredecessorsOf, ReleasedPayouts, PayoutStatuses

(* ApplyState keeps the row well typed. *)
LEMMA TransitionTyped ==
  ASSUME RowsTyped, NEW p \in Payouts, NEW from \in RowStatuses, NEW to \in PayoutStatuses,
         NEW r \in Nat, NEW e \in Nat, NEW a \in Admins \cup {NoAdmin},
         Transition(p, from, to, r, e, a)
  PROVE  RowsTyped'
<1>1. [from |-> from, to |-> to] \in Steps
  BY DEF Steps
<1> QED
  BY <1>1 DEF RowsTyped, Transition, RowStatuses

LEMMA TransitionRefs ==
  ASSUME RowsTyped, RowRefs, NEW p \in Payouts, NEW from, NEW to, NEW r \in Nat, NEW e, NEW a,
         r <= Len(transfers[p]), Transition(p, from, to, r, e, a), UNCHANGED gatewayVars
  PROVE  RowRefs'
  BY DEF RowsTyped, RowRefs, Transition, gatewayVars

LEMMA StaleKeepsRows ==
  ASSUME NEW p, NEW to, RowsTyped, RowRefs, Stale(p, to), UNCHANGED gatewayVars
  PROVE  RowsTyped' /\ RowRefs'
  BY RowsKept, RefsKept DEF Stale

-----------------------------------------------------------------------------
LEMMA InitTyped == Init => Typed
<1> SUFFICES ASSUME Init PROVE Typed
  OBVIOUS
<1>1. NoCopy \in Copies /\ NoAnswer \in Answers
  BY DEF NoCopy, Copies, RowStatuses, NoAnswer, Answers
<1>2. NoHandler \in Handlers /\ NoHandler.stage = "idle"
  BY DEF NoHandler, Handlers
<1>3. RowsTyped /\ EventsTyped /\ GatewayTyped /\ ClockTyped
  BY DEF Init, RowsTyped, EventsTyped, GatewayTyped, ClockTyped, RowStatuses
<1>4. WorkersTyped /\ WireTyped
  BY <1>1 DEF Init, WorkersTyped, WireTyped
<1>5. CallersTyped
  BY <1>2 DEF Init, CallersTyped
<1>6. RowRefs /\ WorkerRefs
  BY DEF Init, RowRefs, WorkerRefs
<1> QED
  BY <1>3, <1>4, <1>5, <1>6 DEF Typed

(* A caller that is given a well-typed handler stays well typed. *)
LEMMA HandlerChanged ==
  ASSUME CallersTyped, NEW c \in Callers, NEW h \in Handlers,
         h.stage # "idle" => h.id \in Payouts,
         h.stage = "announcing" => h.todo # <<>>,
         api' = [api EXCEPT ![c] = h]
  PROVE  CallersTyped'
  BY DEF CallersTyped

LEMMA HandlerReleased ==
  ASSUME CallersTyped, NEW c \in Callers, api' = [api EXCEPT ![c] = NoHandler]
  PROVE  CallersTyped'
<1>1. NoHandler \in Handlers /\ NoHandler.stage = "idle"
  BY DEF NoHandler, Handlers
<1> QED
  BY <1>1, HandlerChanged

LEMMA DecidedTyped ==
  ASSUME CallersTyped, NEW c \in Callers, NEW s \in PayoutStatuses,
         api[c].stage = "reviewing", Decided(c, s)
  PROVE  CallersTyped'
<1> DEFINE h == [api[c] EXCEPT !.stage = "announcing", !.todo = <<s>>]
<1>1. api[c] \in Handlers /\ api[c].id \in Payouts
  BY DEF CallersTyped
<1>2. <<s>> \in Seq(PayoutStatuses) /\ <<s>> # <<>>
  OBVIOUS
<1>3. h \in Handlers /\ h.id \in Payouts /\ h.todo # <<>>
  BY <1>1, <1>2 DEF Handlers
<1>4. api' = [api EXCEPT ![c] = h]
  BY DEF Decided
<1> QED
  BY <1>3, <1>4, HandlerChanged

LEMMA RequestTyped ==
  ASSUME Typed, NEW c \in Callers, NEW p \in Payouts, Request(c, p)
  PROVE  Typed'
<1> DEFINE todo(s) == IF s = "APPROVED" THEN <<"REQUESTED", "APPROVED">> ELSE <<"REQUESTED">>
           h(s, by) == [stage |-> "announcing", id |-> p, who |-> by, todo |-> todo(s)]
<1>1. PICK s \in {"REQUESTED", "APPROVED"}, by \in Admins \cup {NoAdmin} :
        /\ status' = [status EXCEPT ![p] = s]
        /\ requestedBy' = [requestedBy EXCEPT ![p] = by]
        /\ created' = [created EXCEPT ![p] = now]
        /\ trail' = [trail EXCEPT ![p] = Append(@, [from |-> "ABSENT", to |-> s])]
        /\ api' = [api EXCEPT ![c] = h(s, by)]
  BY DEF Request
<1>2. s \in PayoutStatuses /\ [from |-> "ABSENT", to |-> s] \in Steps
  BY DEF Steps, RowStatuses, PayoutStatuses
<1>3. todo(s) \in Seq(PayoutStatuses) /\ todo(s) # <<>>
  <2>1. "REQUESTED" \in PayoutStatuses /\ "APPROVED" \in PayoutStatuses
    BY DEF PayoutStatuses
  <2>2. <<"REQUESTED", "APPROVED">> \in Seq(PayoutStatuses) /\ <<"REQUESTED">> \in Seq(PayoutStatuses)
    BY <2>1
  <2> QED
    BY <2>2
<1>4. RowsTyped'
  BY <1>1, <1>2 DEF Request, Typed, RowsTyped, ClockTyped, RowStatuses
<1> HIDE DEF todo
<1>5. h(s, by) \in Handlers /\ h(s, by).id \in Payouts /\ h(s, by).todo # <<>>
  BY <1>3 DEF Handlers
<1> HIDE DEF h
<1>6. CallersTyped'
  BY <1>1, <1>5, HandlerChanged DEF Typed
<1>7. RowRefs' /\ WorkerRefs'
  BY RefsKept DEF Request, Typed, RowRefs, gatewayVars
<1> QED
  BY <1>4, <1>6, <1>7, EventsKept, GatewayKept, ClockKept, WorkersKept, RefsKept DEF Request, Typed

LEMMA CallerStepTyped == ASSUME Typed, NEW c \in Callers, CallerStep(c) PROVE Typed'
<1>1. ASSUME NEW p \in Payouts, NEW a \in Admins, ReadForReview(c, p, a) PROVE Typed'
  <2> DEFINE h == [stage |-> "reviewing", id |-> p, who |-> a, todo |-> <<>>]
  <2>1. h \in Handlers /\ h.id \in Payouts /\ h.stage # "announcing"
    BY DEF Handlers
  <2>2. CallersTyped'
    BY <1>1, <2>1, HandlerChanged DEF ReadForReview, Typed
  <2> QED
    BY <1>1, <2>2, RowsKept, EventsKept, GatewayKept, ClockKept, WorkersKept, RefsKept DEF ReadForReview, Typed
<1>2. ASSUME Approve(c) \/ Reject(c) PROVE RowsTyped' /\ RowRefs' /\ CallersTyped'
  <2>1. /\ api[c].stage = "reviewing" /\ api[c].id \in Payouts
        /\ api[c].who \in Admins \cup {NoAdmin}
    BY <1>2 DEF Approve, Reject, Typed, CallersTyped, Handlers
  <2> UNCHANGED gatewayVars /\ 0 <= Len(transfers[api[c].id])
    BY <1>2, <2>1 DEF Approve, Reject, Typed, GatewayTyped
  <2>2. "REQUESTED" \in RowStatuses /\ "APPROVED" \in PayoutStatuses /\ "REJECTED" \in PayoutStatuses
    BY DEF RowStatuses, PayoutStatuses
  <2>3. CASE Transition(api[c].id, "REQUESTED", "APPROVED", 0, 0, api[c].who) /\ Decided(c, "APPROVED")
    BY <2>1, <2>2, <2>3, TransitionTyped, TransitionRefs, DecidedTyped DEF Typed
  <2>4. CASE Transition(api[c].id, "REQUESTED", "REJECTED", 0, 0, NoAdmin) /\ Decided(c, "REJECTED")
    BY <2>1, <2>2, <2>4, TransitionTyped, TransitionRefs, DecidedTyped DEF Typed
  <2>5. CASE /\ Stale(api[c].id, "APPROVED") \/ Stale(api[c].id, "REJECTED")
             /\ api' = [api EXCEPT ![c] = NoHandler]
    BY <2>5, StaleKeepsRows, HandlerReleased DEF Typed
  <2> QED
    BY <1>2, <2>3, <2>4, <2>5 DEF Approve, Reject
<1>3. ASSUME Approve(c) \/ Reject(c) PROVE Typed'
  BY <1>2, <1>3, EventsKept, GatewayKept, ClockKept, WorkersKept, RefsKept DEF Approve, Reject, Typed
<1>4. ASSUME CallerAnnounce(c) PROVE Typed'
  <2> DEFINE h == api[c]
  <2>1. h \in Handlers /\ h.id \in Payouts /\ h.todo \in Seq(PayoutStatuses) /\ h.todo # <<>>
    BY <1>4 DEF CallerAnnounce, Typed, CallersTyped, Handlers
  <2>2. EventsTyped'
    <3>1. Head(h.todo) \in PayoutStatuses
      BY <2>1
    <3> QED
      BY <1>4, <2>1, <3>1 DEF CallerAnnounce, Typed, EventsTyped
  <2>3. CallersTyped'
    <3>1. CASE Len(h.todo) = 1
      BY <1>4, <3>1, HandlerReleased DEF CallerAnnounce, Typed
    <3>2. CASE Len(h.todo) # 1
      <4>1. Tail(h.todo) \in Seq(PayoutStatuses) /\ Len(Tail(h.todo)) # 0
        BY <2>1, <3>2
      <4>2. Tail(h.todo) # <<>>
        <5>1. \A q : q = <<>> => Len(q) = 0
          OBVIOUS
        <5> QED
          BY <4>1, <5>1
      <4>3. [h EXCEPT !.todo = Tail(@)] \in Handlers
        BY <2>1, <4>1 DEF Handlers
      <4> QED
        BY <1>4, <2>1, <3>2, <4>2, <4>3, HandlerChanged DEF CallerAnnounce, Typed, Handlers
    <3> QED
      BY <3>1, <3>2
  <2> QED
    BY <1>4, <2>2, <2>3, RowsKept, GatewayKept, ClockKept, WorkersKept, RefsKept DEF CallerAnnounce, Typed
<1>5. ASSUME Abandon(c) PROVE Typed'
  BY <1>5, HandlerReleased, RowsKept, EventsKept, GatewayKept, ClockKept, WorkersKept, RefsKept
     DEF Abandon, Typed
<1> QED
  BY <1>1, <1>3, <1>4, <1>5, RequestTyped DEF CallerStep

-----------------------------------------------------------------------------
(* The workers' and the gateway's steps. *)

(* The fields of a claimed copy. *)
LEMMA CopyTyped ==
  ASSUME RowsTyped, NEW p \in Payouts
  PROVE  Copy(p) \in Copies /\ Copy(p).id = p /\ Copy(p).ref = ref[p]
  BY DEF RowsTyped, Copy, Copies

LEMMA ClaimTyped == ASSUME Typed, NEW w \in Workers, Claim(w) PROVE Typed'
<1>1. PICK ps \in SUBSET InFlight : batch' = [batch EXCEPT ![w] = {Copy(p) : p \in ps}]
  BY DEF Claim
<1>2. ps \subseteq Payouts
  BY DEF InFlight
<1>3. {Copy(p) : p \in ps} \subseteq Copies /\ \A c \in {Copy(p) : p \in ps} : c.id \in Payouts
  BY <1>2, CopyTyped DEF Typed
<1>4. WorkersTyped'
  BY <1>1, <1>3 DEF Claim, Typed, WorkersTyped
<1>5. WireTyped'
  BY WorkersKept DEF Claim, Typed
<1>6. WorkerRefs'
  BY <1>1, <1>2, CopyTyped DEF Claim, Typed, WorkersTyped, WorkerRefs, RowRefs, gatewayVars
<1> QED
  BY <1>4, <1>5, <1>6, RowsKept, EventsKept, GatewayKept, ClockKept, CallersKept, RefsKept
     DEF Claim, Typed

LEMMA SendTyped ==
  ASSUME Typed, NEW w \in Workers, stage[w] = "idle", NEW c \in batch[w],
         NEW copy \in Copies, copy.id = c.id, copy.ref <= Len(transfers[c.id]), NEW kind \in {"submit", "resolve"},
         Send(w, c, copy, kind)
  PROVE  Typed'
<1> DEFINE r == [id |-> c.id, kind |-> kind, sent |-> now, to |-> w]
<1>1. c.id \in Payouts
  BY DEF Typed, WorkersTyped
<1>2. r \in Requests /\ r.to = w /\ r.id = c.id
  BY <1>1 DEF Requests, Typed, ClockTyped
<1>3. wire' = wire \cup {r} /\ stage' = [stage EXCEPT ![w] = "calling"]
      /\ held' = [held EXCEPT ![w] = copy] /\ batch' = [batch EXCEPT ![w] = @ \ {c}]
  BY DEF Send
<1> HIDE DEF r
<1>4. WorkersTyped'
  BY <1>1, <1>3 DEF Send, Typed, WorkersTyped
<1>5. \A m \in wire : m.to # w
  BY NullAssumption DEF Typed, WireTyped
<1>6. WireTyped'
  <2>1. \A m \in wire' : m.to # NoWorker => stage'[m.to] = "calling" /\ m.id = held'[m.to].id
    BY <1>2, <1>3, <1>5 DEF Typed, WireTyped, WorkersTyped, Requests
  <2> QED
    BY <1>2, <1>3, <1>5, <2>1 DEF Typed, WireTyped
<1>7. WorkerRefs'
  BY <1>3 DEF Send, Typed, WorkersTyped, WorkerRefs, gatewayVars
<1> QED
  BY <1>4, <1>6, <1>7, RowsKept, EventsKept, GatewayKept, ClockKept, CallersKept, RefsKept
     DEF Send, Typed

LEMMA WorkOnTyped == ASSUME Typed, NEW w \in Workers, WorkOn(w) PROVE Typed'
<1>1. PICK c \in batch[w] : Submit(w, c) \/ Resolve(w, c) \/ Poll(w, c) \/ Skip(w, c)
  BY DEF WorkOn
<1>2. c \in Copies /\ c.id \in Payouts /\ c.ref \in Nat /\ c.ref <= Len(transfers[c.id])
  BY DEF Typed, WorkersTyped, WorkerRefs, Copies
<1>3. CASE Submit(w, c)
  BY <1>2, <1>3, CopyTyped, SendTyped DEF Submit, Typed, RowRefs
<1>4. CASE Resolve(w, c)
  BY <1>2, <1>4, SendTyped DEF Resolve
<1>5. CASE Skip(w, c)
  <2>1. WorkersTyped'
    BY <1>5 DEF Skip, Typed, WorkersTyped
  <2>2. WorkerRefs'
    BY <1>5 DEF Skip, Typed, WorkersTyped, WorkerRefs, gatewayVars
  <2> QED
    BY <1>5, <2>1, <2>2, RowsKept, EventsKept, GatewayKept, ClockKept, CallersKept, WorkersKept,
       RefsKept DEF Skip, Typed
<1>6. CASE Poll(w, c)
  <2> DEFINE a == [status |-> transfers[c.id][c.ref].state, ref |-> c.ref]
  <2>1. a \in Answers /\ a.ref = c.ref
    <3>1. transfers[c.id] \in Seq(Transfers) /\ c.ref \in 1..Len(transfers[c.id])
      BY <1>2, <1>6 DEF Poll, Typed, GatewayTyped
    <3>2. transfers[c.id][c.ref] \in Transfers
      BY <3>1
    <3> QED
      BY <1>2, <3>2 DEF Answers, Transfers
  <2>2. /\ stage' = [stage EXCEPT ![w] = "answered"] /\ held' = [held EXCEPT ![w] = c]
        /\ batch' = [batch EXCEPT ![w] = @ \ {c}] /\ answer' = [answer EXCEPT ![w] = a]
        /\ announce' = announce
    BY <1>6 DEF Poll
  <2> HIDE DEF a
  <2>3. WorkersTyped'
    BY <1>2, <2>1, <2>2 DEF Typed, WorkersTyped
  <2>4. \A m \in wire : m.to # w
    BY <1>6, NullAssumption DEF Poll, Typed, WireTyped
  <2>5. WireTyped'
    BY <1>6, <2>2, <2>4 DEF Poll, Typed, WireTyped, WorkersTyped, Requests
  <2>6. WorkerRefs'
    BY <1>2, <1>6, <2>1, <2>2 DEF Poll, Typed, WorkersTyped, WorkerRefs, gatewayVars
  <2> QED
    BY <1>6, <2>3, <2>5, <2>6, RowsKept, EventsKept, GatewayKept, ClockKept, CallersKept, RefsKept
       DEF Poll, Typed
<1> QED
  BY <1>1, <1>3, <1>4, <1>5, <1>6

(* A worker with nothing on its hands. *)
LEMMA NoCopyTyped == NoCopy \in Copies /\ NoAnswer \in Answers
  BY DEF NoCopy, Copies, RowStatuses, NoAnswer, Answers

(* Abandoned keeps the requests of the other workers and waits for none of  *)
(* the worker's own.                                                        *)
LEMMA AbandonedTyped ==
  ASSUME Typed, NEW w \in Workers, wire' = Abandoned(w),
         \A v \in Workers \ {w} : stage'[v] = stage[v] /\ held'[v] = held[v]
  PROVE  WireTyped'
<1>1. wire \subseteq Requests
  BY DEF Typed, WireTyped
<1>2. \A m \in wire : [m EXCEPT !.to = NoWorker] \in Requests
  BY <1>1 DEF Requests
<1>3. \A m \in wire' :
        \/ m \in wire /\ m.to # w
        \/ m \in Requests /\ m.to = NoWorker
  BY <1>1, <1>2, Zenon DEF Abandoned, Requests
<1>4. w # NoWorker
  BY NullAssumption
<1>5. \A m \in wire : m.to \in Workers \cup {NoWorker}
  BY <1>1 DEF Requests
<1> QED
  BY <1>1, <1>3, <1>4, <1>5 DEF Typed, WireTyped

LEMMA WorkerFaultTyped == ASSUME Typed, NEW w \in Workers, WorkerFault(w) PROVE Typed'
<1>1. ClockTyped' /\ RowsTyped' /\ EventsTyped' /\ GatewayTyped' /\ CallersTyped' /\ RowRefs'
  BY RowsKept, EventsKept, GatewayKept, CallersKept, RefsKept
     DEF WorkerFault, FailLocally, Timeout, Crash, Typed, ClockTyped
<1>2. CASE \E c \in batch[w] : FailLocally(w, c)
  <2>1. WorkersTyped'
    BY <1>2 DEF FailLocally, Typed, WorkersTyped
  <2>2. WorkerRefs'
    BY <1>2 DEF FailLocally, Typed, WorkersTyped, WorkerRefs, gatewayVars
  <2>3. WireTyped'
    BY <1>2, WorkersKept DEF FailLocally, Typed
  <2> QED
    BY <1>1, <2>1, <2>2, <2>3 DEF Typed
<1>3. CASE Timeout(w)
  <2> DEFINE a == [status |-> "unknown", ref |-> 0]
  <2>1. a \in Answers /\ a.ref = 0
    BY DEF Answers
  <2>2. /\ stage' = [stage EXCEPT ![w] = "answered"] /\ answer' = [answer EXCEPT ![w] = a]
        /\ UNCHANGED <<batch, held, announce, transfers>> /\ stage[w] = "calling"
    BY <1>3 DEF Timeout, gatewayVars
  <2> HIDE DEF a
  <2>3. WorkersTyped'
    BY <2>1, <2>2 DEF Typed, WorkersTyped
  <2>4. WorkerRefs'
    <3>1. held[w].id \in Payouts /\ Len(transfers[held[w].id]) >= 0
      BY <2>2 DEF Typed, WorkersTyped, GatewayTyped
    <3> QED
      BY <2>1, <2>2, <3>1 DEF Typed, WorkersTyped, WorkerRefs
  <2>5. WireTyped'
    BY <1>3, <2>2, AbandonedTyped DEF Timeout, Typed, WorkersTyped
  <2> QED
    BY <1>1, <2>3, <2>4, <2>5 DEF Typed
<1>4. CASE Crash(w)
  <2>1. WorkersTyped'
    BY <1>4, NoCopyTyped DEF Crash, Typed, WorkersTyped
  <2>2. WorkerRefs'
    BY <1>4 DEF Crash, Typed, WorkersTyped, WorkerRefs, gatewayVars
  <2>3. WireTyped'
    BY <1>4, AbandonedTyped DEF Crash, Typed, WorkersTyped
  <2> QED
    BY <1>1, <2>1, <2>2, <2>3 DEF Typed
<1> QED
  BY <1>2, <1>3, <1>4 DEF WorkerFault

(* Outcome is a state of the payout, or "none". *)
LEMMA OutcomeFacts ==
  ASSUME NEW c \in Copies, NEW a \in Answers, Outcome(c, a.status) # "none"
  PROVE  Outcome(c, a.status) \in PayoutStatuses
  BY StatusFacts DEF Outcome, CanTransitionTo, PayoutStatuses

LEMMA FinishTyped ==
  ASSUME Typed, NEW w \in Workers, NEW e \in PayoutStatuses \cup {"none"},
         stage[w] = "answered", Finish(w, e)
  PROVE  WorkersTyped' /\ WireTyped' /\ WorkerRefs'
<1>1. WorkersTyped'
  BY NoCopyTyped DEF Finish, Typed, WorkersTyped, PayoutStatuses
<1>2. WorkerRefs'
  BY DEF Finish, Typed, WorkersTyped, WorkerRefs, gatewayVars
<1>3. \A m \in wire : m.to # w
  BY NullAssumption DEF Typed, WireTyped
<1>4. WireTyped'
  BY <1>3 DEF Finish, Typed, WireTyped, WorkersTyped, Requests
<1> QED
  BY <1>1, <1>2, <1>4

LEMMA RecordTyped == ASSUME Typed, NEW w \in Workers, Record(w) PROVE Typed'
<1> DEFINE c == held[w]
           to == Outcome(c, answer[w].status)
           r == IF to = answer[w].status THEN answer[w].ref ELSE 0
<1>1. /\ stage[w] = "answered" /\ c \in Copies /\ c.id \in Payouts /\ c.status \in RowStatuses
      /\ answer[w] \in Answers
  BY DEF Record, Typed, WorkersTyped, Copies
<1>2. to # "none" => to \in PayoutStatuses
  BY <1>1, OutcomeFacts
<1>3. r \in Nat /\ r <= Len(transfers[c.id])
  BY <1>1 DEF Typed, WorkersTyped, WorkerRefs, Answers, GatewayTyped
<1>4. EventFor(to) \in {to, "none"} /\ StaleEvent(to) = "none"
  BY DEF EventFor, StaleEvent
<1>5. Expiry(c.id, to) \in Nat
  BY <1>1, TimeAssumption DEF Expiry, Typed, RowsTyped
<1>6. /\ \E e \in {to, "none"} : (to = "none" => e = "none") /\ Finish(w, e)
      /\ \/ to # "none" /\ Transition(c.id, c.status, to, r, Expiry(c.id, to), NoAdmin)
         \/ to # "none" /\ Stale(c.id, to)
         \/ UNCHANGED rowVars
  BY <1>4 DEF Record
<1>7. UNCHANGED <<events, gatewayVars, wire, batch, api, now, faults>>
  BY <1>6 DEF Finish
<1> HIDE DEF c, to, r
<1>8. RowsTyped' /\ RowRefs'
  BY <1>1, <1>2, <1>3, <1>5, <1>6, <1>7, TransitionTyped, TransitionRefs, StaleKeepsRows,
     RowsKept, RefsKept DEF Typed
<1>9. WorkersTyped' /\ WireTyped' /\ WorkerRefs'
  BY <1>1, <1>2, <1>6, FinishTyped
<1> QED
  BY <1>7, <1>8, <1>9, EventsKept, GatewayKept, ClockKept, CallersKept DEF Typed

LEMMA WorkerAnnounceTyped == ASSUME Typed, NEW w \in Workers, WorkerAnnounce(w) PROVE Typed'
<1>1. WorkersTyped'
  BY NoCopyTyped DEF WorkerAnnounce, Typed, WorkersTyped
<1>2. WorkerRefs'
  BY DEF WorkerAnnounce, Typed, WorkersTyped, WorkerRefs, gatewayVars
<1>3. \A m \in wire : m.to # w
  BY NullAssumption DEF WorkerAnnounce, Typed, WireTyped
<1>4. WireTyped'
  BY <1>3 DEF WorkerAnnounce, Typed, WireTyped, WorkersTyped, Requests
<1>5. EventsTyped'
  BY DEF WorkerAnnounce, Typed, EventsTyped, WorkersTyped
<1> QED
  BY <1>1, <1>2, <1>4, <1>5, RowsKept, GatewayKept, ClockKept, CallersKept, RefsKept
     DEF WorkerAnnounce, Typed

-----------------------------------------------------------------------------
(* The gateway's steps. *)

LEMMA ReplyTyped ==
  ASSUME Typed, NEW m \in wire, NEW s, NEW r, [status |-> s, ref |-> r] \in Answers,
         Reply(m, s, r), GatewayTyped', r <= Len(transfers'[m.id]),
         \A p \in Payouts : Len(transfers[p]) <= Len(transfers'[p])
  PROVE  Typed'
<1> DEFINE a == [status |-> s, ref |-> r]
<1>1. m \in Requests /\ m.id \in Payouts /\ m.to \in Workers \cup {NoWorker}
  BY DEF Typed, WireTyped, Requests
<1>2. wire' = wire \ {m} /\ UNCHANGED <<batch, held, announce>>
  BY DEF Reply
<1>3. ASSUME m.to = NoWorker PROVE WorkersTyped' /\ WireTyped'
  <2>1. UNCHANGED <<stage, answer>>
    BY <1>3 DEF Reply
  <2>2. WorkersTyped'
    BY <1>2, <2>1, WorkersKept DEF Typed, workerVars
  <2>3. WireTyped'
    BY <1>2, <2>1 DEF Typed, WireTyped
  <2> QED
    BY <2>2, <2>3
<1>4. ASSUME m.to \in Workers PROVE WorkersTyped' /\ WireTyped'
  <2>1. m.to # NoWorker /\ stage[m.to] = "calling" /\ m.id = held[m.to].id
    BY <1>4, NullAssumption DEF Typed, WireTyped
  <2>2. stage' = [stage EXCEPT ![m.to] = "answered"] /\ answer' = [answer EXCEPT ![m.to] = a]
    BY <2>1 DEF Reply
  <2> HIDE DEF a
  <2>3. WorkersTyped'
    BY <1>2, <1>4, <2>1, <2>2 DEF Typed, WorkersTyped, a
  <2>4. \A n \in wire' : n \in wire /\ n.to # m.to
    BY <1>2, <2>1 DEF Typed, WireTyped
  <2>5. WireTyped'
    BY <1>2, <2>2, <2>4 DEF Typed, WireTyped, WorkersTyped, Requests
  <2> QED
    BY <2>3, <2>5
<1>5. RowsTyped' /\ RowRefs'
  <2>1. UNCHANGED rowVars /\ ref' = ref
    BY DEF Reply, rowVars
  <2>2. \A p \in Payouts : /\ Len(transfers[p]) \in Nat /\ Len(transfers'[p]) \in Nat
                           /\ ref[p] \in Nat
    BY DEF Typed, GatewayTyped, RowsTyped
  <2>3. RowRefs'
    BY <2>1, <2>2 DEF Typed, RowRefs
  <2> QED
    BY <2>1, <2>3, RowsKept DEF Typed
<1>6. WorkerRefs'
  <2>1. \A p \in Payouts, n \in Nat : n <= Len(transfers[p]) => n <= Len(transfers'[p])
    BY DEF Typed, GatewayTyped
  <2>2. \A w \in Workers : \A c \in batch[w] : c.id \in Payouts /\ c.ref \in Nat
    BY DEF Typed, WorkersTyped, Copies
  <2>3. \A w \in Workers : held[w].ref \in Nat /\ answer[w].ref \in Nat
    BY DEF Typed, WorkersTyped, Copies, Answers
  <2>4. \A w \in Workers : stage[w] # "idle" => held[w].id \in Payouts
    BY DEF Typed, WorkersTyped
  <2>5. \A w \in Workers :
          \/ stage'[w] = stage[w] /\ answer'[w] = answer[w]
          \/ w = m.to /\ stage[w] = "calling" /\ m.id = held[w].id /\ answer'[w].ref = r
    BY <1>1, NullAssumption DEF Reply, Typed, WorkersTyped, WireTyped
  <2> QED
    BY <1>2, <2>1, <2>2, <2>3, <2>4, <2>5 DEF Typed, WorkerRefs
<1> QED
  BY <1>1, <1>3, <1>4, <1>5, <1>6, EventsKept, ClockKept, CallersKept DEF Reply, Typed

LEMMA ExecuteTyped == ASSUME Typed, NEW m \in wire, Execute(m) PROVE Typed'
<1>1. m.id \in Payouts
  BY DEF Typed, WireTyped, Requests
<1>2. PICK a \in CreateAnswers :
        /\ transfers' = [transfers EXCEPT ![m.id] =
             Append(@, [answer |-> a, state |-> IF a = "UNMAPPED" THEN "SUBMITTED" ELSE a])]
        /\ keyAt' = [keyAt EXCEPT ![m.id] = now]
        /\ Reply(m, a, Len(transfers[m.id]) + 1)
  BY DEF Execute
<1> DEFINE t == [answer |-> a, state |-> IF a = "UNMAPPED" THEN "SUBMITTED" ELSE a]
<1>3. t \in Transfers
  BY AnswerAssumption DEF Transfers, TransferStates
<1> HIDE DEF t
<1>4. transfers[m.id] \in Seq(Transfers) /\ Append(transfers[m.id], t) \in Seq(Transfers)
      /\ Len(Append(transfers[m.id], t)) = Len(transfers[m.id]) + 1
  BY <1>1, <1>3 DEF Typed, GatewayTyped
<1>5. transfers' = [transfers EXCEPT ![m.id] = Append(transfers[m.id], t)]
  BY <1>2 DEF t
<1>6. GatewayTyped'
  BY <1>1, <1>2, <1>4, <1>5 DEF Typed, GatewayTyped, ClockTyped
<1>7. \A p \in Payouts : Len(transfers[p]) <= Len(transfers'[p])
  BY <1>1, <1>4, <1>5 DEF Typed, GatewayTyped
<1>8. [status |-> a, ref |-> Len(transfers[m.id]) + 1] \in Answers
  BY <1>4 DEF Answers
<1>9. Len(transfers[m.id]) + 1 <= Len(transfers'[m.id])
  BY <1>1, <1>4, <1>5 DEF Typed, GatewayTyped
<1> QED
  BY <1>2, <1>6, <1>7, <1>8, <1>9, ReplyTyped

LEMMA GatewayStepTyped == ASSUME Typed, GatewayStep PROVE Typed'
<1>1. ASSUME NEW m \in wire, Replay(m) \/ Refuse(m) PROVE Typed'
  <2>1. m.id \in Payouts
    BY DEF Typed, WireTyped, Requests
  <2>2. transfers[m.id] \in Seq(Transfers) /\ Len(transfers[m.id]) \in Nat
    BY <2>1 DEF Typed, GatewayTyped
  <2>3. GatewayTyped' /\ UNCHANGED transfers
    BY <1>1, GatewayKept DEF Replay, Refuse, Typed, gatewayVars
  <2>4. \A p \in Payouts : Len(transfers[p]) <= Len(transfers'[p])
    BY <2>3 DEF Typed, GatewayTyped
  <2>5. CASE Replay(m)
    <3> DEFINE n == Len(transfers[m.id])
    <3>1. transfers[m.id][n] \in Transfers
      BY <2>2, <2>5 DEF Replay, KeyKnown
    <3>2. [status |-> transfers[m.id][n].answer, ref |-> n] \in Answers
      BY <2>2, <3>1 DEF Transfers, Answers
    <3> QED
      BY <2>2, <2>3, <2>4, <2>5, <3>2, ReplyTyped DEF Replay
  <2>6. CASE Refuse(m)
    <3>1. [status |-> "refused", ref |-> 0] \in Answers
      BY DEF Answers
    <3> QED
      BY <2>2, <2>3, <2>4, <2>6, <3>1, ReplyTyped DEF Refuse
  <2> QED
    BY <1>1, <2>5, <2>6
<1>2. ASSUME NEW m \in wire, Lose(m) PROVE Typed'
  <2>1. WireTyped'
    BY <1>2 DEF Lose, workerVars, Typed, WireTyped
  <2> QED
    BY <1>2, <2>1, RowsKept, EventsKept, GatewayKept, ClockKept, CallersKept, WorkersKept, RefsKept
       DEF Lose, Typed
<1>3. ASSUME NEW p \in Payouts, Settle(p) PROVE Typed'
  <2>1. PICK i \in DOMAIN transfers[p], s \in SettledAnswers :
          transfers' = [transfers EXCEPT ![p][i].state = s]
    BY <1>3 DEF Settle
  <2>2. transfers[p] \in Seq(Transfers) /\ transfers[p][i] \in Transfers
    BY DEF Typed, GatewayTyped
  <2> DEFINE t == [transfers[p][i] EXCEPT !.state = s]
             q == [transfers[p] EXCEPT ![i] = t]
  <2>3. t \in Transfers
    BY <2>2, AnswerAssumption DEF Transfers, TransferStates
  <2>4. q \in Seq(Transfers) /\ Len(q) = Len(transfers[p])
    BY <2>2, <2>3
  <2>5. transfers' = [transfers EXCEPT ![p] = q]
    BY <2>1
  <2> HIDE DEF q
  <2>6. GatewayTyped' /\ \A r \in Payouts : Len(transfers'[r]) = Len(transfers[r])
    BY <1>3, <2>4, <2>5 DEF Settle, Typed, GatewayTyped
  <2>7. RowRefs' /\ WorkerRefs'
    BY <1>3, <2>6 DEF Settle, Typed, RowRefs, WorkerRefs, WorkersTyped, rowVars, workerVars
  <2> QED
    BY <1>3, <2>6, <2>7, RowsKept, EventsKept, ClockKept, CallersKept, WorkersKept DEF Settle, Typed
<1> QED
  BY <1>1, <1>2, <1>3, ExecuteTyped DEF GatewayStep, Arrive

LEMMA TickTyped == ASSUME Typed, Tick PROVE Typed'
<1>1. ClockTyped'
  BY DEF Tick, Typed, ClockTyped
<1> QED
  BY <1>1, RowsKept, EventsKept, GatewayKept, CallersKept, WorkersKept, RefsKept DEF Tick, Typed

-----------------------------------------------------------------------------
LEMMA NextTyped == ASSUME Typed, [Next]_vars PROVE Typed'
<1>1. CASE UNCHANGED vars
  BY <1>1, RowsKept, EventsKept, GatewayKept, ClockKept, CallersKept, WorkersKept, RefsKept
     DEF vars, workerVars, Typed
<1> QED
  BY <1>1, CallerStepTyped, ClaimTyped, WorkOnTyped, RecordTyped, WorkerAnnounceTyped,
     WorkerFaultTyped, GatewayStepTyped, TickTyped DEF Next

(* The strengthened invariant is inductive: no action leaves it. *)
THEOREM AlwaysTyped == Spec => []Typed
<1>1. Typed /\ [Next]_vars => Typed'
  BY NextTyped
<1> QED
  BY <1>1, InitTyped, PTL DEF Spec

(* Every reachable state is well typed.  The references matter: a worker    *)
(* that polls indexes the gateway's transfers with the reference in its     *)
(* copy, so no copy may ever hold a reference the gateway did not issue.    *)
THEOREM TypeCorrect == Spec => []TypeOK
  BY AlwaysTyped, TypedIsTypeOK, PTL
=============================================================================
