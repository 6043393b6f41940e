------------------------------- MODULE Payout -------------------------------
(***************************************************************************)
(* Money out: internal/payout/service.go and repository.go, the Iris       *)
(* client of internal/gateway/midtrans/iris.go and the reconciliation      *)
(* loop of apps/worker/main.go.                                            *)
(*                                                                         *)
(* API callers request, approve and reject payouts.  Workers claim batches *)
(* of in-flight payouts (the claim is a transaction of its own, so a       *)
(* worker afterwards acts on copies), submit them to the gateway, poll     *)
(* them, and retry those whose outcome is unknown under the original       *)
(* idempotency key while the window lasts.  A row changes only through     *)
(* ApplyState, whose WHERE clause holds the allowed predecessors.          *)
(*                                                                         *)
(* The gateway executes a request whose key it does not remember, replays  *)
(* the original answer for a key it does, and forgets a key KeyTTL after   *)
(* it executed it.  A request whose caller gave up or crashed may still    *)
(* arrive, at most MaxLatency after it was sent.                           *)
(***************************************************************************)
EXTENDS Naturals, Sequences, FiniteSets, PayoutStatus

CONSTANTS
  Payouts,            \* payout identifiers, which are also idempotency keys
  Workers,            \* reconciliation passes: worker loops and admin syncs
  Callers,            \* API request handlers
  Admins,             \* administrators who may approve or reject
  NoPayout, NoWorker, NoAdmin,
  CreateAnswers,      \* what the gateway may answer to a first create request
  SettledAnswers,     \* how the gateway may finish a transfer
  IdempotencyWindow,  \* how long PayMux retries an unknown outcome (20 hours)
  KeyTTL,             \* how long the gateway remembers a key (24 hours)
  MaxLatency,         \* how long after sending a request may still arrive
  BatchSize,          \* how many payouts one claim takes
  MaxTime,            \* bound on the clock
  MaxFaults           \* bound on crashes, time-outs and failed calls

ASSUME NullAssumption ==
  /\ NoPayout \notin Payouts
  /\ NoWorker \notin Workers
  /\ NoAdmin \notin Admins

ASSUME AnswerAssumption ==
  /\ CreateAnswers \subseteq {"SUBMITTED", "COMPLETED", "FAILED", "REJECTED", "UNMAPPED"}
  /\ SettledAnswers \subseteq {"COMPLETED", "FAILED", "REJECTED"}

ASSUME TimeAssumption ==
  /\ IdempotencyWindow \in Nat
  /\ KeyTTL \in Nat
  /\ MaxLatency \in Nat
  /\ IdempotencyWindow + MaxLatency <= KeyTTL

ASSUME BoundAssumption == BatchSize \in Nat /\ MaxTime \in Nat /\ MaxFaults \in Nat

VARIABLES
  (* the payouts and payout_transitions tables, and the published events *)
  status, created, expires, ref, requestedBy, approvedBy, trail, events,
  (* the gateway: the transfers it made per key, and when it stored the key *)
  transfers, keyAt,
  (* create requests that have been sent and have not arrived *)
  wire,
  (* workers: what each is doing, its claimed copies, the copy it is working
     on, the answer it got and the event it has to publish *)
  stage, batch, held, answer, announce,
  (* API callers *)
  api,
  now, faults

rowVars     == <<status, created, expires, ref, requestedBy, approvedBy, trail>>
gatewayVars == <<transfers, keyAt>>
workerVars  == <<stage, batch, held, answer, announce>>
vars == <<rowVars, events, gatewayVars, wire, workerVars, api, now, faults>>

-----------------------------------------------------------------------------
(* Types *)

RowStatuses == PayoutStatuses \cup {"ABSENT"}

(* What scanPayout copies out of a row for a worker.  ref 0 is NULL. *)
Copies == [id : Payouts \cup {NoPayout}, status : RowStatuses, ref : Nat, expires : Nat]

NoCopy == [id |-> NoPayout, status |-> "ABSENT", ref |-> 0, expires |-> 0]

TransferStates == {"SUBMITTED", "COMPLETED", "FAILED", "REJECTED"}
Transfers == [answer : CreateAnswers, state : TransferStates]
Requests  == [id : Payouts, kind : {"submit", "resolve"}, sent : Nat, to : Workers \cup {NoWorker}]
Steps     == [from : RowStatuses, to : PayoutStatuses]
Answers   == [status : CreateAnswers \cup TransferStates \cup {"none", "refused", "unknown"},
              ref : Nat]
NoAnswer  == [status |-> "none", ref |-> 0]

(* What an API caller is in the middle of. *)
Handlers == [stage : {"idle", "reviewing", "announcing"}, id : Payouts \cup {NoPayout},
             who : Admins \cup {NoAdmin}, todo : Seq(PayoutStatuses)]

NoHandler == [stage |-> "idle", id |-> NoPayout, who |-> NoAdmin, todo |-> <<>>]

TypeOK ==
  /\ status \in [Payouts -> RowStatuses]
  /\ created \in [Payouts -> Nat]
  /\ expires \in [Payouts -> Nat]
  /\ ref \in [Payouts -> Nat]
  /\ requestedBy \in [Payouts -> Admins \cup {NoAdmin}]
  /\ approvedBy \in [Payouts -> Admins \cup {NoAdmin}]
  /\ trail \in [Payouts -> Seq(Steps)]
  /\ events \subseteq Payouts \X PayoutStatuses
  /\ transfers \in [Payouts -> Seq(Transfers)]
  /\ keyAt \in [Payouts -> Nat]
  /\ wire \subseteq Requests
  /\ stage \in [Workers -> {"idle", "calling", "answered", "announcing"}]
  /\ batch \in [Workers -> SUBSET Copies]
  /\ held \in [Workers -> Copies]
  /\ answer \in [Workers -> Answers]
  /\ announce \in [Workers -> PayoutStatuses \cup {"none"}]
  /\ api \in [Callers -> Handlers]
  /\ now \in Nat
  /\ faults \in Nat

-----------------------------------------------------------------------------
Init ==
  /\ status = [p \in Payouts |-> "ABSENT"]
  /\ created = [p \in Payouts |-> 0]
  /\ expires = [p \in Payouts |-> 0]
  /\ ref = [p \in Payouts |-> 0]
  /\ requestedBy = [p \in Payouts |-> NoAdmin]
  /\ approvedBy = [p \in Payouts |-> NoAdmin]
  /\ trail = [p \in Payouts |-> <<>>]
  /\ events = {}
  /\ transfers = [p \in Payouts |-> <<>>]
  /\ keyAt = [p \in Payouts |-> 0]
  /\ wire = {}
  /\ stage = [w \in Workers |-> "idle"]
  /\ batch = [w \in Workers |-> {}]
  /\ held = [w \in Workers |-> NoCopy]
  /\ answer = [w \in Workers |-> NoAnswer]
  /\ announce = [w \in Workers |-> "none"]
  /\ api = [c \in Callers |-> NoHandler]
  /\ now = 0
  /\ faults = 0

-----------------------------------------------------------------------------
(* Rows *)

Copy(p) == [id |-> p, status |-> status[p], ref |-> ref[p], expires |-> expires[p]]

(* Mutant of Transition: the UPDATE without its allowed predecessors. *)
BugTransition(p, from, to, newRef, newExpiry, admin) ==
  /\ status' = [status EXCEPT ![p] = to]
  /\ trail' = [trail EXCEPT ![p] = Append(@, [from |-> from, to |-> to])]
  /\ ref' = [ref EXCEPT ![p] = IF newRef = 0 THEN @ ELSE newRef]
  /\ UNCHANGED <<created, expires, requestedBy, approvedBy>>

(* ApplyState and RecordTransition in one transaction.  The guard is the    *)
(* WHERE clause; from is the status of the caller's copy.  A zero ref or    *)
(* expiry and NoAdmin leave the column alone.                               *)
Transition(p, from, to, newRef, newExpiry, admin) ==
  /\ status[p] \in PayoutPredecessorsOf(to)
  /\ status' = [status EXCEPT ![p] = to]
  /\ trail' = [trail EXCEPT ![p] = Append(@, [from |-> from, to |-> to])]
  /\ ref' = [ref EXCEPT ![p] = IF newRef = 0 THEN @ ELSE newRef]
  /\ expires' = [expires EXCEPT ![p] = IF newExpiry = 0 THEN @ ELSE newExpiry]
  /\ approvedBy' = [approvedBy EXCEPT ![p] = IF admin = NoAdmin THEN @ ELSE admin]
  /\ UNCHANGED <<created, requestedBy>>

(* Mutant of Stale: the history entry survives the refused update. *)
BugStale(p, to) ==
  /\ status[p] \notin PayoutPredecessorsOf(to)
  /\ trail' = [trail EXCEPT ![p] = Append(@, [from |-> status[p], to |-> to])]
  /\ UNCHANGED <<status, created, expires, ref, requestedBy, approvedBy>>

(* ErrStaleTransition: the row is in no predecessor state, nothing changes. *)
Stale(p, to) ==
  /\ status[p] \notin PayoutPredecessorsOf(to)
  /\ UNCHANGED rowVars

-----------------------------------------------------------------------------
(* API callers *)

(* Request stores the payout and its first transition in one transaction.   *)
(* The limits and the reference check that precede it are in Admission.       *)
Request(c, p) ==
  /\ api[c].stage = "idle"
  /\ status[p] = "ABSENT"
  /\ \E s \in {"REQUESTED", "APPROVED"}, by \in Admins \cup {NoAdmin} :
       /\ status' = [status EXCEPT ![p] = s]
       /\ requestedBy' = [requestedBy EXCEPT ![p] = by]
       /\ created' = [created EXCEPT ![p] = now]
       /\ trail' = [trail EXCEPT ![p] = Append(@, [from |-> "ABSENT", to |-> s])]
       /\ api' = [api EXCEPT ![c] =
            [stage |-> "announcing", id |-> p, who |-> by,
             todo |-> IF s = "APPROVED" THEN <<"REQUESTED", "APPROVED">> ELSE <<"REQUESTED">>]]
  /\ UNCHANGED <<expires, ref, approvedBy, events, gatewayVars, wire, workerVars, now, faults>>

(* Mutant of MayApprove: no self-approval check. *)
BugMayApprove(a, p) == TRUE

(* ErrSelfApproval. *)
MayApprove(a, p) == requestedBy[p] # a

(* Approve and Reject first read the payout without a lock.                 *)
ReadForReview(c, p, a) ==
  /\ api[c].stage = "idle"
  /\ status[p] = "REQUESTED"
  /\ api' = [api EXCEPT ![c] = [stage |-> "reviewing", id |-> p, who |-> a, todo |-> <<>>]]
  /\ UNCHANGED <<rowVars, events, gatewayVars, wire, workerVars, now, faults>>

Decided(c, s) == api' = [api EXCEPT ![c].stage = "announcing", ![c].todo = <<s>>]

Approve(c) ==
  LET p == api[c].id
      a == api[c].who
  IN  /\ api[c].stage = "reviewing"
      /\ MayApprove(a, p)
      /\ \/ Transition(p, "REQUESTED", "APPROVED", 0, 0, a) /\ Decided(c, "APPROVED")
         \/ Stale(p, "APPROVED") /\ api' = [api EXCEPT ![c] = NoHandler]
      /\ UNCHANGED <<events, gatewayVars, wire, workerVars, now, faults>>

Reject(c) ==
  LET p == api[c].id
  IN  /\ api[c].stage = "reviewing"
      /\ \/ Transition(p, "REQUESTED", "REJECTED", 0, 0, NoAdmin) /\ Decided(c, "REJECTED")
         \/ Stale(p, "REJECTED") /\ api' = [api EXCEPT ![c] = NoHandler]
      /\ UNCHANGED <<events, gatewayVars, wire, workerVars, now, faults>>

(* publish: a transaction of its own; the dedupe key makes it idempotent.   *)
CallerAnnounce(c) ==
  LET h == api[c]
  IN  /\ h.stage = "announcing"
      /\ events' = events \cup {<<h.id, Head(h.todo)>>}
      /\ api' = [api EXCEPT ![c] = IF Len(h.todo) = 1 THEN NoHandler
                                   ELSE [h EXCEPT !.todo = Tail(@)]]
      /\ UNCHANGED <<rowVars, gatewayVars, wire, workerVars, now, faults>>

(* The handler ends early: the process dies, the self-approval check        *)
(* refuses, or a publication fails and is only logged.                      *)
Abandon(c) ==
  /\ api[c].stage # "idle"
  /\ api' = [api EXCEPT ![c] = NoHandler]
  /\ UNCHANGED <<rowVars, events, gatewayVars, wire, workerVars, now, faults>>

-----------------------------------------------------------------------------
(* Workers *)

(* Mutant of InFlight: the queue forgets the payouts not yet at the gateway. *)
BugInFlight == {p \in Payouts : status[p] \in {"SUBMITTED", "UNRESOLVED"}}

InFlight == {p \in Payouts : status[p] \in InFlightPayouts}

(* ReconcileBatch claims inside a transaction that ends before the work     *)
(* starts; SKIP LOCKED lets a concurrent claim take any part of the queue.  *)
(* handleSyncPayout is the same step with a batch of one.                   *)
Claim(w) ==
  /\ stage[w] = "idle"
  /\ batch[w] = {}
  /\ \E ps \in SUBSET InFlight :
       /\ ps # {}
       /\ Cardinality(ps) <= BatchSize
       /\ batch' = [batch EXCEPT ![w] = {Copy(p) : p \in ps}]
  /\ UNCHANGED <<rowVars, events, gatewayVars, wire, stage, held, answer, announce, api, now, faults>>

(* Recoverable, on the copy the worker holds. *)
Recoverable(c) == c.status = "UNRESOLVED" /\ now < c.expires

(* The create request leaves under the payout's own idempotency key.        *)
Send(w, c, copy, kind) ==
  /\ stage' = [stage EXCEPT ![w] = "calling"]
  /\ held' = [held EXCEPT ![w] = copy]
  /\ batch' = [batch EXCEPT ![w] = @ \ {c}]
  /\ wire' = wire \cup {[id |-> c.id, kind |-> kind, sent |-> now, to |-> w]}
  /\ UNCHANGED <<rowVars, events, gatewayVars, answer, announce, api, now, faults>>

(* Submit reads the payout again and sends only what is still APPROVED.     *)
Submit(w, c) ==
  /\ stage[w] = "idle"
  /\ c.status = "APPROVED"
  /\ status[c.id] = "APPROVED"
  /\ Send(w, c, Copy(c.id), "submit")

(* resolveUnknown re-sends an unknown outcome while the window lasts.       *)
Resolve(w, c) ==
  /\ stage[w] = "idle"
  /\ Recoverable(c)
  /\ Send(w, c, c, "resolve")

(* GetPayout: the answer is the transfer's state when the gateway read it.  *)
Poll(w, c) ==
  /\ stage[w] = "idle"
  /\ c.status = "SUBMITTED"
  /\ c.ref # 0
  /\ stage' = [stage EXCEPT ![w] = "answered"]
  /\ held' = [held EXCEPT ![w] = c]
  /\ batch' = [batch EXCEPT ![w] = @ \ {c}]
  /\ answer' = [answer EXCEPT ![w] = [status |-> transfers[c.id][c.ref].state, ref |-> c.ref]]
  /\ UNCHANGED <<rowVars, events, gatewayVars, wire, announce, api, now, faults>>

(* Nothing to do: no longer awaiting submission, or the window has closed.  *)
Skip(w, c) ==
  /\ stage[w] = "idle"
  /\ \/ c.status = "APPROVED" /\ status[c.id] # "APPROVED"
     \/ c.status = "UNRESOLVED" /\ ~Recoverable(c)
  /\ batch' = [batch EXCEPT ![w] = @ \ {c}]
  /\ UNCHANGED <<rowVars, events, gatewayVars, wire, stage, held, answer, announce, api, now, faults>>

(* No client for the account, or a poll that could not be answered: logged. *)
FailLocally(w, c) ==
  /\ stage[w] = "idle"
  /\ faults < MaxFaults
  /\ batch' = [batch EXCEPT ![w] = @ \ {c}]
  /\ faults' = faults + 1
  /\ UNCHANGED <<rowVars, events, gatewayVars, wire, stage, held, answer, announce, api, now>>

Abandoned(w) == {IF m.to = w THEN [m EXCEPT !.to = NoWorker] ELSE m : m \in wire}

(* ErrOutcomeUnknown: no answer, a 5xx, or an answer that cannot be read.   *)
(* The request may still be under way.                                      *)
Timeout(w) ==
  /\ stage[w] = "calling"
  /\ faults < MaxFaults
  /\ wire' = Abandoned(w)
  /\ stage' = [stage EXCEPT ![w] = "answered"]
  /\ answer' = [answer EXCEPT ![w] = [status |-> "unknown", ref |-> 0]]
  /\ faults' = faults + 1
  /\ UNCHANGED <<rowVars, events, gatewayVars, batch, held, announce, api, now>>

(* Mutant of Outcome: "processed" is read as the money having arrived. *)
BugOutcome(c, s) ==
  IF s = "unknown" THEN (IF c.status = "APPROVED" THEN "UNRESOLVED" ELSE "none")
  ELSE IF s \in {"refused", "UNMAPPED"} THEN "FAILED"
  ELSE IF c.status = "SUBMITTED" THEN "COMPLETED" ELSE s

(* What the answer makes of the payout: recordSubmissionFailure for an      *)
(* error, applyGatewayResult for a status; "none" is TouchSynced.  Every    *)
(* check is against the copy, which may be stale.                           *)
Outcome(c, s) ==
  CASE s = "unknown"               -> IF c.status = "APPROVED" THEN "UNRESOLVED" ELSE "none"
    [] s \in {"refused", "UNMAPPED"} -> "FAILED"
    [] OTHER                       -> IF CanTransitionTo(c.status, s) THEN s ELSE "none"

(* Mutants of Expiry: the window counted from the last attempt, or backwards. *)
BugExpiryRestarts(p, to) == IF to = "UNRESOLVED" THEN now + IdempotencyWindow ELSE 0
BugExpirySign(p, to) == IF to = "UNRESOLVED" THEN created[p] - IdempotencyWindow ELSE 0

Expiry(p, to) == IF to = "UNRESOLVED" THEN created[p] + IdempotencyWindow ELSE 0

(* The worker is done with one payout: idle, or with an event to publish.   *)
Finish(w, e) ==
  /\ stage' = [stage EXCEPT ![w] = IF e = "none" THEN "idle" ELSE "announcing"]
  /\ announce' = [announce EXCEPT ![w] = e]
  /\ held' = IF e = "none" THEN [held EXCEPT ![w] = NoCopy] ELSE held
  /\ answer' = [answer EXCEPT ![w] = NoAnswer]
  /\ UNCHANGED <<events, gatewayVars, wire, batch, api, now, faults>>

(* TypeForPayoutStatus: an unknown outcome is announced to nobody.          *)
EventFor(to) == IF to = "UNRESOLVED" THEN "none" ELSE to

(* Mutant of StaleEvent: the event is published whether or not the row moved. *)
BugStaleEvent(to) == EventFor(to)

(* ErrStaleTransition returns before anything is published. *)
StaleEvent(to) == "none"

Record(w) ==
  LET c  == held[w]
      to == Outcome(c, answer[w].status)
  IN  /\ stage[w] = "answered"
      /\ \/ /\ to # "none"
            /\ Transition(c.id, c.status, to,
                          IF to = answer[w].status THEN answer[w].ref ELSE 0,
                          Expiry(c.id, to), NoAdmin)
            /\ Finish(w, EventFor(to))
         \/ to # "none" /\ Stale(c.id, to) /\ Finish(w, StaleEvent(to))
         \/ to = "none" /\ UNCHANGED rowVars /\ Finish(w, "none")

WorkerAnnounce(w) ==
  /\ stage[w] = "announcing"
  /\ events' = events \cup {<<held[w].id, announce[w]>>}
  /\ stage' = [stage EXCEPT ![w] = "idle"]
  /\ announce' = [announce EXCEPT ![w] = "none"]
  /\ held' = [held EXCEPT ![w] = NoCopy]
  /\ UNCHANGED <<rowVars, gatewayVars, wire, batch, answer, api, now, faults>>

(* The worker process dies, or a publication fails and is only logged.      *)
Crash(w) ==
  /\ faults < MaxFaults
  /\ stage[w] # "idle" \/ batch[w] # {}
  /\ stage' = [stage EXCEPT ![w] = "idle"]
  /\ batch' = [batch EXCEPT ![w] = {}]
  /\ held' = [held EXCEPT ![w] = NoCopy]
  /\ answer' = [answer EXCEPT ![w] = NoAnswer]
  /\ announce' = [announce EXCEPT ![w] = "none"]
  /\ wire' = Abandoned(w)
  /\ faults' = faults + 1
  /\ UNCHANGED <<rowVars, events, gatewayVars, api, now>>

-----------------------------------------------------------------------------
(* The gateway, external: modelled from how iris.go uses it *)

KeyKnown(p) == transfers[p] # <<>> /\ now < keyAt[p] + KeyTTL

(* The answer reaches the worker that still waits for it, if any.           *)
Reply(m, s, r) ==
  /\ wire' = wire \ {m}
  /\ IF m.to = NoWorker
       THEN UNCHANGED <<stage, answer>>
       ELSE /\ stage' = [stage EXCEPT ![m.to] = "answered"]
            /\ answer' = [answer EXCEPT ![m.to] = [status |-> s, ref |-> r]]
  /\ UNCHANGED <<rowVars, events, batch, held, announce, api, now, faults>>

(* A key the gateway does not remember is a new instruction.                *)
Execute(m) ==
  /\ ~KeyKnown(m.id)
  /\ \E a \in CreateAnswers :
       /\ transfers' = [transfers EXCEPT ![m.id] =
            Append(@, [answer |-> a, state |-> IF a = "UNMAPPED" THEN "SUBMITTED" ELSE a])]
       /\ keyAt' = [keyAt EXCEPT ![m.id] = now]
       /\ Reply(m, a, Len(transfers[m.id]) + 1)

(* A remembered key is answered with the original result.                   *)
Replay(m) ==
  /\ KeyKnown(m.id)
  /\ Reply(m, transfers[m.id][Len(transfers[m.id])].answer, Len(transfers[m.id]))
  /\ UNCHANGED gatewayVars

(* A 4xx: insufficient balance, bad credentials, too many requests.         *)
Refuse(m) == Reply(m, "refused", 0) /\ UNCHANGED gatewayVars

(* A request nobody waits for never arrives.                                *)
Lose(m) ==
  /\ m.to = NoWorker
  /\ wire' = wire \ {m}
  /\ UNCHANGED <<rowVars, events, gatewayVars, workerVars, api, now, faults>>

Arrive(m) == Execute(m) \/ Replay(m) \/ Refuse(m)

(* The bank finishes, or somebody rejects the transfer at the gateway.      *)
Settle(p) ==
  /\ \E i \in DOMAIN transfers[p], s \in SettledAnswers :
       /\ transfers[p][i].state = "SUBMITTED"
       /\ transfers' = [transfers EXCEPT ![p][i].state = s]
  /\ UNCHANGED <<rowVars, events, keyAt, wire, workerVars, api, now, faults>>

Tick ==
  /\ now < MaxTime
  /\ \A m \in wire : now < m.sent + MaxLatency
  /\ now' = now + 1
  /\ UNCHANGED <<rowVars, events, gatewayVars, wire, workerVars, api, faults>>

-----------------------------------------------------------------------------
CallerStep(c) ==
  \/ \E p \in Payouts : Request(c, p) \/ \E a \in Admins : ReadForReview(c, p, a)
  \/ Approve(c) \/ Reject(c) \/ CallerAnnounce(c) \/ Abandon(c)

WorkOn(w) ==
  \E c \in batch[w] : Submit(w, c) \/ Resolve(w, c) \/ Poll(w, c) \/ Skip(w, c)

WorkerFault(w) ==
  \/ \E c \in batch[w] : FailLocally(w, c)
  \/ Timeout(w) \/ Crash(w)

GatewayStep ==
  \/ \E m \in wire : Arrive(m) \/ Lose(m)
  \/ \E p \in Payouts : Settle(p)

Next ==
  \/ \E c \in Callers : CallerStep(c)
  \/ \E w \in Workers : Claim(w) \/ WorkOn(w) \/ Record(w) \/ WorkerAnnounce(w) \/ WorkerFault(w)
  \/ GatewayStep
  \/ Tick

Spec == Init /\ [][Next]_vars


-----------------------------------------------------------------------------
(* Safety *)

Released(p) == status[p] \in ReleasedPayouts

(* The gateway is never asked to pay, and never pays, for a payout nobody   *)
(* has released: a payout that is still REQUESTED, or was REJECTED, has     *)
(* nothing on the wire, in a worker's hands or at the gateway, whatever     *)
(* stale copies the workers and the reviewers hold                          *)
(* (gateway/payout.go: REQUESTED "has moved no money", REJECTED "nothing    *)
(* was ever attempted").                                                    *)
NothingSentBeforeRelease ==
  \A p \in Payouts : ~Released(p) =>
    /\ transfers[p] = <<>>
    /\ \A m \in wire : m.id # p
    /\ \A w \in Workers : held[w].id # p

(* Money asked for by one administrator moves only after another released   *)
(* it: a payout that entered as REQUESTED and has a transfer was approved   *)
(* by somebody other than its requester (Approve's self-approval check).    *)
ReleasedByAnother ==
  \A p \in Payouts :
    transfers[p] # <<>> /\ trail[p][1].to = "REQUESTED"
      => approvedBy[p] \in Admins \ {requestedBy[p]}

(* A retry is a question, never a second instruction: while a resolve       *)
(* request is under way for a payout the gateway has executed, the gateway  *)
(* still knows the key.  Recoverable's window against the key's lifetime    *)
(* and the time a request may spend on the wire.                            *)
RetryIsAQuestion ==
  \A m \in wire : m.kind = "resolve" /\ transfers[m.id] # <<>> => KeyKnown(m.id)

(* The row and its history agree on where the payout is, and the history    *)
(* holds only transitions of the allow-list, although each entry is written *)
(* from a copy that may be stale (Service.transition).                      *)
HistoryMatchesRow ==
  \A p \in Payouts :
    /\ status[p] # "ABSENT" => trail[p] # <<>> /\ trail[p][Len(trail[p])].to = status[p]
    /\ \A i \in DOMAIN trail[p] : i > 1 =>
         CanTransitionTo(trail[p][i].from, trail[p][i].to)

(* COMPLETED is only ever reported of a transfer the gateway completed, and *)
(* a SUBMITTED payout always has the reference to ask about (Reconcile's    *)
(* "should be impossible" branch).                                          *)
ReferenceIsGood ==
  \A p \in Payouts :
    /\ status[p] \in {"SUBMITTED", "COMPLETED"} => ref[p] \in DOMAIN transfers[p]
    /\ status[p] = "COMPLETED" => transfers[p][ref[p]].state = "COMPLETED"

(* An event is published only for a state the payout really was in, and at  *)
(* most the events of one ending: publications are transactions of their    *)
(* own, made after the state changed and in any order with other handlers'. *)
EventsAreTrue ==
  /\ \A e \in events : \E i \in DOMAIN trail[e[1]] :
       e[2] \in {trail[e[1]][i].to, "REQUESTED"}
  /\ \A p \in Payouts : Cardinality({s \in TerminalPayouts : <<p, s>> \in events}) <= 1

(* The abstract promise: rows move along the allow-list and stop for good   *)
(* in a terminal state, and money moves only for a released payout.         *)
Lifecycle == INSTANCE PayoutLifecycle WITH moved <- [p \in Payouts |-> Len(transfers[p])]
LifecycleHolds == Lifecycle!Spec

-----------------------------------------------------------------------------
(* Statements of the documentation that the code does not keep *)

(* payout/service.go, Reconcile: "APPROVED: never sent. Submit it."  If     *)
(* that were so, submitting an APPROVED payout could not pay it again       *)
(* (migrations/0002_disbursement.sql: "the same logical payout cannot be    *)
(* submitted twice").                                                       *)
PaidAtMostOnce == \A p \in Payouts : Len(transfers[p]) <= 1

-----------------------------------------------------------------------------
(* Liveness.  A worker loop keeps running its ticker (main.go), the gateway *)
(* answers or the HTTP client gives up, and a transfer in the bank's hands  *)
(* is finished in the end.  People, faults and the clock are not fair.      *)

Fairness ==
  /\ \A w \in Workers :
       /\ WF_vars(Claim(w))
       /\ WF_vars(WorkOn(w))
       /\ WF_vars(Record(w))
       /\ WF_vars(WorkerAnnounce(w))
  /\ WF_vars(\E m \in wire : m.to # NoWorker /\ Arrive(m))
  /\ \A p \in Payouts : WF_vars(Settle(p))

FairSpec == Spec /\ Fairness

Stranded(p) == status[p] = "UNRESOLVED" /\ now >= expires[p]

(* A released payout does not wait for ever: it ends completed or failed,   *)
(* or it is reported as stranded for a person to settle (Stranded).         *)
ReleasedPayoutsEnd ==
  \A p \in Payouts :
    status[p] = "APPROVED" ~> status[p] \in {"COMPLETED", "FAILED"} \/ Stranded(p)

=============================================================================
