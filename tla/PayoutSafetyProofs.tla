------------------------- MODULE PayoutSafetyProofs -------------------------
(***************************************************************************)
(* Safety theorems about Payout: how a step can change a payout's state or *)
(* make a transfer, that nothing is sent before it is released and by      *)
(* another, that Payout implements PayoutLifecycle, that a retry is a      *)
(* question, and that history, references and events are true.             *)
(***************************************************************************)
EXTENDS PayoutProofs, FiniteSetTheorems

-----------------------------------------------------------------------------
(* What a step does to states and transfers. *)

Counts == [p \in Payouts |-> Len(transfers[p])]

Quiet == UNCHANGED status /\ Counts' = Counts

Moves(p) ==
  /\ status' = [status EXCEPT ![p] = status'[p]]
  /\ Counts' = Counts
  /\ \/ status[p] = "ABSENT" /\ status'[p] \in {"REQUESTED", "APPROVED"}
     \/ status'[p] \in PayoutSuccessors(status[p])

Pays(p) ==
  /\ UNCHANGED status
  /\ Counts' = [Counts EXCEPT ![p] = @ + 1]
  /\ \E m \in wire : m.id = p

LEMMA CountsKept == UNCHANGED gatewayVars => Counts' = Counts
  BY DEF gatewayVars, Counts

LEMMA TransitionMoves ==
  ASSUME Typed, NEW p \in Payouts, NEW from, NEW to, NEW r, NEW e, NEW a,
         Transition(p, from, to, r, e, a), UNCHANGED gatewayVars
  PROVE  Moves(p)
<1>1. status' = [status EXCEPT ![p] = to] /\ to \in PayoutSuccessors(status[p])
  BY StatusFacts DEF Transition
<1>2. status'[p] = to
  BY <1>1 DEF Typed, RowsTyped
<1> QED
  BY <1>1, <1>2, CountsKept DEF Moves

LEMMA CallerStepKinds ==
  ASSUME Typed, NEW c \in Callers, CallerStep(c)
  PROVE  Quiet \/ \E p \in Payouts : Moves(p)
<1>1. UNCHANGED gatewayVars /\ Counts' = Counts
  BY CountsKept
     DEF CallerStep, Request, ReadForReview, Approve, Reject, CallerAnnounce, Abandon
<1>2. ASSUME NEW p \in Payouts, Request(c, p) PROVE Moves(p)
  <2>1. PICK s \in {"REQUESTED", "APPROVED"} : status' = [status EXCEPT ![p] = s]
    BY <1>2 DEF Request
  <2>2. status[p] = "ABSENT" /\ status'[p] = s
    BY <1>2, <2>1 DEF Request, Typed, RowsTyped
  <2> QED
    BY <1>1, <2>1, <2>2 DEF Moves
<1>3. ASSUME Approve(c) \/ Reject(c) PROVE Quiet \/ Moves(api[c].id)
  <2>1. api[c].id \in Payouts
    BY <1>3 DEF Approve, Reject, Typed, CallersTyped
  <2> QED
    BY <1>1, <1>3, <2>1, TransitionMoves DEF Approve, Reject, Stale, rowVars, Quiet
<1>4. ASSUME NEW p \in Payouts, NEW a \in Admins, ReadForReview(c, p, a) PROVE Quiet
  BY <1>1, <1>4 DEF ReadForReview, rowVars, Quiet
<1>5. ASSUME CallerAnnounce(c) \/ Abandon(c) PROVE Quiet
  BY <1>1, <1>5 DEF CallerAnnounce, Abandon, rowVars, Quiet
<1> QED
  <2>1. Approve(c) \/ Reject(c) => api[c].id \in Payouts
    BY DEF Approve, Reject, Typed, CallersTyped
  <2> QED
    BY <1>2, <1>3, <1>4, <1>5, <2>1 DEF CallerStep

LEMMA WorkerStepKinds ==
  ASSUME Typed, NEW w \in Workers,
         Claim(w) \/ WorkOn(w) \/ Record(w) \/ WorkerAnnounce(w) \/ WorkerFault(w)
  PROVE  Quiet \/ \E p \in Payouts : Moves(p)
<1>1. UNCHANGED gatewayVars /\ Counts' = Counts
  BY CountsKept
     DEF Claim, WorkOn, Submit, Resolve, Poll, Skip, Send, Record, Finish, WorkerAnnounce,
         WorkerFault, FailLocally, Timeout, Crash
<1>2. ASSUME Record(w) PROVE Quiet \/ Moves(held[w].id)
  <2>1. held[w].id \in Payouts
    BY <1>2 DEF Record, Typed, WorkersTyped
  <2> QED
    BY <1>1, <1>2, <2>1, TransitionMoves DEF Record, Stale, rowVars, Quiet
<1>3. ASSUME Claim(w) \/ WorkOn(w) \/ WorkerAnnounce(w) \/ WorkerFault(w) PROVE Quiet
  BY <1>1, <1>3
     DEF Claim, WorkOn, Submit, Resolve, Poll, Skip, Send, WorkerAnnounce,
         WorkerFault, FailLocally, Timeout, Crash, rowVars, Quiet
<1> QED
  <2>1. Record(w) => held[w].id \in Payouts
    BY DEF Record, Typed, WorkersTyped
  <2> QED
    BY <1>2, <1>3, <2>1

LEMMA GatewayStepKinds ==
  ASSUME Typed, GatewayStep \/ Tick
  PROVE  Quiet \/ \E p \in Payouts : Pays(p)
<1>1. UNCHANGED status
  BY DEF GatewayStep, Arrive, Execute, Replay, Refuse, Reply, Lose, Settle, Tick, rowVars
<1>2. ASSUME NEW m \in wire, Execute(m) PROVE Pays(m.id)
  <2>1. m.id \in Payouts /\ transfers[m.id] \in Seq(Transfers)
    BY DEF Typed, WireTyped, Requests, GatewayTyped
  <2>2. PICK t : transfers' = [transfers EXCEPT ![m.id] = Append(transfers[m.id], t)]
    BY <1>2 DEF Execute
  <2>3. Len(Append(transfers[m.id], t)) = Len(transfers[m.id]) + 1
    BY <2>1
  <2> QED
    BY <1>1, <2>1, <2>2, <2>3 DEF Pays, Counts, Typed, GatewayTyped
<1>3. ASSUME NEW m \in wire, Replay(m) \/ Refuse(m) \/ Lose(m) PROVE Quiet
  BY <1>1, <1>3, CountsKept DEF Replay, Refuse, Lose, Quiet
<1>4. ASSUME NEW p \in Payouts, Settle(p) PROVE Quiet
  <2>1. PICK i \in DOMAIN transfers[p], s \in SettledAnswers : transfers' = [transfers EXCEPT ![p][i].state = s]
    BY <1>4 DEF Settle
  <2>2. transfers[p] \in Seq(Transfers)
    BY DEF Typed, GatewayTyped
  <2> DEFINE q == [transfers[p] EXCEPT ![i] = [transfers[p][i] EXCEPT !.state = s]]
  <2>3. Len(q) = Len(transfers[p]) /\ transfers' = [transfers EXCEPT ![p] = q]
    BY <2>1, <2>2
  <2> HIDE DEF q
  <2> QED
    BY <1>1, <2>3 DEF Quiet, Counts, Typed, GatewayTyped
<1>5. ASSUME Tick PROVE Quiet
  BY <1>1, <1>5, CountsKept DEF Tick, Quiet
<1> QED
  <2>1. \A m \in wire : m.id \in Payouts
    BY DEF Typed, WireTyped, Requests
  <2> QED
    BY <1>2, <1>3, <1>4, <1>5, <2>1 DEF GatewayStep, Arrive

(* Every step leaves states and transfer counts alone, moves one payout     *)
(* along the allow-list, or makes one transfer for a request on the wire.   *)
LEMMA StepKinds ==
  ASSUME Typed, [Next]_vars
  PROVE  Quiet \/ \E p \in Payouts : Moves(p) \/ Pays(p)
<1>1. CASE UNCHANGED vars
  BY <1>1, CountsKept DEF vars, rowVars, Quiet
<1> QED
  BY <1>1, CallerStepKinds, WorkerStepKinds, GatewayStepKinds DEF Next

-----------------------------------------------------------------------------
(* Nothing is sent before it is released. *)

(* The payout has left the database: a worker holds a copy of it, a request *)
(* about it is under way, or the gateway has executed one.                  *)
Engaged(p) ==
  \/ transfers[p] # <<>>
  \/ \E m \in wire : m.id = p
  \/ \E w \in Workers : held[w].id = p \/ \E c \in batch[w] : c.id = p

(* The inductive invariant: the copies waiting in a batch count as well.    *)
ReleaseInv == \A p \in Payouts : Engaged(p) => Released(p)

(* A payout is engaged only by claiming it while it is in flight; after     *)
(* that everything is passed on from what already holds it.                 *)
LEMMA EngagedByClaim ==
  ASSUME Typed, [Next]_vars, NEW p \in Payouts, Engaged(p)'
  PROVE  Engaged(p) \/ status[p] \in InFlightPayouts
<1> SUFFICES ASSUME ~Engaged(p) PROVE status[p] \in InFlightPayouts
  OBVIOUS
<1>1. /\ transfers[p] = <<>> /\ \A m \in wire : m.id # p
      /\ \A w \in Workers : held[w].id # p /\ \A c \in batch[w] : c.id # p
  BY DEF Engaged
<1>2. NoCopy.id # p
  BY NullAssumption DEF NoCopy
<1>3. ASSUME NEW w \in Workers, Claim(w) PROVE status[p] \in InFlightPayouts
  <2>1. PICK ps \in SUBSET InFlight : batch' = [batch EXCEPT ![w] = {Copy(q) : q \in ps}]
    BY <1>3 DEF Claim
  <2>2. UNCHANGED <<transfers, wire, held>>
    BY <1>3 DEF Claim, gatewayVars
  <2>3. \E v \in Workers : \E c \in batch'[v] : c.id = p
    BY <1>1, <2>2 DEF Engaged
  <2>4. \E c \in {Copy(q) : q \in ps} : c.id = p
    BY <1>1, <2>1, <2>3 DEF Typed, WorkersTyped
  <2>5. p \in ps
    BY <2>4 DEF Copy
  <2> QED
    BY <2>5 DEF InFlight
<1>4. ASSUME NEW c \in Callers, CallerStep(c) PROVE FALSE
  BY <1>1, <1>4 DEF Engaged, CallerStep, Request, ReadForReview, Approve, Reject, CallerAnnounce,
     Abandon, gatewayVars, workerVars
<1>5. ASSUME NEW w \in Workers, WorkOn(w) PROVE FALSE
  <2>1. PICK c \in batch[w] : Submit(w, c) \/ Resolve(w, c) \/ Poll(w, c) \/ Skip(w, c)
    BY <1>5 DEF WorkOn
  <2>2. c.id # p /\ Copy(c.id).id # p
    BY <1>1 DEF Copy
  <2>3. UNCHANGED transfers /\ \A v \in Workers : batch'[v] \subseteq batch[v]
    BY <2>1 DEF Submit, Resolve, Poll, Skip, Send, gatewayVars, Typed, WorkersTyped
  <2>4. \A v \in Workers : held'[v].id # p
    BY <1>1, <2>1, <2>2 DEF Submit, Resolve, Poll, Skip, Send, Typed, WorkersTyped
  <2>5. \A m \in wire' : m.id # p
    BY <1>1, <2>1, <2>2 DEF Submit, Resolve, Poll, Skip, Send
  <2> QED
    BY <1>1, <2>3, <2>4, <2>5 DEF Engaged
<1>6. ASSUME NEW w \in Workers, Record(w) \/ WorkerAnnounce(w) PROVE FALSE
  BY <1>1, <1>2, <1>6 DEF Engaged, Record, Finish, WorkerAnnounce, gatewayVars, Typed, WorkersTyped
<1>7. ASSUME NEW w \in Workers, WorkerFault(w) PROVE FALSE
  <2>1. UNCHANGED transfers /\ \A v \in Workers : batch'[v] \subseteq batch[v]
    BY <1>7 DEF WorkerFault, FailLocally, Timeout, Crash, gatewayVars, Typed, WorkersTyped
  <2>2. \A v \in Workers : held'[v].id # p
    BY <1>1, <1>2, <1>7 DEF WorkerFault, FailLocally, Timeout, Crash, Typed, WorkersTyped
  <2>3. \A n \in Abandoned(w) : n.id # p
    <3>1. \A m \in wire : [m EXCEPT !.to = NoWorker].id # p /\ m.id # p
      BY <1>1 DEF Typed, WireTyped, Requests
    <3> QED
      BY <3>1, Zenon DEF Abandoned
  <2>4. \A m \in wire' : m.id # p
    BY <1>1, <1>7, <2>3 DEF WorkerFault, FailLocally, Timeout, Crash
  <2> QED
    BY <1>1, <2>1, <2>2, <2>4 DEF Engaged
<1>8. ASSUME GatewayStep \/ Tick PROVE FALSE
  <2>1. wire' \subseteq wire /\ UNCHANGED <<held, batch>>
    BY <1>8 DEF GatewayStep, Arrive, Execute, Replay, Refuse, Reply, Lose, Settle, Tick, workerVars
  <2>2. transfers'[p] = <<>>
    <3>1. CASE UNCHANGED transfers
      BY <1>1, <3>1
    <3>2. ASSUME NEW m \in wire, Execute(m) PROVE transfers'[p] = <<>>
      BY <1>1, <3>2 DEF Execute, Typed, GatewayTyped
    <3>3. ASSUME NEW q \in Payouts, Settle(q) PROVE transfers'[p] = <<>>
      BY <1>1, <3>3 DEF Settle, Typed, GatewayTyped
    <3> QED
      BY <1>8, <3>1, <3>2, <3>3 DEF GatewayStep, Arrive, Replay, Refuse, Lose, Tick, gatewayVars
  <2> QED
    BY <1>1, <2>1, <2>2 DEF Engaged
<1>9. CASE UNCHANGED vars
  BY <1>1, <1>9 DEF Engaged, vars, gatewayVars, workerVars
<1> QED
  BY <1>3, <1>4, <1>5, <1>6, <1>7, <1>8, <1>9 DEF Next

LEMMA ReleasedForGood ==
  ASSUME Typed, [Next]_vars, NEW p \in Payouts, Released(p)
  PROVE  Released(p)'
<1>1. status[p] # "ABSENT"
  BY DEF Released, ReleasedPayouts
<1>2. ASSUME NEW q \in Payouts, Moves(q) PROVE Released(p)'
  BY <1>1, <1>2, StatusFacts DEF Moves, Released, Typed, RowsTyped
<1> QED
  BY <1>2, StepKinds DEF Quiet, Pays, Released

LEMMA ReleaseInvHolds == Spec => [](Typed /\ ReleaseInv)
<1>1. Init => ReleaseInv
  BY NullAssumption DEF Init, ReleaseInv, Engaged, NoCopy
<1>2. ASSUME Typed, ReleaseInv, [Next]_vars PROVE ReleaseInv'
  <2> SUFFICES ASSUME NEW p \in Payouts, Engaged(p)' PROVE Released(p)'
    BY DEF ReleaseInv
  <2>1. Engaged(p) \/ status[p] \in InFlightPayouts
    BY <1>2, EngagedByClaim
  <2>2. Released(p)
    BY <1>2, <2>1 DEF ReleaseInv, Released, ReleasedPayouts, InFlightPayouts
  <2> QED
    BY <1>2, <2>2, ReleasedForGood
<1>3. Typed /\ ReleaseInv /\ [Next]_vars => ReleaseInv'
  BY <1>2
<1> QED
  BY <1>1, <1>3, AlwaysTyped, PTL DEF Spec

(* Whatever the interleaving of callers, workers, crashes and late          *)
(* requests, nothing about a payout that nobody released is at the gateway, *)
(* on the wire or in a worker's hands.                                      *)
THEOREM NothingSent == Spec => []NothingSentBeforeRelease
<1>1. ReleaseInv => NothingSentBeforeRelease
  BY DEF ReleaseInv, NothingSentBeforeRelease, Engaged
<1> QED
  BY <1>1, ReleaseInvHolds, PTL

-----------------------------------------------------------------------------
(* Payout implements PayoutLifecycle. *)

(* The implemented lifecycle: states move only along the allow-list, for    *)
(* good once terminal, and a transfer is made only for a released payout.   *)
THEOREM ImplementsLifecycle == Spec => LifecycleHolds
<1>1. Init => Lifecycle!Init
  BY DEF Init, Lifecycle!Init
<1>2. ASSUME Typed, ReleaseInv, [Next]_vars PROVE [Lifecycle!Next]_(Lifecycle!vars)
  <2>1. CASE Quiet
    BY <2>1 DEF Quiet, Counts, Lifecycle!vars
  <2>2. ASSUME NEW p \in Payouts, Moves(p) PROVE Lifecycle!Request(p) \/ Lifecycle!Advance(p)
    BY <2>2 DEF Moves, Counts, Lifecycle!Request, Lifecycle!Advance, Lifecycle!PayoutSuccessors,
       PayoutSuccessors
  <2>3. ASSUME NEW p \in Payouts, Pays(p) PROVE Lifecycle!Transfer(p)
    <3>1. status[p] \in Lifecycle!ReleasedPayouts
      BY <1>2, <2>3 DEF Pays, ReleaseInv, Engaged, Released, ReleasedPayouts,
         Lifecycle!ReleasedPayouts
    <3> QED
      BY <2>3, <3>1 DEF Pays, Counts, Lifecycle!Transfer
  <2> QED
    BY <1>2, <2>1, <2>2, <2>3, StepKinds DEF Lifecycle!Next
<1>3. Typed /\ ReleaseInv /\ [Next]_vars => [Lifecycle!Next]_(Lifecycle!vars)
  BY <1>2
<1> QED
  BY <1>1, <1>3, ReleaseInvHolds, PTL DEF Spec, LifecycleHolds, Lifecycle!Spec

-----------------------------------------------------------------------------
(* A retry is a question. *)

(* The retry window is counted from the creation of the payout, before the  *)
(* gateway can have stored its key.                                         *)
WindowInv ==
  \A p \in Payouts :
    /\ created[p] <= now
    /\ expires[p] <= created[p] + IdempotencyWindow
    /\ transfers[p] # <<>> => created[p] <= keyAt[p]

(* No copy, however old, carries a later expiry.                            *)
CopyInv == \A w \in Workers : \A c \in batch[w] : c.expires <= created[c.id] + IdempotencyWindow

(* A retry was sent inside the window and is not overdue.                   *)
WireInv ==
  \A m \in wire :
    /\ m.kind = "resolve" => m.sent < created[m.id] + IdempotencyWindow
    /\ now <= m.sent + MaxLatency

TimeInv == WindowInv /\ CopyInv /\ WireInv

LEMMA TransitionWindow ==
  ASSUME Typed, WindowInv, NEW p \in Payouts, NEW from, NEW to, NEW r, NEW a,
         Transition(p, from, to, r, Expiry(p, to), a), UNCHANGED <<gatewayVars, now>>
  PROVE  WindowInv' /\ created' = created
<1>1. created' = created /\ UNCHANGED <<transfers, keyAt, now>>
  BY DEF Transition, gatewayVars
<1>2. expires' = [expires EXCEPT ![p] = IF Expiry(p, to) = 0 THEN @ ELSE Expiry(p, to)]
  BY DEF Transition
<1>3. Expiry(p, to) \in {0, created[p] + IdempotencyWindow}
  BY DEF Expiry
<1> QED
  BY <1>1, <1>2, <1>3, TimeAssumption DEF Typed, RowsTyped, WindowInv

LEMMA CallerStepTime ==
  ASSUME Typed, ReleaseInv, TimeInv, NEW c \in Callers, CallerStep(c) PROVE TimeInv'
<1>1. UNCHANGED <<transfers, keyAt, wire, batch, now>>
  BY DEF CallerStep, Request, ReadForReview, Approve, Reject, CallerAnnounce, Abandon,
     gatewayVars, workerVars
<1>2. ASSUME created' = created, expires' = expires PROVE TimeInv'
  BY <1>1, <1>2 DEF TimeInv, WindowInv, CopyInv, WireInv
<1>3. ASSUME NEW p \in Payouts, Request(c, p) PROVE TimeInv'
  <2>1. created' = [created EXCEPT ![p] = now] /\ expires' = expires
    BY <1>3 DEF Request
  <2>2. transfers[p] = <<>>
    BY <1>3 DEF Request, ReleaseInv, Engaged, Released, ReleasedPayouts
  <2>3. \A q \in Payouts : created[q] <= created'[q] /\ created[q] \in Nat /\ created'[q] \in Nat
    BY <2>1 DEF Typed, RowsTyped, ClockTyped, TimeInv, WindowInv
  <2>4. WindowInv'
    BY <1>1, <2>1, <2>2, <2>3, TimeAssumption DEF Typed, RowsTyped, ClockTyped, TimeInv, WindowInv
  <2>5. CopyInv'
    <3>1. \A w \in Workers : \A d \in batch[w] : d.id \in Payouts /\ d.expires \in Nat
      BY DEF Typed, WorkersTyped, Copies
    <3> QED
      BY <1>1, <2>3, <3>1, TimeAssumption DEF TimeInv, CopyInv
  <2>6. WireInv'
    <3>1. \A m \in wire : m.id \in Payouts /\ m.sent \in Nat
      BY DEF Typed, WireTyped, Requests
    <3> QED
      BY <1>1, <2>3, <3>1, TimeAssumption DEF TimeInv, WireInv
  <2> QED
    BY <2>4, <2>5, <2>6 DEF TimeInv
<1>4. ASSUME Approve(c) \/ Reject(c) PROVE TimeInv'
  <2>1. created' = created /\ \A p \in Payouts : expires'[p] = expires[p]
    BY <1>4 DEF Approve, Reject, Stale, Transition, rowVars, Typed, RowsTyped
  <2> QED
    BY <1>1, <2>1 DEF TimeInv, WindowInv, CopyInv, WireInv
<1>5. ASSUME NEW p \in Payouts, NEW a \in Admins, ReadForReview(c, p, a) PROVE TimeInv'
  BY <1>2, <1>5 DEF ReadForReview, rowVars
<1>6. ASSUME CallerAnnounce(c) \/ Abandon(c) PROVE TimeInv'
  BY <1>2, <1>6 DEF CallerAnnounce, Abandon, rowVars
<1> QED
  BY <1>3, <1>4, <1>5, <1>6 DEF CallerStep

LEMMA SendTime ==
  ASSUME Typed, TimeInv, NEW w \in Workers, NEW c \in batch[w], NEW copy,
         NEW kind \in {"submit", "resolve"},
         kind = "resolve" => now < created[c.id] + IdempotencyWindow, Send(w, c, copy, kind)
  PROVE  TimeInv'
<1> DEFINE r == [id |-> c.id, kind |-> kind, sent |-> now, to |-> w]
<1>1. wire' = wire \cup {r} /\ UNCHANGED <<created, expires, transfers, keyAt, now>>
  BY DEF Send, rowVars, gatewayVars
<1>2. \A v \in Workers : batch'[v] \subseteq batch[v]
  BY DEF Send, Typed, WorkersTyped
<1>3. /\ r.kind = "resolve" => r.sent < created[r.id] + IdempotencyWindow
      /\ now <= r.sent + MaxLatency
  BY TimeAssumption DEF Typed, ClockTyped
<1> HIDE DEF r
<1> QED
  BY <1>1, <1>2, <1>3 DEF TimeInv, WindowInv, CopyInv, WireInv

LEMMA WorkerStepTime ==
  ASSUME Typed, TimeInv, NEW w \in Workers,
         Claim(w) \/ WorkOn(w) \/ Record(w) \/ WorkerAnnounce(w) \/ WorkerFault(w)
  PROVE  TimeInv'
<1>1. ASSUME UNCHANGED <<created, expires, transfers, keyAt, now>>
      PROVE  WindowInv'
  BY <1>1 DEF TimeInv, WindowInv
<1>2. ASSUME UNCHANGED <<created, wire, now>> PROVE WireInv'
  BY <1>2 DEF TimeInv, WireInv
<1>3. ASSUME UNCHANGED created, \A v \in Workers : batch'[v] \subseteq batch[v] PROVE CopyInv'
  BY <1>3 DEF TimeInv, CopyInv
<1>4. ASSUME Claim(w) PROVE TimeInv'
  <2>1. PICK ps \in SUBSET InFlight : batch' = [batch EXCEPT ![w] = {Copy(q) : q \in ps}]
    BY <1>4 DEF Claim
  <2>2. \A c \in {Copy(q) : q \in ps} : c.expires <= created[c.id] + IdempotencyWindow
    BY DEF InFlight, Copy, TimeInv, WindowInv
  <2>3. CopyInv'
    BY <1>4, <2>1, <2>2 DEF Claim, rowVars, Typed, WorkersTyped, TimeInv, CopyInv
  <2> QED
    BY <1>1, <1>2, <1>4, <2>3 DEF Claim, rowVars, gatewayVars, TimeInv
<1>5. ASSUME NEW c \in batch[w], Submit(w, c) \/ Resolve(w, c) PROVE TimeInv'
  <2>1. c.id \in Payouts /\ c.expires \in Nat
    BY DEF Typed, WorkersTyped, Copies
  <2>2. CASE Submit(w, c)
    BY <2>2, SendTime DEF Submit
  <2>3. CASE Resolve(w, c)
    <3>1. now < created[c.id] + IdempotencyWindow
      BY <2>1, <2>3, TimeAssumption DEF Resolve, Recoverable, TimeInv, CopyInv, Typed, ClockTyped,
         RowsTyped
    <3> QED
      BY <2>3, <3>1, SendTime DEF Resolve
  <2> QED
    BY <1>5, <2>2, <2>3
<1>6. ASSUME NEW c \in batch[w], Poll(w, c) \/ Skip(w, c) \/ FailLocally(w, c) PROVE TimeInv'
  <2>1. UNCHANGED <<created, expires, transfers, keyAt, now, wire>>
    BY <1>6 DEF Poll, Skip, FailLocally, rowVars, gatewayVars
  <2>2. \A v \in Workers : batch'[v] \subseteq batch[v]
    BY <1>6 DEF Poll, Skip, FailLocally, Typed, WorkersTyped
  <2> QED
    BY <1>1, <1>2, <1>3, <2>1, <2>2 DEF TimeInv
<1>7. ASSUME Record(w) PROVE TimeInv'
  <2>1. UNCHANGED <<gatewayVars, transfers, keyAt, wire, batch, now>> /\ held[w].id \in Payouts
    BY <1>7 DEF Record, Finish, gatewayVars, Typed, WorkersTyped
  <2>2. WindowInv' /\ created' = created
    <3>1. CASE UNCHANGED rowVars
      BY <1>1, <2>1, <3>1 DEF rowVars
    <3>2. ASSUME NEW to, NEW r,
                 Transition(held[w].id, held[w].status, to, r, Expiry(held[w].id, to), NoAdmin)
          PROVE  WindowInv' /\ created' = created
      BY <2>1, <3>2, TransitionWindow DEF TimeInv
    <3> QED
      BY <1>7, <3>1, <3>2 DEF Record, Stale
  <2> QED
    BY <1>2, <1>3, <2>1, <2>2 DEF TimeInv
<1>8. ASSUME WorkerAnnounce(w) PROVE TimeInv'
  BY <1>1, <1>2, <1>3, <1>8 DEF WorkerAnnounce, rowVars, gatewayVars, TimeInv
<1>9. ASSUME Timeout(w) \/ Crash(w) PROVE TimeInv'
  <2>1. UNCHANGED <<created, expires, transfers, keyAt, now>> /\ wire' = Abandoned(w)
    BY <1>9 DEF Timeout, Crash, rowVars, gatewayVars
  <2>2. \A v \in Workers : batch'[v] \subseteq batch[v]
    BY <1>9 DEF Timeout, Crash, Typed, WorkersTyped
  <2>3. \A n \in Abandoned(w) :
          \E m \in wire : n.kind = m.kind /\ n.sent = m.sent /\ n.id = m.id
    <3>1. \A m \in wire : LET n == [m EXCEPT !.to = NoWorker]
                          IN  n.kind = m.kind /\ n.sent = m.sent /\ n.id = m.id
      BY DEF Typed, WireTyped, Requests
    <3> QED
      BY <3>1, Zenon DEF Abandoned
  <2>4. WireInv'
    BY <2>1, <2>3 DEF TimeInv, WireInv
  <2> QED
    BY <1>1, <1>3, <2>1, <2>2, <2>4 DEF TimeInv
<1> QED
  BY <1>4, <1>5, <1>6, <1>7, <1>8, <1>9 DEF WorkOn, WorkerFault

LEMMA GatewayStepTime == ASSUME Typed, TimeInv, GatewayStep \/ Tick PROVE TimeInv'
<1>1. UNCHANGED <<created, expires, batch>> /\ wire' \subseteq wire
  BY DEF GatewayStep, Arrive, Execute, Replay, Refuse, Reply, Lose, Settle, Tick, rowVars, workerVars
<1>2. CopyInv'
  BY <1>1 DEF TimeInv, CopyInv
<1>3. ASSUME UNCHANGED <<now, transfers, keyAt>> PROVE TimeInv'
  BY <1>1, <1>2, <1>3 DEF TimeInv, WindowInv, WireInv
<1>4. ASSUME NEW m \in wire, Execute(m) PROVE TimeInv'
  <2>1. m.id \in Payouts /\ now' = now
    BY <1>4 DEF Execute, Reply, Typed, WireTyped, Requests
  <2>2. \A q \in Payouts : \/ keyAt'[q] = now
                           \/ keyAt'[q] = keyAt[q] /\ transfers'[q] = transfers[q]
    BY <1>4, <2>1 DEF Execute, Typed, GatewayTyped
  <2>3. WindowInv'
    BY <1>1, <2>1, <2>2 DEF TimeInv, WindowInv
  <2>4. WireInv'
    BY <1>1, <2>1 DEF TimeInv, WireInv
  <2> QED
    BY <1>2, <2>3, <2>4 DEF TimeInv
<1>5. ASSUME NEW p \in Payouts, Settle(p) PROVE TimeInv'
  <2>1. PICK i \in DOMAIN transfers[p], s \in SettledAnswers : transfers' = [transfers EXCEPT ![p][i].state = s]
    BY <1>5 DEF Settle
  <2>2. \A q \in Payouts : transfers'[q] # <<>> => transfers[q] # <<>>
    BY <2>1 DEF Typed, GatewayTyped
  <2>3. UNCHANGED <<now, keyAt>>
    BY <1>5 DEF Settle
  <2> QED
    BY <1>1, <1>2, <2>2, <2>3 DEF TimeInv, WindowInv, WireInv
<1>6. ASSUME Tick PROVE TimeInv'
  <2>1. now' = now + 1 /\ UNCHANGED <<wire, transfers, keyAt>> /\ \A m \in wire : now < m.sent + MaxLatency
    BY <1>6 DEF Tick, gatewayVars
  <2>2. WindowInv'
    BY <1>1, <2>1 DEF TimeInv, WindowInv, Typed, ClockTyped, RowsTyped
  <2>3. WireInv'
    <3>1. \A m \in wire : m.sent \in Nat
      BY DEF Typed, WireTyped, Requests
    <3> QED
      BY <1>1, <2>1, <3>1, TimeAssumption DEF TimeInv, WireInv, Typed, ClockTyped
  <2> QED
    BY <1>2, <2>2, <2>3 DEF TimeInv
<1> QED
  BY <1>3, <1>4, <1>5, <1>6 DEF GatewayStep, Arrive, Replay, Refuse, Reply, Lose, gatewayVars

LEMMA TimeInvHolds == Spec => [](Typed /\ TimeInv)
<1>1. Init => TimeInv
  BY TimeAssumption DEF Init, TimeInv, WindowInv, CopyInv, WireInv
<1>2. ASSUME Typed, ReleaseInv, TimeInv, [Next]_vars PROVE TimeInv'
  <2>1. CASE UNCHANGED vars
    BY <1>2, <2>1 DEF vars, rowVars, gatewayVars, workerVars, TimeInv, WindowInv, CopyInv, WireInv
  <2> QED
    BY <1>2, <2>1, CallerStepTime, WorkerStepTime, GatewayStepTime DEF Next
<1>3. Typed /\ ReleaseInv /\ TimeInv /\ [Next]_vars => TimeInv'
  BY <1>2
<1> QED
  BY <1>1, <1>3, ReleaseInvHolds, PTL DEF Spec

(* A retry never reaches the gateway after it has forgotten the key, so it  *)
(* asks about the transfer instead of making another one: PayMux's window   *)
(* plus the time on the wire fit into the gateway's, and the payout was     *)
(* created before the gateway stored anything.                              *)
THEOREM RetriesAreQuestions == Spec => []RetryIsAQuestion
<1>1. ASSUME Typed, TimeInv PROVE RetryIsAQuestion
  <2> SUFFICES ASSUME NEW m \in wire, m.kind = "resolve", transfers[m.id] # <<>>
               PROVE  now < keyAt[m.id] + KeyTTL
    BY DEF RetryIsAQuestion, KeyKnown
  <2>1. m.id \in Payouts /\ m.sent \in Nat
    BY <1>1 DEF Typed, WireTyped, Requests
  <2>2. created[m.id] <= keyAt[m.id] /\ m.sent < created[m.id] + IdempotencyWindow
        /\ now <= m.sent + MaxLatency
    BY <1>1, <2>1 DEF TimeInv, WindowInv, WireInv
  <2>3. created[m.id] \in Nat /\ keyAt[m.id] \in Nat /\ now \in Nat
    BY <1>1, <2>1 DEF Typed, RowsTyped, GatewayTyped, ClockTyped
  <2> QED
    BY <2>1, <2>2, <2>3, TimeAssumption
<1> QED
  BY <1>1, TimeInvHolds, PTL

-----------------------------------------------------------------------------
(* The history. *)

(* An entry is appended to the history and the row moves to where it leads. *)
Entry(p, from, to) ==
  /\ status' = [status EXCEPT ![p] = to]
  /\ trail' = [trail EXCEPT ![p] = Append(trail[p], [from |-> from, to |-> to])]

(* A copy was taken of a payout the queue has work for. *)
CopiesInFlight ==
  \A w \in Workers :
    /\ \A c \in batch[w] : c.status \in InFlightPayouts
    /\ stage[w] # "idle" => held[w].status \in InFlightPayouts

(* The history ends where the row is, and an end in it is the row's state.  *)
TrailInv ==
  \A p \in Payouts :
    /\ status[p] = "ABSENT" <=> trail[p] = <<>>
    /\ status[p] # "ABSENT" => trail[p][Len(trail[p])].to = status[p]
    /\ \A i \in DOMAIN trail[p] :
         /\ i > 1 => CanTransitionTo(trail[p][i].from, trail[p][i].to)
         /\ trail[p][i].to \in TerminalPayouts => trail[p][i].to = status[p]

HistoryInv == CopiesInFlight /\ TrailInv

LEMMA CopiesStayInFlight ==
  ASSUME Typed, CopiesInFlight, [Next]_vars PROVE CopiesInFlight'
<1>1. CASE UNCHANGED workerVars
  BY <1>1 DEF CopiesInFlight, workerVars
<1>2. ASSUME NEW w \in Workers, Claim(w) PROVE CopiesInFlight'
  <2>1. PICK ps \in SUBSET InFlight : batch' = [batch EXCEPT ![w] = {Copy(q) : q \in ps}]
    BY <1>2 DEF Claim
  <2>2. \A c \in {Copy(q) : q \in ps} : c.status \in InFlightPayouts
    BY DEF InFlight, Copy
  <2> QED
    BY <1>2, <2>1, <2>2 DEF Claim, Typed, WorkersTyped, CopiesInFlight
<1>3. ASSUME NEW w \in Workers, WorkOn(w) PROVE CopiesInFlight'
  <2>1. PICK c \in batch[w] : Submit(w, c) \/ Resolve(w, c) \/ Poll(w, c) \/ Skip(w, c)
    BY <1>3 DEF WorkOn
  <2>2. c.status \in InFlightPayouts /\ (status[c.id] = "APPROVED" => Copy(c.id).status \in InFlightPayouts)
    BY DEF CopiesInFlight, Copy, InFlightPayouts
  <2> QED
    BY <2>1, <2>2 DEF Submit, Resolve, Poll, Skip, Send, Typed, WorkersTyped, CopiesInFlight
<1>4. ASSUME NEW w \in Workers, Record(w) \/ WorkerAnnounce(w) \/ WorkerFault(w)
      PROVE  CopiesInFlight'
  BY <1>4 DEF Record, Finish, WorkerAnnounce, WorkerFault, FailLocally, Timeout, Crash,
     Typed, WorkersTyped, CopiesInFlight
<1>5. ASSUME NEW m \in wire, Arrive(m) PROVE CopiesInFlight'
  <2>1. UNCHANGED <<batch, held>>
    BY <1>5 DEF Arrive, Execute, Replay, Refuse, Reply
  <2>2. \A w \in Workers : stage'[w] # "idle" => stage[w] # "idle"
    BY <1>5 DEF Arrive, Execute, Replay, Refuse, Reply, Typed, WorkersTyped, WireTyped
  <2> QED
    BY <2>1, <2>2 DEF CopiesInFlight
<1>6. (\E c \in Callers : CallerStep(c)) \/ Tick \/ UNCHANGED vars => UNCHANGED workerVars
  BY DEF CallerStep, Request, ReadForReview, Approve, Reject, CallerAnnounce, Abandon, Tick, vars
<1>7. (\E m \in wire : Lose(m)) \/ (\E p \in Payouts : Settle(p)) => UNCHANGED workerVars
  BY DEF Lose, Settle
<1> QED
  BY <1>1, <1>2, <1>3, <1>4, <1>5, <1>6, <1>7 DEF Next, GatewayStep

LEMMA OutcomeAllowed ==
  ASSUME NEW c, NEW s, c.status \in InFlightPayouts, Outcome(c, s) # "none"
  PROVE  CanTransitionTo(c.status, Outcome(c, s)) /\ Outcome(c, s) \in PayoutStatuses
  BY StatusFacts DEF Outcome, CanTransitionTo, PayoutSuccessors, InFlightPayouts

(* Every step leaves states and history alone, stores a new payout, or adds *)
(* one entry that the allow-list permits from the row and from the copy.    *)
LEMMA HistoryStep ==
  ASSUME Typed, CopiesInFlight, [Next]_vars
  PROVE  \/ UNCHANGED <<status, trail>>
         \/ \E p \in Payouts : \E to \in {"REQUESTED", "APPROVED"} :
              status[p] = "ABSENT" /\ Entry(p, "ABSENT", to)
         \/ \E p \in Payouts : \E from, to \in PayoutStatuses :
              to \in PayoutSuccessors(status[p]) /\ CanTransitionTo(from, to) /\ Entry(p, from, to)
<1>1. ASSUME NEW p, NEW from, NEW to, NEW r, NEW e, NEW a, Transition(p, from, to, r, e, a)
      PROVE  to \in PayoutSuccessors(status[p]) /\ Entry(p, from, to)
  BY <1>1, StatusFacts DEF Transition, Entry
<1>2. ASSUME NEW c \in Callers, Approve(c) \/ Reject(c)
      PROVE  \/ UNCHANGED <<status, trail>>
             \/ \E to \in {"APPROVED", "REJECTED"} :
                  /\ to \in PayoutSuccessors(status[api[c].id])
                  /\ CanTransitionTo("REQUESTED", to) /\ Entry(api[c].id, "REQUESTED", to)
  <2>1. CanTransitionTo("REQUESTED", "APPROVED") /\ CanTransitionTo("REQUESTED", "REJECTED")
    BY DEF CanTransitionTo, PayoutSuccessors
  <2> QED
    BY <1>1, <1>2, <2>1 DEF Approve, Reject, Stale, rowVars
<1>3. ASSUME NEW w \in Workers, Record(w)
      PROVE  \/ UNCHANGED <<status, trail>>
             \/ \E to \in PayoutStatuses :
                  /\ to \in PayoutSuccessors(status[held[w].id])
                  /\ CanTransitionTo(held[w].status, to) /\ Entry(held[w].id, held[w].status, to)
  <2>1. held[w].status \in InFlightPayouts
    BY <1>3 DEF Record, CopiesInFlight
  <2> QED
    BY <1>1, <1>3, <2>1, OutcomeAllowed DEF Record, Stale, rowVars
<1>4. ASSUME NEW c \in Callers, NEW p \in Payouts, Request(c, p)
      PROVE  \E to \in {"REQUESTED", "APPROVED"} : status[p] = "ABSENT" /\ Entry(p, "ABSENT", to)
  BY <1>4 DEF Request, Entry
<1>5. ASSUME NEW c \in Callers, (\E p \in Payouts, a \in Admins : ReadForReview(c, p, a))
             \/ CallerAnnounce(c) \/ Abandon(c)
      PROVE  UNCHANGED <<status, trail>>
  BY <1>5 DEF ReadForReview, CallerAnnounce, Abandon, rowVars
<1>6. ASSUME NEW w \in Workers, Claim(w) \/ WorkOn(w) \/ WorkerAnnounce(w) \/ WorkerFault(w)
      PROVE  UNCHANGED <<status, trail>>
  BY <1>6 DEF Claim, WorkOn, Submit, Resolve, Poll, Skip, Send, WorkerAnnounce, WorkerFault,
     FailLocally, Timeout, Crash, rowVars
<1>7. GatewayStep \/ Tick \/ UNCHANGED vars => UNCHANGED <<status, trail>>
  BY DEF GatewayStep, Arrive, Execute, Replay, Refuse, Reply, Lose, Settle, Tick, vars, rowVars
<1>8. \A c \in Callers : Approve(c) \/ Reject(c) => api[c].id \in Payouts
  BY DEF Approve, Reject, Typed, CallersTyped
<1>9. \A w \in Workers : Record(w) => held[w].id \in Payouts /\ held[w].status \in PayoutStatuses
  BY DEF Record, Typed, WorkersTyped, CopiesInFlight, InFlightPayouts, PayoutStatuses
<1>10. {"REQUESTED", "APPROVED", "REJECTED"} \subseteq PayoutStatuses
  BY DEF PayoutStatuses
<1> QED
  BY <1>2, <1>3, <1>4, <1>5, <1>6, <1>7, <1>8, <1>9, <1>10 DEF Next, CallerStep

LEMMA EntryKeepsHistory ==
  ASSUME Typed, TrailInv, NEW p \in Payouts, NEW from, NEW to \in PayoutStatuses,
         status[p] \notin TerminalPayouts, Entry(p, from, to),
         trail[p] = <<>> \/ CanTransitionTo(from, to), [from |-> from, to |-> to] \in Steps
  PROVE  TrailInv'
<1> DEFINE e == [from |-> from, to |-> to]
<1>1. /\ trail[p] \in Seq(Steps) /\ Len(trail[p]) \in Nat
      /\ Append(trail[p], e) \in Seq(Steps)
      /\ Len(Append(trail[p], e)) = Len(trail[p]) + 1
      /\ \A i \in 1..Len(trail[p]) : Append(trail[p], e)[i] = trail[p][i]
      /\ Append(trail[p], e)[Len(trail[p]) + 1] = e
  BY DEF Typed, RowsTyped
<1>2. trail'[p] = Append(trail[p], e) /\ status'[p] = to
  BY DEF Entry, Typed, RowsTyped
<1>3. \A q \in Payouts \ {p} : trail'[q] = trail[q] /\ status'[q] = status[q]
  BY DEF Entry, Typed, RowsTyped
<1>4. e.from = from /\ e.to = to
  OBVIOUS
<1> HIDE DEF e
<1>5. \A i \in 1..Len(trail[p]) : trail[p][i].to \notin TerminalPayouts
  BY <1>1 DEF TrailInv
<1>6. trail'[p] # <<>> /\ status'[p] # "ABSENT" /\ trail'[p][Len(trail'[p])].to = status'[p]
  BY <1>1, <1>2, <1>4 DEF PayoutStatuses
<1>7. ASSUME NEW i \in DOMAIN trail'[p]
      PROVE  /\ i > 1 => CanTransitionTo(trail'[p][i].from, trail'[p][i].to)
             /\ trail'[p][i].to \in TerminalPayouts => trail'[p][i].to = status'[p]
  <2>1. i \in 1..(Len(trail[p]) + 1)
    BY <1>1, <1>2, <1>7
  <2>2. CASE i \in 1..Len(trail[p])
    BY <1>1, <1>2, <1>5, <2>2 DEF TrailInv
  <2>3. CASE i = Len(trail[p]) + 1
    <3>1. i > 1 => trail[p] # <<>>
      BY <1>1, <2>3
    <3> QED
      BY <1>1, <1>2, <1>4, <2>3, <3>1
  <2> QED
    BY <1>1, <2>1, <2>2, <2>3
<1> QED
  BY <1>3, <1>6, <1>7 DEF TrailInv

LEMMA HistoryInvHolds == Spec => [](Typed /\ HistoryInv)
<1>1. Init => HistoryInv
  BY DEF Init, HistoryInv, CopiesInFlight, TrailInv
<1>2. ASSUME Typed, HistoryInv, [Next]_vars PROVE HistoryInv'
  <2>1. CASE UNCHANGED <<status, trail>>
    BY <1>2, <2>1, CopiesStayInFlight DEF HistoryInv, TrailInv
  <2>2. ASSUME NEW p \in Payouts, NEW to \in {"REQUESTED", "APPROVED"},
               status[p] = "ABSENT", Entry(p, "ABSENT", to)
        PROVE  TrailInv'
    <3>1. /\ to \in PayoutStatuses /\ status[p] \notin TerminalPayouts /\ trail[p] = <<>>
          /\ [from |-> "ABSENT", to |-> to] \in Steps
      BY <1>2, <2>2 DEF PayoutStatuses, TerminalPayouts, Steps, RowStatuses, HistoryInv, TrailInv
    <3> QED
      BY <1>2, <2>2, <3>1, EntryKeepsHistory DEF HistoryInv
  <2>3. ASSUME NEW p \in Payouts, NEW from \in PayoutStatuses, NEW to \in PayoutStatuses,
               to \in PayoutSuccessors(status[p]), CanTransitionTo(from, to), Entry(p, from, to)
        PROVE  TrailInv'
    <3>1. status[p] \notin TerminalPayouts /\ [from |-> from, to |-> to] \in Steps
      BY <2>3 DEF TerminalPayouts, PayoutSuccessors, Steps, RowStatuses
    <3> QED
      BY <1>2, <2>3, <3>1, EntryKeepsHistory DEF HistoryInv
  <2> QED
    BY <1>2, <2>1, <2>2, <2>3, HistoryStep, CopiesStayInFlight DEF HistoryInv
<1>3. Typed /\ HistoryInv /\ [Next]_vars => HistoryInv'
  BY <1>2
<1> QED
  BY <1>1, <1>3, AlwaysTyped, PTL DEF Spec

(* The history ends where the row is and holds only allowed transitions,    *)
(* although the entries are written from copies that may be stale: the copy *)
(* was in flight when it was taken, and the outcome is judged against it.   *)
THEOREM HistoryIsTrue == Spec => []HistoryMatchesRow
<1>1. HistoryInv => HistoryMatchesRow
  BY DEF HistoryInv, TrailInv, HistoryMatchesRow
<1> QED
  BY <1>1, HistoryInvHolds, PTL

-----------------------------------------------------------------------------
(* Released by another. *)

(* What is asked for by one administrator is released by another, and a     *)
(* review is made by an administrator.                                      *)
ReviewInv ==
  /\ \A c \in Callers : api[c].stage = "reviewing" => api[c].who \in Admins
  /\ \A p \in Payouts :
       Released(p) /\ trail[p][1].to = "REQUESTED" => approvedBy[p] \in Admins \ {requestedBy[p]}

LEMMA FirstEntryStays ==
  ASSUME Typed, NEW p \in Payouts, trail[p] # <<>>, NEW e \in Steps
  PROVE  Append(trail[p], e)[1] = trail[p][1]
  BY DEF Typed, RowsTyped

(* A payout a worker holds was released, so what is recorded about it       *)
(* releases nothing.                                                        *)
LEMMA RecordKeepsReview ==
  ASSUME Typed, ReleaseInv, HistoryInv, ReviewInv, NEW w \in Workers, Record(w)
  PROVE  ReviewInv'
<1> DEFINE p == held[w].id
           to == Outcome(held[w], answer[w].status)
<1>1. /\ stage[w] = "answered" /\ p \in Payouts /\ held[w].status \in RowStatuses
      /\ answer[w] \in Answers /\ api' = api
  BY DEF Record, Finish, Typed, WorkersTyped, Copies
<1>2. Released(p) /\ trail[p] # <<>>
  <2>1. Released(p)
    BY <1>1 DEF ReleaseInv, Engaged
  <2> QED
    BY <1>1, <2>1 DEF Released, ReleasedPayouts, HistoryInv, TrailInv
<1>3. CASE UNCHANGED rowVars
  BY <1>1, <1>3 DEF ReviewInv, Released, rowVars
<1>4. ASSUME NEW r, NEW e, to # "none", Transition(p, held[w].status, to, r, e, NoAdmin)
      PROVE  ReviewInv'
  <2>1. to \in PayoutStatuses
    BY <1>1, <1>4, OutcomeFacts DEF Typed, WorkersTyped
  <2>2. [from |-> held[w].status, to |-> to] \in Steps
    BY <1>1, <2>1 DEF Steps
  <2>3. trail'[p][1] = trail[p][1]
    BY <1>1, <1>2, <1>4, <2>2, FirstEntryStays DEF Transition, Typed, RowsTyped
  <2>4. \A q \in Payouts \ {p} : trail'[q] = trail[q] /\ status'[q] = status[q]
    BY <1>1, <1>4 DEF Transition, Typed, RowsTyped
  <2>5. approvedBy' = approvedBy /\ requestedBy' = requestedBy
    BY <1>4 DEF Transition, Typed, RowsTyped
  <2> QED
    BY <1>1, <1>2, <2>3, <2>4, <2>5 DEF ReviewInv, Released
<1> HIDE DEF p, to
<1> QED
  BY <1>3, <1>4 DEF Record, Stale, p, to

(* A review releases in the name of somebody who did not ask for it.        *)
LEMMA DecisionKeepsReview ==
  ASSUME Typed, HistoryInv, ReviewInv, NEW c \in Callers, Approve(c) \/ Reject(c)
  PROVE  ReviewInv'
<1> DEFINE p == api[c].id
           a == api[c].who
<1>1. p \in Payouts /\ a \in Admins /\ api[c] \in Handlers
  BY DEF Approve, Reject, Typed, CallersTyped, ReviewInv
<1>2. \A d \in Callers : api'[d].stage = "reviewing" => api'[d] = api[d]
  BY <1>1 DEF Approve, Reject, Decided, NoHandler, Typed, CallersTyped, Handlers
<1>3. CASE UNCHANGED rowVars
  BY <1>2, <1>3 DEF ReviewInv, Released, rowVars
<1>4. ASSUME NEW to \in {"APPROVED", "REJECTED"}, NEW by,
             Transition(p, "REQUESTED", to, 0, 0, by),
             to = "APPROVED" => by = a /\ requestedBy[p] # a
      PROVE  ReviewInv'
  <2>1. trail[p] # <<>> /\ [from |-> "REQUESTED", to |-> to] \in Steps
    BY <1>1, <1>4 DEF Transition, PayoutPredecessorsOf, PayoutStatuses, HistoryInv, TrailInv,
       Steps, RowStatuses
  <2>2. trail'[p][1] = trail[p][1]
    BY <1>1, <1>4, <2>1, FirstEntryStays DEF Transition, Typed, RowsTyped
  <2>3. \A q \in Payouts \ {p} :
          /\ trail'[q] = trail[q] /\ status'[q] = status[q] /\ approvedBy'[q] = approvedBy[q]
    BY <1>1, <1>4 DEF Transition, Typed, RowsTyped
  <2>4. requestedBy' = requestedBy /\ status'[p] = to
    BY <1>1, <1>4 DEF Transition, Typed, RowsTyped
  <2>5. to = "APPROVED" => approvedBy'[p] = a
    BY <1>1, <1>4, NullAssumption DEF Transition, Typed, RowsTyped
  <2>6. to = "REJECTED" => status'[p] \notin ReleasedPayouts
    BY <2>4 DEF ReleasedPayouts
  <2>7. \A q \in Payouts : status'[q] \in ReleasedPayouts /\ trail'[q][1].to = "REQUESTED"
                           => approvedBy'[q] \in Admins \ {requestedBy'[q]}
    <3>1. CASE to = "APPROVED"
      BY <1>1, <1>4, <2>3, <2>4, <2>5, <3>1 DEF ReviewInv, Released
    <3>2. CASE to = "REJECTED"
      BY <2>3, <2>4, <2>6, <3>2 DEF ReviewInv, Released
    <3> QED
      BY <3>1, <3>2
  <2> HIDE DEF p, a
  <2> QED
    BY <1>1, <1>2, <2>7 DEF ReviewInv, Released
<1> HIDE DEF p, a
<1> QED
  BY <1>3, <1>4 DEF Approve, Reject, Stale, MayApprove, p, a

LEMMA ReviewInvHolds == Spec => [](ReleaseInv /\ HistoryInv /\ ReviewInv)
<1>1. Init => ReviewInv
  BY DEF Init, ReviewInv, Released, ReleasedPayouts, NoHandler
<1>2. ASSUME Typed, ReleaseInv, HistoryInv, ReviewInv, [Next]_vars PROVE ReviewInv'
  <2>1. CASE UNCHANGED <<rowVars, api>>
    BY <1>2, <2>1 DEF ReviewInv, Released, rowVars
  <2>2. ASSUME NEW c \in Callers, NEW p \in Payouts, Request(c, p) PROVE ReviewInv'
    <3>1. PICK s \in {"REQUESTED", "APPROVED"}, by \in Admins \cup {NoAdmin} :
            /\ status' = [status EXCEPT ![p] = s]
            /\ requestedBy' = [requestedBy EXCEPT ![p] = by]
            /\ trail' = [trail EXCEPT ![p] = Append(@, [from |-> "ABSENT", to |-> s])]
      BY <2>2 DEF Request
    <3>0. api'[c].stage = "announcing" /\ \A d \in Callers \ {c} : api'[d] = api[d]
      BY <1>2, <2>2 DEF Request, Typed, CallersTyped
    <3>2. trail[p] = <<>>
      BY <1>2, <2>2 DEF Request, HistoryInv, TrailInv
    <3>3. trail'[p][1].to = s /\ status'[p] = s
      BY <1>2, <3>1, <3>2 DEF Typed, RowsTyped
    <3>4. ~(Released(p)' /\ trail'[p][1].to = "REQUESTED")
      BY <3>3 DEF Released, ReleasedPayouts
    <3>5. approvedBy' = approvedBy
      BY <2>2 DEF Request
    <3>6. \A q \in Payouts \ {p} :
            trail'[q] = trail[q] /\ status'[q] = status[q] /\ requestedBy'[q] = requestedBy[q]
      BY <1>2, <3>1 DEF Typed, RowsTyped
    <3> QED
      BY <1>2, <3>0, <3>4, <3>5, <3>6 DEF ReviewInv, Released
  <2>3. ASSUME NEW c \in Callers,
               (\E p \in Payouts, a \in Admins : ReadForReview(c, p, a))
               \/ CallerAnnounce(c) \/ Abandon(c)
        PROVE  ReviewInv'
    <3>1. UNCHANGED rowVars
      BY <2>3 DEF ReadForReview, CallerAnnounce, Abandon
    <3>2. \A d \in Callers : api'[d].stage = "reviewing" => api'[d].who \in Admins
      <4>1. CASE \E p \in Payouts, a \in Admins : ReadForReview(c, p, a)
        BY <1>2, <4>1 DEF ReadForReview, ReviewInv, Typed, CallersTyped
      <4>2. CASE CallerAnnounce(c)
        BY <1>2, <4>2 DEF CallerAnnounce, NoHandler, ReviewInv, Typed, CallersTyped, Handlers
      <4>3. CASE Abandon(c)
        BY <1>2, <4>3 DEF Abandon, NoHandler, ReviewInv, Typed, CallersTyped
      <4> QED
        BY <2>3, <4>1, <4>2, <4>3
    <3> QED
      BY <1>2, <3>1, <3>2 DEF ReviewInv, Released, rowVars
  <2>4. ASSUME NEW w \in Workers, Claim(w) \/ WorkOn(w) \/ WorkerAnnounce(w) \/ WorkerFault(w)
        PROVE  UNCHANGED <<rowVars, api>>
    BY <2>4 DEF Claim, WorkOn, Submit, Resolve, Poll, Skip, Send, WorkerAnnounce, WorkerFault,
       FailLocally, Timeout, Crash
  <2>5. GatewayStep \/ Tick \/ UNCHANGED vars => UNCHANGED <<rowVars, api>>
    BY DEF GatewayStep, Arrive, Execute, Replay, Refuse, Reply, Lose, Settle, Tick, vars
  <2> QED
    BY <1>2, <2>1, <2>2, <2>3, <2>4, <2>5, RecordKeepsReview, DecisionKeepsReview
       DEF Next, CallerStep
<1>3. Typed /\ ReleaseInv /\ HistoryInv /\ ReviewInv /\ [Next]_vars => ReviewInv'
  BY <1>2
<1> QED
  BY <1>1, <1>3, ReleaseInvHolds, HistoryInvHolds, PTL DEF Spec

(* Money asked for by an administrator moves only after another one         *)
(* released it, whatever two reviewers read and however late they decide.   *)
THEOREM AnotherReleases == Spec => []ReleasedByAnother
<1>1. ReleaseInv /\ ReviewInv => ReleasedByAnother
  BY DEF ReleaseInv, ReviewInv, Engaged, ReleasedByAnother
<1> QED
  BY <1>1, ReviewInvHolds, PTL

-----------------------------------------------------------------------------
(* References. *)

(* A claim that transfer number r among ts is in state s at the gateway.    *)
GoodRef(ts, s, r) ==
  s \in {"SUBMITTED", "COMPLETED"} =>
    r \in DOMAIN ts /\ (s = "COMPLETED" => ts[r].state = "COMPLETED")

(* What the gateway answered at first, what a worker was answered and what  *)
(* the row says are good references.                                        *)
AnswersFinal ==
  \A p \in Payouts : \A i \in DOMAIN transfers[p] :
    transfers[p][i].answer = "COMPLETED" => transfers[p][i].state = "COMPLETED"

AnswersGood ==
  \A w \in Workers :
    stage[w] = "answered" => GoodRef(transfers[held[w].id], answer[w].status, answer[w].ref)

RowsGood == \A p \in Payouts : GoodRef(transfers[p], status[p], ref[p])

RefsInv == AnswersFinal /\ AnswersGood /\ RowsGood

LEMMA ExecuteAppends ==
  ASSUME Typed, NEW m \in wire, Execute(m)
  PROVE  /\ m.id \in Payouts
         /\ \A p \in Payouts \ {m.id} : transfers'[p] = transfers[p]
         /\ \E a \in CreateAnswers :
              /\ DOMAIN transfers'[m.id] = 1..(Len(transfers[m.id]) + 1)
              /\ \A i \in DOMAIN transfers[m.id] : transfers'[m.id][i] = transfers[m.id][i]
              /\ transfers'[m.id][Len(transfers[m.id]) + 1]
                   = [answer |-> a, state |-> IF a = "UNMAPPED" THEN "SUBMITTED" ELSE a]
              /\ Reply(m, a, Len(transfers[m.id]) + 1)
<1>1. m.id \in Payouts /\ transfers[m.id] \in Seq(Transfers)
  BY DEF Typed, WireTyped, Requests, GatewayTyped
<1>2. PICK a \in CreateAnswers :
        /\ transfers' = [transfers EXCEPT ![m.id] =
             Append(@, [answer |-> a, state |-> IF a = "UNMAPPED" THEN "SUBMITTED" ELSE a])]
        /\ Reply(m, a, Len(transfers[m.id]) + 1)
  BY DEF Execute
<1> DEFINE t == [answer |-> a, state |-> IF a = "UNMAPPED" THEN "SUBMITTED" ELSE a]
<1>3. /\ t \in Transfers
      /\ DOMAIN Append(transfers[m.id], t) = 1..(Len(transfers[m.id]) + 1)
      /\ \A i \in DOMAIN transfers[m.id] : Append(transfers[m.id], t)[i] = transfers[m.id][i]
      /\ Append(transfers[m.id], t)[Len(transfers[m.id]) + 1] = t
  <2>1. t \in Transfers
    BY AnswerAssumption DEF Transfers, TransferStates
  <2> HIDE DEF t
  <2> QED
    BY <1>1, <2>1
<1>4. transfers'[m.id] = Append(transfers[m.id], t)
      /\ \A p \in Payouts \ {m.id} : transfers'[p] = transfers[p]
  BY <1>1, <1>2 DEF Typed, GatewayTyped
<1> QED
  BY <1>1, <1>2, <1>3, <1>4

LEMMA SettleFinishes ==
  ASSUME Typed, NEW p \in Payouts, Settle(p)
  PROVE  \A q \in Payouts :
           /\ DOMAIN transfers'[q] = DOMAIN transfers[q]
           /\ \A i \in DOMAIN transfers[q] :
                /\ transfers'[q][i].answer = transfers[q][i].answer
                /\ transfers[q][i].state # "SUBMITTED" => transfers'[q][i].state = transfers[q][i].state
<1>1. PICK i \in DOMAIN transfers[p], s \in SettledAnswers :
        transfers[p][i].state = "SUBMITTED" /\ transfers' = [transfers EXCEPT ![p][i].state = s]
  BY DEF Settle
<1>2. transfers[p] \in Seq(Transfers) /\ transfers[p][i] \in Transfers
  BY DEF Typed, GatewayTyped
<1> DEFINE t == [transfers[p][i] EXCEPT !.state = s]
           q == [transfers[p] EXCEPT ![i] = t]
<1>3. t.answer = transfers[p][i].answer
  BY <1>2 DEF Transfers
<1>4. transfers'[p] = q /\ \A r \in Payouts \ {p} : transfers'[r] = transfers[r]
  BY <1>1 DEF Typed, GatewayTyped
<1> HIDE DEF t
<1>5. DOMAIN q = DOMAIN transfers[p] /\ q[i] = t
      /\ \A j \in DOMAIN transfers[p] \ {i} : q[j] = transfers[p][j]
  BY <1>2
<1> HIDE DEF q
<1> QED
  BY <1>1, <1>3, <1>4, <1>5

LEMMA TransferSteps ==
  ASSUME [Next]_vars
  PROVE  UNCHANGED transfers \/ (\E m \in wire : Execute(m)) \/ (\E p \in Payouts : Settle(p))
<1>1. ASSUME NEW m \in wire, Replay(m) \/ Refuse(m) \/ Lose(m) PROVE UNCHANGED transfers
  BY <1>1 DEF Replay, Refuse, Lose, gatewayVars
<1>2. ASSUME NEW c \in Callers, CallerStep(c) PROVE UNCHANGED transfers
  BY <1>2 DEF CallerStep, Request, ReadForReview, Approve, Reject, CallerAnnounce, Abandon, gatewayVars
<1>3. ASSUME NEW w \in Workers,
             Claim(w) \/ WorkOn(w) \/ Record(w) \/ WorkerAnnounce(w) \/ WorkerFault(w)
      PROVE  UNCHANGED transfers
  BY <1>3 DEF Claim, WorkOn, Submit, Resolve, Poll, Skip, Send, Record, Finish, WorkerAnnounce,
     WorkerFault, FailLocally, Timeout, Crash, gatewayVars
<1>4. Tick \/ UNCHANGED vars => UNCHANGED transfers
  BY DEF Tick, vars, gatewayVars
<1> QED
  BY <1>1, <1>2, <1>3, <1>4 DEF Next, GatewayStep, Arrive

(* The gateway forgets no transfer and reopens none that it completed.      *)
LEMMA TransfersStay ==
  ASSUME Typed, [Next]_vars, NEW p \in Payouts, NEW s, NEW r, GoodRef(transfers[p], s, r)
  PROVE  GoodRef(transfers'[p], s, r)
<1>1. ASSUME UNCHANGED transfers PROVE GoodRef(transfers'[p], s, r)
  BY <1>1 DEF GoodRef
<1>2. ASSUME NEW m \in wire, Execute(m) PROVE GoodRef(transfers'[p], s, r)
  <2>1. CASE p # m.id
    BY <1>1, <1>2, <2>1, ExecuteAppends DEF GoodRef
  <2>2. CASE p = m.id
    <3>1. /\ DOMAIN transfers[p] = 1..Len(transfers[p]) /\ Len(transfers[p]) \in Nat
      BY DEF Typed, GatewayTyped
    <3>2. /\ DOMAIN transfers'[p] = 1..(Len(transfers[p]) + 1)
          /\ \A i \in DOMAIN transfers[p] : transfers'[p][i] = transfers[p][i]
      BY <1>2, <2>2, ExecuteAppends
    <3>3. DOMAIN transfers[p] \subseteq DOMAIN transfers'[p]
      BY <3>1, <3>2
    <3> QED
      BY <3>2, <3>3 DEF GoodRef
  <2> QED
    BY <2>1, <2>2
<1>3. ASSUME NEW q \in Payouts, Settle(q) PROVE GoodRef(transfers'[p], s, r)
  BY <1>3, SettleFinishes DEF GoodRef
<1> QED
  BY <1>1, <1>2, <1>3, TransferSteps

LEMMA AnswersStayFinal ==
  ASSUME Typed, AnswersFinal, [Next]_vars PROVE AnswersFinal'
<1>1. ASSUME UNCHANGED transfers PROVE AnswersFinal'
  BY <1>1 DEF AnswersFinal
<1>2. ASSUME NEW m \in wire, Execute(m) PROVE AnswersFinal'
  <2>1. \A p \in Payouts : transfers[p] \in Seq(Transfers)
    BY DEF Typed, GatewayTyped
  <2>2. PICK a \in CreateAnswers :
              /\ DOMAIN transfers'[m.id] = 1..(Len(transfers[m.id]) + 1)
              /\ \A i \in DOMAIN transfers[m.id] : transfers'[m.id][i] = transfers[m.id][i]
              /\ transfers'[m.id][Len(transfers[m.id]) + 1]
                   = [answer |-> a, state |-> IF a = "UNMAPPED" THEN "SUBMITTED" ELSE a]
    BY <1>2, ExecuteAppends
  <2>3. \A i \in DOMAIN transfers'[m.id] :
          i \in DOMAIN transfers[m.id] \/ i = Len(transfers[m.id]) + 1
    BY <1>2, <2>1, <2>2, ExecuteAppends
  <2> QED
    BY <1>2, <2>2, <2>3, ExecuteAppends DEF AnswersFinal
<1>3. ASSUME NEW q \in Payouts, Settle(q) PROVE AnswersFinal'
  BY <1>3, SettleFinishes DEF AnswersFinal
<1> QED
  BY <1>1, <1>2, <1>3, TransferSteps

(* An answer about a transfer names it, and says no more than it knows.     *)
LEMMA ReplyGood ==
  ASSUME Typed, AnswersGood, [Next]_vars, NEW m \in wire, NEW s, NEW r,
         Reply(m, s, r), GoodRef(transfers'[m.id], s, r)
  PROVE  AnswersGood'
<1> SUFFICES ASSUME NEW w \in Workers, stage'[w] = "answered"
             PROVE  GoodRef(transfers'[held'[w].id], answer'[w].status, answer'[w].ref)
  BY DEF AnswersGood
<1>1. \/ stage[w] = "answered" /\ answer'[w] = answer[w]
      \/ answer'[w] = [status |-> s, ref |-> r] /\ m.id = held[w].id
  BY NullAssumption DEF Reply, Typed, WorkersTyped, WireTyped, Requests
<1>2. held'[w] = held[w]
  BY DEF Reply
<1>3. CASE stage[w] = "answered" /\ answer'[w] = answer[w]
  BY <1>2, <1>3, TransfersStay DEF Typed, WorkersTyped, AnswersGood
<1>4. CASE answer'[w] = [status |-> s, ref |-> r] /\ m.id = held[w].id
  BY <1>2, <1>4
<1> QED
  BY <1>1, <1>3, <1>4

LEMMA AnswersStayGood ==
  ASSUME Typed, AnswersFinal, AnswersGood, [Next]_vars PROVE AnswersGood'
<1>1. ASSUME \A w \in Workers : stage'[w] = "answered" =>
               stage[w] = "answered" /\ held'[w] = held[w] /\ answer'[w] = answer[w]
      PROVE  AnswersGood'
  BY <1>1, TransfersStay DEF Typed, WorkersTyped, AnswersGood
<1>2. ASSUME NEW m \in wire, Execute(m) PROVE AnswersGood'
  <2>1. PICK a \in CreateAnswers :
          /\ DOMAIN transfers'[m.id] = 1..(Len(transfers[m.id]) + 1)
          /\ transfers'[m.id][Len(transfers[m.id]) + 1]
               = [answer |-> a, state |-> IF a = "UNMAPPED" THEN "SUBMITTED" ELSE a]
          /\ Reply(m, a, Len(transfers[m.id]) + 1)
    BY <1>2, ExecuteAppends
  <2>2. Len(transfers[m.id]) \in Nat
    BY <1>2, ExecuteAppends DEF Typed, GatewayTyped
  <2>3. GoodRef(transfers'[m.id], a, Len(transfers[m.id]) + 1)
    BY <2>1, <2>2 DEF GoodRef
  <2> QED
    BY <2>1, <2>3, ReplyGood
<1>3. ASSUME NEW m \in wire, Replay(m) PROVE AnswersGood'
  <2>1. m.id \in Payouts /\ transfers[m.id] \in Seq(Transfers) /\ transfers[m.id] # <<>>
    BY <1>3 DEF Replay, KeyKnown, Typed, WireTyped, Requests, GatewayTyped
  <2>2. Len(transfers[m.id]) \in DOMAIN transfers[m.id]
    BY <2>1
  <2>3. GoodRef(transfers[m.id], transfers[m.id][Len(transfers[m.id])].answer, Len(transfers[m.id]))
    BY <2>1, <2>2 DEF GoodRef, AnswersFinal
  <2> QED
    BY <1>3, <2>3, ReplyGood DEF Replay, gatewayVars
<1>4. ASSUME NEW m \in wire, Refuse(m) PROVE AnswersGood'
  BY <1>4, ReplyGood DEF Refuse, GoodRef
<1>5. ASSUME NEW w \in Workers, NEW c \in batch[w], Poll(w, c) PROVE AnswersGood'
  <2>1. c.id \in Payouts /\ c.ref \in 1..Len(transfers[c.id]) /\ Len(transfers[c.id]) \in Nat
    BY <1>5 DEF Poll, Typed, WorkersTyped, WorkerRefs, Copies, GatewayTyped
  <2>2. GoodRef(transfers[c.id], transfers[c.id][c.ref].state, c.ref)
    BY <2>1 DEF GoodRef, Typed, GatewayTyped
  <2>3. transfers' = transfers
    BY <1>5 DEF Poll, gatewayVars
  <2> QED
    BY <1>5, <2>2, <2>3 DEF Poll, Typed, WorkersTyped, AnswersGood
<1>6. ASSUME NEW w \in Workers, Timeout(w) PROVE AnswersGood'
  BY <1>6 DEF Timeout, Typed, WorkersTyped, AnswersGood, GoodRef, gatewayVars
<1>7. ASSUME NEW w \in Workers,
             Claim(w) \/ Record(w) \/ WorkerAnnounce(w) \/ Crash(w)
             \/ \E c \in batch[w] : Submit(w, c) \/ Resolve(w, c) \/ Skip(w, c) \/ FailLocally(w, c)
      PROVE  AnswersGood'
  BY <1>1, <1>7 DEF Claim, Submit, Resolve, Skip, Send, FailLocally, Record, Finish, WorkerAnnounce,
     Crash, Typed, WorkersTyped
<1>8. (\E c \in Callers : CallerStep(c)) \/ Tick \/ UNCHANGED vars => UNCHANGED workerVars
  BY DEF CallerStep, Request, ReadForReview, Approve, Reject, CallerAnnounce, Abandon, Tick, vars
<1>9. (\E m \in wire : Lose(m)) \/ (\E p \in Payouts : Settle(p)) => UNCHANGED workerVars
  BY DEF Lose, Settle
<1>10. UNCHANGED workerVars => AnswersGood'
  BY <1>1 DEF workerVars
<1> QED
  BY <1>2, <1>3, <1>4, <1>5, <1>6, <1>7, <1>8, <1>9, <1>10 DEF Next, WorkOn, WorkerFault,
     GatewayStep, Arrive

(* A row that enters SUBMITTED or COMPLETED does so with the reference the  *)
(* worker was answered with.                                                *)
LEMMA RowsStayGood ==
  ASSUME Typed, AnswersGood, RowsGood, [Next]_vars PROVE RowsGood'
<1>1. ASSUME NEW q \in Payouts,
             \/ status'[q] = status[q] /\ ref'[q] = ref[q]
             \/ status'[q] \notin {"SUBMITTED", "COMPLETED"}
      PROVE  GoodRef(transfers'[q], status'[q], ref'[q])
  BY <1>1, TransfersStay DEF RowsGood, GoodRef
<1>2. ASSUME UNCHANGED rowVars PROVE RowsGood'
  BY <1>1, <1>2 DEF rowVars, RowsGood
<1>3. ASSUME NEW c \in Callers, NEW p \in Payouts, Request(c, p) PROVE RowsGood'
  <2>1. \A q \in Payouts : ref'[q] = ref[q]
                           /\ (status'[q] = status[q] \/ status'[q] \in {"REQUESTED", "APPROVED"})
    BY <1>3 DEF Request, Typed, RowsTyped
  <2> QED
    BY <1>1, <2>1 DEF RowsGood
<1>4. ASSUME NEW c \in Callers, Approve(c) \/ Reject(c) PROVE RowsGood'
  <2>1. api[c].id \in Payouts
    BY <1>4 DEF Approve, Reject, Typed, CallersTyped
  <2>2. \A q \in Payouts : ref'[q] = ref[q]
                           /\ (status'[q] = status[q] \/ status'[q] \in {"APPROVED", "REJECTED"})
    BY <1>4, <2>1 DEF Approve, Reject, Transition, Stale, rowVars, Typed, RowsTyped
  <2> QED
    BY <1>1, <2>2 DEF RowsGood
<1>5. ASSUME NEW w \in Workers, Record(w) PROVE RowsGood'
  <2> DEFINE p == held[w].id
             s == answer[w].status
             to == Outcome(held[w], s)
  <2>1. p \in Payouts /\ stage[w] = "answered" /\ answer[w].ref \in Nat
    BY <1>5 DEF Record, Typed, WorkersTyped, Answers
  <2>2. to \in {"SUBMITTED", "COMPLETED"} => to = s
    BY DEF Outcome
  <2>3. UNCHANGED transfers
    BY <1>5 DEF Record, Finish, gatewayVars
  <2>4. GoodRef(transfers[p], s, answer[w].ref)
    BY <2>1 DEF AnswersGood
  <2>5. CASE UNCHANGED rowVars
    BY <1>2, <2>5
  <2>6. ASSUME NEW e, Transition(p, held[w].status, to, IF to = s THEN answer[w].ref ELSE 0, e, NoAdmin)
        PROVE  RowsGood'
    <3>1. \A q \in Payouts \ {p} : status'[q] = status[q] /\ ref'[q] = ref[q]
      BY <2>1, <2>6 DEF Transition, Typed, RowsTyped
    <3>2. status'[held[w].id] = to
      BY <2>1, <2>6 DEF Transition, Typed, RowsTyped
    <3>3. to = s /\ answer[w].ref # 0 => ref'[held[w].id] = answer[w].ref
      BY <2>1, <2>6 DEF Transition, Typed, RowsTyped
    <3>4. 0 \notin DOMAIN transfers[p]
      BY <2>1 DEF Typed, GatewayTyped
    <3>5. \A q \in {p} : GoodRef(transfers'[q], status'[q], ref'[q])
      BY <2>2, <2>3, <2>4, <3>2, <3>3, <3>4 DEF GoodRef
    <3> HIDE DEF p, s, to
    <3> QED
      BY <1>1, <3>1, <3>5 DEF RowsGood
  <2> HIDE DEF p, s, to
  <2> QED
    BY <1>5, <2>5, <2>6 DEF Record, Stale, p, s, to
<1>6. ASSUME NEW c \in Callers,
             (\E p \in Payouts, a \in Admins : ReadForReview(c, p, a)) \/ CallerAnnounce(c) \/ Abandon(c)
      PROVE  UNCHANGED rowVars
  BY <1>6 DEF ReadForReview, CallerAnnounce, Abandon
<1>7. ASSUME NEW w \in Workers, Claim(w) \/ WorkOn(w) \/ WorkerAnnounce(w) \/ WorkerFault(w)
      PROVE  UNCHANGED rowVars
  BY <1>7 DEF Claim, WorkOn, Submit, Resolve, Poll, Skip, Send, WorkerAnnounce, WorkerFault,
     FailLocally, Timeout, Crash
<1>8. GatewayStep \/ Tick \/ UNCHANGED vars => UNCHANGED rowVars
  BY DEF GatewayStep, Arrive, Execute, Replay, Refuse, Reply, Lose, Settle, Tick, vars
<1> QED
  BY <1>2, <1>3, <1>4, <1>5, <1>6, <1>7, <1>8 DEF Next, CallerStep

LEMMA RefsInvHolds == Spec => [](Typed /\ RefsInv)
<1>1. Init => RefsInv
  BY DEF Init, RefsInv, AnswersFinal, AnswersGood, RowsGood, GoodRef
<1>2. Typed /\ RefsInv /\ [Next]_vars => RefsInv'
  BY AnswersStayFinal, AnswersStayGood, RowsStayGood DEF RefsInv
<1> QED
  BY <1>1, <1>2, AlwaysTyped, PTL DEF Spec

(* A payout that is SUBMITTED can be asked about, and COMPLETED is only     *)
(* said of a transfer the gateway completed, however stale the worker's     *)
(* copy was and whichever answer, first or replayed, it got.                *)
THEOREM ReferencesAreGood == Spec => []ReferenceIsGood
<1>1. RefsInv => ReferenceIsGood
  BY DEF RefsInv, RowsGood, GoodRef, ReferenceIsGood
<1> QED
  BY <1>1, RefsInvHolds, PTL

-----------------------------------------------------------------------------
(* Events. *)

(* History h knows of state s, or of the request every history begins with. *)
Told(h, s) == \E i \in DOMAIN h : s \in {h[i].to, "REQUESTED"}

(* What is published, or about to be, is in the history. *)
PublishedTold == \A e \in events : Told(trail[e[1]], e[2])

WorkersTold == \A w \in Workers : stage[w] = "announcing" => Told(trail[held[w].id], announce[w])

CallersTold ==
  \A c \in Callers : api[c].stage = "announcing" =>
    \A i \in DOMAIN api[c].todo : Told(trail[api[c].id], api[c].todo[i])

AnnounceInv == PublishedTold /\ WorkersTold /\ CallersTold

LEMMA EntryTold ==
  ASSUME Typed, NEW p \in Payouts, NEW from, NEW to, [from |-> from, to |-> to] \in Steps,
         trail' = [trail EXCEPT ![p] = Append(trail[p], [from |-> from, to |-> to])]
  PROVE  /\ Told(trail'[p], to) /\ Told(trail'[p], "REQUESTED")
         /\ \A s : Told(trail[p], s) => Told(trail'[p], s)
<1> DEFINE e == [from |-> from, to |-> to]
<1>1. trail'[p] = Append(trail[p], e) /\ trail[p] \in Seq(Steps) /\ e.to = to
  BY DEF Typed, RowsTyped
<1> HIDE DEF e
<1>2. /\ DOMAIN trail[p] = 1..Len(trail[p]) /\ Len(trail[p]) \in Nat
      /\ DOMAIN trail'[p] = 1..(Len(trail[p]) + 1) /\ trail'[p][Len(trail[p]) + 1] = e
      /\ \A i \in DOMAIN trail[p] : trail'[p][i] = trail[p][i]
  BY <1>1
<1>3. DOMAIN trail[p] \subseteq DOMAIN trail'[p] /\ Len(trail[p]) + 1 \in DOMAIN trail'[p]
  BY <1>2
<1> QED
  BY <1>1, <1>2, <1>3 DEF Told

(* Nothing that the history knows is ever unknown to it again. *)
LEMMA HistoryGrows ==
  ASSUME Typed, CopiesInFlight, [Next]_vars, NEW q \in Payouts, NEW s, Told(trail[q], s)
  PROVE  Told(trail'[q], s)
<1>1. ASSUME NEW p \in Payouts, NEW from, NEW to, [from |-> from, to |-> to] \in Steps,
             Entry(p, from, to)
      PROVE  Told(trail'[q], s)
  <2>1. CASE q = p
    BY <1>1, <2>1, EntryTold DEF Entry
  <2>2. CASE q # p
    BY <1>1, <2>2 DEF Entry, Typed, RowsTyped
  <2> QED
    BY <2>1, <2>2
<1>2. /\ \A to \in {"REQUESTED", "APPROVED"} : [from |-> "ABSENT", to |-> to] \in Steps
      /\ \A from, to \in PayoutStatuses : [from |-> from, to |-> to] \in Steps
  BY DEF Steps, RowStatuses, PayoutStatuses
<1> QED
  BY <1>1, <1>2, HistoryStep

(* What was on its way to be announced, and still is, is still true. *)
LEMMA AnnouncedStay ==
  ASSUME Typed, CopiesInFlight, AnnounceInv, [Next]_vars
  PROVE  /\ events' = events => PublishedTold'
         /\ \A w \in Workers : UNCHANGED <<stage[w], held[w], announce[w]>> /\ stage[w] = "announcing"
                                 => Told(trail'[held'[w].id], announce'[w])
         /\ \A c \in Callers : UNCHANGED api[c] /\ api[c].stage = "announcing"
                                 => \A i \in DOMAIN api'[c].todo : Told(trail'[api'[c].id], api'[c].todo[i])
<1>1. \A e \in events : e[1] \in Payouts
  BY DEF Typed, EventsTyped
<1>2. \A w \in Workers : stage[w] = "announcing" => held[w].id \in Payouts
  BY DEF Typed, WorkersTyped
<1>3. \A c \in Callers : api[c].stage = "announcing" => api[c].id \in Payouts
  BY DEF Typed, CallersTyped
<1> QED
  BY <1>1, <1>2, <1>3, HistoryGrows DEF AnnounceInv, PublishedTold, WorkersTold, CallersTold

LEMMA PublishedStay ==
  ASSUME Typed, CopiesInFlight, AnnounceInv, [Next]_vars PROVE PublishedTold'
<1>1. ASSUME NEW p \in Payouts, NEW s, Told(trail[p], s), events' = events \cup {<<p, s>>}
      PROVE  PublishedTold'
  <2>1. \A e \in events : Told(trail'[e[1]], e[2])
    BY HistoryGrows DEF Typed, EventsTyped, AnnounceInv, PublishedTold
  <2>2. Told(trail'[p], s)
    BY <1>1, HistoryGrows
  <2> QED
    BY <1>1, <2>1, <2>2 DEF PublishedTold
<1>2. ASSUME NEW c \in Callers, CallerAnnounce(c) PROVE PublishedTold'
  <2>1. api[c].stage = "announcing" /\ api[c].id \in Payouts /\ api[c].todo # <<>>
        /\ api[c].todo \in Seq(PayoutStatuses)
    BY <1>2 DEF CallerAnnounce, Typed, CallersTyped, Handlers
  <2>2. 1 \in DOMAIN api[c].todo /\ Head(api[c].todo) = api[c].todo[1]
    BY <2>1
  <2>3. Told(trail[api[c].id], Head(api[c].todo))
    BY <2>1, <2>2 DEF AnnounceInv, CallersTold
  <2> QED
    BY <1>1, <1>2, <2>1, <2>3 DEF CallerAnnounce
<1>3. ASSUME NEW w \in Workers, WorkerAnnounce(w) PROVE PublishedTold'
  BY <1>1, <1>3 DEF WorkerAnnounce, AnnounceInv, WorkersTold, Typed, WorkersTyped
<1>4. ASSUME NEW c \in Callers, NEW p \in Payouts,
             Request(c, p) \/ \E a \in Admins : ReadForReview(c, p, a)
      PROVE  events' = events
  BY <1>4 DEF Request, ReadForReview
<1>5. ASSUME NEW c \in Callers, Approve(c) \/ Reject(c) \/ Abandon(c) PROVE events' = events
  BY <1>5 DEF Approve, Reject, Abandon
<1>6. ASSUME NEW w \in Workers, Claim(w) \/ WorkOn(w) \/ Record(w) \/ WorkerFault(w)
      PROVE  events' = events
  BY <1>6 DEF Claim, WorkOn, Submit, Resolve, Poll, Skip, Send, Record, Finish, WorkerFault,
     FailLocally, Timeout, Crash
<1>7. GatewayStep \/ Tick \/ UNCHANGED vars => events' = events
  BY DEF GatewayStep, Arrive, Execute, Replay, Refuse, Reply, Lose, Settle, Tick, vars
<1> QED
  BY <1>2, <1>3, <1>4, <1>5, <1>6, <1>7, AnnouncedStay DEF Next, CallerStep

LEMMA WorkersStayTold ==
  ASSUME Typed, CopiesInFlight, AnnounceInv, [Next]_vars PROVE WorkersTold'
<1>1. ASSUME NEW v \in Workers,
             stage'[v] = "announcing" => stage[v] = "announcing" /\ UNCHANGED <<stage[v], held[v], announce[v]>>
      PROVE  stage'[v] = "announcing" => Told(trail'[held'[v].id], announce'[v])
  BY <1>1, AnnouncedStay
<1>2. ASSUME NEW w \in Workers, Record(w) PROVE WorkersTold'
  <2> DEFINE p == held[w].id
             to == Outcome(held[w], answer[w].status)
  <2>1. p \in Payouts /\ held[w] \in Copies /\ answer[w] \in Answers /\ stage[w] = "answered"
    BY <1>2 DEF Record, Typed, WorkersTyped
  <2>2. \A v \in Workers \ {w} : UNCHANGED <<stage[v], held[v], announce[v]>>
    BY <1>2 DEF Record, Finish, Typed, WorkersTyped
  <2>3. stage'[w] = "announcing" =>
          /\ to # "none" /\ held'[w] = held[w] /\ announce'[w] = to
          /\ trail' = [trail EXCEPT ![p] = Append(trail[p], [from |-> held[w].status, to |-> to])]
    BY <1>2, <2>1 DEF Record, Finish, EventFor, StaleEvent, Transition, Typed, WorkersTyped
  <2>4. to # "none" => [from |-> held[w].status, to |-> to] \in Steps
    BY <2>1, OutcomeFacts DEF Steps, Copies
  <2>5. stage'[w] = "announcing" => Told(trail'[held'[w].id], announce'[w])
    BY <2>1, <2>3, <2>4, EntryTold
  <2> QED
    BY <1>1, <2>2, <2>5 DEF WorkersTold
<1>3. ASSUME NEW w \in Workers, Claim(w) \/ WorkOn(w) \/ WorkerAnnounce(w) \/ WorkerFault(w),
             NEW v \in Workers, stage'[v] = "announcing"
      PROVE  stage[v] = "announcing" /\ UNCHANGED <<stage[v], held[v], announce[v]>>
  BY <1>3 DEF Claim, WorkOn, Submit, Resolve, Poll, Skip, Send, WorkerAnnounce, WorkerFault,
     FailLocally, Timeout, Crash, Typed, WorkersTyped
<1>4. ASSUME NEW m \in wire, Arrive(m), NEW v \in Workers, stage'[v] = "announcing"
      PROVE  stage[v] = "announcing" /\ UNCHANGED <<stage[v], held[v], announce[v]>>
  BY <1>4 DEF Arrive, Execute, Replay, Refuse, Reply, Typed, WorkersTyped
<1>5. (\E c \in Callers : CallerStep(c)) \/ Tick \/ UNCHANGED vars => UNCHANGED workerVars
  BY DEF CallerStep, Request, ReadForReview, Approve, Reject, CallerAnnounce, Abandon, Tick, vars
<1>6. (\E m \in wire : Lose(m)) \/ (\E p \in Payouts : Settle(p)) => UNCHANGED workerVars
  BY DEF Lose, Settle
<1>7. UNCHANGED workerVars => WorkersTold'
  BY <1>1 DEF workerVars, WorkersTold
<1>8. ASSUME NEW w \in Workers, Claim(w) \/ WorkOn(w) \/ WorkerAnnounce(w) \/ WorkerFault(w)
      PROVE  WorkersTold'
  BY <1>1, <1>3, <1>8 DEF WorkersTold
<1>9. ASSUME NEW m \in wire, Arrive(m) PROVE WorkersTold'
  BY <1>1, <1>4, <1>9 DEF WorkersTold
<1> QED
  BY <1>2, <1>5, <1>6, <1>7, <1>8, <1>9 DEF Next, GatewayStep

LEMMA CallersStayTold ==
  ASSUME Typed, CopiesInFlight, AnnounceInv, [Next]_vars PROVE CallersTold'
<1>1. ASSUME NEW c \in Callers, \A d \in Callers \ {c} : api'[d] = api[d],
             api'[c].stage = "announcing" =>
               \A i \in DOMAIN api'[c].todo : Told(trail'[api'[c].id], api'[c].todo[i])
      PROVE  CallersTold'
  <2>1. \A d \in Callers \ {c} : api'[d].stage = "announcing" =>
          \A i \in DOMAIN api'[d].todo : Told(trail'[api'[d].id], api'[d].todo[i])
    BY <1>1, AnnouncedStay
  <2> QED
    BY <1>1, <2>1 DEF CallersTold
<1>2. ASSUME NEW c \in Callers, NEW p \in Payouts, Request(c, p) PROVE CallersTold'
  <2>1. PICK s \in {"REQUESTED", "APPROVED"}, by \in Admins \cup {NoAdmin} :
          /\ trail' = [trail EXCEPT ![p] = Append(@, [from |-> "ABSENT", to |-> s])]
          /\ api' = [api EXCEPT ![c] =
               [stage |-> "announcing", id |-> p, who |-> by,
                todo |-> IF s = "APPROVED" THEN <<"REQUESTED", "APPROVED">> ELSE <<"REQUESTED">>]]
    BY <1>2 DEF Request
  <2>2. [from |-> "ABSENT", to |-> s] \in Steps
    BY DEF Steps, RowStatuses, PayoutStatuses
  <2>3. Told(trail'[p], s) /\ Told(trail'[p], "REQUESTED")
    BY <2>1, <2>2, EntryTold
  <2>4. /\ api'[c].id = p /\ \A d \in Callers \ {c} : api'[d] = api[d]
        /\ api'[c].todo = IF s = "APPROVED" THEN <<"REQUESTED", "APPROVED">> ELSE <<"REQUESTED">>
    BY <2>1 DEF Typed, CallersTyped
  <2>5. \A i \in DOMAIN api'[c].todo : api'[c].todo[i] \in {s, "REQUESTED"}
    <3>1. CASE s = "APPROVED"
      BY <2>4, <3>1
    <3>2. CASE s = "REQUESTED"
      BY <2>4, <3>2
    <3> QED
      BY <3>1, <3>2
  <2> QED
    BY <1>1, <2>3, <2>4, <2>5
<1>3. ASSUME NEW c \in Callers, Approve(c) \/ Reject(c) PROVE CallersTold'
  <2>1. api[c] \in Handlers /\ api[c].id \in Payouts
    BY <1>3 DEF Approve, Reject, Typed, CallersTyped
  <2>2. \A d \in Callers \ {c} : api'[d] = api[d]
    BY <1>3 DEF Approve, Reject, Decided, Typed, CallersTyped
  <2>3. CASE api' = [api EXCEPT ![c] = NoHandler]
    <3>1. api'[c].stage = "idle"
      BY <2>3 DEF NoHandler, Typed, CallersTyped
    <3> QED
      BY <1>1, <2>2, <3>1
  <2>4. ASSUME NEW s \in {"APPROVED", "REJECTED"}, Decided(c, s),
               trail' = [trail EXCEPT ![api[c].id] = Append(trail[api[c].id], [from |-> "REQUESTED", to |-> s])]
        PROVE  CallersTold'
    <3>1. [from |-> "REQUESTED", to |-> s] \in Steps
      BY DEF Steps, RowStatuses, PayoutStatuses
    <3>2. Told(trail'[api[c].id], s)
      BY <2>1, <2>4, <3>1, EntryTold
    <3>3. api'[c].id = api[c].id /\ api'[c].todo = <<s>>
      BY <2>1, <2>4 DEF Decided, Typed, CallersTyped, Handlers
    <3>4. \A i \in DOMAIN api'[c].todo : api'[c].todo[i] = s
      BY <3>3
    <3> QED
      BY <1>1, <2>2, <3>2, <3>3, <3>4
  <2> QED
    BY <1>3, <2>3, <2>4 DEF Approve, Reject, Transition
<1>4. ASSUME NEW c \in Callers, CallerAnnounce(c) PROVE CallersTold'
  <2>1. /\ api[c].stage = "announcing" /\ api[c] \in Handlers /\ api[c].id \in Payouts
        /\ api[c].todo \in Seq(PayoutStatuses) /\ api[c].todo # <<>>
    BY <1>4 DEF CallerAnnounce, Typed, CallersTyped, Handlers
  <2>2. \A d \in Callers \ {c} : api'[d] = api[d]
    BY <1>4 DEF CallerAnnounce, Typed, CallersTyped
  <2>3. api'[c].stage = "announcing" => api'[c].id = api[c].id /\ api'[c].todo = Tail(api[c].todo)
    BY <1>4, <2>1 DEF CallerAnnounce, NoHandler, Typed, CallersTyped, Handlers
  <2>4. \A i \in DOMAIN Tail(api[c].todo) :
          i + 1 \in DOMAIN api[c].todo /\ Tail(api[c].todo)[i] = api[c].todo[i + 1]
    BY <2>1
  <2>5. \A j \in DOMAIN api[c].todo : Told(trail'[api[c].id], api[c].todo[j])
    BY <2>1, HistoryGrows DEF AnnounceInv, CallersTold
  <2>6. ASSUME NEW i \in DOMAIN Tail(api[c].todo)
        PROVE  Told(trail'[api[c].id], Tail(api[c].todo)[i])
    <3>1. i + 1 \in DOMAIN api[c].todo /\ Tail(api[c].todo)[i] = api[c].todo[i + 1]
      BY <2>4
    <3> QED
      BY <2>5, <3>1
  <2> QED
    BY <1>1, <2>2, <2>3, <2>6
<1>5. ASSUME NEW c \in Callers, NEW p \in Payouts, NEW a \in Admins, ReadForReview(c, p, a)
      PROVE  CallersTold'
  <2>1. api'[c].stage # "announcing" /\ \A d \in Callers \ {c} : api'[d] = api[d]
    BY <1>5 DEF ReadForReview, Typed, CallersTyped
  <2> QED
    BY <1>1, <2>1
<1>6. ASSUME NEW c \in Callers, Abandon(c) PROVE CallersTold'
  <2>1. api'[c].stage # "announcing" /\ \A d \in Callers \ {c} : api'[d] = api[d]
    BY <1>6 DEF Abandon, NoHandler, Typed, CallersTyped
  <2> QED
    BY <1>1, <2>1
<1>7. ASSUME NEW w \in Workers,
             Claim(w) \/ WorkOn(w) \/ Record(w) \/ WorkerAnnounce(w) \/ WorkerFault(w)
      PROVE  api' = api
  BY <1>7 DEF Claim, WorkOn, Submit, Resolve, Poll, Skip, Send, Record, Finish, WorkerAnnounce,
     WorkerFault, FailLocally, Timeout, Crash
<1>8. GatewayStep \/ Tick \/ UNCHANGED vars => api' = api
  BY DEF GatewayStep, Arrive, Execute, Replay, Refuse, Reply, Lose, Settle, Tick, vars
<1>9. api' = api => CallersTold'
  BY AnnouncedStay DEF CallersTold
<1> QED
  BY <1>2, <1>3, <1>4, <1>5, <1>6, <1>7, <1>8, <1>9 DEF Next, CallerStep

LEMMA AnnounceInvHolds == Spec => [](Typed /\ HistoryInv /\ AnnounceInv)
<1>1. Init => AnnounceInv
  BY DEF Init, AnnounceInv, PublishedTold, WorkersTold, CallersTold, NoHandler
<1>2. Typed /\ HistoryInv /\ AnnounceInv /\ [Next]_vars => AnnounceInv'
  BY PublishedStay, WorkersStayTold, CallersStayTold DEF AnnounceInv, HistoryInv
<1> QED
  BY <1>1, <1>2, HistoryInvHolds, PTL DEF Spec

(* An event tells of a state its payout was in, and one ending at most is   *)
(* told of a payout: its history has no end but the state it is in now.     *)
THEOREM EventsTellTheTruth == Spec => []EventsAreTrue
<1>1. ASSUME Typed, HistoryInv, AnnounceInv PROVE EventsAreTrue
  <2>1. \A e \in events : Told(trail[e[1]], e[2])
    BY <1>1 DEF AnnounceInv, PublishedTold
  <2>2. ASSUME NEW p \in Payouts
        PROVE  Cardinality({s \in TerminalPayouts : <<p, s>> \in events}) <= 1
    <3> DEFINE ends == {s \in TerminalPayouts : <<p, s>> \in events}
    <3>1. \A s \in ends : s = status[p]
      <4> SUFFICES ASSUME NEW s \in ends PROVE s = status[p]
        OBVIOUS
      <4>1. PICK i \in DOMAIN trail[p] : s \in {trail[p][i].to, "REQUESTED"}
        BY <2>1 DEF Told
      <4>2. s # "REQUESTED"
        BY DEF TerminalPayouts
      <4> QED
        BY <1>1, <4>1, <4>2 DEF HistoryInv, TrailInv
    <3>2. ends \subseteq {status[p]}
      BY <3>1
    <3>3. IsFiniteSet({status[p]}) /\ Cardinality({status[p]}) = 1
      BY FS_Singleton
    <3> HIDE DEF ends
    <3>4. Cardinality(ends) <= 1
      BY <3>2, <3>3, FS_Subset
    <3> QED
      BY <3>4 DEF ends
  <2> QED
    BY <2>1, <2>2 DEF EventsAreTrue, Told
<1> QED
  BY <1>1, AnnounceInvHolds, PTL
=============================================================================
