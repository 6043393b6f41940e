---------------------------- MODULE Idempotency ----------------------------
(* The idempotency keys of POST /api/v1/payments (payment/idempotency.go    *)
(* and handleCreatePayment in api/payments.go), for one application and one *)
(* endpoint.  A request claims its key in two statements, does the work and *)
(* stores the answer; the others with that key replay it, or are told to    *)
(* wait, or that the key belongs to another body.  Complete and Release     *)
(* find the row by its key and not by the claim, so what they promise rests *)
(* on a request being shorter than the life of a key.                       *)
EXTENDS Naturals

CONSTANTS
  Requests,      \* HTTP requests that carry a key
  Keys,          \* values of the Idempotency-Key header
  Bodies,        \* bodies, as HashRequest tells them apart
  OrderOf,       \* the application_order_id inside a body
  NoRequest,     \* the id of no claim
  IdempotencyTTL, \* life of a claim, in ticks (24 h)
  MaxRequestTime, \* longest a request may take, in ticks
  MaxFaults      \* bound: crashes and failed statements

(* The servers answer within a minute and a claim lives for a day.          *)
ASSUME TimesAssumption ==
  /\ IdempotencyTTL \in Nat /\ MaxRequestTime \in Nat
  /\ MaxRequestTime < IdempotencyTTL
ASSUME FaultsAssumption == MaxFaults \in Nat
ASSUME NoRequestAssumption == NoRequest \notin Requests

VARIABLES
  row,      \* idempotency_keys, by key
  request,  \* the requests and how far each one is
  paid,     \* application_order_id -> the request whose payment holds it
  faults

keyVars == <<row, request, paid, faults>>

-----------------------------------------------------------------------------
(* The table and the requests *)

Orders == {OrderOf[b] : b \in Bodies}
States == {"absent", "in_progress", "completed"}
NoKeyRow == [state |-> "absent", id |-> NoRequest, hash |-> NoRequest,
          response |-> NoRequest, left |-> 0]

(* A row: the claim's owner, the hash of its body, the stored answer (the   *)
(* request whose payment it describes) and the time left before expires_at. *)
KeyRows == [state : States, id : Requests \cup {NoRequest}, hash : Bodies \cup {NoRequest},
         response : Requests \cup {NoRequest}, left : 0..IdempotencyTTL]

RequestStages == {"idle", "claiming", "looking", "working", "created", "failed", "done"}
Answers == {"none", "created", "replayed", "conflict", "in_progress", "not_found", "error"}

(* A request: what it carries, where it is, the time it has left and what   *)
(* it was answered.                                                         *)
Handlers == [stage : RequestStages, key : Keys \cup {NoRequest}, body : Bodies \cup {NoRequest},
             left : 0..MaxRequestTime, answer : Answers, about : Requests \cup {NoRequest}]
NotArrived == [stage |-> "idle", key |-> NoRequest, body |-> NoRequest,
         left |-> 0, answer |-> "none", about |-> NoRequest]

KeysTypeOK ==
  /\ row \in [Keys -> KeyRows]
  /\ request \in [Requests -> Handlers]
  /\ paid \in [Orders -> Requests \cup {NoRequest}]
  /\ faults \in 0..MaxFaults

KeysInit ==
  /\ row = [k \in Keys |-> NoKeyRow]
  /\ request = [r \in Requests |-> NotArrived]
  /\ paid = [o \in Orders |-> NoRequest]
  /\ faults = 0

UnderWay(r) == request[r].stage \notin {"idle", "done"}
Expired(k) == row[k].left = 0

Advance(r, s) == request' = [request EXCEPT ![r].stage = s]

Respond(r, a, about) ==
  request' = [request EXCEPT ![r].stage = "done", ![r].left = 0,
                             ![r].answer = a, ![r].about = about]

Fault == faults < MaxFaults /\ faults' = faults + 1

-----------------------------------------------------------------------------
(* The handler *)

Arrive(r, k, b) ==
  /\ request[r].stage = "idle"
  /\ request' = [request EXCEPT ![r].stage = "claiming", ![r].key = k, ![r].body = b,
                                ![r].left = MaxRequestTime]
  /\ UNCHANGED <<row, paid, faults>>

(* A key in progress may be taken. *)
BugTakeable(k) == row[k].state # "completed"

(* INSERT ... ON CONFLICT DO UPDATE ... WHERE expires_at < now(): a free or *)
(* lapsed key is taken, a live one is left alone.                           *)
Takeable(k) == row[k].state = "absent" \/ Expired(k)

Insert(r) ==
  LET q == request[r] IN
  /\ q.stage = "claiming"
  /\ row' = IF Takeable(q.key)
              THEN [row EXCEPT ![q.key] = [state |-> "in_progress", id |-> r, hash |-> q.body,
                                           response |-> NoRequest, left |-> IdempotencyTTL]]
              ELSE row
  /\ Advance(r, "looking")
  /\ UNCHANGED <<paid, faults>>

(* The body's hash not looked at. *)
BugLook(r) ==
  LET q == request[r]
      e == row[q.key] IN
  /\ q.stage = "looking"
  /\ \/ e.state = "absent" /\ Respond(r, "not_found", NoRequest)
     \/ e.id = r /\ Advance(r, "working")
     \/ e.state = "completed" /\ e.id # r /\ Respond(r, "replayed", e.response)
     \/ e.state = "in_progress" /\ e.id # r /\ Respond(r, "in_progress", NoRequest)
  /\ UNCHANGED <<row, paid, faults>>

(* The SELECT that follows, a statement of its own: the caller owns the     *)
(* claim if the row carries its id, and is classified against it otherwise. *)
(* A row released or pruned in between is a payment "not found".            *)
Look(r) ==
  LET q == request[r]
      e == row[q.key] IN
  /\ q.stage = "looking"
  /\ \/ e.state = "absent" /\ Respond(r, "not_found", NoRequest)
     \/ e.id = r /\ Advance(r, "working")
     \/ /\ e.state # "absent" /\ e.id # r /\ e.hash # q.body
        /\ Respond(r, "conflict", NoRequest)
     \/ /\ e.state = "completed" /\ e.id # r /\ e.hash = q.body
        /\ Respond(r, "replayed", e.response)
     \/ /\ e.state = "in_progress" /\ e.id # r /\ e.hash = q.body
        /\ Respond(r, "in_progress", NoRequest)
  /\ UNCHANGED <<row, paid, faults>>

(* payments.Create: the order must be new to the application; the gateway   *)
(* or the database may also refuse, and then nothing is left behind.        *)
Work(r) ==
  LET o == OrderOf[request[r].body] IN
  /\ request[r].stage = "working"
  /\ \/ /\ paid[o] = NoRequest
        /\ paid' = [paid EXCEPT ![o] = r]
        /\ Advance(r, "created")
     \/ Advance(r, "failed") /\ UNCHANGED paid
  /\ UNCHANGED <<row, faults>>

(* Complete: the in-progress row of the key, whoever's claim it is.         *)
Complete(r) ==
  LET k == request[r].key IN
  /\ request[r].stage = "created"
  /\ row' = IF row[k].state = "in_progress"
              THEN [row EXCEPT ![k].state = "completed", ![k].response = r]
              ELSE row
  /\ Respond(r, "created", r)
  /\ UNCHANGED <<paid, faults>>

(* Release: the in-progress row of the key, whoever's claim it is.          *)
Release(r) ==
  LET k == request[r].key IN
  /\ request[r].stage = "failed"
  /\ row' = IF row[k].state = "in_progress" THEN [row EXCEPT ![k] = NoKeyRow] ELSE row
  /\ Respond(r, "error", NoRequest)
  /\ UNCHANGED <<paid, faults>>

(* One statement fails.  An insert or lookup that fails ends the request,   *)
(* which may by then hold the key; a failed Complete or Release, for one    *)
(* because the client hung up and the request's context with it, is logged. *)
StatementFails(r) ==
  /\ request[r].stage \in {"claiming", "looking", "created", "failed"}
  /\ Fault
  /\ IF request[r].stage = "created" THEN Respond(r, "created", r)
                                     ELSE Respond(r, "error", NoRequest)
  /\ UNCHANGED <<row, paid>>

(* The process dies: no answer, and the claim stays.                        *)
Crash(r) ==
  /\ UnderWay(r)
  /\ Fault
  /\ Respond(r, "none", NoRequest)
  /\ UNCHANGED <<row, paid>>

-----------------------------------------------------------------------------
(* Housekeeping and time *)

(* Only answers that were stored are thrown away. *)
BugPrunable(k) == row[k].state = "completed" /\ Expired(k)

Prunable(k) == row[k].state # "absent" /\ Expired(k)

Prune ==
  /\ \E k \in Keys : Prunable(k)
  /\ row' = [k \in Keys |-> IF Prunable(k) THEN NoKeyRow ELSE row[k]]
  /\ UNCHANGED <<request, paid, faults>>

(* Time does not pass a request's deadline.                                 *)
Tick ==
  /\ \A r \in Requests : UnderWay(r) => request[r].left > 0
  /\ \/ \E k \in Keys : ~Expired(k)
     \/ \E r \in Requests : UnderWay(r)
  /\ row' = [k \in Keys |-> [row[k] EXCEPT !.left = IF @ > 0 THEN @ - 1 ELSE 0]]
  /\ request' = [r \in Requests |-> [request[r] EXCEPT !.left = IF @ > 0 THEN @ - 1 ELSE 0]]
  /\ UNCHANGED <<paid, faults>>

Handle(r) == Insert(r) \/ Look(r) \/ Work(r) \/ Complete(r) \/ Release(r)

KeysNext ==
  \/ \E r \in Requests :
       \/ \E k \in Keys, b \in Bodies : Arrive(r, k, b)
       \/ Handle(r)
       \/ StatementFails(r)
       \/ Crash(r)
  \/ Prune
  \/ Tick

KeysSpec == KeysInit /\ [][KeysNext]_keyVars

-----------------------------------------------------------------------------
(* Properties *)

(* Owning a claim means being the one who works: as long as a request is    *)
(* shorter than the life of a key, two requests never do the work of one    *)
(* key at a time, although Complete and Release touch whatever claim they   *)
(* find (Claim: "Only the winner performs the work").                       *)
Owning == {"working", "created", "failed"}
WorkIsExclusive ==
  \A q, r \in Requests :
    request[q].stage \in Owning /\ request[r].stage \in Owning
      /\ request[q].key = request[r].key => q = r

(* A replayed answer is the answer to the same question: it describes a     *)
(* payment that was made for exactly the body the replayed request carried, *)
(* by a request with the same key (HashRequest: "rejected rather than       *)
(* silently returning the wrong payment").                                  *)
ReplayIsFaithful ==
  \A r \in Requests : request[r].answer = "replayed" =>
    LET p == request[r].about IN
    /\ p # NoRequest
    /\ request[p].body = request[r].body /\ request[p].key = request[r].key
    /\ paid[OrderOf[request[r].body]] = p

(* Nobody is locked out for ever by a claim whose owner died, lost its      *)
(* connection or could not store its answer: the claim lapses, and the      *)
(* housekeeping removes it if nobody took it over (Prune).                  *)
KeyComesFree == \A k \in Keys : row[k].state = "in_progress" ~> row[k].state # "in_progress"
=============================================================================
