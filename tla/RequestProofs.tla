---------------------------- MODULE RequestProofs ----------------------------
(* Theorems about how the API's requests are let in and answered:           *)
(* Idempotency, RateLimiter, Admission and Listing, each for every value of *)
(* its constants.  They share nothing; each section is an inductive         *)
(* invariant, one lemma per action and the theorems.                        *)
EXTENDS Idempotency, RateLimiter, Admission, Listing, SumLemmas, WellFoundedInduction, TLAPS

-----------------------------------------------------------------------------
(* Idempotency keys: any number of requests, keys and bodies                *)

(* A request that has arrived carries a key and a body, one that has not    *)
(* was answered nothing.                                                    *)
Carrying ==
  \A r \in Requests :
    IF request[r].stage = "idle" THEN request[r].answer = "none"
                                 ELSE request[r].key \in Keys /\ request[r].body \in Bodies

(* A row carries the id of a request that has inserted it, with that        *)
(* request's key and the hash of its body.                                  *)
RowsHaveOwners ==
  \A k \in Keys : row[k].state # "absent" =>
    /\ row[k].id \in Requests
    /\ request[row[k].id].stage \notin {"idle", "claiming"}
    /\ request[row[k].id].key = k
    /\ request[row[k].id].body = row[k].hash

Free == \A k \in Keys : row[k].state = "absent" => row[k].id = NoRequest

(* The row of r's key is r's own claim and outlives r.                      *)
Owns(r) ==
  /\ row[request[r].key].id = r
  /\ row[request[r].key].state = "in_progress"
  /\ request[r].left < row[request[r].key].left

(* Whoever works, or is about to find that it may, owns the claim.          *)
WorkersOwn ==
  \A r \in Requests :
    \/ request[r].stage \in Owning
    \/ request[r].stage = "looking" /\ row[request[r].key].id = r
    => Owns(r)

(* Only a request that has arrived pays.                                    *)
PayersArrived ==
  \A o \in Orders : paid[o] # NoRequest => request[paid[o]].stage # "idle"

(* A payment that was created holds its order for good, and a stored answer *)
(* is about the payment of the body whose hash is stored with it.           *)
CreatedIsPaid ==
  \A r \in Requests : request[r].stage = "created" => paid[OrderOf[request[r].body]] = r
StoredIsTrue ==
  \A k \in Keys : row[k].state = "completed" =>
    /\ row[k].response = row[k].id
    /\ paid[OrderOf[row[k].hash]] = row[k].id

KeysInv ==
  /\ KeysTypeOK /\ Carrying /\ RowsHaveOwners /\ Free /\ WorkersOwn
  /\ PayersArrived /\ CreatedIsPaid /\ StoredIsTrue /\ ReplayIsFaithful

THEOREM InitKeys == KeysInit => KeysInv
BY NoRequestAssumption, TimesAssumption, FaultsAssumption
   DEF KeysInit, KeysInv, KeysTypeOK, Carrying, RowsHaveOwners, Free, WorkersOwn, CreatedIsPaid,
       PayersArrived, StoredIsTrue, ReplayIsFaithful, NoKeyRow, KeyRows, NotArrived, Handlers,
       RequestStages, Answers, States, Owning

-----------------------------------------------------------------------------
(* One request moves, keeps its key and body, and the table stays: the      *)
(* invariant is kept if the request is not about to own anything new, and   *)
(* what it answers is faithful.                                             *)

(* r is where n says, and everybody else where they were.                   *)
Moves(r, n) == request' = [request EXCEPT ![r] = n]

LEMMA MovePoints ==
  ASSUME KeysTypeOK, NEW r \in Requests, NEW n \in Handlers, Moves(r, n)
  PROVE  /\ request'[r] = n
         /\ \A q \in Requests \ {r} : request'[q] = request[q]
         /\ request' \in [Requests -> Handlers]
BY DEF KeysTypeOK, Moves

LEMMA MoveKeeps ==
  ASSUME KeysInv, NEW r \in Requests, NEW n \in Handlers, Moves(r, n),
         row' = row, paid' = paid, faults' \in 0..MaxFaults,
         request[r].stage # "idle", n.stage \notin {"idle", "claiming"},
         n.key = request[r].key, n.body = request[r].body,
         \/ request[r].stage \in Owning /\ n.stage \in Owning /\ n.left = request[r].left
         \/ /\ request[r].stage = "looking" /\ row[n.key].id = r
            /\ n.stage = "working" /\ n.left = request[r].left
         \/ n.stage \in {"done"},
         n.stage = "created" => paid[OrderOf[n.body]] = r,
         n.answer = "replayed" =>
           /\ n.about # NoRequest /\ n.about \in Requests
           /\ request[n.about].body = n.body /\ request[n.about].key = n.key
           /\ paid[OrderOf[n.body]] = n.about
  PROVE  KeysInv'
<1> USE DEF KeysInv
<1>1. /\ request'[r] = n
      /\ \A q \in Requests \ {r} : request'[q] = request[q]
      /\ request' \in [Requests -> Handlers]
  BY MovePoints
<1>2. /\ \A q \in Requests : /\ request'[q].key = request[q].key
                             /\ request'[q].body = request[q].body
                             /\ request[q].stage = "idle" <=> request'[q].stage = "idle"
                             /\ request[q].stage \notin {"idle", "claiming"}
                                  => request'[q].stage \notin {"idle", "claiming"}
  BY <1>1
<1>3. KeysTypeOK'
  BY <1>1 DEF KeysTypeOK
<1>4. Carrying'
  BY <1>1, <1>2 DEF Carrying
<1>5. RowsHaveOwners'
  BY <1>2 DEF RowsHaveOwners
<1>6. Free'
  BY DEF Free
<1>7. WorkersOwn'
  BY <1>1, <1>2 DEF WorkersOwn, Owns, Owning
<1>8. PayersArrived'
  BY <1>2 DEF PayersArrived, KeysTypeOK
<1>9. CreatedIsPaid'
  BY <1>1, <1>2 DEF CreatedIsPaid
<1>10. StoredIsTrue'
  BY DEF StoredIsTrue
<1>11. ReplayIsFaithful'
  BY <1>1, <1>2 DEF ReplayIsFaithful, KeysTypeOK, Handlers
<1> QED
  BY <1>3, <1>4, <1>5, <1>6, <1>7, <1>8, <1>9, <1>10, <1>11

-----------------------------------------------------------------------------
(* The steps that leave the table alone *)

LEMMA TypedRequest == ASSUME KeysTypeOK, NEW r \in Requests PROVE request[r] \in Handlers
BY DEF KeysTypeOK

LEMMA TypedAnswer ==
  ASSUME NEW q \in Handlers, NEW a \in Answers, NEW about \in Requests \cup {NoRequest}
  PROVE  [q EXCEPT !.stage = "done", !.left = 0, !.answer = a, !.about = about] \in Handlers
<1>1. 0 \in 0..MaxRequestTime /\ "done" \in RequestStages
  BY TimesAssumption DEF RequestStages
<1> QED
  BY <1>1 DEF Handlers

LEMMA LookKeeps == ASSUME KeysInv, NEW r \in Requests, Look(r) PROVE KeysInv'
<1> DEFINE q == request[r]
           e == row[q.key]
           to(a, about) == [q EXCEPT !.stage = "done", !.left = 0, !.answer = a, !.about = about]
<1>1. q \in Handlers /\ q.stage = "looking" /\ q.key \in Keys /\ q.body \in Bodies
  BY TypedRequest DEF KeysInv, Look, Carrying
<1>2. e \in KeyRows
  BY <1>1 DEF KeysInv, KeysTypeOK
<1>3. faults' \in 0..MaxFaults /\ UNCHANGED <<row, paid, faults>>
  BY DEF KeysInv, KeysTypeOK, Look
<1>4. CASE e.id = r /\ Advance(r, "working")
  <2> DEFINE n == [q EXCEPT !.stage = "working"]
  <2>1. Moves(r, n) /\ n \in Handlers
    BY <1>1, <1>4 DEF Moves, Advance, Handlers, RequestStages
  <2>2. /\ n.stage = "working" /\ n.key = q.key /\ n.body = q.body /\ n.left = q.left
        /\ n.answer = q.answer /\ n.about = q.about
    BY <1>1 DEF Handlers
  <2>3. q.answer = "replayed" => /\ q.about # NoRequest /\ q.about \in Requests
                                /\ request[q.about].body = q.body
                                /\ request[q.about].key = q.key
                                /\ paid[OrderOf[q.body]] = q.about
    BY <1>1 DEF KeysInv, ReplayIsFaithful, Handlers
  <2> HIDE DEF n
  <2> QED
    BY <1>1, <1>3, <1>4, <2>1, <2>2, <2>3, MoveKeeps
<1>5. ASSUME NEW a \in Answers, NEW about \in Requests \cup {NoRequest}, Respond(r, a, about),
             a = "replayed" =>
                /\ e.state = "completed" /\ e.hash = q.body /\ about = e.response
      PROVE  KeysInv'
  <2> DEFINE n == to(a, about)
  <2>1. Moves(r, n) /\ n \in Handlers
    BY <1>1, <1>5, TypedAnswer DEF Moves, Respond
  <2>2. n.stage = "done" /\ n.key = q.key /\ n.body = q.body /\ n.answer = a /\ n.about = about
    BY <1>1 DEF Handlers
  <2>3. a = "replayed" => /\ about # NoRequest /\ about \in Requests
                          /\ request[about].body = q.body /\ request[about].key = q.key
                          /\ paid[OrderOf[q.body]] = about
    BY <1>1, <1>5, NoRequestAssumption DEF KeysInv, StoredIsTrue, RowsHaveOwners
  <2> HIDE DEF n
  <2> QED
    BY <1>1, <1>3, <2>1, <2>2, <2>3, MoveKeeps
<1> QED
  BY <1>2, <1>4, <1>5 DEF Look, Answers, KeyRows

(* A request that gives up, or dies, answers nothing of what is stored.     *)
LEMMA GivingUpKeeps ==
  ASSUME KeysInv, NEW r \in Requests, NEW a \in Answers, NEW about \in Requests \cup {NoRequest},
         a # "replayed", Respond(r, a, about), UnderWay(r), Fault, UNCHANGED <<row, paid>>
  PROVE  KeysInv'
<1> DEFINE n == [request[r] EXCEPT !.stage = "done", !.left = 0, !.answer = a, !.about = about]
<1>1. request[r] \in Handlers /\ request[r].stage # "idle"
  BY TypedRequest DEF KeysInv, UnderWay
<1>2. Moves(r, n) /\ n \in Handlers
  BY <1>1, TypedAnswer DEF Moves, Respond
<1>3. /\ n.stage = "done" /\ n.key = request[r].key /\ n.body = request[r].body
      /\ n.answer = a
  BY <1>1 DEF Handlers
<1>4. faults' \in 0..MaxFaults
  BY FaultsAssumption DEF KeysInv, KeysTypeOK, Fault
<1> HIDE DEF n
<1> QED
  BY <1>1, <1>2, <1>3, <1>4, MoveKeeps

LEMMA StatementFailsKeeps == ASSUME KeysInv, NEW r \in Requests, StatementFails(r) PROVE KeysInv'
<1>1. UnderWay(r) /\ Fault /\ UNCHANGED <<row, paid>>
  BY DEF StatementFails, UnderWay
<1> QED
  BY <1>1, GivingUpKeeps DEF StatementFails, Answers

LEMMA CrashKeeps == ASSUME KeysInv, NEW r \in Requests, Crash(r) PROVE KeysInv'
BY GivingUpKeeps DEF Crash, Answers

-----------------------------------------------------------------------------
(* Arriving and working *)

LEMMA ArriveKeeps ==
  ASSUME KeysInv, NEW r \in Requests, NEW k \in Keys, NEW b \in Bodies, Arrive(r, k, b)
  PROVE  KeysInv'
<1> DEFINE n == [request[r] EXCEPT !.stage = "claiming", !.key = k, !.body = b,
                                   !.left = MaxRequestTime]
<1>1. request[r] \in Handlers /\ request[r].stage = "idle" /\ request[r].answer = "none"
  BY TypedRequest DEF KeysInv, Carrying, Arrive
<1>2. MaxRequestTime \in 0..MaxRequestTime
  BY TimesAssumption
<1>3. /\ n \in Handlers /\ n.stage = "claiming" /\ n.key = k /\ n.body = b
      /\ n.answer = "none"
  BY <1>1, <1>2 DEF Handlers, RequestStages
<1>4. Moves(r, n) /\ UNCHANGED <<row, paid, faults>>
  BY DEF Moves, Arrive
<1> HIDE DEF n
<1>5. /\ request'[r] = n
      /\ \A q \in Requests \ {r} : request'[q] = request[q]
      /\ request' \in [Requests -> Handlers]
  BY <1>3, <1>4, MovePoints DEF KeysInv
<1>6. KeysTypeOK'
  BY <1>4, <1>5 DEF KeysInv, KeysTypeOK
<1>7. Carrying'
  BY <1>3, <1>5 DEF KeysInv, Carrying
<1>8. RowsHaveOwners' /\ Free'
  BY <1>1, <1>4, <1>5 DEF KeysInv, RowsHaveOwners, Free
<1>9. WorkersOwn'
  BY <1>3, <1>4, <1>5 DEF KeysInv, WorkersOwn, Owns, Owning
<1>10. PayersArrived' /\ CreatedIsPaid'
  BY <1>3, <1>4, <1>5 DEF KeysInv, KeysTypeOK, PayersArrived, CreatedIsPaid
<1>11. StoredIsTrue'
  BY <1>4 DEF KeysInv, StoredIsTrue
<1>12. ReplayIsFaithful'
  <2> SUFFICES ASSUME NEW q \in Requests, request'[q].answer = "replayed"
               PROVE  LET p == request'[q].about IN
                      /\ p # NoRequest
                      /\ request'[p].body = request'[q].body /\ request'[p].key = request'[q].key
                      /\ paid'[OrderOf[request'[q].body]] = p
    BY DEF ReplayIsFaithful
  <2>1. q # r /\ request'[q] = request[q]
    BY <1>3, <1>5
  <2> DEFINE p == request[q].about
  <2>2. /\ p # NoRequest /\ p \in Requests
        /\ request[p].body = request[q].body /\ request[p].key = request[q].key
        /\ paid[OrderOf[request[q].body]] = p
    BY <2>1, TypedRequest DEF KeysInv, ReplayIsFaithful, Handlers
  <2>3. request[q].body \in Bodies
    BY <2>1 DEF KeysInv, Carrying
  <2>4. p # r
    BY <1>1, <2>2, <2>3 DEF KeysInv, PayersArrived, Orders
  <2> QED
    BY <1>4, <1>5, <2>1, <2>2, <2>4
<1> QED
  BY <1>6, <1>7, <1>8, <1>9, <1>10, <1>11, <1>12 DEF KeysInv

LEMMA WorkKeeps == ASSUME KeysInv, NEW r \in Requests, Work(r) PROVE KeysInv'
<1> DEFINE q == request[r]
           o == OrderOf[q.body]
<1>1. q \in Handlers /\ q.stage = "working" /\ q.key \in Keys /\ q.body \in Bodies
  BY TypedRequest DEF KeysInv, Work, Carrying
<1>2. UNCHANGED <<row, faults>>
  BY DEF Work
<1>3. PICK s \in {"created", "failed"} :
        /\ Advance(r, s)
        /\ s = "created" => paid[o] = NoRequest /\ paid' = [paid EXCEPT ![o] = r]
        /\ s = "failed" => paid' = paid
  BY DEF Work
<1> DEFINE n == [q EXCEPT !.stage = s]
<1>4. /\ n \in Handlers /\ n.stage = s /\ n.key = q.key /\ n.body = q.body /\ n.left = q.left
      /\ n.answer = q.answer /\ n.about = q.about /\ Moves(r, n)
  BY <1>1, <1>3 DEF Handlers, RequestStages, Moves, Advance
<1> HIDE DEF n
<1>5. /\ request'[r] = n
      /\ \A p \in Requests \ {r} : request'[p] = request[p]
      /\ request' \in [Requests -> Handlers]
  BY <1>4, MovePoints DEF KeysInv
<1>6. \A p \in Requests :
        /\ request'[p].key = request[p].key /\ request'[p].body = request[p].body
        /\ request'[p].left = request[p].left
        /\ request'[p].answer = request[p].answer /\ request'[p].about = request[p].about
        /\ request'[p].stage = "idle" <=> request[p].stage = "idle"
        /\ request'[p].stage = "claiming" <=> request[p].stage = "claiming"
        /\ request'[p].stage \in Owning <=> request[p].stage \in Owning
        /\ request'[p].stage = "looking" <=> request[p].stage = "looking"
  BY <1>1, <1>4, <1>5 DEF Owning
<1>7. \A x \in Orders : /\ paid'[x] \in Requests \cup {NoRequest}
                        /\ paid[x] # NoRequest => paid'[x] = paid[x]
                        /\ paid'[x] \in {paid[x], r}
  BY <1>3 DEF KeysInv, KeysTypeOK
<1>8. KeysTypeOK'
  BY <1>2, <1>3, <1>5 DEF KeysInv, KeysTypeOK
<1>9. Carrying'
  BY <1>6 DEF KeysInv, Carrying
<1>10. RowsHaveOwners' /\ Free'
  BY <1>2, <1>6 DEF KeysInv, RowsHaveOwners, Free
<1>11. WorkersOwn'
  BY <1>2, <1>6 DEF KeysInv, WorkersOwn, Owns
<1>12. PayersArrived'
  BY <1>1, <1>6, <1>7 DEF KeysInv, KeysTypeOK, PayersArrived
<1>13. CreatedIsPaid'
  <2>1. ASSUME NEW p \in Requests \ {r}, request'[p].stage = "created"
        PROVE  paid'[OrderOf[request'[p].body]] = p
    <3>1. request[p].body \in Bodies /\ paid[OrderOf[request[p].body]] = p
      BY <1>5, <2>1 DEF KeysInv, Carrying, CreatedIsPaid
    <3> QED
      BY <1>6, <1>7, <3>1, NoRequestAssumption DEF Orders
  <2>2. request'[r].stage = "created" => paid'[OrderOf[request'[r].body]] = r
    BY <1>1, <1>3, <1>4, <1>5 DEF KeysInv, KeysTypeOK, Orders
  <2> QED
    BY <2>1, <2>2 DEF CreatedIsPaid
<1>14. StoredIsTrue'
  <2> SUFFICES ASSUME NEW k \in Keys, row[k].state = "completed"
               PROVE  row[k].response = row[k].id /\ paid'[OrderOf[row[k].hash]] = row[k].id
    BY <1>2 DEF StoredIsTrue
  <2>1. /\ row[k].response = row[k].id /\ paid[OrderOf[row[k].hash]] = row[k].id
        /\ row[k].id \in Requests /\ row[k].hash \in Bodies
    BY DEF KeysInv, StoredIsTrue, RowsHaveOwners, Carrying
  <2> QED
    BY <1>7, <2>1, NoRequestAssumption DEF Orders
<1>15. ReplayIsFaithful'
  <2> SUFFICES ASSUME NEW p \in Requests, request[p].answer = "replayed"
               PROVE  LET a == request[p].about IN
                      /\ a # NoRequest
                      /\ request'[a].body = request[p].body /\ request'[a].key = request[p].key
                      /\ paid'[OrderOf[request[p].body]] = a
    BY <1>6 DEF ReplayIsFaithful
  <2> DEFINE a == request[p].about
  <2>1. /\ a # NoRequest /\ a \in Requests
        /\ request[a].body = request[p].body /\ request[a].key = request[p].key
        /\ paid[OrderOf[request[p].body]] = a
    BY TypedRequest DEF KeysInv, ReplayIsFaithful, Handlers
  <2>2. request[p].body \in Bodies
    BY DEF KeysInv, Carrying
  <2> QED
    BY <1>6, <1>7, <2>1, <2>2 DEF Orders
<1> QED
  BY <1>8, <1>9, <1>10, <1>11, <1>12, <1>13, <1>14, <1>15 DEF KeysInv

-----------------------------------------------------------------------------
(* The steps that change the table *)

(* Answers stay faithful while keys, bodies and payments stay.              *)
LEMMA AnswersKept ==
  ASSUME KeysInv, paid' = paid,
         \A p \in Requests :
           /\ request'[p].key = request[p].key /\ request'[p].body = request[p].body
           /\ request'[p].answer = "replayed" =>
                request[p].answer = "replayed" /\ request'[p].about = request[p].about
           /\ request'[p].stage = "idle" => request[p].stage = "idle"
  PROVE  ReplayIsFaithful' /\ PayersArrived'
<1>1. ReplayIsFaithful'
  BY TypedRequest DEF KeysInv, ReplayIsFaithful, Handlers
<1>2. PayersArrived'
  BY DEF KeysInv, KeysTypeOK, PayersArrived
<1> QED
  BY <1>1, <1>2

LEMMA InsertKeeps == ASSUME KeysInv, NEW r \in Requests, Insert(r) PROVE KeysInv'
<1> DEFINE q == request[r]
           k == q.key
           e == [state |-> "in_progress", id |-> r, hash |-> q.body,
                 response |-> NoRequest, left |-> IdempotencyTTL]
           n == [q EXCEPT !.stage = "looking"]
<1>1. q \in Handlers /\ q.stage = "claiming" /\ k \in Keys /\ q.body \in Bodies
  BY TypedRequest DEF KeysInv, Insert, Carrying
<1>2. UNCHANGED <<paid, faults>>
  BY DEF Insert
<1>3. /\ n \in Handlers /\ n.stage = "looking" /\ n.key = k /\ n.body = q.body
      /\ n.left = q.left /\ n.answer = q.answer /\ n.about = q.about /\ Moves(r, n)
  BY <1>1 DEF Handlers, RequestStages, Moves, Advance, Insert
<1>4. IF Takeable(k) THEN row' = [row EXCEPT ![k] = e] ELSE row' = row
  BY DEF Insert
<1>5. IdempotencyTTL \in 0..IdempotencyTTL
  BY TimesAssumption
<1>6. /\ e \in KeyRows /\ e.state = "in_progress" /\ e.id = r /\ e.hash = q.body
      /\ e.left = IdempotencyTTL
  BY <1>1, <1>5 DEF KeyRows, States
<1> HIDE DEF n, e
<1>7. /\ request'[r] = n
      /\ \A p \in Requests \ {r} : request'[p] = request[p]
      /\ request' \in [Requests -> Handlers]
  BY <1>3, MovePoints DEF KeysInv
<1>8. \A p \in Requests :
        /\ request'[p].key = request[p].key /\ request'[p].body = request[p].body
        /\ request'[p].left = request[p].left
        /\ request'[p].answer = request[p].answer /\ request'[p].about = request[p].about
        /\ request'[p].stage = "idle" <=> request[p].stage = "idle"
        /\ request'[p].stage \in {"idle", "claiming"} => request[p].stage \in {"idle", "claiming"}
  BY <1>1, <1>3, <1>7
<1>9. /\ row' \in [Keys -> KeyRows]
      /\ \A j \in Keys : row'[j] = IF j = k /\ Takeable(k) THEN e ELSE row[j]
  BY <1>1, <1>4, <1>6 DEF KeysInv, KeysTypeOK
<1>10. KeysTypeOK'
  BY <1>2, <1>7, <1>9 DEF KeysInv, KeysTypeOK
<1>11. Carrying'
  BY <1>8 DEF KeysInv, Carrying
<1>12. RowsHaveOwners'
  BY <1>1, <1>3, <1>6, <1>7, <1>8, <1>9 DEF KeysInv, RowsHaveOwners
<1>13. Free'
  BY <1>6, <1>9 DEF KeysInv, Free
<1>14. WorkersOwn'
  <2>1. ASSUME NEW p \in Requests \ {r},
               \/ request'[p].stage \in Owning
               \/ request'[p].stage = "looking" /\ row'[request'[p].key].id = p
        PROVE  Owns(p)'
    <3>1. request'[p] = request[p] /\ request[p].key \in Keys
      BY <1>7, <2>1 DEF KeysInv, Carrying, Owning
    <3>2. Owns(p)
      BY <1>6, <1>9, <2>1, <3>1 DEF KeysInv, WorkersOwn
    <3>3. ~(request[p].key = k /\ Takeable(k))
      <4>1. request[p].left \in Nat
        BY TypedRequest, TimesAssumption DEF KeysInv, Handlers
      <4> QED
        BY <3>2, <4>1 DEF Owns, Takeable, Expired
    <3> QED
      BY <1>9, <3>1, <3>2, <3>3 DEF Owns
  <2>2. ASSUME row'[k].id = r
        PROVE  Owns(r)'
    <3>1. CASE Takeable(k)
      <4>1. row'[k] = e /\ request'[r].key = k /\ request'[r].left = q.left
        BY <1>1, <1>8, <1>9, <3>1
      <4>2. q.left < IdempotencyTTL
        BY <1>1, TimesAssumption DEF Handlers
      <4> QED
        BY <1>6, <4>1, <4>2 DEF Owns
    <3>2. CASE ~Takeable(k)
      BY <1>1, <1>9, <2>2, <3>2 DEF KeysInv, RowsHaveOwners, Takeable
    <3> QED
      BY <3>1, <3>2
  <2> QED
    BY <1>3, <1>7, <2>1, <2>2 DEF WorkersOwn, Owning
<1>15. CreatedIsPaid'
  BY <1>2, <1>3, <1>7 DEF KeysInv, CreatedIsPaid
<1>16. StoredIsTrue'
  BY <1>2, <1>6, <1>9 DEF KeysInv, StoredIsTrue
<1>17. ReplayIsFaithful' /\ PayersArrived'
  BY <1>2, <1>8, AnswersKept
<1> QED
  BY <1>10, <1>11, <1>12, <1>13, <1>14, <1>15, <1>16, <1>17 DEF KeysInv

(* An owner that is done, having stored its answer or given up its claim:   *)
(* the row of its key was its own, and no other request owns that key.      *)
LEMMA OwnerDone ==
  ASSUME KeysInv, NEW r \in Requests, request[r].stage \in Owning,
         NEW a \in Answers \ {"replayed"}, NEW about \in Requests \cup {NoRequest},
         Respond(r, a, about), UNCHANGED <<paid, faults>>,
         NEW e \in KeyRows, row' = [row EXCEPT ![request[r].key] = e],
         \/ e = NoKeyRow
         \/ /\ e.state = "completed" /\ e.id = r /\ e.response = r /\ e.hash = request[r].body
            /\ paid[OrderOf[request[r].body]] = r
  PROVE  KeysInv'
<1> DEFINE q == request[r]
           k == q.key
           n == [q EXCEPT !.stage = "done", !.left = 0, !.answer = a, !.about = about]
<1>1. q \in Handlers /\ k \in Keys /\ q.body \in Bodies
  BY TypedRequest DEF KeysInv, Carrying, Owning
<1>2. /\ n \in Handlers /\ n.stage = "done" /\ n.key = k /\ n.body = q.body /\ n.answer = a
      /\ Moves(r, n)
  BY <1>1, TypedAnswer DEF Handlers, Moves, Respond
<1> HIDE DEF n
<1>3. /\ request'[r] = n
      /\ \A p \in Requests \ {r} : request'[p] = request[p]
      /\ request' \in [Requests -> Handlers]
  BY <1>2, MovePoints DEF KeysInv
<1>4. \A p \in Requests :
        /\ request'[p].key = request[p].key /\ request'[p].body = request[p].body
        /\ request'[p].answer = "replayed" =>
             request[p].answer = "replayed" /\ request'[p].about = request[p].about
        /\ request'[p].stage = "idle" <=> request[p].stage = "idle"
        /\ request'[p].stage \in {"idle", "claiming"} => request[p].stage \in {"idle", "claiming"}
  BY <1>2, <1>3 DEF Owning
<1>5. /\ row' \in [Keys -> KeyRows]
      /\ \A j \in Keys : row'[j] = IF j = k THEN e ELSE row[j]
  BY <1>1 DEF KeysInv, KeysTypeOK
<1>6. row[k].id = r /\ row[k].state = "in_progress"
  BY DEF KeysInv, WorkersOwn, Owns
<1>7. \/ e.state = "absent" /\ e.id = NoRequest
      \/ e.state = "completed" /\ e.id = r /\ e.hash = request[r].body
  BY DEF NoKeyRow
<1>8. KeysTypeOK'
  BY <1>3, <1>5 DEF KeysInv, KeysTypeOK
<1>9. Carrying'
  BY <1>2, <1>3, <1>4 DEF KeysInv, Carrying
<1>10. RowsHaveOwners'
  BY <1>2, <1>3, <1>4, <1>5, <1>7 DEF KeysInv, RowsHaveOwners
<1>11. Free'
  BY <1>5, <1>7 DEF KeysInv, Free
<1>12. WorkersOwn'
  <2> SUFFICES ASSUME NEW p \in Requests,
                      \/ request'[p].stage \in Owning
                      \/ request'[p].stage = "looking" /\ row'[request'[p].key].id = p
               PROVE  Owns(p)'
    BY DEF WorkersOwn
  <2>1. p # r /\ request'[p] = request[p] /\ request[p].key \in Keys
    BY <1>2, <1>3 DEF KeysInv, Carrying, Owning
  <2>2. Owns(p) /\ request[p].key # k
    BY <1>5, <1>6, <1>7, <2>1, NoRequestAssumption DEF KeysInv, WorkersOwn, Owns
  <2> QED
    BY <1>5, <2>1, <2>2 DEF Owns
<1>13. CreatedIsPaid'
  BY <1>2, <1>3 DEF KeysInv, CreatedIsPaid
<1>14. StoredIsTrue'
  BY <1>5 DEF KeysInv, StoredIsTrue, NoKeyRow
<1>15. ReplayIsFaithful' /\ PayersArrived'
  BY <1>4, AnswersKept
<1> QED
  BY <1>8, <1>9, <1>10, <1>11, <1>12, <1>13, <1>14, <1>15 DEF KeysInv

LEMMA CompleteKeeps == ASSUME KeysInv, NEW r \in Requests, Complete(r) PROVE KeysInv'
<1> DEFINE k == request[r].key
           e == [row[k] EXCEPT !.state = "completed", !.response = r]
<1>1. /\ request[r].stage \in Owning /\ k \in Keys /\ row[k].id = r
      /\ row[k].state = "in_progress" /\ paid[OrderOf[request[r].body]] = r
  BY DEF KeysInv, Complete, Owning, WorkersOwn, Owns, Carrying, CreatedIsPaid
<1>2. row[k] \in KeyRows /\ row[k].hash = request[r].body
  BY <1>1 DEF KeysInv, KeysTypeOK, RowsHaveOwners
<1>3. /\ e \in KeyRows /\ e.state = "completed" /\ e.id = r /\ e.response = r
      /\ e.hash = request[r].body
  BY <1>1, <1>2 DEF KeyRows, States
<1>4. row' = [row EXCEPT ![k] = e]
  BY <1>1 DEF Complete
<1>5. Respond(r, "created", r) /\ UNCHANGED <<paid, faults>>
  BY DEF Complete
<1>6. "created" \in Answers \ {"replayed"}
  BY DEF Answers
<1> HIDE DEF e
<1> QED
  BY <1>1, <1>3, <1>4, <1>5, <1>6, OwnerDone

LEMMA ReleaseKeeps == ASSUME KeysInv, NEW r \in Requests, Release(r) PROVE KeysInv'
<1>1. request[r].stage \in Owning /\ row' = [row EXCEPT ![request[r].key] = NoKeyRow]
  BY DEF KeysInv, Release, Owning, WorkersOwn, Owns
<1>2. NoKeyRow \in KeyRows /\ "error" \in Answers \ {"replayed"}
  BY TimesAssumption DEF NoKeyRow, KeyRows, States, Answers
<1> QED
  BY <1>1, <1>2, OwnerDone DEF Release

-----------------------------------------------------------------------------
(* Housekeeping and time *)

LEMMA PruneKeeps == ASSUME KeysInv, Prune PROVE KeysInv'
<1>1. NoKeyRow \in KeyRows /\ NoKeyRow.state = "absent" /\ NoKeyRow.id = NoRequest
  BY TimesAssumption DEF NoKeyRow, KeyRows, States
<1>2. row' \in [Keys -> KeyRows]
  BY <1>1 DEF KeysInv, KeysTypeOK, Prune
<1>3. \A k \in Keys : row'[k] = row[k] \/ (row'[k] = NoKeyRow /\ row[k].left = 0)
  BY DEF Prune, Prunable, Expired
<1>4. UNCHANGED <<request, paid, faults>>
  BY DEF Prune
<1>5. KeysTypeOK' /\ Carrying' /\ PayersArrived' /\ CreatedIsPaid' /\ ReplayIsFaithful'
  BY <1>2, <1>4 DEF KeysInv, KeysTypeOK, Carrying, PayersArrived, CreatedIsPaid, ReplayIsFaithful
<1>6. RowsHaveOwners' /\ Free' /\ StoredIsTrue'
  BY <1>1, <1>3, <1>4 DEF KeysInv, RowsHaveOwners, Free, StoredIsTrue
<1>7. WorkersOwn'
  <2> SUFFICES ASSUME NEW p \in Requests,
                      \/ request[p].stage \in Owning
                      \/ request[p].stage = "looking" /\ row'[request[p].key].id = p
               PROVE  Owns(p)'
    BY <1>4 DEF WorkersOwn
  <2>1. request[p].key \in Keys
    BY DEF KeysInv, Carrying, Owning
  <2>2. Owns(p)
    BY <1>1, <1>3, <2>1, NoRequestAssumption DEF KeysInv, WorkersOwn
  <2>3. row[request[p].key].left # 0
    BY <2>2, TypedRequest, TimesAssumption DEF KeysInv, Owns, Handlers
  <2> QED
    BY <1>3, <1>4, <2>1, <2>2, <2>3 DEF Owns
<1> QED
  BY <1>5, <1>6, <1>7 DEF KeysInv

LEMMA TickKeeps == ASSUME KeysInv, Tick PROVE KeysInv'
<1> DEFINE less(n) == IF n > 0 THEN n - 1 ELSE 0
<1>1. /\ \A n \in 0..IdempotencyTTL : less(n) \in 0..IdempotencyTTL
      /\ \A n \in 0..MaxRequestTime : less(n) \in 0..MaxRequestTime
      /\ \A m, n \in Nat : m > 0 /\ m < n => less(m) < less(n)
  BY TimesAssumption
<1>2. /\ row' = [k \in Keys |-> [row[k] EXCEPT !.left = less(@)]]
      /\ request' = [p \in Requests |-> [request[p] EXCEPT !.left = less(@)]]
      /\ UNCHANGED <<paid, faults>>
  BY DEF Tick
<1>3. \A p \in Requests : UnderWay(p) => request[p].left > 0
  BY DEF Tick
<1> HIDE DEF less
<1>4. \A k \in Keys :
        /\ row[k].left \in 0..IdempotencyTTL
        /\ row'[k] = [row[k] EXCEPT !.left = less(row[k].left)]
        /\ row'[k] \in KeyRows
        /\ row'[k].state = row[k].state /\ row'[k].id = row[k].id
        /\ row'[k].hash = row[k].hash /\ row'[k].response = row[k].response
        /\ row'[k].left = less(row[k].left)
  BY <1>1, <1>2 DEF KeysInv, KeysTypeOK, KeyRows
<1>5. \A p \in Requests :
        /\ request[p].left \in 0..MaxRequestTime
        /\ request'[p] = [request[p] EXCEPT !.left = less(request[p].left)]
        /\ request'[p] \in Handlers
        /\ request'[p].stage = request[p].stage /\ request'[p].key = request[p].key
        /\ request'[p].body = request[p].body /\ request'[p].answer = request[p].answer
        /\ request'[p].about = request[p].about
        /\ request'[p].left = less(request[p].left)
  BY <1>1, <1>2 DEF KeysInv, KeysTypeOK, Handlers
<1>6. KeysTypeOK'
  BY <1>2, <1>4, <1>5 DEF KeysInv, KeysTypeOK
<1>7. Carrying'
  BY <1>5 DEF KeysInv, Carrying
<1>8. RowsHaveOwners' /\ Free'
  <2>1. \A k \in Keys : row'[k].state = row[k].state /\ row'[k].id = row[k].id
                        /\ row'[k].hash = row[k].hash
    BY <1>4
  <2>2. \A p \in Requests : request'[p].stage = request[p].stage /\ request'[p].key = request[p].key
                            /\ request'[p].body = request[p].body
    BY <1>5
  <2>3. RowsHaveOwners'
    BY <2>1, <2>2 DEF KeysInv, RowsHaveOwners
  <2>4. Free'
    BY <2>1 DEF KeysInv, Free
  <2> QED
    BY <2>3, <2>4
<1>9. WorkersOwn'
  <2> SUFFICES ASSUME NEW p \in Requests,
                      \/ request[p].stage \in Owning
                      \/ request[p].stage = "looking" /\ row'[request[p].key].id = p
               PROVE  Owns(p)'
    BY <1>5 DEF WorkersOwn
  <2>1. request[p].key \in Keys /\ UnderWay(p)
    BY DEF KeysInv, Carrying, Owning, UnderWay
  <2>2. Owns(p)
    BY <1>4, <2>1 DEF KeysInv, WorkersOwn
  <2>3. /\ request[p].left > 0 /\ request[p].left < row[request[p].key].left
        /\ request[p].left \in Nat /\ row[request[p].key].left \in Nat
    <3>1. request[p].left > 0 /\ request[p].left < row[request[p].key].left
      BY <1>3, <2>1, <2>2 DEF Owns
    <3>2. request[p].left \in 0..MaxRequestTime /\ row[request[p].key].left \in 0..IdempotencyTTL
      BY <1>4, <1>5, <2>1
    <3> QED
      BY <3>1, <3>2, TimesAssumption
  <2>4. less(request[p].left) < less(row[request[p].key].left)
    BY <1>1, <2>3
  <2> QED
    BY <1>4, <1>5, <2>1, <2>2, <2>4 DEF Owns
<1>10. CreatedIsPaid'
  BY <1>2, <1>5 DEF KeysInv, CreatedIsPaid
<1>11. StoredIsTrue'
  BY <1>2, <1>4 DEF KeysInv, StoredIsTrue
<1>12. ReplayIsFaithful' /\ PayersArrived'
  BY <1>2, <1>5, AnswersKept
<1> QED
  BY <1>6, <1>7, <1>8, <1>9, <1>10, <1>11, <1>12 DEF KeysInv

-----------------------------------------------------------------------------
(* The theorems *)

LEMMA KeysStep == KeysInv /\ [KeysNext]_keyVars => KeysInv'
<1> SUFFICES ASSUME KeysInv, [KeysNext]_keyVars PROVE KeysInv'
  OBVIOUS
<1>1. ASSUME NEW r \in Requests, NEW k \in Keys, NEW b \in Bodies, Arrive(r, k, b) PROVE KeysInv'
  BY <1>1, ArriveKeeps
<1>2. ASSUME NEW r \in Requests, Handle(r) PROVE KeysInv'
  BY <1>2, InsertKeeps, LookKeeps, WorkKeeps, CompleteKeeps, ReleaseKeeps DEF Handle
<1>3. ASSUME NEW r \in Requests, StatementFails(r) \/ Crash(r) PROVE KeysInv'
  BY <1>3, StatementFailsKeeps, CrashKeeps
<1>4. CASE Prune
  BY <1>4, PruneKeeps
<1>5. CASE Tick
  BY <1>5, TickKeeps
<1>6. CASE UNCHANGED keyVars
  BY <1>6 DEF keyVars, KeysInv, KeysTypeOK, Carrying, RowsHaveOwners, Free, WorkersOwn, Owns,
              PayersArrived, CreatedIsPaid, StoredIsTrue, ReplayIsFaithful
<1> QED
  BY <1>1, <1>2, <1>3, <1>4, <1>5, <1>6 DEF KeysNext

LEMMA KeysHold == KeysSpec => []KeysInv
BY InitKeys, KeysStep, PTL DEF KeysSpec

(* Every reachable state of the keys is well typed.                         *)
THEOREM KeysTyped == KeysSpec => []KeysTypeOK
<1>1. KeysInv => KeysTypeOK
  BY DEF KeysInv
<1> QED
  BY <1>1, KeysHold, PTL

(* Two requests never do the work of one key at a time, for any number of   *)
(* requests, keys, crashes and failed statements, if a request is shorter   *)
(* than the life of a key (Claim).                                          *)
THEOREM OnlyTheOwnerWorks == KeysSpec => []WorkIsExclusive
<1>1. KeysInv => WorkIsExclusive
  BY DEF KeysInv, WorkersOwn, Owns, WorkIsExclusive
<1> QED
  BY <1>1, KeysHold, PTL

(* A replayed answer describes a payment made for the very key and body of  *)
(* the request it answers (HashRequest, Complete).                          *)
THEOREM ReplaysAreFaithful == KeysSpec => []ReplayIsFaithful
<1>1. KeysInv => ReplayIsFaithful
  BY DEF KeysInv
<1> QED
  BY <1>1, KeysHold, PTL

-----------------------------------------------------------------------------
(* The rate limiter: any number of callers, any burst, any capacity         *)

(* A bucket that is not full has at least a token for every tick since it   *)
(* was last touched.                                                        *)
IdleBucketsFill == \A c \in DOMAIN bucket : bucket[c].tokens = Burst \/ bucket[c].idle <= bucket[c].tokens

(* A key that was always answered from the map has what the rate allows: it *)
(* is the bucket's, and a full allowance when there is none.                *)
BucketsAreAllowances ==
  \A c \in Callers \ forgotten :
    allowance[c] = IF c \in DOMAIN bucket THEN bucket[c].tokens ELSE Burst

LimiterInv == LimiterTypeOK /\ IdleBucketsFill /\ BucketsAreAllowances

LEMMA InitLimiter == LimiterInit => LimiterInv
BY LimiterAssumption
   DEF LimiterInit, LimiterInv, LimiterTypeOK, IdleBucketsFill, BucketsAreAllowances, Bucket, NewBucket

(* The map a request leaves behind: its buckets are those there were, but   *)
(* for the caller's; one that is gone was full.                             *)
LEMMA EvictedWereFull ==
  ASSUME LimiterInv, NEW c \in Callers, NEW S, c \notin DOMAIN bucket,
         S = EvictLocked(With(bucket, c, NewBucket))
  PROVE  \A d \in DOMAIN bucket \cap S : bucket[d].tokens = Burst
<1>1. PICK grown : grown = With(bucket, c, NewBucket)
  OBVIOUS
<1>2. \A d \in DOMAIN bucket : grown[d] = bucket[d]
  BY <1>1 DEF With
<1>3. \A d \in DOMAIN bucket \cap S : bucket[d].idle > BucketTTL
  BY <1>1, <1>2 DEF EvictLocked
<1>4. \A d \in DOMAIN bucket : bucket[d].tokens \in 0..Burst /\ bucket[d].idle \in 0..NeverSeen
  BY DEF LimiterInv, LimiterTypeOK, Bucket
<1> QED
  BY <1>3, <1>4, LimiterAssumption DEF LimiterInv, IdleBucketsFill, NeverSeen

LEMMA AllowKeeps ==
  ASSUME LimiterInv, NEW c \in Callers, Allow(c) PROVE LimiterInv'
<1>1. PICK b : b = IF c \in DOMAIN bucket THEN bucket[c] ELSE NewBucket
  OBVIOUS
<1>2. PICK kept : kept = IF c \in DOMAIN bucket THEN bucket
                         ELSE Without(With(bucket, c, b), EvictLocked(With(bucket, c, b)))
  OBVIOUS
<1>3. PICK after : after = [tokens |-> IF b.tokens > 0 THEN b.tokens - 1 ELSE 0, idle |-> 0]
  OBVIOUS
<1>4. /\ allowance[c] > -MaxOvershoot
      /\ bucket' = IF c \in DOMAIN kept THEN [kept EXCEPT ![c] = after] ELSE kept
      /\ allowance' = IF b.tokens > 0 THEN [allowance EXCEPT ![c] = @ - 1] ELSE allowance
      /\ forgotten' = IF c \in DOMAIN kept THEN forgotten ELSE forgotten \cup {c}
  BY <1>1, <1>2, <1>3 DEF Allow
<1>5. /\ b \in Bucket /\ (b.tokens = Burst \/ b.idle <= b.tokens)
      /\ b.tokens \in 0..Burst /\ b.idle \in 0..NeverSeen
  BY <1>1, LimiterAssumption
     DEF LimiterInv, LimiterTypeOK, IdleBucketsFill, Bucket, NewBucket, NeverSeen
<1>6. /\ DOMAIN kept \subseteq Callers
      /\ \A d \in DOMAIN kept \ {c} : d \in DOMAIN bucket /\ kept[d] = bucket[d]
      /\ \A d \in (DOMAIN bucket \ {c}) \ DOMAIN kept : bucket[d].tokens = Burst
  <2>1. CASE c \in DOMAIN bucket
    BY <2>1, <1>2 DEF LimiterInv, LimiterTypeOK
  <2>2. CASE c \notin DOMAIN bucket
    <3>1. PICK S : S = EvictLocked(With(bucket, c, NewBucket))
      OBVIOUS
    <3>2. kept = Without(With(bucket, c, NewBucket), S)
      BY <2>2, <1>1, <1>2, <3>1
    <3>3. \A d \in DOMAIN bucket \cap S : bucket[d].tokens = Burst
      BY <2>2, <3>1, EvictedWereFull
    <3>4. /\ DOMAIN kept = (DOMAIN bucket \cup {c}) \ S
          /\ \A d \in DOMAIN kept \ {c} : kept[d] = bucket[d]
          BY <3>2 DEF With, Without
    <3> QED
      BY <3>3, <3>4 DEF LimiterInv, LimiterTypeOK
  <2> QED
    BY <2>1, <2>2
<1>7. /\ DOMAIN bucket' = DOMAIN kept
      /\ \A d \in DOMAIN kept \ {c} : bucket'[d] = bucket[d]
      /\ c \in DOMAIN kept => bucket'[c] = after
  BY <1>4, <1>6
<1>8. after.tokens \in 0..Burst /\ after.idle = 0 /\ after \in Bucket
  BY <1>3, <1>5, LimiterAssumption DEF Bucket, NeverSeen
<1>9. /\ \A d \in DOMAIN bucket : bucket[d] \in Bucket /\ bucket[d].tokens \in 0..Burst
      /\ allowance \in [Callers -> (-MaxOvershoot)..Burst] /\ forgotten \subseteq Callers
      /\ DOMAIN bucket \subseteq Callers
  BY DEF LimiterInv, LimiterTypeOK, Bucket
<1>10. allowance' \in [Callers -> (-MaxOvershoot)..Burst]
  BY <1>4, <1>9, LimiterAssumption
<1>11. LimiterTypeOK'
  BY <1>4, <1>6, <1>7, <1>8, <1>9, <1>10 DEF LimiterTypeOK, Bucket, NeverSeen
<1>12. IdleBucketsFill'
  BY <1>6, <1>7, <1>8 DEF LimiterInv, IdleBucketsFill
<1>13. BucketsAreAllowances'
  <2> SUFFICES ASSUME NEW d \in Callers, d \notin forgotten'
               PROVE  allowance'[d] = IF d \in DOMAIN bucket' THEN bucket'[d].tokens ELSE Burst
    BY DEF BucketsAreAllowances
  <2>1. allowance[d] = IF d \in DOMAIN bucket THEN bucket[d].tokens ELSE Burst
    BY <1>4 DEF LimiterInv, BucketsAreAllowances
  <2>2. CASE d = c
    <3>1. c \in DOMAIN kept
      BY <1>4, <2>2
    <3>2. allowance[c] = b.tokens
      BY <1>1, <2>1, <2>2 DEF NewBucket
    <3>3. allowance'[c] = after.tokens
      BY <1>3, <1>4, <1>5, <1>9, <3>2
    <3> QED
      BY <1>7, <2>2, <3>1, <3>3
  <2>3. CASE d # c
    <3>1. allowance'[d] = allowance[d]
      BY <1>4, <1>9, <2>3
    <3> QED
      BY <1>6, <1>7, <2>1, <2>3, <3>1
  <2> QED
    BY <2>2, <2>3
<1> QED
  BY <1>11, <1>12, <1>13 DEF LimiterInv

LEMMA LimiterTickKeeps == ASSUME LimiterInv, LimiterTick PROVE LimiterInv'
<1>1. /\ DOMAIN bucket' = DOMAIN bucket
      /\ \A c \in DOMAIN bucket :
           bucket'[c] = [tokens |-> Refill(bucket[c].tokens),
                         idle |-> IF bucket[c].idle > BucketTTL THEN NeverSeen ELSE bucket[c].idle + 1]
      /\ allowance' = [c \in Callers |-> IF allowance[c] < Burst THEN allowance[c] + 1 ELSE Burst]
      /\ forgotten' = forgotten
  BY DEF LimiterTick
<1>2. /\ \A c \in DOMAIN bucket : /\ bucket[c].tokens \in 0..Burst /\ bucket[c].idle \in 0..NeverSeen
                                  /\ bucket[c].tokens = Burst \/ bucket[c].idle <= bucket[c].tokens
      /\ allowance \in [Callers -> (-MaxOvershoot)..Burst]
      /\ DOMAIN bucket \subseteq Callers /\ forgotten \subseteq Callers
  BY DEF LimiterInv, LimiterTypeOK, Bucket, IdleBucketsFill
<1>3. \A n \in 0..Burst : Refill(n) \in 0..Burst /\ Refill(n) = IF n < Burst THEN n + 1 ELSE Burst
  BY LimiterAssumption DEF Refill
<1>4. \A c \in DOMAIN bucket :
        /\ bucket'[c].tokens = Refill(bucket[c].tokens)
        /\ bucket'[c].idle = IF bucket[c].idle > BucketTTL THEN NeverSeen ELSE bucket[c].idle + 1
  BY <1>1
<1>5. \A c \in DOMAIN bucket : bucket'[c].idle \in 0..NeverSeen
  BY <1>2, <1>4, LimiterAssumption DEF NeverSeen
<1>6. \A c \in DOMAIN bucket : bucket'[c] \in Bucket
  BY <1>1, <1>2, <1>3, <1>4, <1>5 DEF Bucket
<1>7. allowance' \in [Callers -> (-MaxOvershoot)..Burst]
  BY <1>1, <1>2, LimiterAssumption
<1>8. LimiterTypeOK'
  BY <1>1, <1>2, <1>6, <1>7 DEF LimiterTypeOK, Bucket, NeverSeen
<1>9. IdleBucketsFill'
  <2> SUFFICES ASSUME NEW c \in DOMAIN bucket
               PROVE  bucket'[c].tokens = Burst \/ bucket'[c].idle <= bucket'[c].tokens
    BY <1>1 DEF IdleBucketsFill
  <2> QED
    BY <1>2, <1>3, <1>4, LimiterAssumption DEF NeverSeen
<1>10. BucketsAreAllowances'
  <2> SUFFICES ASSUME NEW c \in Callers \ forgotten
               PROVE  allowance'[c] = IF c \in DOMAIN bucket' THEN bucket'[c].tokens ELSE Burst
    BY <1>1 DEF BucketsAreAllowances
  <2>1. allowance[c] = IF c \in DOMAIN bucket THEN bucket[c].tokens ELSE Burst
    BY DEF LimiterInv, BucketsAreAllowances
  <2> QED
    BY <1>1, <1>2, <1>3, <1>4, <2>1, LimiterAssumption
<1> QED
  BY <1>8, <1>9, <1>10 DEF LimiterInv

LEMMA LimiterStep == LimiterInv /\ [LimiterNext]_limiterVars => LimiterInv'
<1>1. ASSUME LimiterInv, UNCHANGED limiterVars PROVE LimiterInv'
  BY <1>1 DEF LimiterInv, LimiterTypeOK, IdleBucketsFill, BucketsAreAllowances, Bucket, NeverSeen,
              limiterVars
<1> QED
  BY <1>1, AllowKeeps, LimiterTickKeeps DEF LimiterNext

(* A key that was never answered from a bucket the map did not keep is let  *)
(* through no oftener than the rate allows, whatever the map drops          *)
(* (evictLocked).                                                           *)
THEOREM LimitHolds == LimiterSpec => []OnlyUnkeptBucketsOvershoot
<1>1. LimiterInv => OnlyUnkeptBucketsOvershoot
  <2> SUFFICES ASSUME LimiterInv, NEW c \in Callers \ forgotten PROVE allowance[c] >= 0
    BY DEF OnlyUnkeptBucketsOvershoot
  <2> QED
    BY LimiterAssumption DEF LimiterInv, LimiterTypeOK, BucketsAreAllowances, Bucket
<1> QED
  BY <1>1, InitLimiter, LimiterStep, PTL DEF LimiterSpec

-----------------------------------------------------------------------------
(* What an application disburses: any number of requests, payouts and       *)
(* administrators                                                           *)

LEMMA LargestAmount == Max(Amounts) \in Nat /\ \A n \in Amounts : n <= Max(Amounts)
<1>1. PICK most \in Amounts : \A n \in Amounts : n <= most
  BY AdmissionAssumption
<1>2. \E x \in Amounts : \A y \in Amounts : x >= y
  BY <1>1, AdmissionAssumption
<1>3. Max(Amounts) \in Amounts /\ \A y \in Amounts : Max(Amounts) >= y
  BY <1>2 DEF Max
<1> QED
  BY <1>3, AdmissionAssumption

(* The highest limit there has been covers the limit in force and the one   *)
(* each request under way has read.                                         *)
CeilingsSeen ==
  highest # NoCeiling =>
    /\ limits.daily # NoCeiling /\ limits.daily <= highest
    /\ \A q \in Requesters : asking[q].stage # "idle" =>
         asking[q].daily # NoCeiling /\ asking[q].daily <= highest

(* What requests have had admitted and are about to insert counts like what *)
(* was inserted.                                                            *)
Inserting == {q \in Requesters : asking[q].stage = "insert"}
AskedAmounts == [q \in Requesters |-> asking[q].amount]
Counted == {r \in References : entered[r].state \in Counts}
Admitted == SumOf(PayoutAmounts, Counted) + SumOf(AskedAmounts, Inserting)
Beyond == (Cardinality(Requesters) - 1) * Max(Amounts)

AdmittedFits == highest # NoCeiling => Admitted <= highest + Beyond

AdmissionInv == AdmissionTypeOK /\ CeilingsSeen /\ AdmittedFits

(* All the sums are natural.                                                *)
LEMMA SumsAreNatural ==
  ASSUME AdmissionTypeOK
  PROVE  /\ \A r \in References : PayoutAmounts[r] \in 0..Max(Amounts)
         /\ \A q \in Requesters : AskedAmounts[q] \in 0..Max(Amounts)
         /\ \A T \in SUBSET References : IsFiniteSet(T) /\ SumOf(PayoutAmounts, T) \in Nat
         /\ \A T \in SUBSET Requesters : IsFiniteSet(T) /\ SumOf(AskedAmounts, T) \in Nat
<1>0. \A n \in Amounts \cup {0} : n \in 0..Max(Amounts)
  <2>1. PICK most \in Nat : most = Max(Amounts) /\ \A n \in Amounts : n <= most
    BY LargestAmount
  <2> QED
    BY <2>1, AdmissionAssumption
<1>1. \A r \in References : PayoutAmounts[r] \in 0..Max(Amounts)
  <2>1. \A r \in References : PayoutAmounts[r] \in Amounts \cup {0}
    BY DEF AdmissionTypeOK, Entries, PayoutAmounts
  <2> QED
    BY <1>0, <2>1
<1>2. \A q \in Requesters : AskedAmounts[q] \in 0..Max(Amounts)
  <2>1. \A q \in Requesters : AskedAmounts[q] \in Amounts
    BY DEF AdmissionTypeOK, Asks, AskedAmounts
  <2> QED
    BY <1>0, <2>1
<1>3. \A T \in SUBSET References : IsFiniteSet(T) /\ SumOf(PayoutAmounts, T) \in Nat
  BY <1>1, LargestAmount, AdmissionAssumption, FS_Subset, SumGrows
<1>4. \A T \in SUBSET Requesters : IsFiniteSet(T) /\ SumOf(AskedAmounts, T) \in Nat
  BY <1>2, LargestAmount, AdmissionAssumption, FS_Subset, SumGrows
<1> QED
  BY <1>1, <1>2, <1>3, <1>4

LEMMA BeyondIsNatural == Beyond \in Nat
<1>1. Cardinality(Requesters) \in Nat /\ Cardinality(Requesters) # 0
  BY AdmissionAssumption, FS_CardinalityType, FS_EmptySet
<1>2. PICK m \in Nat : m = Max(Amounts)
  BY LargestAmount
<1>3. PICK n \in Nat : n = Cardinality(Requesters) - 1
  BY <1>1
<1>4. n * m \in Nat
  OBVIOUS
<1> QED
  BY <1>2, <1>3, <1>4 DEF Beyond

(* What the others are about to insert is one payout each.                  *)
LEMMA OthersFit ==
  ASSUME AdmissionTypeOK, NEW q \in Requesters
  PROVE  SumOf(AskedAmounts, Inserting \ {q}) <= Beyond
<1>1. PICK others : others = Requesters \ {q}
  OBVIOUS
<1>2. IsFiniteSet(others) /\ Cardinality(others) = Cardinality(Requesters) - 1
  BY <1>1, AdmissionAssumption, FS_RemoveElement
<1>3. \A p \in others : AskedAmounts[p] \in 0..Max(Amounts)
  BY <1>1, SumsAreNatural
<1>4. SumOf(AskedAmounts, others) <= Cardinality(others) * Max(Amounts)
  BY <1>2, <1>3, LargestAmount, SumAtMost
<1>5. Inserting \ {q} \in SUBSET others
  BY <1>1 DEF Inserting
<1>6. PICK T : T = Inserting \ {q}
  OBVIOUS
<1>7. SumOf(AskedAmounts, T) <= SumOf(AskedAmounts, others)
  BY <1>2, <1>3, <1>5, <1>6, LargestAmount, SumGrows
<1>8. SumOf(AskedAmounts, others) <= Beyond
  BY <1>2, <1>4 DEF Beyond
<1>9. SumOf(AskedAmounts, T) \in Nat /\ SumOf(AskedAmounts, others) \in Nat
  BY <1>1, <1>5, <1>6, SumsAreNatural
<1> QED
  BY <1>6, <1>7, <1>8, <1>9, BeyondIsNatural

LEMMA InitAdmission == AdmissionInit => AdmissionInv
<1> SUFFICES ASSUME AdmissionInit PROVE AdmissionInv
  OBVIOUS
<1>1. NoAsk \in Asks /\ NoAsk.stage = "idle"
  BY AdmissionAssumption DEF NoAsk, Asks, AskStages
<1>2. NoChange \in Changes
  BY AdmissionAssumption, FirstLimitsAssumption DEF NoChange, Changes
<1>3. NoEntry \in Entries /\ NoEntry.state = "none"
  BY AdmissionAssumption DEF NoEntry, Entries, PayoutStates
<1>4. FirstLimits.daily \in Ceilings \cup {NoCeiling}
  BY FirstLimitsAssumption DEF Limits
<1>5. AdmissionTypeOK
  BY <1>1, <1>2, <1>3, <1>4, FirstLimitsAssumption, AdmissionAssumption
     DEF AdmissionInit, AdmissionTypeOK
<1>10. PICK d \in Ceilings \cup {NoCeiling} : d = FirstLimits.daily
  BY <1>4
<1>11. /\ highest = d /\ limits.daily = d
       /\ \A q \in Requesters : asking[q].stage = "idle"
  BY <1>1, <1>10 DEF AdmissionInit
<1>12. d # NoCeiling => d \in Nat
  BY <1>10, AdmissionAssumption
<1>6. CeilingsSeen
  BY <1>11, <1>12 DEF CeilingsSeen
<1>7. Counted = {} /\ Inserting = {}
  BY <1>1, <1>3 DEF AdmissionInit, Counted, Counts, Inserting
<1>8. Admitted = 0
  BY <1>7, SumOfNone DEF Admitted
<1>9. AdmittedFits
  BY <1>8, <1>11, <1>12, BeyondIsNatural DEF AdmittedFits
<1> QED
  BY <1>5, <1>6, <1>9 DEF AdmissionInv

(* A step of a request that neither admits nor enters a payout.             *)
LEMMA RequestMoves ==
  ASSUME AdmissionInv, NEW q \in Requesters, NEW a \in Asks,
         asking' = [asking EXCEPT ![q] = a], a.stage # "insert",
         a.stage # "idle" => a.daily = asking[q].daily \/ a.daily = limits.daily,
         a.stage # "idle" /\ a.daily # limits.daily => asking[q].stage # "idle",
         UNCHANGED <<limits, entered, changing, highest, writes>>
  PROVE  AdmissionInv'
<1>1. AdmissionTypeOK'
  BY DEF AdmissionInv, AdmissionTypeOK
<1>2. \A p \in Requesters \ {q} : asking'[p] = asking[p]
  BY DEF AdmissionInv, AdmissionTypeOK
<1>3. asking'[q] = a
  BY DEF AdmissionInv, AdmissionTypeOK
<1>4. CeilingsSeen'
  BY <1>2, <1>3 DEF AdmissionInv, CeilingsSeen
<1>5. Inserting' = Inserting \ {q}
  BY <1>2, <1>3 DEF Inserting
<1>6. PICK T : T = Inserting \ {q}
  OBVIOUS
<1>7. T \in SUBSET Inserting /\ Inserting \in SUBSET Requesters /\ q \notin T
  BY <1>6 DEF Inserting
<1>8. \A p \in T : AskedAmounts'[p] = AskedAmounts[p]
  BY <1>2, <1>7 DEF AskedAmounts
<1>9. SumOf(AskedAmounts', T) = SumOf(AskedAmounts, T)
  BY <1>8, SumIsOfAmounts
<1>10. SumOf(AskedAmounts, T) <= SumOf(AskedAmounts, Inserting)
  <2>1. IsFiniteSet(Inserting) /\ \A p \in Inserting : AskedAmounts[p] \in 0..Max(Amounts)
    BY <1>7, SumsAreNatural DEF AdmissionInv
  <2> QED
    BY <1>7, <2>1, LargestAmount, SumGrows
<1>11. SumOf(PayoutAmounts', Counted') = SumOf(PayoutAmounts, Counted)
  BY DEF PayoutAmounts, Counted
<1>12. /\ SumOf(AskedAmounts, T) \in Nat /\ SumOf(AskedAmounts, Inserting) \in Nat
       /\ SumOf(PayoutAmounts, Counted) \in Nat
  BY <1>7, SumsAreNatural DEF AdmissionInv, Counted
<1>13. SumOf(AskedAmounts', Inserting') = SumOf(AskedAmounts, T)
  BY <1>5, <1>6, <1>9
<1>14. highest \in Ceilings \cup {NoCeiling} /\ highest' = highest
  BY DEF AdmissionInv, AdmissionTypeOK
<1>15. AdmittedFits'
  BY <1>10, <1>11, <1>12, <1>13, <1>14, BeyondIsNatural, AdmissionAssumption
     DEF AdmissionInv, AdmittedFits, Admitted, Beyond
<1> QED
  BY <1>1, <1>4, <1>15 DEF AdmissionInv

LEMMA NoAskMoves ==
  ASSUME AdmissionInv, NEW q \in Requesters, Refuse(q),
         UNCHANGED <<limits, entered, changing, highest, writes>>
  PROVE  AdmissionInv'
<1>1. NoAsk \in Asks /\ NoAsk.stage = "idle"
  BY AdmissionAssumption DEF NoAsk, Asks, AskStages
<1>2. PICK a \in Asks : a = NoAsk
  BY <1>1
<1>3. asking' = [asking EXCEPT ![q] = a] /\ a.stage = "idle"
  BY <1>1, <1>2 DEF Refuse
<1> QED
  BY <1>3, RequestMoves

LEMMA ReadLimitsKeeps ==
  ASSUME AdmissionInv, NEW q \in Requesters, NEW r \in References, NEW n \in Amounts,
         ReadLimits(q, r, n)
  PROVE  AdmissionInv'
<1>1. PICK a : a = [stage |-> "original", reference |-> r, amount |-> n, daily |-> limits.daily]
  OBVIOUS
<1>2. limits.daily \in Ceilings \cup {NoCeiling}
  BY DEF AdmissionInv, AdmissionTypeOK, Limits
<1>3. a \in Asks /\ a.stage = "original" /\ a.daily = limits.daily
  BY <1>1, <1>2 DEF Asks, AskStages
<1>4. /\ asking' = [asking EXCEPT ![q] = a]
      /\ UNCHANGED <<limits, entered, changing, highest, writes>>
  BY <1>1 DEF ReadLimits
<1> QED
  BY <1>3, <1>4, RequestMoves

LEMMA FindOriginalKeeps ==
  ASSUME AdmissionInv, NEW q \in Requesters, FindOriginal(q) PROVE AdmissionInv'
<1>1. PICK a : a = [asking[q] EXCEPT !.stage = "daily"]
  OBVIOUS
<1>2. asking[q] \in Asks
  BY DEF AdmissionInv, AdmissionTypeOK
<1>3. a \in Asks /\ a.stage = "daily" /\ a.daily = asking[q].daily
  BY <1>1, <1>2 DEF Asks, AskStages
<1>4. /\ asking[q].stage = "original"
      /\ Refuse(q) \/ asking' = [asking EXCEPT ![q] = a]
      /\ UNCHANGED <<limits, entered, changing, highest, writes>>
  BY <1>1 DEF FindOriginal, Ask
<1> QED
  BY <1>3, <1>4, RequestMoves, NoAskMoves

(* The check of the day: what the others are about to insert is not counted.*)
LEMMA CheckDailyKeeps ==
  ASSUME AdmissionInv, NEW q \in Requesters, CheckDaily(q) PROVE AdmissionInv'
<1>1. CASE Refuse(q)
  BY <1>1, NoAskMoves DEF CheckDaily
<1>2. CASE ~Refuse(q)
  <2>1. PICK a : a = [asking[q] EXCEPT !.stage = "insert"]
    OBVIOUS
  <2>2. asking[q] \in Asks
    BY DEF AdmissionInv, AdmissionTypeOK
  <2>3. /\ a \in Asks /\ a.stage = "insert" /\ a.daily = asking[q].daily
        /\ a.amount = asking[q].amount
    BY <2>1, <2>2 DEF Asks, AskStages
  <2>4. /\ asking[q].stage = "daily"
        /\ Within(SentToday + asking[q].amount, asking[q].daily)
        /\ asking' = [asking EXCEPT ![q] = a]
        /\ UNCHANGED <<limits, entered, changing, highest, writes>>
    BY <1>2, <2>1 DEF CheckDaily, Ask
  <2>5. AdmissionTypeOK'
    BY <2>3, <2>4 DEF AdmissionInv, AdmissionTypeOK
  <2>6. /\ \A p \in Requesters \ {q} : asking'[p] = asking[p]
        /\ asking'[q] = a
    BY <2>4 DEF AdmissionInv, AdmissionTypeOK
  <2>7. CeilingsSeen'
    BY <2>3, <2>4, <2>6 DEF AdmissionInv, CeilingsSeen
  <2>8. PICK T : T = Inserting \ {q}
    OBVIOUS
  <2>9. /\ Inserting' = T \cup {q} /\ q \notin T /\ T \in SUBSET Requesters
        /\ \A p \in T \cup {q} : AskedAmounts'[p] = AskedAmounts[p]
    BY <2>3, <2>6, <2>8 DEF Inserting, AskedAmounts
  <2>10. SumOf(AskedAmounts', Inserting') = SumOf(AskedAmounts, T) + AskedAmounts[q]
    <3>1. SumOf(AskedAmounts', T \cup {q}) = SumOf(AskedAmounts, T \cup {q})
      BY <2>9, SumIsOfAmounts
    <3>2. IsFiniteSet(T) /\ \A p \in T \cup {q} : AskedAmounts[p] \in 0..Max(Amounts)
      BY <2>9, SumsAreNatural DEF AdmissionInv
    <3>3. SumOf(AskedAmounts, T \cup {q}) = SumOf(AskedAmounts, T) + AskedAmounts[q]
      BY <2>9, <3>2, LargestAmount, SumOfMore
    <3> QED
      BY <2>9, <3>1, <3>3
  <2>11. SumOf(AskedAmounts, T) <= Beyond
    BY <2>8, OthersFit DEF AdmissionInv
  <2>12. /\ SumOf(AskedAmounts, T) \in Nat /\ AskedAmounts[q] = asking[q].amount
         /\ asking[q].amount \in Nat
         /\ SumOf(PayoutAmounts, Counted) \in Nat
    BY <2>2, <2>9, SumsAreNatural, AdmissionAssumption
       DEF AdmissionInv, Counted, AskedAmounts, Asks
  <2>13. SumOf(PayoutAmounts', Counted') = SentToday
    BY <2>4 DEF PayoutAmounts, Counted, SentToday
  <2>14. SumOf(PayoutAmounts, Counted) = SentToday
    BY DEF Counted, SentToday
  <2>15. AdmittedFits'
    <3> SUFFICES ASSUME highest # NoCeiling
                 PROVE  Admitted' <= highest + Beyond
      BY <2>4 DEF AdmittedFits, Beyond
    <3>1. PICK d \in Ceilings : d = asking[q].daily /\ d <= highest
      BY <2>2, <2>4 DEF AdmissionInv, CeilingsSeen, Asks
    <3>2. d \in Nat /\ highest \in Nat /\ d # NoCeiling
      BY <3>1, AdmissionAssumption DEF AdmissionInv, AdmissionTypeOK
    <3>3. SentToday + asking[q].amount <= d
      BY <2>4, <3>1, <3>2 DEF Within
    <3>4. Admitted' = SentToday + SumOf(AskedAmounts, T) + asking[q].amount
      BY <2>10, <2>12, <2>13, <2>14 DEF Admitted
    <3> QED
      BY <2>11, <2>12, <2>14, <3>1, <3>2, <3>3, <3>4, BeyondIsNatural
  <2> QED
    BY <2>5, <2>7, <2>15 DEF AdmissionInv
<1> QED
  BY <1>1, <1>2

(* The insert: what was admitted is entered, or is not because the          *)
(* reference is taken.                                                      *)
LEMMA EnterKeeps ==
  ASSUME AdmissionInv, NEW q \in Requesters, Enter(q) PROVE AdmissionInv'
<1>1. PICK r \in References : r = asking[q].reference
  BY DEF AdmissionInv, AdmissionTypeOK, Asks
<1>2. PICK n \in Amounts : n = asking[q].amount
  BY DEF AdmissionInv, AdmissionTypeOK, Asks
<1>3. CASE entered[r] # NoEntry
  BY <1>1, <1>3, NoAskMoves DEF Enter
<1>4. CASE entered[r] = NoEntry
  <2>1. PICK e : e = [amount |-> n, state |-> "open"]
    OBVIOUS
  <2>2. e \in Entries /\ e.amount = n /\ e.state = "open"
    BY <2>1 DEF Entries, PayoutStates
  <2>3. NoAsk \in Asks /\ NoAsk.stage = "idle"
    BY AdmissionAssumption DEF NoAsk, Asks, AskStages
  <2>4. /\ asking[q].stage = "insert"
        /\ asking' = [asking EXCEPT ![q] = NoAsk]
        /\ entered' = [entered EXCEPT ![r] = e]
        /\ UNCHANGED <<limits, changing, highest, writes>>
    BY <1>1, <1>2, <1>4, <2>1 DEF Enter, Refuse
  <2>5. AdmissionTypeOK'
    BY <2>2, <2>3, <2>4 DEF AdmissionInv, AdmissionTypeOK
  <2>6. /\ \A p \in Requesters \ {q} : asking'[p] = asking[p]
        /\ asking'[q].stage = "idle"
        /\ \A s \in References \ {r} : entered'[s] = entered[s]
        /\ entered'[r] = e
    BY <2>3, <2>4 DEF AdmissionInv, AdmissionTypeOK
  <2>7. CeilingsSeen'
    BY <2>4, <2>6 DEF AdmissionInv, CeilingsSeen
  <2>8. PICK T : T = Inserting \ {q}
    OBVIOUS
  <2>9. /\ Inserting' = T /\ Inserting = T \cup {q} /\ q \notin T /\ T \in SUBSET Requesters
        /\ \A p \in T : AskedAmounts'[p] = AskedAmounts[p]
    BY <2>4, <2>6, <2>8 DEF Inserting, AskedAmounts
  <2>10. PICK C : C = Counted
    OBVIOUS
  <2>11. entered[r].state = "none"
    BY <1>4 DEF NoEntry
  <2>12. /\ Counted' = C \cup {r} /\ r \notin C /\ C \in SUBSET References
         /\ \A s \in C : PayoutAmounts'[s] = PayoutAmounts[s]
         /\ PayoutAmounts'[r] = n
    BY <2>2, <2>6, <2>10, <2>11 DEF Counted, Counts, PayoutAmounts
  <2>13. SumOf(AskedAmounts, Inserting) = SumOf(AskedAmounts, T) + n
    <3>1. IsFiniteSet(T) /\ \A p \in T \cup {q} : AskedAmounts[p] \in 0..Max(Amounts)
      BY <2>9, SumsAreNatural DEF AdmissionInv
    <3>2. SumOf(AskedAmounts, T \cup {q}) = SumOf(AskedAmounts, T) + AskedAmounts[q]
      BY <2>9, <3>1, LargestAmount, SumOfMore
    <3>3. AskedAmounts[q] = n
      BY <1>2 DEF AskedAmounts
    <3> QED
      BY <2>9, <3>2, <3>3
  <2>14. SumOf(PayoutAmounts', Counted') = SumOf(PayoutAmounts, C) + n
    <3>1. SumOf(PayoutAmounts', C) = SumOf(PayoutAmounts, C)
      BY <2>12, SumIsOfAmounts
    <3>2. IsFiniteSet(C)
      BY <2>12, AdmissionAssumption, FS_Subset
    <3>3. \A s \in C \cup {r} : PayoutAmounts'[s] \in 0..Max(Amounts)
      <4>1. \A s \in C : PayoutAmounts'[s] \in 0..Max(Amounts)
        BY <2>12, SumsAreNatural DEF AdmissionInv
      <4>2. n \in 0..Max(Amounts)
        BY LargestAmount, AdmissionAssumption
      <4> QED
        BY <2>12, <4>1, <4>2
    <3>4. PICK f : f = PayoutAmounts'
      OBVIOUS
    <3>5. \A s \in C \cup {r} : f[s] \in 0..Max(Amounts)
      BY <3>3, <3>4
    <3>6. SumOf(f, C \cup {r}) = SumOf(f, C) + f[r]
      BY <2>12, <3>2, <3>5, LargestAmount, SumOfMore
    <3> QED
      BY <2>12, <3>1, <3>4, <3>6
  <2>15. SumOf(AskedAmounts', Inserting') = SumOf(AskedAmounts, T)
    BY <2>9, SumIsOfAmounts
  <2>16. /\ SumOf(AskedAmounts, T) \in Nat /\ SumOf(PayoutAmounts, C) \in Nat /\ n \in Nat
    BY <2>9, <2>12, SumsAreNatural, AdmissionAssumption DEF AdmissionInv
  <2>17. Admitted' = Admitted
    <3>1. Admitted = SumOf(PayoutAmounts, C) + (SumOf(AskedAmounts, T) + n)
      BY <2>10, <2>13 DEF Admitted
    <3>2. Admitted' = (SumOf(PayoutAmounts, C) + n) + SumOf(AskedAmounts, T)
      BY <2>14, <2>15 DEF Admitted
    <3> QED
      BY <2>16, <3>1, <3>2
  <2>18. AdmittedFits'
    BY <2>4, <2>17 DEF AdmissionInv, AdmittedFits, Beyond
  <2> QED
    BY <2>5, <2>7, <2>18 DEF AdmissionInv
<1> QED
  BY <1>3, <1>4

(* A payout that ends counts no more; one that completes counts on.         *)
LEMMA ProceedKeeps ==
  ASSUME AdmissionInv, NEW r \in References, Proceed(r) PROVE AdmissionInv'
<1>1. PICK state \in {"COMPLETED", "ended"} : entered' = [entered EXCEPT ![r].state = state]
  BY DEF Proceed
<1>2. PICK e : e = [entered[r] EXCEPT !.state = state]
  OBVIOUS
<1>3. entered[r] \in Entries
  BY DEF AdmissionInv, AdmissionTypeOK
<1>4. e \in Entries /\ e.amount = entered[r].amount
  BY <1>1, <1>2, <1>3 DEF Entries, PayoutStates
<1>5. /\ entered[r].state \in {"open", "COMPLETED"}
      /\ entered' = [entered EXCEPT ![r] = e]
      /\ UNCHANGED <<limits, asking, changing, highest, writes>>
  BY <1>1, <1>2 DEF Proceed
<1>6. AdmissionTypeOK'
  BY <1>4, <1>5 DEF AdmissionInv, AdmissionTypeOK
<1>7. CeilingsSeen'
  BY <1>5 DEF AdmissionInv, CeilingsSeen
<1>8. /\ \A s \in References \ {r} : entered'[s] = entered[s]
      /\ entered'[r] = e
  BY <1>5 DEF AdmissionInv, AdmissionTypeOK
<1>9. PICK C : C = Counted'
  OBVIOUS
<1>10. /\ C \in SUBSET Counted /\ Counted \in SUBSET References
       /\ \A s \in C : PayoutAmounts'[s] = PayoutAmounts[s]
  BY <1>4, <1>5, <1>8, <1>9 DEF Counted, Counts, PayoutAmounts
<1>11. SumOf(PayoutAmounts', Counted') = SumOf(PayoutAmounts, C)
  BY <1>9, <1>10, SumIsOfAmounts
<1>12. SumOf(PayoutAmounts, C) <= SumOf(PayoutAmounts, Counted)
  <2>1. IsFiniteSet(Counted) /\ \A s \in Counted : PayoutAmounts[s] \in 0..Max(Amounts)
    BY <1>10, SumsAreNatural DEF AdmissionInv
  <2> QED
    BY <1>10, <2>1, LargestAmount, SumGrows
<1>13. SumOf(AskedAmounts', Inserting') = SumOf(AskedAmounts, Inserting)
  BY <1>5 DEF AskedAmounts, Inserting
<1>14. /\ SumOf(PayoutAmounts, C) \in Nat /\ SumOf(PayoutAmounts, Counted) \in Nat
       /\ SumOf(AskedAmounts, Inserting) \in Nat
  BY <1>10, SumsAreNatural DEF AdmissionInv, Inserting
<1>15. highest \in Ceilings \cup {NoCeiling} /\ highest' = highest
  BY <1>5 DEF AdmissionInv, AdmissionTypeOK
<1>16. AdmittedFits'
  BY <1>11, <1>12, <1>13, <1>14, <1>15, BeyondIsNatural, AdmissionAssumption
     DEF AdmissionInv, AdmittedFits, Admitted, Beyond
<1> QED
  BY <1>6, <1>7, <1>16 DEF AdmissionInv

LEMMA MergedIsLimits ==
  ASSUME NEW l \in Limits, NEW p \in Patches PROVE Merged(l, p) \in Limits
<1>1. /\ l.enabled \in BOOLEAN /\ l.approval \in BOOLEAN
      /\ l.max \in Ceilings \cup {NoCeiling} /\ l.daily \in Ceilings \cup {NoCeiling}
      /\ l = [enabled |-> l.enabled, approval |-> l.approval, max |-> l.max, daily |-> l.daily]
  BY DEF Limits
<1>2. p \in [enabled : BOOLEAN \cup {Keep}, approval : BOOLEAN \cup {Keep},
             max : Ceilings \cup {NoCeiling, Keep}, daily : Ceilings \cup {NoCeiling, Keep}]
  BY AdmissionAssumption
<1>3. /\ DOMAIN l = {"enabled", "approval", "max", "daily"}
      /\ DOMAIN p = {"enabled", "approval", "max", "daily"}
  BY <1>2 DEF Limits
<1>4. /\ p["enabled"] \in BOOLEAN \cup {Keep} /\ p["approval"] \in BOOLEAN \cup {Keep}
      /\ p["max"] \in Ceilings \cup {NoCeiling, Keep}
      /\ p["daily"] \in Ceilings \cup {NoCeiling, Keep}
  BY <1>2
<1>5. PICK m : m = [f \in DOMAIN l |-> IF f \in Named(p) THEN p[f] ELSE l[f]]
  OBVIOUS
<1>6. m = [enabled |-> m["enabled"], approval |-> m["approval"], max |-> m["max"],
           daily |-> m["daily"]]
  BY <1>3, <1>5
<1>7. /\ m["enabled"] \in BOOLEAN /\ m["approval"] \in BOOLEAN
      /\ m["max"] \in Ceilings \cup {NoCeiling} /\ m["daily"] \in Ceilings \cup {NoCeiling}
  BY <1>1, <1>3, <1>4, <1>5 DEF Named
<1>8. m \in Limits
  BY <1>6, <1>7 DEF Limits
<1> QED
  BY <1>5, <1>8 DEF Merged

LEMMA ReadingFits ==
  ASSUME AdmissionInv, NEW a \in LimitAdmins, NEW p \in Patches, ReadCurrent(a, p)
  PROVE  AdmissionInv'
<1>1. PICK next \in Limits : next = Merged(limits, p)
  BY MergedIsLimits DEF AdmissionInv, AdmissionTypeOK
<1>2. PICK c : c = [stage |-> "write", next |-> next, patch |-> p]
  OBVIOUS
<1>3. c \in Changes
  BY <1>2 DEF Changes
<1>4. /\ changing' = [changing EXCEPT ![a] = c] /\ writes' = writes + 1 /\ writes < MaxWrites
      /\ UNCHANGED <<limits, entered, asking, highest>>
  BY <1>1, <1>2 DEF ReadCurrent
<1>5. AdmissionTypeOK'
  BY <1>3, <1>4, AdmissionAssumption DEF AdmissionInv, AdmissionTypeOK
<1>6. CeilingsSeen'
  BY <1>4 DEF AdmissionInv, CeilingsSeen
<1>7. AdmittedFits'
  BY <1>4 DEF AdmissionInv, AdmittedFits, Admitted, Beyond, PayoutAmounts, AskedAmounts, Counted,
              Inserting
<1> QED
  BY <1>5, <1>6, <1>7 DEF AdmissionInv

LEMMA WritingFits ==
  ASSUME AdmissionInv, NEW a \in LimitAdmins, SetLimits(a) PROVE AdmissionInv'
<1>1. NoChange \in Changes
  BY AdmissionAssumption, FirstLimitsAssumption DEF NoChange, Changes
<1>2. PICK next \in Limits : next = changing[a].next
  BY DEF AdmissionInv, AdmissionTypeOK, Changes
<1>3. /\ limits' = next /\ highest' = Higher(highest, next.daily)
      /\ changing' = [changing EXCEPT ![a] = NoChange]
      /\ UNCHANGED <<entered, asking, writes>>
  BY <1>2 DEF SetLimits, ColumnsWritten
<1>4. PICK d \in Ceilings \cup {NoCeiling} : d = next.daily
  BY DEF Limits
<1>5. highest \in Ceilings \cup {NoCeiling}
  BY DEF AdmissionInv, AdmissionTypeOK
<1>11. PICK h : h = highest
  OBVIOUS
<1>12. PICK k : k = highest'
  OBVIOUS
<1>13. k = Higher(h, d)
  BY <1>3, <1>4, <1>11, <1>12
<1>14. (h # NoCeiling => h \in Nat) /\ (d # NoCeiling => d \in Nat)
  BY <1>4, <1>5, <1>11, AdmissionAssumption
<1>15. /\ k \in Ceilings \cup {NoCeiling}
       /\ k # NoCeiling => h # NoCeiling /\ d # NoCeiling /\ h <= k /\ d <= k /\ h \in Nat /\ k \in Nat
  <2>1. CASE h = NoCeiling \/ d = NoCeiling
    BY <2>1, <1>13 DEF Higher
  <2>2. CASE h # NoCeiling /\ d # NoCeiling
    <3>1. k = IF h < d THEN d ELSE h
      BY <1>13, <2>2 DEF Higher
    <3> QED
      BY <1>4, <1>5, <1>11, <1>14, <2>2, <3>1
  <2> QED
    BY <2>1, <2>2
<1>6. /\ highest' \in Ceilings \cup {NoCeiling}
      /\ highest' # NoCeiling =>
           /\ highest # NoCeiling /\ d # NoCeiling
           /\ highest <= highest' /\ d <= highest'
           /\ highest \in Nat /\ highest' \in Nat
  BY <1>11, <1>12, <1>15
<1>7. AdmissionTypeOK'
  BY <1>1, <1>2, <1>3, <1>6 DEF AdmissionInv, AdmissionTypeOK
<1>8. CeilingsSeen'
  <2> SUFFICES ASSUME highest' # NoCeiling
               PROVE  /\ limits'.daily # NoCeiling /\ limits'.daily <= highest'
                      /\ \A q \in Requesters : asking[q].stage # "idle" =>
                           asking[q].daily # NoCeiling /\ asking[q].daily <= highest'
    BY <1>3 DEF CeilingsSeen
  <2>1. limits'.daily # NoCeiling /\ limits'.daily <= highest'
    BY <1>3, <1>4, <1>6
  <2>2. ASSUME NEW q \in Requesters, asking[q].stage # "idle"
        PROVE  asking[q].daily # NoCeiling /\ asking[q].daily <= highest'
    <3>1. asking[q].daily # NoCeiling /\ asking[q].daily <= highest
      BY <1>6, <2>2 DEF AdmissionInv, CeilingsSeen
    <3>2. asking[q].daily \in Ceilings \cup {NoCeiling}
      BY DEF AdmissionInv, AdmissionTypeOK, Asks
    <3>3. asking[q].daily \in Nat
      BY <3>1, <3>2, AdmissionAssumption
    <3> QED
      BY <1>6, <3>1, <3>3
  <2> QED
    BY <2>1, <2>2
<1>9. Admitted' = Admitted /\ Admitted \in Nat
  <2>1. SumOf(PayoutAmounts, Counted) \in Nat /\ SumOf(AskedAmounts, Inserting) \in Nat
    BY SumsAreNatural DEF AdmissionInv, Counted, Inserting
  <2> QED
    BY <1>3, <2>1 DEF Admitted, PayoutAmounts, AskedAmounts, Counted, Inserting
<1>10. AdmittedFits'
  <2> SUFFICES ASSUME highest' # NoCeiling PROVE Admitted <= highest' + Beyond
    BY <1>9 DEF AdmittedFits, Beyond
  <2>1. Admitted <= highest + Beyond
    BY <1>6 DEF AdmissionInv, AdmittedFits
  <2> QED
    BY <1>6, <1>9, <2>1, BeyondIsNatural
<1> QED
  BY <1>7, <1>8, <1>10 DEF AdmissionInv

LEMMA AdmissionStep == AdmissionInv /\ [AdmissionNext]_admissionVars => AdmissionInv'
<1>1. ASSUME AdmissionInv, UNCHANGED admissionVars PROVE AdmissionInv'
  BY <1>1 DEF AdmissionInv, AdmissionTypeOK, CeilingsSeen, AdmittedFits, Admitted, Beyond,
              PayoutAmounts, AskedAmounts, Counted, Inserting, admissionVars
<1>2. ASSUME AdmissionInv, NEW q \in Requesters, GiveUp(q) PROVE AdmissionInv'
  BY <1>2, NoAskMoves DEF GiveUp
<1> QED
  BY <1>1, <1>2, ReadLimitsKeeps, FindOriginalKeeps, CheckDailyKeeps, EnterKeeps, ProceedKeeps,
     ReadingFits, WritingFits DEF AdmissionNext

(* Requests that run together go over the highest daily limit there was by  *)
(* at most one largest payout for every other request under way (Request,   *)
(* SentToday).                                                              *)
THEOREM OvershootBounded == AdmissionSpec => []OvershootIsBounded
<1>1. ASSUME AdmissionInv PROVE OvershootIsBounded
  <2> SUFFICES ASSUME highest # NoCeiling
               PROVE  SumOf(PayoutAmounts, Counted) <= highest + Beyond
    BY DEF OvershootIsBounded, Counted, Counts, Beyond
  <2>1. SumOf(PayoutAmounts, Counted) \in Nat /\ SumOf(AskedAmounts, Inserting) \in Nat
    BY <1>1, SumsAreNatural DEF AdmissionInv, Counted, Inserting
  <2>2. highest \in Nat
    BY <1>1, AdmissionAssumption DEF AdmissionInv, AdmissionTypeOK
  <2>3. SumOf(PayoutAmounts, Counted) + SumOf(AskedAmounts, Inserting) <= highest + Beyond
    BY <1>1 DEF AdmissionInv, AdmittedFits, Admitted
  <2> QED
    BY <2>1, <2>2, <2>3, BeyondIsNatural
<1> QED
  BY <1>1, InitAdmission, AdmissionStep, PTL DEF AdmissionSpec

-----------------------------------------------------------------------------
(* The limits themselves                                                    *)

(* What an administrator is about to write was validated.                   *)
ChangesFit ==
  /\ changing = [a \in LimitAdmins |-> changing[a]]
  /\ \A a \in LimitAdmins : changing[a].stage = "write" => ValidLimits(changing[a].next)

LimitsInv == ChangesFit /\ LimitsAreValid

LEMMA InitLimits == AdmissionInit => LimitsInv
BY FirstLimitsAssumption DEF AdmissionInit, LimitsInv, ChangesFit, LimitsAreValid, NoChange

LEMMA ReadCurrentKeeps ==
  ASSUME LimitsInv, NEW a \in LimitAdmins, NEW p \in Patches, ReadCurrent(a, p) PROVE LimitsInv'
<1>1. PICK next : next = Merged(limits, p)
  OBVIOUS
<1>2. /\ ValidLimits(next) /\ UNCHANGED limits
      /\ changing' = [changing EXCEPT ![a] = [stage |-> "write", next |-> next, patch |-> p]]
  BY <1>1 DEF ReadCurrent
<1>3. \A b \in LimitAdmins : changing'[b].stage = "write" => ValidLimits(changing'[b].next)
  BY <1>2 DEF LimitsInv, ChangesFit
<1>4. ChangesFit'
  BY <1>2, <1>3 DEF LimitsInv, ChangesFit, ValidLimits, Within
<1> QED
  BY <1>2, <1>4 DEF LimitsInv, LimitsAreValid, ValidLimits, Within

LEMMA SetLimitsKeeps ==
  ASSUME LimitsInv, NEW a \in LimitAdmins, SetLimits(a) PROVE LimitsInv'
<1>1. /\ changing[a].stage = "write" /\ limits' = changing[a].next
      /\ changing' = [changing EXCEPT ![a] = NoChange]
  BY DEF SetLimits, ColumnsWritten
<1>2. ValidLimits(limits')
  BY <1>1 DEF LimitsInv, ChangesFit
<1>3. \A b \in LimitAdmins : changing'[b].stage = "write" => ValidLimits(changing'[b].next)
  BY <1>1 DEF LimitsInv, ChangesFit, NoChange
<1>4. ChangesFit'
  BY <1>1, <1>3 DEF LimitsInv, ChangesFit, ValidLimits, Within
<1> QED
  BY <1>2, <1>4 DEF LimitsInv, LimitsAreValid, ValidLimits, Within

LEMMA LimitsStep == LimitsInv /\ [AdmissionNext]_admissionVars => LimitsInv'
<1>1. ASSUME LimitsInv, UNCHANGED <<limits, changing>> PROVE LimitsInv'
  BY <1>1 DEF LimitsInv, ChangesFit, LimitsAreValid, ValidLimits, Within
<1> QED
  BY <1>1, ReadCurrentKeeps, SetLimitsKeeps
     DEF AdmissionNext, ReadLimits, FindOriginal, CheckDaily, Enter, GiveUp, Proceed, admissionVars

-----------------------------------------------------------------------------
(* Administrators who change the limits together never leave a combination  *)
(* that validateLimits would have refused (handleSetPayoutLimits).       *)
THEOREM LimitsStayValid == AdmissionSpec => []LimitsAreValid
<1>1. LimitsInv => LimitsAreValid
  BY DEF LimitsInv
<1> QED
  BY <1>1, InitLimits, LimitsStep, PTL DEF AdmissionSpec

-----------------------------------------------------------------------------
(* Keyset pages: any number of rows, any limits, any changes between pages  *)

Below == {ss \in Nat \X Nat : ss[1] < ss[2]}

LEMMA LeastNumber ==
  ASSUME NEW S \in SUBSET Nat, S # {} PROVE \E m \in S : \A n \in S : m <= n
<1>1. IsWellFoundedOn(Below, Nat)
  BY NatLessThanWellFounded DEF OpToRel, Below
<1>2. PICK m \in S : \A n \in S : ~ (<<n, m>> \in Below)
  BY <1>1, WFMin
<1>3. ASSUME NEW n \in S PROVE m <= n
  <2>1. m \in Nat /\ n \in Nat
    OBVIOUS
  <2>2. ~ (<<n, m>> \in Below)
    BY <1>2
  <2>3. ~(n < m)
    BY <2>1, <2>2 DEF Below
  <2> QED
    BY <2>1, <2>3
<1> QED
  BY <1>3

LEMMA GreatestRow ==
  ASSUME NEW S \in SUBSET RowIds, S # {} PROVE \E m \in S : \A n \in S : n <= m
<1>1. PICK T : T = {LastId - i : i \in S}
  OBVIOUS
<1>2. \A i \in S : i \in Nat /\ i <= LastId /\ LastId - i \in Nat
  BY PagesAssumption DEF RowIds
<1>3. T \in SUBSET Nat /\ T # {}
  BY <1>1, <1>2
<1>4. PICK k \in T : \A n \in T : k <= n
  BY <1>3, LeastNumber
<1>5. PICK m \in S : k = LastId - m
  BY <1>1
<1>6. ASSUME NEW n \in S PROVE n <= m
  <2>1. k <= LastId - n
    BY <1>1, <1>4
  <2> QED
    BY <1>2, <1>5, <2>1, PagesAssumption
<1> QED
  BY <1>6

LEMMA RowsAreFinite ==
  ASSUME NEW S \in SUBSET RowIds PROVE IsFiniteSet(S) /\ Cardinality(S) \in Nat
<1>1. IsFiniteSet(RowIds)
  BY PagesAssumption, FS_Interval DEF RowIds
<1> QED
  BY <1>1, FS_Subset, FS_CardinalityType

(* The newest rows are closed upwards; when they are fewer than asked for,  *)
(* they are all there are.                                                  *)
LEMMA NewestRows ==
  ASSUME NEW rows \in SUBSET RowIds, NEW n \in Nat, NEW top, top = Newest(rows, n)
  PROVE  /\ top \subseteq rows
         /\ \A i \in rows, j \in top : i >= j => i \in top
         /\ Cardinality(top) < n => top = rows
         /\ Cardinality(rows) <= n => top = rows
<1>1. top = {i \in rows : Cardinality({j \in rows : j > i}) < n}
  BY DEF Newest
<1>2. ASSUME NEW i \in rows, NEW j \in top, i >= j PROVE i \in top
  <2>1. PICK A : A = {k \in rows : k > i}
    OBVIOUS
  <2>2. PICK B : B = {k \in rows : k > j}
    OBVIOUS
  <2>3. i \in Nat /\ j \in Nat /\ \A k \in rows : k \in Nat
    BY <1>1 DEF RowIds
  <2>8. A \in SUBSET rows /\ B \in SUBSET rows
    BY <2>1, <2>2
  <2>9. \A k \in rows : k > i => k > j
    BY <1>2, <2>3
  <2>4. A \subseteq B /\ B \in SUBSET RowIds /\ A \in SUBSET RowIds
    BY <2>1, <2>2, <2>8, <2>9
  <2>5. Cardinality(A) <= Cardinality(B)
    BY <2>4, RowsAreFinite, FS_Subset
  <2>6. Cardinality(B) < n
    BY <1>1, <2>2
  <2>7. Cardinality(A) < n
    BY <2>4, <2>5, <2>6, RowsAreFinite
  <2> QED
    BY <1>1, <2>1, <2>7
<1>3. ASSUME Cardinality(top) < n, top # rows PROVE FALSE
  <2>1. PICK rest : rest = rows \ top
    OBVIOUS
  <2>2. rest # {} /\ rest \in SUBSET RowIds
    BY <1>1, <1>3, <2>1
  <2>3. PICK m \in rest : \A k \in rest : k <= m
    BY <2>2, GreatestRow
  <2>4. PICK A : A = {k \in rows : k > m}
    OBVIOUS
  <2>5. m \in Nat /\ \A k \in rows : k \in Nat
    BY <2>1 DEF RowIds
  <2>10. \A k \in rest : ~(k > m)
    BY <2>1, <2>3, <2>5
  <2>6. A \subseteq top
    BY <2>1, <2>4, <2>10
  <2>7. top \in SUBSET RowIds /\ A \in SUBSET RowIds
    BY <1>1, <2>4
  <2>8. Cardinality(A) <= Cardinality(top)
    BY <2>6, <2>7, RowsAreFinite, FS_Subset
  <2>9. ~(Cardinality(A) < n)
    BY <1>1, <2>1, <2>4
  <2> QED
    BY <1>3, <2>7, <2>8, <2>9, RowsAreFinite
<1>4. ASSUME Cardinality(rows) <= n, NEW i \in rows PROVE i \in top
  <2>1. PICK A : A = {k \in rows : k > i}
    OBVIOUS
  <2>2. PICK R : R = rows \ {i}
    OBVIOUS
  <2>3. i \in Nat
    BY DEF RowIds
  <2>8. ~(i > i)
    BY <2>3
  <2>9. A \in SUBSET rows /\ R \in SUBSET rows /\ i \notin A
    BY <2>1, <2>2, <2>8
  <2>4. A \subseteq R /\ R \in SUBSET RowIds /\ A \in SUBSET RowIds
    BY <2>2, <2>9
  <2>5. Cardinality(A) <= Cardinality(R)
    BY <2>4, RowsAreFinite, FS_Subset
  <2>6. Cardinality(R) = Cardinality(rows) - 1
    BY <2>2, RowsAreFinite, FS_RemoveElement
  <2>7. Cardinality(A) < n
    BY <1>4, <2>4, <2>5, <2>6, RowsAreFinite
  <2> QED
    BY <1>1, <2>1, <2>7
<1> QED
  BY <1>1, <1>2, <1>3, <1>4

(* What a page holds of the rows after the cursor.                          *)
LEMMA PageOfRows ==
  ASSUME NEW rows \in SUBSET RowIds, NEW limit \in 0..(MaxPageLimit + 1),
         NEW fetched, fetched = Newest(rows, FetchLimit(limit)),
         NEW page, page = Items(fetched, limit)
  PROVE  /\ page \subseteq rows
         /\ \A i \in rows, j \in page : i >= j => i \in page
         /\ HasMore(fetched, limit) => page # {}
         /\ ~HasMore(fetched, limit) => page = rows
<1>1. PICK k : k = Normalize(limit)
  OBVIOUS
<1>2. k \in Nat /\ k > 0
  BY <1>1, PagesAssumption DEF Normalize
<1>3. fetched = Newest(rows, k + 1) /\ page = Newest(fetched, k)
  BY <1>1 DEF FetchLimit, Items
<1>4. /\ fetched \subseteq rows
      /\ \A i \in rows, j \in fetched : i >= j => i \in fetched
      /\ Cardinality(fetched) < k + 1 => fetched = rows
  <2>1. PICK n \in Nat : n = k + 1
    BY <1>2
  <2>2. fetched = Newest(rows, n)
    BY <1>3, <2>1
  <2>3. /\ fetched \subseteq rows
        /\ \A i \in rows, j \in fetched : i >= j => i \in fetched
        /\ Cardinality(fetched) < n => fetched = rows
    BY <2>2, NewestRows
  <2> QED
    BY <2>1, <2>3
<1>5. fetched \in SUBSET RowIds
  BY <1>4
<1>6. /\ page \subseteq fetched
      /\ \A i \in fetched, j \in page : i >= j => i \in page
      /\ Cardinality(page) < k => page = fetched
      /\ Cardinality(fetched) <= k => page = fetched
  BY <1>2, <1>3, <1>5, NewestRows
<1>7. Cardinality(fetched) \in Nat
  BY <1>5, RowsAreFinite
<1>8. HasMore(fetched, limit) => page # {}
  <2> SUFFICES ASSUME Cardinality(fetched) > k, page = {} PROVE FALSE
    BY <1>1 DEF HasMore
  <2>1. Cardinality(page) = 0
    BY FS_EmptySet
  <2> QED
    BY <1>2, <1>6, <1>7, <2>1
<1>9. ~HasMore(fetched, limit) => page = rows
  <2> SUFFICES ASSUME ~(Cardinality(fetched) > k) PROVE page = rows
    BY <1>1 DEF HasMore
  <2> QED
    BY <1>2, <1>4, <1>6, <1>7
<1> QED
  BY <1>4, <1>6, <1>8, <1>9

(* The client has seen every row that matched all the time from its cursor  *)
(* on; everything it saw is at the cursor or newer.                         *)
SeenBy(i) == \E n \in DOMAIN shown : i \in shown[n]

WalkGoesDown ==
  /\ walk = "ready" => cursor = 0 /\ shown = <<>>
  /\ walk = "walking" => cursor # 0
  /\ walk = "walking" => \A n \in DOMAIN shown : \A i \in shown[n] : i >= cursor
  /\ walk = "walking" => \A i \in throughout : table[i] = "match" /\ (i < cursor \/ SeenBy(i))

ListingInv == ListingTypeOK /\ WalkGoesDown /\ WalkIsComplete

LEMMA InitListing == ListingInit => ListingInv
BY PagesAssumption
   DEF ListingInit, ListingInv, ListingTypeOK, WalkGoesDown, WalkIsComplete, RowIds, Classes

LEMMA FillKeeps == ASSUME ListingInv, NEW i \in RowIds, Fill(i) PROVE ListingInv'
<1>1. ListingTypeOK'
  BY DEF Fill, ListingInv, ListingTypeOK, Classes
<1>2. WalkGoesDown' /\ WalkIsComplete'
  BY DEF Fill, ListingInv, WalkGoesDown, WalkIsComplete
<1> QED
  BY <1>1, <1>2 DEF ListingInv

LEMMA ReclassKeeps ==
  ASSUME ListingInv, NEW i \in RowIds, NEW from, NEW to \in Classes, Reclass(i, from, to)
  PROVE  ListingInv'
<1>1. throughout' \subseteq throughout /\ (to # "match" => i \notin throughout')
  BY DEF Reclass
<1>2. ListingTypeOK'
  BY <1>1, PagesAssumption DEF Reclass, ListingInv, ListingTypeOK
<1>3. \A j \in throughout : walk = "walking" => table[j] = "match"
  BY DEF ListingInv, WalkGoesDown
<1>4. \A j \in throughout' : table'[j] = "match"
  <2> TAKE j \in throughout'
  <2>1. j \in throughout /\ j \in RowIds /\ table[j] = "match"
    BY <1>1, <1>3 DEF Reclass, ListingInv, ListingTypeOK
  <2>2. table' = [table EXCEPT ![i] = to] /\ table \in [RowIds -> Classes]
    BY DEF Reclass, ListingInv, ListingTypeOK
  <2> QED
    BY <1>1, <2>1, <2>2
<1>5. WalkGoesDown'
  BY <1>1, <1>4 DEF Reclass, ListingInv, WalkGoesDown, SeenBy
<1>6. WalkIsComplete'
  BY DEF Reclass, ListingInv, WalkIsComplete
<1> QED
  BY <1>2, <1>5, <1>6 DEF ListingInv

LEMMA NextPageKeeps ==
  ASSUME ListingInv, NEW limit \in 0..(MaxPageLimit + 1), NextPage(limit) PROVE ListingInv'
<1>1. PICK rows : rows = {i \in RowIds : table[i] = "match" /\ AfterCursor(i)}
  OBVIOUS
<1>2. PICK fetched : fetched = Newest(rows, FetchLimit(limit))
  OBVIOUS
<1>3. PICK page : page = Items(fetched, limit)
  OBVIOUS
<1>4. rows \in SUBSET RowIds
  BY <1>1
<1>5. /\ page \subseteq rows
      /\ \A i \in rows, j \in page : i >= j => i \in page
      /\ HasMore(fetched, limit) => page # {}
      /\ ~HasMore(fetched, limit) => page = rows
  BY <1>2, <1>3, <1>4, PageOfRows
<1>6. /\ walk # "done"
      /\ shown' = Append(shown, page)
      /\ cursor' = IF page = {} THEN cursor ELSE Min(page)
      /\ walk' = IF HasMore(fetched, limit) THEN "walking" ELSE "done"
      /\ throughout' = IF walk = "ready" THEN {i \in RowIds : table[i] = "match"} ELSE throughout
      /\ UNCHANGED <<table, tableEdits>>
  BY <1>1, <1>2, <1>3 DEF NextPage, Fetched
<1>7. /\ cursor \in Nat /\ \A i \in RowIds : i \in Nat /\ i > 0
      /\ shown \in Seq(SUBSET RowIds) /\ Len(shown) \in Nat
      /\ walk = "ready" \/ walk = "walking"
  BY <1>6, PagesAssumption DEF ListingInv, ListingTypeOK, RowIds
<1>8. page # {} => Min(page) \in page /\ \A i \in page : Min(page) <= i
  <2> SUFFICES ASSUME page # {} PROVE Min(page) \in page /\ \A i \in page : Min(page) <= i
    OBVIOUS
  <2>1. page \in SUBSET Nat
    BY <1>4, <1>5, <1>7
  <2>2. \E m \in page : \A i \in page : m <= i
    BY <2>1, LeastNumber
  <2> QED
    BY <2>2 DEF Min
<1>9. /\ DOMAIN shown = 1..Len(shown) /\ DOMAIN shown' = 1..(Len(shown) + 1)
      /\ \A n \in DOMAIN shown : shown'[n] = shown[n]
      /\ shown'[Len(shown) + 1] = page
      /\ shown' \in Seq(SUBSET RowIds)
  BY <1>4, <1>5, <1>6, <1>7
<1>10. ListingTypeOK'
  <2>1. cursor' \in 0..LastId
    BY <1>4, <1>5, <1>6, <1>8 DEF ListingInv, ListingTypeOK, RowIds
  <2> QED
    BY <1>6, <1>9, <2>1 DEF ListingInv, ListingTypeOK
<1>11. /\ walk = "walking" => \A i \in rows : i < cursor
       /\ walk = "ready" => rows = {i \in RowIds : table[i] = "match"}
  BY <1>1, <1>7 DEF ListingInv, WalkGoesDown, AfterCursor
<1>12. \A n \in DOMAIN shown : \A i \in shown[n], j \in page : i > j
  <2> SUFFICES ASSUME NEW n \in DOMAIN shown, NEW i \in shown[n], NEW j \in page PROVE i > j
    OBVIOUS
  <2>1. walk = "walking"
    BY <1>7 DEF ListingInv, WalkGoesDown
  <2>2. i >= cursor /\ i \in RowIds
    BY <1>7, <2>1 DEF ListingInv, WalkGoesDown
  <2>3. j < cursor /\ j \in RowIds
    BY <1>4, <1>5, <1>11, <2>1
  <2> QED
    BY <1>7, <2>2, <2>3
<1>13. \A i \in throughout' : table[i] = "match" /\ (i \in rows \/ SeenBy(i))
  <2>1. CASE walk = "ready"
    BY <1>6, <1>11, <2>1
  <2>2. CASE walk = "walking"
    BY <1>1, <1>6, <2>2 DEF ListingInv, ListingTypeOK, WalkGoesDown, AfterCursor
  <2> QED
    BY <1>7, <2>1, <2>2
<1>14. \A i : SeenBy(i) \/ i \in page => SeenBy(i)'
  BY <1>7, <1>9 DEF SeenBy
<1>15. WalkGoesDown'
  <2>1. CASE ~HasMore(fetched, limit)
    BY <1>6, <2>1 DEF WalkGoesDown
  <2>2. CASE HasMore(fetched, limit)
    <3>1. page # {} /\ cursor' = Min(page) /\ walk' = "walking"
      BY <1>5, <1>6, <2>2
    <3>2. cursor' \in page /\ cursor' \in RowIds
      BY <1>4, <1>5, <1>8, <3>1
    <3>3. ASSUME NEW n \in DOMAIN shown', NEW i \in shown'[n] PROVE i >= cursor'
      <4>1. CASE n \in DOMAIN shown
        <5>1. i > cursor' /\ i \in RowIds
          BY <1>7, <1>9, <1>12, <3>2, <3>3, <4>1
        <5> QED
          BY <1>7, <3>2, <5>1
      <4>2. CASE n \notin DOMAIN shown
        <5>1. n = Len(shown) + 1
          BY <1>7, <1>9, <4>2
        <5>2. i \in page
          BY <1>9, <3>3, <5>1
        <5> QED
          BY <1>4, <1>5, <1>7, <1>8, <3>1, <3>2, <5>2
      <4> QED
        BY <4>1, <4>2
    <3>4. ASSUME NEW i \in throughout' PROVE i < cursor' \/ SeenBy(i)'
      <4>1. CASE i \in rows
        <5>1. i \in Nat /\ cursor' \in Nat
          BY <1>4, <1>7, <3>2, <4>1
        <5>2. i >= cursor' => i \in page
          BY <1>5, <3>2, <4>1
        <5> QED
          BY <1>14, <5>1, <5>2
      <4>2. CASE SeenBy(i)
        BY <1>14, <4>2
      <4> QED
        BY <1>13, <4>1, <4>2
    <3>5. cursor' # 0
      BY <1>7, <3>2
    <3> QED
      BY <1>6, <1>13, <3>1, <3>3, <3>4, <3>5 DEF WalkGoesDown
  <2> QED
    BY <2>1, <2>2
<1>16. WalkIsComplete'
  <2>1. ASSUME NEW m \in DOMAIN shown', NEW n \in DOMAIN shown', m < n,
               NEW i \in shown'[m], NEW j \in shown'[n]
        PROVE  i > j
    <3>1. m \in DOMAIN shown /\ shown'[m] = shown[m]
      BY <1>7, <1>9, <2>1
    <3>2. CASE n \in DOMAIN shown
      BY <1>9, <2>1, <3>1, <3>2 DEF ListingInv, WalkIsComplete
    <3>3. CASE n \notin DOMAIN shown
      <4>1. n = Len(shown) + 1
        BY <1>7, <1>9, <3>3
      <4> QED
        BY <1>9, <1>12, <2>1, <3>1, <4>1
    <3> QED
      BY <3>2, <3>3
  <2>2. walk' = "done" => \A i \in throughout' : SeenBy(i)'
    BY <1>5, <1>6, <1>13, <1>14
  <2> QED
    BY <2>1, <2>2 DEF WalkIsComplete, SeenBy
<1> QED
  BY <1>10, <1>15, <1>16 DEF ListingInv

LEMMA ListingStep == ListingInv /\ [ListingNext]_listingVars => ListingInv'
<1>1. ASSUME ListingInv, UNCHANGED listingVars PROVE ListingInv'
  BY <1>1 DEF ListingInv, ListingTypeOK, WalkGoesDown, WalkIsComplete, SeenBy, listingVars
<1>2. {"match", "other", "deleted"} \subseteq Classes
  BY DEF Classes
<1>3. ASSUME ListingInv, NEW i \in RowIds, InsertMatch(i) \/ ChangeRow(i) \/ DeleteRow(i)
      PROVE  ListingInv'
  BY <1>2, <1>3, ReclassKeeps DEF InsertMatch, ChangeRow, DeleteRow
<1> QED
  BY <1>1, <1>3, FillKeeps, NextPageKeeps DEF ListingNext

(* A client that follows the pages to the end has seen every row that was   *)
(* there and matched all the time, and none twice, whatever was inserted,   *)
(* changed or deleted between two pages and whatever limits it asked for    *)
(* (Page, NewList).                                                         *)
THEOREM WalksAreComplete == ListingSpec => []WalkIsComplete
<1>1. ListingInv => WalkIsComplete
  BY DEF ListingInv
<1> QED
  BY <1>1, InitListing, ListingStep, PTL DEF ListingSpec
=============================================================================
