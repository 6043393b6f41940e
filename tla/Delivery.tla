------------------------------ MODULE Delivery ------------------------------
(***************************************************************************)
(* Events out: the delivery queue of internal/delivery (repository.go,     *)
(* worker.go, model.go, sender.go, publisher.go).                          *)
(*                                                                         *)
(* The deliveries table is the queue.  Worker processes claim due rows and *)
(* run one job per row: load the event and destination, make one HTTP      *)
(* attempt, record what came of it.  A row whose worker died is released   *)
(* once its lock is stale.  Nothing in Record looks at the lock: a job is  *)
(* kept from overwriting a later one only by being over before its lock    *)
(* is stale.                                                               *)
(*                                                                         *)
(* Time is kept as what is left of it: a row's wait until it is due, the   *)
(* age of its lock, and what is left of a job's deadline, so behaviours    *)
(* need no last instant.                                                   *)
(***************************************************************************)
EXTENDS Naturals, Sequences, FiniteSets

CONSTANTS
  Events, Destinations,
  Procs,        \* worker processes
  MaxAttempts,  \* attempts before a delivery is dead (7)
  RetryDelays,  \* the backoff schedule, a sequence of delays
  StaleAfter,   \* the age of a lock that is assumed abandoned (5 minutes)
  AttemptTime,  \* the deadline of an attempt's context (5 minutes)
  MaxSlack,     \* how much later than the lock's clock that deadline may fall:
                \* the claim's answer under way, or the process suspended
  Concurrency,  \* rows one claim takes
  MaxRetries,   \* bound on operator retries per delivery
  MaxFaults     \* bound on crashes, shutdowns, failed and timed out calls

ASSUME QueueAssumption ==
  /\ MaxAttempts \in Nat \ {0}
  /\ RetryDelays \in Seq(Nat) /\ RetryDelays # <<>>
  /\ StaleAfter \in Nat
  /\ AttemptTime \in Nat
  /\ MaxSlack \in Nat
  /\ Concurrency \in Nat \ {0}
  /\ MaxRetries \in Nat
  /\ MaxFaults \in Nat

Deliveries == Events \X Destinations

VARIABLES
  dest,        \* each destination: "enabled", "disabled" or "deleted"
  published,   \* the events that have been stored
  rows,        \* the deliveries table
  attemptLog,  \* the delivery_attempts table: the attempt numbers stored
  jobs,        \* the goroutines of the worker processes
  mode,        \* each process: "up", "stopping" or "down"
  accepted,    \* has the destination taken the event since the last Retry?
  sends,       \* HTTP attempts made for each delivery
  retries,     \* operator retries of each delivery
  faults

vars == <<dest, published, rows, attemptLog, jobs, mode, accepted, sends, retries, faults>>

-----------------------------------------------------------------------------
(* Types *)

RowStates == {"absent", "pending", "delivering", "succeeded", "failed", "dead"}

(* State.Terminal.  No code sets the canceled state. *)
Terminal == {"succeeded", "dead"}

Rows == [state : RowStates, attempts : 0..MaxAttempts, wait : Nat, age : Nat]

Row(s, n, w) == [state |-> s, attempts |-> n, wait |-> w, age |-> 0]

NoRow == Row("absent", 0, 0)

Jobs == [proc : Procs, d : Deliveries, number : 1..MaxAttempts, left : Nat,
         stage : {"claimed", "prepared", "done"},
         result : {"none", "ok", "retry", "final"}]

TypeOK ==
  /\ dest \in [Destinations -> {"enabled", "disabled", "deleted"}]
  /\ published \subseteq Events
  /\ rows \in [Deliveries -> Rows]
  /\ attemptLog \in [Deliveries -> SUBSET (1..MaxAttempts)]
  /\ jobs \subseteq Jobs
  /\ mode \in [Procs -> {"up", "stopping", "down"}]
  /\ accepted \in [Deliveries -> BOOLEAN]
  /\ sends \in [Deliveries -> Nat]
  /\ retries \in [Deliveries -> Nat]
  /\ faults \in Nat

Init ==
  /\ dest = [x \in Destinations |-> "enabled"]
  /\ published = {}
  /\ rows = [d \in Deliveries |-> NoRow]
  /\ attemptLog = [d \in Deliveries |-> {}]
  /\ jobs = {}
  /\ mode = [p \in Procs |-> "up"]
  /\ accepted = [d \in Deliveries |-> FALSE]
  /\ sends = [d \in Deliveries |-> 0]
  /\ retries = [d \in Deliveries |-> 0]
  /\ faults = 0

Fault == faults < MaxFaults /\ faults' = faults + 1

-----------------------------------------------------------------------------
(* Publishing and destinations *)

(* One transaction stores the event and a delivery per enabled destination. *)
Publish(e) ==
  /\ e \notin published
  /\ published' = published \cup {e}
  /\ rows' = [d \in Deliveries |->
       IF d[1] = e /\ dest[d[2]] = "enabled" THEN Row("pending", 0, 0) ELSE rows[d]]
  /\ UNCHANGED <<dest, attemptLog, jobs, mode, accepted, sends, retries, faults>>

(* Pause and Resume: the rows already queued are not touched. *)
Toggle(x) ==
  /\ dest[x] # "deleted"
  /\ dest' = [dest EXCEPT ![x] = IF @ = "enabled" THEN "disabled" ELSE "enabled"]
  /\ UNCHANGED <<published, rows, attemptLog, jobs, mode, accepted, sends, retries, faults>>

(* Deliveries and their attempts go with the destination by cascade. *)
DeleteDestination(x) ==
  /\ dest[x] # "deleted"
  /\ dest' = [dest EXCEPT ![x] = "deleted"]
  /\ rows' = [d \in Deliveries |-> IF d[2] = x THEN NoRow ELSE rows[d]]
  /\ attemptLog' = [d \in Deliveries |-> IF d[2] = x THEN {} ELSE attemptLog[d]]
  /\ UNCHANGED <<published, jobs, mode, accepted, sends, retries, faults>>

(* ErrInFlight: not while a worker holds it. *)
Retriable == {"pending", "succeeded", "failed", "dead"}

(* An operator's retry starts the schedule afresh. *)
Retry(d) ==
  /\ retries[d] < MaxRetries
  /\ rows[d].state \in Retriable
  /\ rows' = [rows EXCEPT ![d] = Row("pending", 0, 0)]
  /\ accepted' = [accepted EXCEPT ![d] = FALSE]
  /\ retries' = [retries EXCEPT ![d] = @ + 1]
  /\ UNCHANGED <<dest, published, attemptLog, jobs, mode, sends, faults>>

-----------------------------------------------------------------------------
(* The queue *)

Due == {d \in Deliveries : rows[d].state \in {"pending", "failed"} /\ rows[d].wait = 0}

NewJob(p, d, slack) ==
  [proc |-> p, d |-> d, number |-> rows[d].attempts + 1, left |-> AttemptTime + slack,
   stage |-> "claimed", result |-> "none"]

(* drain: one claim of at most Concurrency due rows, a goroutine for each.   *)
(* Any of the due rows: SKIP LOCKED passes over those another statement has  *)
(* locked.  It waits for none of the goroutines before it.  When the answer  *)
(* to the committed UPDATE is lost, nobody works on the rows it locked.      *)
Claim(p) ==
  /\ mode[p] = "up"
  /\ \E S \in SUBSET Due \ {{}}, slack \in 0..MaxSlack :
       /\ Cardinality(S) <= Concurrency
       /\ rows' = [d \in Deliveries |->
            IF d \in S THEN [rows[d] EXCEPT !.state = "delivering", !.age = 0] ELSE rows[d]]
       /\ \/ jobs' = jobs \cup {NewJob(p, d, slack) : d \in S} /\ UNCHANGED faults
          \/ Fault /\ UNCHANGED jobs
  /\ UNCHANGED <<dest, published, attemptLog, mode, accepted, sends, retries>>

(* Mutant of Stale: the lock's age is not looked at. *)
BugStale == {d \in Deliveries : rows[d].state = "delivering"}

(* Mutant of Stale: no lock is ever stale. *)
BugNeverStale == {}

Stale == {d \in Deliveries : rows[d].state = "delivering" /\ rows[d].age > StaleAfter}

ReleaseStale(p) ==
  /\ mode[p] = "up"
  /\ Stale # {}
  /\ rows' = [d \in Deliveries |->
       IF d \in Stale THEN Row("failed", rows[d].attempts, 0) ELSE rows[d]]
  /\ UNCHANGED <<dest, published, attemptLog, jobs, mode, accepted, sends, retries, faults>>

-----------------------------------------------------------------------------
(* A job: prepare, send, record *)

Becomes(j, k) == jobs' = (jobs \ {j}) \cup {k}

(* A job that cannot be prepared, whatever the reason, is a final failure.  *)
Prepare(j) ==
  /\ j.stage = "claimed"
  /\ \/ /\ dest[j.d[2]] # "deleted"
        /\ Becomes(j, [j EXCEPT !.stage = "prepared"])
        /\ UNCHANGED faults
     \/ /\ dest[j.d[2]] = "deleted"
        /\ Becomes(j, [j EXCEPT !.stage = "done", !.result = "final"])
        /\ UNCHANGED faults
     \/ /\ Fault
        /\ Becomes(j, [j EXCEPT !.stage = "done", !.result = "final"])
  /\ UNCHANGED <<dest, published, rows, attemptLog, mode, accepted, sends, retries>>

(* What a result says of the destination: a 2xx was accepted, a final answer *)
(* was not; a lost or a temporary one says nothing.                          *)
Possible(r, got) == (r = "ok" => got) /\ (r = "final" => ~got)

Send(j) ==
  /\ j.stage = "prepared"
  /\ \E r \in {"ok", "retry", "final"}, got \in BOOLEAN :
       /\ Possible(r, got)
       /\ Becomes(j, [j EXCEPT !.stage = "done", !.result = r])
       /\ accepted' = [accepted EXCEPT ![j.d] = @ \/ got]
  /\ sends' = [sends EXCEPT ![j.d] = @ + 1]
  /\ UNCHANGED <<dest, published, rows, attemptLog, mode, retries, faults>>

(* RetryDelay without its jitter: the last delay is used for all later ones. *)
RetryDelay(n) == RetryDelays[IF n > Len(RetryDelays) THEN Len(RetryDelays) ELSE n]

(* Mutant of After: the attempt that fails is not counted. *)
BugAfter(j) ==
  CASE j.result = "ok" -> Row("succeeded", j.number, 0)
    [] j.result = "retry" /\ j.number < MaxAttempts ->
         Row("failed", rows[j.d].attempts, RetryDelay(j.number))
    [] OTHER -> Row("dead", j.number, 0)

(* Mutant of After: one attempt too many. *)
BugAfterLast(j) ==
  CASE j.result = "ok" -> Row("succeeded", j.number, 0)
    [] j.result = "retry" /\ j.number <= MaxAttempts ->
         Row("failed", j.number, RetryDelay(j.number))
    [] OTHER -> Row("dead", j.number, 0)

(* Mutant of After: a failure that is not retried is reported as a success. *)
BugAfterFinal(j) ==
  IF j.result = "retry" /\ j.number < MaxAttempts
  THEN Row("failed", j.number, RetryDelay(j.number))
  ELSE Row("succeeded", j.number, 0)

(* The row that RecordSuccess or RecordFailure writes. *)
After(j) ==
  CASE j.result = "ok" -> Row("succeeded", j.number, 0)
    [] j.result = "retry" /\ j.number < MaxAttempts ->
         Row("failed", j.number, RetryDelay(j.number))
    [] OTHER -> Row("dead", j.number, 0)

(* Mutant of Logged: only the attempt that ends a delivery is stored. *)
BugLogged(j) == IF After(j).state \in Terminal THEN {j.number} ELSE {}

(* The attempt stored with the row; a number that is taken is not stored twice. *)
Logged(j) == {j.number}

(* The attempt and the row in one transaction.  The attempt is dropped if its *)
(* number is taken; the row is written whatever state it is in.  A row that   *)
(* is gone makes the transaction fail.                                        *)
Record(j) ==
  /\ j.stage = "done"
  /\ jobs' = jobs \ {j}
  /\ \/ /\ rows[j.d].state # "absent"
        /\ rows' = [rows EXCEPT ![j.d] = After(j)]
        /\ attemptLog' = [attemptLog EXCEPT ![j.d] = @ \cup Logged(j)]
        /\ UNCHANGED faults
     \/ /\ rows[j.d].state = "absent"
        /\ UNCHANGED <<rows, attemptLog, faults>>
     \/ Fault /\ UNCHANGED <<rows, attemptLog>>
  /\ UNCHANGED <<dest, published, mode, accepted, sends, retries>>

(* The attempt's context ends first: nothing is recorded. *)
Expire(j) ==
  /\ j.left = 0
  /\ Fault
  /\ jobs' = jobs \ {j}
  /\ UNCHANGED <<dest, published, rows, attemptLog, mode, accepted, sends, retries>>

-----------------------------------------------------------------------------
(* Processes and time *)

JobsOf(p) == {j \in jobs : j.proc = p}

(* Run stops claiming; the goroutines go on. *)
Shutdown(p) ==
  /\ mode[p] = "up"
  /\ Fault
  /\ mode' = [mode EXCEPT ![p] = "stopping"]
  /\ UNCHANGED <<dest, published, rows, attemptLog, jobs, accepted, sends, retries>>

Crash(p) ==
  /\ mode[p] # "down"
  /\ Fault
  /\ mode' = [mode EXCEPT ![p] = "down"]
  /\ jobs' = jobs \ JobsOf(p)
  /\ UNCHANGED <<dest, published, rows, attemptLog, accepted, sends, retries>>

Restart(p) ==
  /\ mode[p] # "up"
  /\ JobsOf(p) = {}
  /\ mode' = [mode EXCEPT ![p] = "up"]
  /\ UNCHANGED <<dest, published, rows, attemptLog, jobs, accepted, sends, retries, faults>>

(* A row a tick later; the age of a lock stops counting once it is stale.     *)
Aged(r) ==
  [r EXCEPT !.wait = IF @ > 0 THEN @ - 1 ELSE 0,
            !.age = IF r.state = "delivering" /\ @ <= StaleAfter THEN @ + 1 ELSE @]

(* No job outlives its deadline. *)
Tick ==
  /\ \A j \in jobs : j.left > 0
  /\ rows' = [d \in Deliveries |-> Aged(rows[d])]
  /\ jobs' = {[j EXCEPT !.left = @ - 1] : j \in jobs}
  /\ UNCHANGED <<dest, published, attemptLog, mode, accepted, sends, retries, faults>>

Next ==
  \/ \E e \in Events : Publish(e)
  \/ \E x \in Destinations : Toggle(x) \/ DeleteDestination(x)
  \/ \E d \in Deliveries : Retry(d)
  \/ \E p \in Procs : Claim(p) \/ ReleaseStale(p) \/ Shutdown(p) \/ Crash(p) \/ Restart(p)
  \/ \E j \in jobs : Prepare(j) \/ Send(j) \/ Record(j) \/ Expire(j)
  \/ Tick

Spec == Init /\ [][Next]_vars

(* Jobs run, the poll and recovery tickers fire, a process that stopped is    *)
(* started again (restart: unless-stopped) and time passes.                   *)
JobStep == \E j \in jobs : Prepare(j) \/ Send(j) \/ Record(j)

Fairness ==
  /\ \A p \in Procs : WF_vars(Claim(p)) /\ WF_vars(ReleaseStale(p)) /\ WF_vars(Restart(p))
  /\ WF_vars(JobStep)
  /\ WF_vars(Tick)

LiveSpec == Spec /\ Fairness

-----------------------------------------------------------------------------
(* Properties *)

(* "each delivery is claimed by exactly one worker" (docs/production.md:134): *)
(* two goroutines never work on one delivery, whatever is released, retried   *)
(* and claimed again in the meantime.                                         *)
Exclusive == \A j, k \in jobs : j.d = k.d => j = k

(* A delivery is sent at most MaxAttempts times for each time it was opened,  *)
(* and once more for each attempt whose outcome a fault kept from the table.  *)
AttemptsBounded ==
  \A d \in Deliveries : sends[d] <= MaxAttempts * (1 + retries[d]) + faults

(* Every attempt that a delivery counts is in the log, under its own number,  *)
(* also after the count started again and numbers came up that were taken     *)
(* (RecordSuccess, RecordFailure and insertAttempt in one transaction).       *)
CountedIsLogged == \A d \in Deliveries : 1..rows[d].attempts \subseteq attemptLog[d]

(* The queue implements its promise.                                          *)
Fate(d) ==
  CASE rows[d].state \in {"pending", "delivering", "failed"} -> "open"
    [] rows[d].state = "succeeded" -> "delivered"
    [] rows[d].state = "dead" -> "abandoned"
    [] OTHER -> IF dest[d[2]] = "deleted" THEN "deleted" ELSE "absent"

Promise == INSTANCE DeliveryPromise WITH fate <- [d \in Deliveries |-> Fate(d)]

(* A delivery that ended stays as it ended until an operator reopens it or    *)
(* its destination goes, and one marked succeeded was accepted.               *)
PromiseHolds == Promise!Spec

(* Every delivery ends: no crash, shutdown, lost claim or lost outcome leaves *)
(* it in the queue for ever.                                                  *)
NoDeliveryStuck ==
  \A d \in Deliveries :
    rows[d].state # "absent" ~> rows[d].state \in Terminal \cup {"absent"}

=============================================================================
