--------------------------- MODULE DeliveryProofs ---------------------------
(***************************************************************************)
(* Theorems about Delivery for every set of events, destinations and       *)
(* processes, every schedule and every bound.                              *)
(***************************************************************************)
EXTENDS Delivery, TLAPS

-----------------------------------------------------------------------------
(* Types *)

Open == {"pending", "delivering", "failed"}

(* An open delivery has an attempt left.                                    *)
OpenAttempts == \A d \in Deliveries : rows[d].state \in Open => rows[d].attempts < MaxAttempts

Typed == TypeOK /\ OpenAttempts

LEMMA RetryDelayTyped == \A n \in 1..MaxAttempts : RetryDelay(n) \in Nat
  BY QueueAssumption DEF RetryDelay

LEMMA RowTyped ==
  \A s \in RowStates, n \in 0..MaxAttempts, w \in Nat : Row(s, n, w) \in Rows
  BY DEF Row, Rows

LEMMA NoRowTyped == NoRow \in Rows /\ NoRow.state = "absent"
  BY QueueAssumption DEF NoRow, Row, Rows, RowStates

LEMMA NewRowTyped ==
  LET r == Row("pending", 0, 0) IN r \in Rows /\ r.state = "pending" /\ r.attempts = 0
  BY QueueAssumption DEF Row, Rows, RowStates

(* What a job writes ends the delivery or leaves it another attempt.        *)
LEMMA AfterTyped ==
  ASSUME NEW j \in Jobs
  PROVE  /\ After(j) \in Rows
         /\ After(j).state \in {"succeeded", "failed", "dead"}
         /\ After(j).state = "failed" => After(j).attempts < MaxAttempts
         /\ After(j).state = "succeeded" => j.result = "ok"
<1>1. j.number \in 1..MaxAttempts /\ RetryDelay(j.number) \in Nat
  BY RetryDelayTyped DEF Jobs
<1>2. CASE j.result = "ok"
  <2>1. After(j) = Row("succeeded", j.number, 0)
    BY <1>2 DEF After
  <2> QED
    BY <1>1, <1>2, <2>1, QueueAssumption DEF Row, Rows, RowStates
<1>3. CASE j.result = "retry" /\ j.number < MaxAttempts
  <2>1. After(j) = Row("failed", j.number, RetryDelay(j.number))
    BY <1>3 DEF After
  <2> QED
    BY <1>1, <1>3, <2>1, QueueAssumption DEF Row, Rows, RowStates
<1>4. CASE j.result # "ok" /\ ~(j.result = "retry" /\ j.number < MaxAttempts)
  <2>1. After(j) = Row("dead", j.number, 0)
    BY <1>4 DEF After
  <2> QED
    BY <1>1, <1>4, <2>1, QueueAssumption DEF Row, Rows, RowStates
<1> QED
  BY <1>2, <1>3, <1>4

LEMMA NewJobTyped ==
  ASSUME Typed, NEW p \in Procs, NEW d \in Due, NEW slack \in 0..MaxSlack
  PROVE  NewJob(p, d, slack) \in Jobs
<1>1. d \in Deliveries /\ rows[d] \in Rows /\ rows[d].attempts \in 0..MaxAttempts
  BY DEF Typed, TypeOK, Due, Rows
<1>2. rows[d].attempts < MaxAttempts
  BY <1>1 DEF Typed, OpenAttempts, Open, Due
<1> QED
  BY <1>1, <1>2, QueueAssumption DEF NewJob, Jobs

(* A step either leaves a row as it is, or writes a row of the right type.  *)
LEMMA RowsKept ==
  ASSUME Typed, UNCHANGED rows
  PROVE  rows' \in [Deliveries -> Rows] /\ OpenAttempts'
  BY DEF Typed, TypeOK, OpenAttempts

LEMMA EnvironmentTyped ==
  ASSUME Typed,
         \/ \E e \in Events : Publish(e)
         \/ \E x \in Destinations : Toggle(x) \/ DeleteDestination(x)
         \/ \E d \in Deliveries : Retry(d)
  PROVE  Typed'
<1> USE DEF Typed
<1>1. ASSUME NEW e \in Events, Publish(e) PROVE Typed'
  <2>1. \A d \in Deliveries : rows'[d] = rows[d] \/ rows'[d] = Row("pending", 0, 0)
    BY <1>1 DEF Publish
  <2>2. rows' \in [Deliveries -> Rows] /\ OpenAttempts'
    BY <1>1, <2>1, NewRowTyped, QueueAssumption DEF Publish, TypeOK, OpenAttempts, Open
  <2> QED
    BY <1>1, <2>2 DEF Publish, TypeOK
<1>2. ASSUME NEW x \in Destinations, Toggle(x) PROVE Typed'
  BY <1>2 DEF Toggle, TypeOK, OpenAttempts
<1>3. ASSUME NEW x \in Destinations, DeleteDestination(x) PROVE Typed'
  <2>1. rows' \in [Deliveries -> Rows] /\ OpenAttempts'
    BY <1>3, NoRowTyped DEF DeleteDestination, TypeOK, OpenAttempts, Open
  <2>2. attemptLog' \in [Deliveries -> SUBSET (1..MaxAttempts)]
    BY <1>3 DEF DeleteDestination, TypeOK
  <2> QED
    BY <1>3, <2>1, <2>2 DEF DeleteDestination, TypeOK
<1>4. ASSUME NEW d \in Deliveries, Retry(d) PROVE Typed'
  <2>1. rows' \in [Deliveries -> Rows] /\ OpenAttempts'
    BY <1>4, NewRowTyped, QueueAssumption DEF Retry, TypeOK, OpenAttempts, Open
  <2> QED
    BY <1>4, <2>1 DEF Retry, TypeOK
<1> QED
  BY <1>1, <1>2, <1>3, <1>4

LEMMA ProcessTyped ==
  ASSUME Typed, NEW p \in Procs,
         Claim(p) \/ ReleaseStale(p) \/ Shutdown(p) \/ Crash(p) \/ Restart(p)
  PROVE  Typed'
<1> USE DEF Typed
<1>1. ASSUME Claim(p) PROVE Typed'
  <2>1. PICK S \in SUBSET Due \ {{}}, slack \in 0..MaxSlack :
          /\ rows' = [d \in Deliveries |->
               IF d \in S THEN [rows[d] EXCEPT !.state = "delivering", !.age = 0] ELSE rows[d]]
          /\ \/ jobs' = jobs \cup {NewJob(p, d, slack) : d \in S} /\ UNCHANGED faults
             \/ Fault /\ UNCHANGED jobs
    BY <1>1 DEF Claim
  <2>2. rows' \in [Deliveries -> Rows]
    BY <2>1 DEF TypeOK, Rows, RowStates
  <2>3. \A d \in Deliveries : /\ rows'[d].attempts = rows[d].attempts
                              /\ d \in S => rows[d].state \in Open
                              /\ d \notin S => rows'[d].state = rows[d].state
    BY <2>1 DEF TypeOK, Rows, Due, Open
  <2>4. OpenAttempts'
    BY <2>3 DEF OpenAttempts
  <2>5. jobs' \subseteq Jobs
    <3>1. \A d \in S : NewJob(p, d, slack) \in Jobs
      BY <2>1, NewJobTyped
    <3>2. jobs' \subseteq jobs \cup {NewJob(p, d, slack) : d \in S}
      BY <2>1, Zenon
    <3>3. jobs \subseteq Jobs
      BY DEF TypeOK
    <3> QED
      BY <3>1, <3>2, <3>3
  <2>6. faults' \in Nat
    <3>1. faults' = faults \/ faults' = faults + 1
      BY <2>1, Zenon DEF Fault
    <3> QED
      BY <3>1 DEF TypeOK
  <2> QED
    BY <1>1, <2>2, <2>4, <2>5, <2>6 DEF Claim, TypeOK
<1>2. ASSUME ReleaseStale(p) PROVE Typed'
  <2>1. \A d \in Stale : /\ Row("failed", rows[d].attempts, 0) \in Rows
                         /\ Row("failed", rows[d].attempts, 0).attempts = rows[d].attempts
                         /\ rows[d].attempts < MaxAttempts
    BY DEF Stale, TypeOK, OpenAttempts, Open, Row, Rows, RowStates
  <2>2. rows' \in [Deliveries -> Rows] /\ OpenAttempts'
    BY <1>2, <2>1 DEF ReleaseStale, TypeOK, OpenAttempts
  <2> QED
    BY <1>2, <2>2 DEF ReleaseStale, TypeOK
<1>3. ASSUME Shutdown(p) PROVE Typed'
  BY <1>3 DEF Shutdown, Fault, TypeOK, OpenAttempts
<1>4. ASSUME Crash(p) PROVE Typed'
  BY <1>4 DEF Crash, Fault, TypeOK, OpenAttempts
<1>5. ASSUME Restart(p) PROVE Typed'
  BY <1>5 DEF Restart, TypeOK, OpenAttempts
<1> QED
  BY <1>1, <1>2, <1>3, <1>4, <1>5

LEMMA JobTyped ==
  ASSUME Typed, NEW j \in jobs, Prepare(j) \/ Send(j) \/ Record(j) \/ Expire(j)
  PROVE  Typed'
<1> USE DEF Typed
<1>0. j \in Jobs /\ j.d \in Deliveries
  BY DEF TypeOK, Jobs
<1>1. ASSUME Prepare(j) PROVE Typed'
  <2>1. \E k \in Jobs : jobs' = (jobs \ {j}) \cup {k}
    BY <1>0, <1>1 DEF Prepare, Becomes, Jobs
  <2>2. faults' \in Nat
    BY <1>1 DEF Prepare, Fault, TypeOK
  <2>3. jobs' \subseteq Jobs
    BY <2>1 DEF TypeOK
  <2> QED
    BY <1>1, <2>2, <2>3 DEF Prepare, TypeOK, OpenAttempts
<1>2. ASSUME Send(j) PROVE Typed'
  <2>1. jobs' \subseteq Jobs /\ accepted' \in [Deliveries -> BOOLEAN]
    BY <1>0, <1>2 DEF Send, Becomes, TypeOK, Jobs
  <2>2. sends' \in [Deliveries -> Nat]
    BY <1>0, <1>2 DEF Send, TypeOK
  <2> QED
    BY <1>2, <2>1, <2>2 DEF Send, TypeOK, OpenAttempts
<1>3. ASSUME Record(j) PROVE Typed'
  <2>1. rows' \in [Deliveries -> Rows] /\ OpenAttempts'
    BY <1>0, <1>3, AfterTyped, RowsKept DEF Record, TypeOK, OpenAttempts, Open
  <2>2. attemptLog' \in [Deliveries -> SUBSET (1..MaxAttempts)]
    BY <1>0, <1>3 DEF Record, Logged, TypeOK, Jobs
  <2> QED
    BY <1>3, <2>1, <2>2 DEF Record, Fault, TypeOK
<1>4. ASSUME Expire(j) PROVE Typed'
  BY <1>4 DEF Expire, Fault, TypeOK, OpenAttempts
<1> QED
  BY <1>1, <1>2, <1>3, <1>4

LEMMA TickTyped == Typed /\ Tick => Typed'
<1> SUFFICES ASSUME Typed, Tick PROVE Typed'
  OBVIOUS
<1> USE DEF Typed
<1>1. \A d \in Deliveries : /\ Aged(rows[d]) \in Rows
                            /\ Aged(rows[d]).state = rows[d].state
                            /\ Aged(rows[d]).attempts = rows[d].attempts
  <2> SUFFICES ASSUME NEW r \in Rows
               PROVE  Aged(r) \in Rows /\ Aged(r).state = r.state /\ Aged(r).attempts = r.attempts
    BY DEF TypeOK
  <2>1. r.wait \in Nat /\ r.age \in Nat
    BY DEF Rows
  <2>2. /\ (IF r.wait > 0 THEN r.wait - 1 ELSE 0) \in Nat
        /\ (IF r.state = "delivering" /\ r.age <= StaleAfter THEN r.age + 1 ELSE r.age) \in Nat
    BY <2>1
  <2> QED
    BY <2>2 DEF Aged, Rows
<1>2. rows' \in [Deliveries -> Rows] /\ OpenAttempts'
  BY <1>1 DEF Tick, TypeOK, OpenAttempts
<1>3. jobs' \subseteq Jobs
  <2>1. \A j \in jobs : [j EXCEPT !.left = @ - 1] \in Jobs
    BY DEF Tick, TypeOK, Jobs
  <2> QED
    BY <2>1 DEF Tick
<1> QED
  BY <1>2, <1>3 DEF Tick, TypeOK

LEMMA AlwaysTyped == Spec => []Typed
<1>1. Init => Typed
  BY NoRowTyped, QueueAssumption DEF Init, Typed, TypeOK, OpenAttempts, Open
<1>2. Typed /\ [Next]_vars => Typed'
  <2> SUFFICES ASSUME Typed, [Next]_vars PROVE Typed'
    OBVIOUS
  <2>1. CASE UNCHANGED vars
    BY <2>1 DEF vars, Typed, TypeOK, OpenAttempts
  <2> QED
    BY <2>1, EnvironmentTyped, ProcessTyped, JobTyped, TickTyped DEF Next
<1> QED
  BY <1>1, <1>2, PTL DEF Spec

(* Every variable keeps its type, and no attempt has a number beyond the    *)
(* last: an open delivery has an attempt left, whoever records what.        *)
THEOREM TypeCorrect == Spec => []TypeOK
<1>1. Typed => TypeOK
  BY DEF Typed
<1> QED
  BY <1>1, AlwaysTyped, PTL
-----------------------------------------------------------------------------
(* One worker per delivery *)

(* The condition under which locks mean anything: an attempt is over before  *)
(* its lock is stale, the time the claim's answer took included.             *)
Prompt == AttemptTime + MaxSlack <= StaleAfter

(* The row of a job is locked for at least as long as the job may last, or   *)
(* it is gone with its destination.                                          *)
LockHeld ==
  \A j \in jobs :
    \/ rows[j.d].state = "delivering" /\ rows[j.d].age + j.left <= StaleAfter
    \/ rows[j.d].state = "absent" /\ dest[j.d[2]] = "deleted"

(* A row belongs to a published event and a destination that exists.         *)
RowsKnown ==
  \A d \in Deliveries :
    rows[d].state # "absent" => d[1] \in published /\ dest[d[2]] # "deleted"

(* A job that says the event was accepted is right.                          *)
ResultsTrue == \A j \in jobs : j.result = "ok" => accepted[j.d]

SafeInv == LockHeld /\ Exclusive /\ RowsKnown /\ ResultsTrue

LEMMA EnvironmentSafe ==
  ASSUME Typed, SafeInv,
         \/ \E e \in Events : Publish(e)
         \/ \E x \in Destinations : Toggle(x) \/ DeleteDestination(x)
         \/ \E d \in Deliveries : Retry(d)
  PROVE  SafeInv'
<1> USE DEF SafeInv, Typed
<1>0. \A j \in jobs : j.d \in Deliveries /\ j.d[2] \in Destinations
  BY DEF TypeOK, Jobs, Deliveries
<1>1. ASSUME NEW e \in Events, Publish(e) PROVE SafeInv'
  <2>1. \A d \in Deliveries :
          rows'[d] = IF d[1] = e /\ dest[d[2]] = "enabled" THEN Row("pending", 0, 0) ELSE rows[d]
    BY <1>1 DEF Publish
  <2>2. LockHeld'
    <3>1. \A j \in jobs : rows'[j.d] = rows[j.d]
      BY <1>0, <1>1, <2>1 DEF Publish, LockHeld, RowsKnown
    <3> QED
      BY <1>1, <3>1 DEF Publish, LockHeld
  <2>3. RowsKnown'
    BY <1>1, <2>1 DEF Publish, RowsKnown
  <2> QED
    BY <1>1, <2>2, <2>3 DEF Publish, Exclusive, ResultsTrue
<1>2. ASSUME NEW x \in Destinations, Toggle(x) PROVE SafeInv'
  <2>1. \A y \in Destinations : dest'[y] = "deleted" <=> dest[y] = "deleted"
    BY <1>2 DEF Toggle, TypeOK
  <2>2. \A d \in Deliveries : d[2] \in Destinations
    BY DEF Deliveries
  <2> QED
    BY <1>0, <1>2, <2>1, <2>2 DEF Toggle, LockHeld, Exclusive, RowsKnown, ResultsTrue
<1>3. ASSUME NEW x \in Destinations, DeleteDestination(x) PROVE SafeInv'
  <2>1. \A d \in Deliveries : rows'[d] = IF d[2] = x THEN NoRow ELSE rows[d]
    BY <1>3 DEF DeleteDestination
  <2>2. \A y \in Destinations : dest'[y] = IF y = x THEN "deleted" ELSE dest[y]
    BY <1>3 DEF DeleteDestination, TypeOK
  <2>3. \A d \in Deliveries : d[2] \in Destinations
    BY DEF Deliveries
  <2>4. LockHeld'
    BY <1>0, <1>3, <2>1, <2>2, NoRowTyped DEF DeleteDestination, LockHeld
  <2>5. RowsKnown'
    BY <1>3, <2>1, <2>2, <2>3, NoRowTyped DEF DeleteDestination, RowsKnown
  <2> QED
    BY <1>3, <2>4, <2>5 DEF DeleteDestination, Exclusive, ResultsTrue
<1>4. ASSUME NEW d \in Deliveries, Retry(d) PROVE SafeInv'
  <2>1. \A j \in jobs : j.d # d
    BY <1>0, <1>4 DEF Retry, Retriable, LockHeld
  <2>2. /\ rows[d].state # "absent"
        /\ \A c \in Deliveries : c # d => rows'[c] = rows[c] /\ accepted'[c] = accepted[c]
    BY <1>4 DEF Retry, Retriable, TypeOK
  <2>3. LockHeld'
    BY <1>0, <1>4, <2>1, <2>2 DEF Retry, LockHeld
  <2>4. RowsKnown'
    BY <1>4, <2>2 DEF Retry, RowsKnown
  <2>5. ResultsTrue'
    BY <1>0, <1>4, <2>1, <2>2 DEF Retry, ResultsTrue
  <2> QED
    BY <1>4, <2>3, <2>4, <2>5 DEF Retry, Exclusive
<1> QED
  BY <1>1, <1>2, <1>3, <1>4

LEMMA ProcessSafe ==
  ASSUME Prompt, Typed, SafeInv, NEW p \in Procs,
         Claim(p) \/ ReleaseStale(p) \/ Shutdown(p) \/ Crash(p) \/ Restart(p)
  PROVE  SafeInv'
<1> USE DEF SafeInv, Typed
<1>0. \A j \in jobs : j.d \in Deliveries
  BY DEF TypeOK, Jobs
<1>1. ASSUME Claim(p) PROVE SafeInv'
  <2>1. PICK S \in SUBSET Due \ {{}}, slack \in 0..MaxSlack :
          /\ rows' = [d \in Deliveries |->
               IF d \in S THEN [rows[d] EXCEPT !.state = "delivering", !.age = 0] ELSE rows[d]]
          /\ \/ jobs' = jobs \cup {NewJob(p, d, slack) : d \in S} /\ UNCHANGED faults
             \/ Fault /\ UNCHANGED jobs
    BY <1>1 DEF Claim
  <2>2. \A d \in S : /\ d \in Deliveries
                     /\ rows[d].state \in {"pending", "failed"}
                     /\ rows'[d].state = "delivering" /\ rows'[d].age = 0
    BY <2>1 DEF Due, TypeOK, Rows
  <2>3. \A d \in Deliveries \ S : rows'[d] = rows[d]
    BY <2>1
  <2>4. \A j \in jobs : j.d \notin S
    BY <2>2 DEF LockHeld
  <2>5. \A j \in jobs' : \/ j \in jobs
                         \/ \E d \in S : j = NewJob(p, d, slack)
    BY <2>1, Zenon
  <2>6. \A d \in S : /\ NewJob(p, d, slack).d = d
                     /\ NewJob(p, d, slack).left = AttemptTime + slack
                     /\ NewJob(p, d, slack).result = "none"
    BY DEF NewJob
  <2>7. AttemptTime + slack <= StaleAfter
    BY QueueAssumption DEF Prompt
  <2>8. LockHeld'
    <3> SUFFICES ASSUME NEW j \in jobs'
                 PROVE  \/ rows'[j.d].state = "delivering" /\ rows'[j.d].age + j.left <= StaleAfter
                        \/ rows'[j.d].state = "absent" /\ dest'[j.d[2]] = "deleted"
      BY DEF LockHeld
    <3>1. CASE j \in jobs
      BY <1>0, <1>1, <2>3, <2>4, <3>1 DEF LockHeld, Claim
    <3>2. CASE \E d \in S : j = NewJob(p, d, slack)
      BY <2>2, <2>6, <2>7, <3>2, QueueAssumption
    <3> QED
      BY <2>5, <3>1, <3>2
  <2>9. Exclusive'
    BY <2>4, <2>5, <2>6 DEF Exclusive
  <2>10. RowsKnown'
    BY <1>1, <2>2, <2>3 DEF RowsKnown, Claim
  <2>11. ResultsTrue'
    BY <1>1, <2>5, <2>6 DEF ResultsTrue, Claim
  <2> QED
    BY <2>8, <2>9, <2>10, <2>11
<1>2. ASSUME ReleaseStale(p) PROVE SafeInv'
  <2>1. \A j \in jobs : j.d \notin Stale
    <3>1. \A j \in jobs : j.left \in Nat /\ rows[j.d].age \in Nat
      BY DEF TypeOK, Jobs, Rows
    <3> QED
      BY <3>1, QueueAssumption DEF LockHeld, Stale
  <2>2. \A d \in Deliveries : /\ d \in Stale => rows[d].state # "absent"
                              /\ d \notin Stale => rows'[d] = rows[d]
    BY <1>2 DEF ReleaseStale, Stale
  <2> QED
    BY <1>0, <1>2, <2>1, <2>2 DEF ReleaseStale, LockHeld, Exclusive, RowsKnown, ResultsTrue
<1>3. ASSUME Shutdown(p) PROVE SafeInv'
  BY <1>3 DEF Shutdown, LockHeld, Exclusive, RowsKnown, ResultsTrue
<1>4. ASSUME Crash(p) PROVE SafeInv'
  BY <1>4 DEF Crash, LockHeld, Exclusive, RowsKnown, ResultsTrue
<1>5. ASSUME Restart(p) PROVE SafeInv'
  BY <1>5 DEF Restart, LockHeld, Exclusive, RowsKnown, ResultsTrue
<1> QED
  BY <1>1, <1>2, <1>3, <1>4, <1>5

LEMMA JobSafe ==
  ASSUME Typed, SafeInv, NEW j \in jobs, Prepare(j) \/ Send(j) \/ Record(j) \/ Expire(j)
  PROVE  SafeInv'
<1> USE DEF SafeInv, Typed
<1>0. j \in Jobs /\ j.d \in Deliveries /\ \A k \in jobs : k.d \in Deliveries
  BY DEF TypeOK, Jobs
(* A job that becomes another keeps its row, its deadline and the lock.      *)
<1>1. ASSUME NEW k, Becomes(j, k), k.d = j.d, k.left = j.left, UNCHANGED <<rows, dest>>
      PROVE  LockHeld' /\ Exclusive'
  BY <1>1 DEF Becomes, LockHeld, Exclusive
<1>2. ASSUME Prepare(j) PROVE SafeInv'
  <2>1. PICK k : /\ Becomes(j, k)
                 /\ k.d = j.d /\ k.left = j.left
                 /\ k.result = "final" \/ k.result = j.result
    <3>1. \/ Becomes(j, [j EXCEPT !.stage = "prepared"])
          \/ Becomes(j, [j EXCEPT !.stage = "done", !.result = "final"])
      BY <1>2 DEF Prepare
    <3>2. LET k == [j EXCEPT !.stage = "prepared"]
          IN  k.d = j.d /\ k.left = j.left /\ k.result = j.result
      BY <1>0 DEF Jobs
    <3>3. LET k == [j EXCEPT !.stage = "done", !.result = "final"]
          IN  k.d = j.d /\ k.left = j.left /\ k.result = "final"
      BY <1>0 DEF Jobs
    <3> QED
      BY <3>1, <3>2, <3>3, Zenon
  <2>2. LockHeld' /\ Exclusive'
    BY <1>1, <1>2, <2>1 DEF Prepare
  <2>3. ResultsTrue'
    BY <1>2, <2>1 DEF Prepare, Becomes, ResultsTrue
  <2> QED
    BY <1>2, <2>2, <2>3 DEF Prepare, RowsKnown
<1>3. ASSUME Send(j) PROVE SafeInv'
  <2>1. PICK r \in {"ok", "retry", "final"}, got \in BOOLEAN :
          /\ Possible(r, got)
          /\ Becomes(j, [j EXCEPT !.stage = "done", !.result = r])
          /\ accepted' = [accepted EXCEPT ![j.d] = @ \/ got]
    BY <1>3 DEF Send
  <2> DEFINE k == [j EXCEPT !.stage = "done", !.result = r]
  <2>2. k.d = j.d /\ k.left = j.left /\ k.result = r
    BY <1>0 DEF Jobs
  <2>3. LockHeld' /\ Exclusive'
    BY <1>1, <1>3, <2>1, <2>2 DEF Send
  <2>4. \A d \in Deliveries : accepted[d] => accepted'[d]
    BY <2>1 DEF TypeOK
  <2>5. r = "ok" => accepted'[j.d]
    BY <1>0, <2>1 DEF TypeOK, Possible
  <2>6. ResultsTrue'
    <3> HIDE DEF k
    <3>1. \A i \in jobs' : i \in jobs \/ i = k
      BY <2>1 DEF Becomes, k
    <3> QED
      BY <1>0, <2>2, <2>4, <2>5, <3>1 DEF ResultsTrue
  <2> QED
    BY <1>3, <2>3, <2>6 DEF Send, RowsKnown
<1>4. ASSUME Record(j) PROVE SafeInv'
  <2>1. \A k \in jobs' : k \in jobs /\ k.d # j.d
    BY <1>4 DEF Record, Exclusive
  <2>2. \A d \in Deliveries : /\ d # j.d => rows'[d] = rows[d]
                              /\ rows[d].state = "absent" => rows'[d] = rows[d]
    BY <1>0, <1>4 DEF Record, TypeOK
  <2> QED
    BY <1>0, <1>4, <2>1, <2>2 DEF Record, LockHeld, Exclusive, RowsKnown, ResultsTrue
<1>5. ASSUME Expire(j) PROVE SafeInv'
  BY <1>5 DEF Expire, LockHeld, Exclusive, RowsKnown, ResultsTrue
<1> QED
  BY <1>2, <1>3, <1>4, <1>5

LEMMA TickSafe ==
  ASSUME Typed, SafeInv, Tick
  PROVE  SafeInv'
<1> USE DEF SafeInv, Typed
<1>1. \A d \in Deliveries :
        /\ rows'[d].state = rows[d].state
        /\ rows'[d].age = IF rows[d].state = "delivering" /\ rows[d].age <= StaleAfter
                          THEN rows[d].age + 1 ELSE rows[d].age
  BY DEF Tick, Aged, TypeOK, Rows
<1>2. ASSUME NEW k \in jobs'
      PROVE  \E j \in jobs : k = [j EXCEPT !.left = j.left - 1]
  BY <1>2, Zenon DEF Tick
<1>3. ASSUME NEW j \in jobs, NEW k, k = [j EXCEPT !.left = j.left - 1]
      PROVE  /\ j.d \in Deliveries /\ j.left \in Nat /\ j.left > 0 /\ rows[j.d].age \in Nat
             /\ k.d = j.d /\ k.left = j.left - 1 /\ k.result = j.result
  BY <1>3 DEF Tick, TypeOK, Jobs, Rows
<1>4. LockHeld'
  <2> SUFFICES ASSUME NEW k \in jobs'
               PROVE  \/ rows'[k.d].state = "delivering" /\ rows'[k.d].age + k.left <= StaleAfter
                      \/ rows'[k.d].state = "absent" /\ dest'[k.d[2]] = "deleted"
    BY DEF LockHeld
  <2>1. PICK j \in jobs : k = [j EXCEPT !.left = j.left - 1]
    BY <1>2
  <2>2. /\ j.d \in Deliveries /\ j.left \in Nat /\ j.left > 0 /\ rows[j.d].age \in Nat
        /\ k.d = j.d /\ k.left = j.left - 1
    BY <1>3, <2>1
  <2>3. CASE rows[j.d].state = "delivering" /\ rows[j.d].age + j.left <= StaleAfter
    <3>1. rows[j.d].age <= StaleAfter
      BY <2>2, <2>3, QueueAssumption
    <3>2. rows'[j.d].state = "delivering" /\ rows'[j.d].age = rows[j.d].age + 1
      BY <1>1, <2>2, <2>3, <3>1
    <3>3. rows[j.d].age + 1 + (j.left - 1) <= StaleAfter
      BY <2>2, <2>3, QueueAssumption
    <3> QED
      BY <2>2, <3>2, <3>3
  <2>4. CASE rows[j.d].state = "absent" /\ dest[j.d[2]] = "deleted"
    BY <1>1, <2>2, <2>4 DEF Tick
  <2>5. \/ rows[j.d].state = "delivering" /\ rows[j.d].age + j.left <= StaleAfter
        \/ rows[j.d].state = "absent" /\ dest[j.d[2]] = "deleted"
    BY <2>1, Zenon DEF LockHeld
  <2> QED
    BY <2>3, <2>4, <2>5, Zenon
<1>5. Exclusive'
  BY <1>2, <1>3 DEF Exclusive
<1>6. ResultsTrue'
  BY <1>2, <1>3 DEF ResultsTrue, Tick
<1> QED
  BY <1>1, <1>4, <1>5, <1>6 DEF Tick, RowsKnown

LEMMA SafeInvHolds ==
  ASSUME Prompt
  PROVE  Spec => [](Typed /\ SafeInv)
<1>1. Init => SafeInv
  BY NoRowTyped DEF Init, SafeInv, LockHeld, Exclusive, RowsKnown, ResultsTrue
<1>2. Typed /\ SafeInv /\ [Next]_vars => SafeInv'
  <2> SUFFICES ASSUME Typed, SafeInv, [Next]_vars PROVE SafeInv'
    OBVIOUS
  <2>1. CASE UNCHANGED vars
    BY <2>1 DEF vars, SafeInv, LockHeld, Exclusive, RowsKnown, ResultsTrue
  <2> QED
    BY <2>1, EnvironmentSafe, ProcessSafe, JobSafe, TickSafe DEF Next
<1> QED
  BY <1>1, <1>2, AlwaysTyped, PTL DEF Spec

(* "each delivery is claimed by exactly one worker", provided that attempts  *)
(* end before their locks are stale.                                         *)
THEOREM OneWorkerPerDelivery ==
  ASSUME Prompt
  PROVE  Spec => []Exclusive
<1>1. SafeInv => Exclusive
  BY DEF SafeInv
<1> QED
  BY <1>1, SafeInvHolds, PTL

-----------------------------------------------------------------------------
(* Counted attempts are logged *)

(* A row and a job belong to a published event, so a row that is gone with   *)
(* its destination does not come back under a job.                           *)
Origins ==
  /\ \A d \in Deliveries : rows[d].state # "absent" => d[1] \in published
  /\ \A j \in jobs : j.d[1] \in published

(* The attempts before a job's own are in the log already.                   *)
EarlierLogged ==
  \A j \in jobs : rows[j.d].state # "absent" => 1..(j.number - 1) \subseteq attemptLog[j.d]

LogInv == Origins /\ CountedIsLogged /\ EarlierLogged

(* What leaves the rows' counts, the log and the jobs' numbers alone.        *)
LEMMA LogKept ==
  ASSUME Typed, LogInv, UNCHANGED <<attemptLog, published>>,
         \A d \in Deliveries : /\ rows'[d].attempts = rows[d].attempts
                               /\ rows'[d].state = "absent" <=> rows[d].state = "absent",
         \A k \in jobs' : \E j \in jobs : k.d = j.d /\ k.number = j.number
  PROVE  LogInv'
<1>0. \A j \in jobs : j.d \in Deliveries
  BY DEF Typed, TypeOK, Jobs
<1>1. Origins'
  BY <1>0 DEF LogInv, Origins
<1>2. CountedIsLogged'
  BY DEF LogInv, CountedIsLogged
<1>3. EarlierLogged'
  BY <1>0 DEF LogInv, EarlierLogged
<1> QED
  BY <1>1, <1>2, <1>3 DEF LogInv

LEMMA EnvironmentLogged ==
  ASSUME Typed, LogInv,
         \/ \E e \in Events : Publish(e)
         \/ \E x \in Destinations : Toggle(x) \/ DeleteDestination(x)
         \/ \E d \in Deliveries : Retry(d)
  PROVE  LogInv'
<1>0. \A j \in jobs : j.d \in Deliveries
  BY DEF Typed, TypeOK, Jobs
<1>1. ASSUME NEW e \in Events, Publish(e) PROVE LogInv'
  <2>1. \A d \in Deliveries :
          \/ rows'[d] = rows[d]
          \/ d[1] = e /\ rows'[d].attempts = 0
    BY <1>1 DEF Publish, Row
  <2>2. \A j \in jobs : rows'[j.d] = rows[j.d]
    BY <1>0, <1>1 DEF Publish, LogInv, Origins
  <2>3. Origins'
    BY <1>1, <2>1 DEF Publish, LogInv, Origins
  <2>4. CountedIsLogged'
    BY <1>1, <2>1 DEF Publish, LogInv, CountedIsLogged
  <2>5. EarlierLogged'
    BY <1>1, <2>2 DEF Publish, LogInv, EarlierLogged
  <2> QED
    BY <2>3, <2>4, <2>5 DEF LogInv
<1>2. ASSUME NEW x \in Destinations, Toggle(x) PROVE LogInv'
  BY <1>2, LogKept DEF Toggle
<1>3. ASSUME NEW x \in Destinations, DeleteDestination(x) PROVE LogInv'
  <2>1. \A d \in Deliveries :
          IF d[2] = x THEN rows'[d].state = "absent" /\ rows'[d].attempts = 0
          ELSE rows'[d] = rows[d] /\ attemptLog'[d] = attemptLog[d]
    BY <1>3 DEF DeleteDestination, NoRow, Row
  <2>2. Origins'
    BY <1>0, <1>3, <2>1 DEF DeleteDestination, LogInv, Origins
  <2>3. CountedIsLogged'
    BY <2>1 DEF LogInv, CountedIsLogged
  <2>4. EarlierLogged'
    BY <1>0, <1>3, <2>1 DEF DeleteDestination, LogInv, EarlierLogged
  <2> QED
    BY <2>2, <2>3, <2>4 DEF LogInv
<1>4. ASSUME NEW d \in Deliveries, Retry(d) PROVE LogInv'
  <2>1. \A c \in Deliveries :
          /\ rows'[c].state = "absent" <=> rows[c].state = "absent"
          /\ rows'[c].attempts \in {0, rows[c].attempts}
    BY <1>4 DEF Retry, Retriable, Row, Typed, TypeOK
  <2>2. Origins'
    BY <1>4, <2>1 DEF Retry, LogInv, Origins
  <2>3. CountedIsLogged'
    BY <1>4, <2>1 DEF Retry, LogInv, CountedIsLogged
  <2>4. EarlierLogged'
    BY <1>0, <1>4, <2>1 DEF Retry, LogInv, EarlierLogged
  <2> QED
    BY <2>2, <2>3, <2>4 DEF LogInv
<1> QED
  BY <1>1, <1>2, <1>3, <1>4

LEMMA ProcessLogged ==
  ASSUME Typed, LogInv, NEW p \in Procs,
         Claim(p) \/ ReleaseStale(p) \/ Shutdown(p) \/ Crash(p) \/ Restart(p)
  PROVE  LogInv'
<1>0. \A d \in Deliveries : rows[d].attempts \in Nat
  BY DEF Typed, TypeOK, Rows
<1>1. ASSUME Claim(p) PROVE LogInv'
  <2>1. PICK S \in SUBSET Due, slack \in 0..MaxSlack :
          /\ rows' = [d \in Deliveries |->
               IF d \in S THEN [rows[d] EXCEPT !.state = "delivering", !.age = 0] ELSE rows[d]]
          /\ jobs' \in {jobs, jobs \cup {NewJob(p, d, slack) : d \in S}}
    BY <1>1 DEF Claim
  <2>2. \A d \in S : d \in Deliveries /\ rows[d].state # "absent"
    BY DEF Due
  <2>3. \A d \in Deliveries : /\ rows'[d].attempts = rows[d].attempts
                              /\ rows'[d].state = "absent" <=> rows[d].state = "absent"
    BY <2>1, <2>2 DEF Typed, TypeOK, Rows
  <2>4. UNCHANGED <<attemptLog, published>>
    BY <1>1 DEF Claim
  <2>5. \A k \in jobs' : k \in jobs \/ (k.d \in S /\ k.number = rows[k.d].attempts + 1)
    <3>1. \A d \in S : NewJob(p, d, slack).d = d /\ NewJob(p, d, slack).number = rows[d].attempts + 1
      BY DEF NewJob
    <3>2. \A k \in jobs' : k \in jobs \/ \E d \in S : k = NewJob(p, d, slack)
      BY <2>1
    <3> SUFFICES ASSUME NEW k \in jobs', k \notin jobs
                 PROVE  k.d \in S /\ k.number = rows[k.d].attempts + 1
      OBVIOUS
    <3>3. PICK d \in S : k = NewJob(p, d, slack)
      BY <3>2
    <3>4. k.d = d /\ k.number = rows[d].attempts + 1
      BY <3>1, <3>3
    <3> QED
      BY <3>4
  <2>6. Origins'
    BY <2>2, <2>3, <2>4, <2>5 DEF LogInv, Origins
  <2>7. CountedIsLogged'
    BY <2>3, <2>4 DEF LogInv, CountedIsLogged
  <2>8. EarlierLogged'
    <3> SUFFICES ASSUME NEW k \in jobs', rows'[k.d].state # "absent"
                 PROVE  1..(k.number - 1) \subseteq attemptLog[k.d]
      BY <2>4 DEF EarlierLogged
    <3>1. CASE k \in jobs
      BY <2>3, <3>1 DEF LogInv, EarlierLogged, Typed, TypeOK, Jobs
    <3>2. CASE k.d \in S /\ k.number = rows[k.d].attempts + 1
      <4>1. k.number - 1 = rows[k.d].attempts
        BY <1>0, <2>2, <3>2
      <4> QED
        BY <2>2, <3>2, <4>1 DEF LogInv, CountedIsLogged
    <3> QED
      BY <2>5, <3>1, <3>2
  <2> QED
    BY <2>6, <2>7, <2>8 DEF LogInv
<1>2. ASSUME ReleaseStale(p) PROVE LogInv'
  <2>1. \A d \in Deliveries : /\ rows'[d].attempts = rows[d].attempts
                              /\ rows'[d].state = "absent" <=> rows[d].state = "absent"
    BY <1>2 DEF ReleaseStale, Stale, Row
  <2> QED
    BY <1>2, <2>1, LogKept DEF ReleaseStale
<1>3. ASSUME Shutdown(p) \/ Crash(p) \/ Restart(p) PROVE LogInv'
  BY <1>3, LogKept DEF Shutdown, Crash, Restart
<1> QED
  BY <1>1, <1>2, <1>3

LEMMA JobLogged ==
  ASSUME Typed, LogInv, NEW j \in jobs, Prepare(j) \/ Send(j) \/ Record(j) \/ Expire(j)
  PROVE  LogInv'
<1>0. /\ j \in Jobs /\ j.d \in Deliveries /\ j.number \in Nat \ {0}
      /\ \A k \in jobs : k.d \in Deliveries
  BY DEF Typed, TypeOK, Jobs
<1>1. ASSUME Prepare(j) \/ Send(j) PROVE LogInv'
  <2>0. \E s \in {"prepared", "done"}, r \in {"none", "ok", "retry", "final"} :
          jobs' = (jobs \ {j}) \cup {[j EXCEPT !.stage = s, !.result = r]}
    <3>1. [j EXCEPT !.stage = "prepared"] = [j EXCEPT !.stage = "prepared", !.result = j.result]
      BY <1>0 DEF Jobs
    <3>2. j.result \in {"none", "ok", "retry", "final"}
      BY <1>0 DEF Jobs
    <3> QED
      BY <1>1, <3>1, <3>2 DEF Prepare, Send, Becomes
  <2>1. \A k \in jobs' : \E i \in jobs : k.d = i.d /\ k.number = i.number
    BY <1>0, <2>0 DEF Jobs
  <2> QED
    BY <1>1, <2>1, LogKept DEF Prepare, Send
<1>2. ASSUME Expire(j) PROVE LogInv'
  BY <1>2, LogKept DEF Expire
<1>3. ASSUME Record(j), UNCHANGED <<rows, attemptLog>> PROVE LogInv'
  BY <1>3, LogKept DEF Record
<1>4. ASSUME Record(j), rows[j.d].state # "absent", rows' = [rows EXCEPT ![j.d] = After(j)],
             attemptLog' = [attemptLog EXCEPT ![j.d] = @ \cup Logged(j)]
      PROVE  LogInv'
  <2>1. After(j).state # "absent" /\ After(j).attempts = j.number
    BY DEF After, Row
  <2>2. /\ rows'[j.d] = After(j)
        /\ attemptLog'[j.d] = attemptLog[j.d] \cup {j.number}
        /\ \A d \in Deliveries \ {j.d} : rows'[d] = rows[d] /\ attemptLog'[d] = attemptLog[d]
    BY <1>0, <1>4 DEF Typed, TypeOK, Logged
  <2>3. UNCHANGED published /\ jobs' = jobs \ {j}
    BY <1>4 DEF Record
  <2>4. 1..j.number = 1..(j.number - 1) \cup {j.number}
    BY <1>0
  <2>5. Origins'
    BY <1>0, <1>4, <2>2, <2>3 DEF LogInv, Origins
  <2>6. CountedIsLogged'
    BY <1>0, <1>4, <2>1, <2>2, <2>4 DEF LogInv, CountedIsLogged, EarlierLogged
  <2>7. EarlierLogged'
    BY <1>0, <1>4, <2>2, <2>3 DEF LogInv, EarlierLogged
  <2> QED
    BY <2>5, <2>6, <2>7 DEF LogInv
<1> QED
  BY <1>1, <1>2, <1>3, <1>4 DEF Record

(* Every attempt a delivery counts is in the log: whatever was recorded late, *)
(* after its lock was stale, or after an operator made the count start again. *)
THEOREM AttemptsAreLogged == Spec => []CountedIsLogged
<1>1. Init => LogInv
  BY NoRowTyped DEF Init, LogInv, Origins, CountedIsLogged, EarlierLogged, NoRow, Row
<1>2. Typed /\ LogInv /\ [Next]_vars => LogInv'
  <2> SUFFICES ASSUME Typed, LogInv, [Next]_vars PROVE LogInv'
    OBVIOUS
  <2>1. CASE UNCHANGED vars
    BY <2>1, LogKept DEF vars
  <2>2. CASE Tick
    <3>1. \A d \in Deliveries : /\ rows'[d].attempts = rows[d].attempts
                                /\ rows'[d].state = "absent" <=> rows[d].state = "absent"
      BY <2>2 DEF Tick, Aged, Typed, TypeOK, Rows
    <3>2. \A k \in jobs' : \E j \in jobs : k.d = j.d /\ k.number = j.number
      BY <2>2 DEF Tick, Typed, TypeOK, Jobs
    <3> QED
      BY <2>2, <3>1, <3>2, LogKept DEF Tick
  <2> QED
    BY <2>1, <2>2, EnvironmentLogged, ProcessLogged, JobLogged DEF Next
<1>3. LogInv => CountedIsLogged
  BY DEF LogInv
<1> QED
  BY <1>1, <1>2, <1>3, AlwaysTyped, PTL DEF Spec

-----------------------------------------------------------------------------
(* The delivery queue implements DeliveryPromise: every step is one of the *)
(* promise's steps, or changes neither a delivery's fate nor what its      *)
(* destination has accepted.  And it sends a delivery no oftener than its  *)
(* attempts, its retries and the faults account for.                       *)

PromiseStep == [Promise!Next]_(Promise!vars)

(* A fate is told by the row's state and by whether the destination exists. *)
LEMMA FateOf ==
  ASSUME NEW d \in Deliveries
  PROVE  /\ Fate(d) = "open" <=> rows[d].state \in {"pending", "delivering", "failed"}
         /\ Fate(d) = "delivered" <=> rows[d].state = "succeeded"
         /\ Fate(d) = "abandoned" <=> rows[d].state = "dead"
         /\ Fate(d) = "deleted" <=>
              rows[d].state \notin (Open \cup Terminal) /\ dest[d[2]] = "deleted"
         /\ Fate(d) = "absent" <=>
              rows[d].state \notin (Open \cup Terminal) /\ dest[d[2]] # "deleted"
         /\ Fate(d) \in {"open", "delivered", "abandoned", "deleted", "absent"}
<1>1. CASE rows[d].state \in {"pending", "delivering", "failed"}
  BY <1>1 DEF Fate, Open, Terminal
<1>2. CASE rows[d].state = "succeeded"
  BY <1>2 DEF Fate, Open, Terminal
<1>3. CASE rows[d].state = "dead"
  BY <1>3 DEF Fate, Open, Terminal
<1>4. CASE rows[d].state \notin {"pending", "delivering", "failed", "succeeded", "dead"}
  <2>1. Fate(d) = IF dest[d[2]] = "deleted" THEN "deleted" ELSE "absent"
    BY <1>4 DEF Fate
  <2> QED
    BY <1>4, <2>1 DEF Open, Terminal
<1> QED
  BY <1>1, <1>2, <1>3, <1>4

(* A step that keeps every fate and acceptance is a stutter.                *)
LEMMA Stutters ==
  ASSUME \A d \in Deliveries : Fate(d)' = Fate(d), accepted' = accepted
  PROVE  PromiseStep
  BY DEF PromiseStep, Promise!vars

(* It is one when it keeps every state and deletes no destination.          *)
LEMMA KeepsFates ==
  ASSUME \A d \in Deliveries : rows'[d].state = rows[d].state,
         \A d \in Deliveries : dest'[d[2]] = "deleted" <=> dest[d[2]] = "deleted",
         accepted' = accepted
  PROVE  PromiseStep
<1>1. \A d \in Deliveries : Fate(d)' = Fate(d)
  BY DEF Fate
<1> QED
  BY <1>1, Stutters

LEMMA EnvironmentPromise ==
  ASSUME Typed, SafeInv,
         \/ \E e \in Events : Publish(e)
         \/ \E x \in Destinations : Toggle(x) \/ DeleteDestination(x)
         \/ \E d \in Deliveries : Retry(d)
  PROVE  PromiseStep
<1>0. \A d \in Deliveries : d[1] \in Events /\ d[2] \in Destinations
  BY DEF Deliveries
<1>1. ASSUME NEW e \in Events, Publish(e) PROVE PromiseStep
  <2> DEFINE D == {d \in Deliveries : d[1] = e /\ dest[d[2]] = "enabled"}
  <2>1. \A d \in D : Fate(d) = "absent"
    <3>1. \A d \in D : rows[d].state = "absent" /\ dest[d[2]] # "deleted"
      BY <1>1 DEF Publish, SafeInv, RowsKnown
    <3> QED
      BY <3>1, FateOf DEF Open, Terminal
  <2>2. \A d \in Deliveries : Fate(d)' = IF d \in D THEN "open" ELSE Fate(d)
    <3>1. \A d \in D : rows'[d].state = "pending"
      BY <1>1 DEF Publish, Row
    <3>2. \A d \in Deliveries \ D : rows'[d] = rows[d]
      BY <1>1 DEF Publish
    <3>3. dest' = dest
      BY <1>1 DEF Publish
    <3> HIDE DEF D
    <3> QED
      BY <3>1, <3>2, <3>3 DEF Fate
  <2>3. accepted' = accepted
    BY <1>1 DEF Publish
  <2>4. Promise!Publish(D)
    BY <2>1, <2>2, <2>3 DEF Promise!Publish
  <2> QED
    BY <2>4 DEF PromiseStep, Promise!Next
<1>2. ASSUME NEW x \in Destinations, Toggle(x) PROVE PromiseStep
  <2>1. \A y \in Destinations : dest'[y] = "deleted" <=> dest[y] = "deleted"
    BY <1>2 DEF Toggle, Typed, TypeOK
  <2> QED
    BY <1>0, <1>2, <2>1, KeepsFates DEF Toggle
<1>3. ASSUME NEW x \in Destinations, DeleteDestination(x) PROVE PromiseStep
  <2> DEFINE D == {d \in Deliveries : d[2] = x}
  <2>1. \A d \in Deliveries : Fate(d)' = IF d \in D THEN "deleted" ELSE Fate(d)
    <3>1. \A d \in D : rows'[d].state = "absent" /\ dest'[d[2]] = "deleted"
      BY <1>0, <1>3, NoRowTyped DEF DeleteDestination, Typed, TypeOK
    <3>2. \A d \in Deliveries \ D : rows'[d] = rows[d] /\ dest'[d[2]] = dest[d[2]]
      BY <1>0, <1>3 DEF DeleteDestination, Typed, TypeOK
    <3> HIDE DEF D
    <3> QED
      BY <3>1, <3>2 DEF Fate
  <2>2. accepted' = accepted
    BY <1>3 DEF DeleteDestination
  <2>3. Promise!Delete(D)
    BY <2>1, <2>2 DEF Promise!Delete
  <2> QED
    BY <2>3 DEF PromiseStep, Promise!Next
<1>4. ASSUME NEW d \in Deliveries, Retry(d) PROVE PromiseStep
  <2>1. Fate(d) \in {"open", "delivered", "abandoned"}
    BY <1>4, FateOf DEF Retry, Retriable
  <2>2. \A c \in Deliveries : Fate(c)' = IF c = d THEN "open" ELSE Fate(c)
    <3>1. rows'[d].state = "pending"
      BY <1>4 DEF Retry, Row, Typed, TypeOK
    <3>2. \A c \in Deliveries : c # d => rows'[c] = rows[c]
      BY <1>4 DEF Retry, Typed, TypeOK
    <3>3. dest' = dest
      BY <1>4 DEF Retry
    <3> QED
      BY <3>1, <3>2, <3>3 DEF Fate
  <2>3. accepted' = [accepted EXCEPT ![d] = FALSE]
    BY <1>4 DEF Retry
  <2>4. Promise!Reopen(d)
    BY <2>1, <2>2, <2>3 DEF Promise!Reopen
  <2> QED
    BY <2>4 DEF PromiseStep, Promise!Next
<1> QED
  BY <1>1, <1>2, <1>3, <1>4

LEMMA ProcessPromise ==
  ASSUME Typed, NEW p \in Procs,
         Claim(p) \/ ReleaseStale(p) \/ Shutdown(p) \/ Crash(p) \/ Restart(p)
  PROVE  PromiseStep
<1>1. ASSUME Claim(p) PROVE PromiseStep
  <2>1. PICK S \in SUBSET Due :
          rows' = [d \in Deliveries |->
            IF d \in S THEN [rows[d] EXCEPT !.state = "delivering", !.age = 0] ELSE rows[d]]
    BY <1>1 DEF Claim
  <2>2. \A d \in S : rows[d].state \in {"pending", "failed"} /\ rows'[d].state = "delivering"
    BY <2>1 DEF Due, Typed, TypeOK, Rows
  <2>3. \A d \in Deliveries \ S : rows'[d] = rows[d]
    BY <2>1
  <2>4. dest' = dest /\ accepted' = accepted
    BY <1>1 DEF Claim
  <2>5. \A d \in Deliveries : Fate(d)' = Fate(d)
    BY <2>2, <2>3, <2>4 DEF Fate
  <2> QED
    BY <2>4, <2>5, Stutters
<1>2. ASSUME ReleaseStale(p) PROVE PromiseStep
  <2>1. \A d \in Stale : rows[d].state = "delivering" /\ rows'[d].state = "failed"
    BY <1>2 DEF ReleaseStale, Stale, Row
  <2>2. \A d \in Deliveries \ Stale : rows'[d] = rows[d]
    BY <1>2 DEF ReleaseStale
  <2>3. dest' = dest /\ accepted' = accepted
    BY <1>2 DEF ReleaseStale
  <2>4. \A d \in Deliveries : Fate(d)' = Fate(d)
    BY <2>1, <2>2, <2>3 DEF Fate
  <2> QED
    BY <2>3, <2>4, Stutters
<1>3. ASSUME Shutdown(p) \/ Crash(p) \/ Restart(p) PROVE PromiseStep
  BY <1>3, KeepsFates DEF Shutdown, Crash, Restart
<1> QED
  BY <1>1, <1>2, <1>3

LEMMA JobPromise ==
  ASSUME Typed, SafeInv, NEW j \in jobs, Prepare(j) \/ Send(j) \/ Record(j) \/ Expire(j)
  PROVE  PromiseStep
<1>0. /\ j \in Jobs /\ j.d \in Deliveries
      /\ \/ rows[j.d].state = "delivering"
         \/ rows[j.d].state = "absent" /\ dest[j.d[2]] = "deleted"
  BY DEF Typed, TypeOK, Jobs, SafeInv, LockHeld
<1>1. ASSUME Prepare(j) \/ Expire(j) PROVE PromiseStep
  BY <1>1, KeepsFates DEF Prepare, Expire
<1>2. ASSUME Send(j) PROVE PromiseStep
  <2>1. PICK got \in BOOLEAN : accepted' = [accepted EXCEPT ![j.d] = @ \/ got]
    BY <1>2 DEF Send
  <2>2. \A d \in Deliveries : Fate(d)' = Fate(d)
    BY <1>2 DEF Send, Fate
  <2>3. CASE got
    <3>1. accepted' = [accepted EXCEPT ![j.d] = TRUE]
      BY <2>1, <2>3
    <3>2. Fate(j.d) \in {"open", "deleted"}
      BY <1>0, FateOf DEF Open, Terminal
    <3>3. Promise!Accept(j.d)
      BY <1>0, <2>2, <3>1, <3>2 DEF Promise!Accept
    <3> QED
      BY <1>0, <3>3 DEF PromiseStep, Promise!Next
  <2>4. CASE ~got
    <3>1. accepted' = accepted
      BY <1>0, <2>1, <2>4 DEF Typed, TypeOK
    <3> QED
      BY <2>2, <3>1, Stutters
  <2> QED
    BY <2>3, <2>4
<1>3. ASSUME Record(j) PROVE PromiseStep
  <2>1. dest' = dest /\ accepted' = accepted
    BY <1>3 DEF Record
  <2>2. CASE rows' = rows
    BY <2>1, <2>2, KeepsFates
  <2>3. CASE rows[j.d].state # "absent" /\ rows' = [rows EXCEPT ![j.d] = After(j)]
    <3>1. rows'[j.d] = After(j) /\ \A d \in Deliveries : d # j.d => rows'[d] = rows[d]
      BY <1>0, <2>3 DEF Typed, TypeOK
    <3>2. Fate(j.d) = "open"
      BY <1>0, <2>3, FateOf
    <3>3. ASSUME NEW f, Fate(j.d)' = f
          PROVE  [d \in Deliveries |-> Fate(d)]' = [[d \in Deliveries |-> Fate(d)] EXCEPT ![j.d] = f]
      <4>1. \A d \in Deliveries : d # j.d => Fate(d)' = Fate(d)
        BY <2>1, <3>1 DEF Fate
      <4> QED
        BY <1>0, <3>3, <4>1
    <3>4. CASE After(j).state = "succeeded"
      <4>1. Fate(j.d)' = "delivered"
        BY <3>1, <3>4 DEF Fate
      <4>2. accepted[j.d]
        BY <1>0, <3>4, AfterTyped DEF SafeInv, ResultsTrue
      <4>3. Promise!Deliver(j.d)
        BY <1>0, <2>1, <3>2, <3>3, <4>1, <4>2 DEF Promise!Deliver
      <4> QED
        BY <1>0, <4>3 DEF PromiseStep, Promise!Next
    <3>5. CASE After(j).state = "dead"
      <4>1. Fate(j.d)' = "abandoned"
        BY <3>1, <3>5 DEF Fate
      <4>2. Promise!Abandon(j.d)
        BY <1>0, <2>1, <3>2, <3>3, <4>1 DEF Promise!Abandon
      <4> QED
        BY <1>0, <4>2 DEF PromiseStep, Promise!Next
    <3>6. CASE After(j).state = "failed"
      <4>1. \A d \in Deliveries : Fate(d)' = Fate(d)
        BY <1>0, <2>1, <3>1, <3>2, <3>6 DEF Fate
      <4> QED
        BY <2>1, <4>1, Stutters
    <3> QED
      BY <1>0, <3>4, <3>5, <3>6, AfterTyped
  <2> QED
    BY <1>3, <2>2, <2>3 DEF Record
<1> QED
  BY <1>1, <1>2, <1>3

LEMMA TickPromise == Typed /\ Tick => PromiseStep
<1> SUFFICES ASSUME Typed, Tick PROVE PromiseStep
  OBVIOUS
<1>1. \A d \in Deliveries : rows'[d].state = rows[d].state
  BY DEF Tick, Aged, Typed, TypeOK, Rows
<1> QED
  BY <1>1, KeepsFates DEF Tick

(* A delivery that ended stays ended until an operator reopens it or its    *)
(* destination goes, and one marked succeeded was accepted, provided that   *)
(* attempts end before their locks are stale.                               *)
THEOREM ImplementsPromise ==
  ASSUME Prompt
  PROVE  Spec => PromiseHolds
<1>1. Init => Promise!Init
  <2>1. Init => \A d \in Deliveries : Fate(d) = "absent"
    BY FateOf, NoRowTyped DEF Init, Open, Terminal, Deliveries
  <2> QED
    BY <2>1 DEF Init, Promise!Init
<1>2. Typed /\ SafeInv /\ [Next]_vars => [Promise!Next]_(Promise!vars)
  <2> SUFFICES ASSUME Typed, SafeInv, [Next]_vars PROVE PromiseStep
    BY DEF PromiseStep
  <2>1. CASE UNCHANGED vars
    BY <2>1, KeepsFates DEF vars
  <2> QED
    BY <2>1, EnvironmentPromise, ProcessPromise, JobPromise, TickPromise DEF Next
<1> QED
  BY <1>1, <1>2, SafeInvHolds, PTL DEF Spec, PromiseHolds, Promise!Spec
-----------------------------------------------------------------------------
(* Counting what is sent *)

Budget(d) == MaxAttempts * retries[d] + faults

(* A job counts the attempt after those its row has counted.                 *)
Numbered ==
  \A j \in jobs : rows[j.d].state # "absent" => j.number = rows[j.d].attempts + 1

(* Nothing is sent of an event that is not published.                        *)
SentIsPublished ==
  /\ \A j \in jobs : j.d[1] \in published
  /\ \A d \in Deliveries : d[1] \notin published => sends[d] = 0

(* What was sent since the row's last count is the attempt of a job that is  *)
(* done.                                                                     *)
RowCounts ==
  \A d \in Deliveries : rows[d].state # "absent" =>
    /\ sends[d] <= Budget(d) + rows[d].attempts + 1
    /\ (\A j \in jobs : j.d = d => j.stage # "done") => sends[d] <= Budget(d) + rows[d].attempts

(* A row that is gone had an attempt left for the job it may have had.       *)
GoneCounts ==
  \A d \in Deliveries : rows[d].state = "absent" =>
    /\ sends[d] <= Budget(d) + MaxAttempts
    /\ \A j \in jobs : j.d = d /\ j.stage # "done" => sends[d] + 1 <= Budget(d) + MaxAttempts

CountInv == Numbered /\ SentIsPublished /\ RowCounts /\ GoneCounts

LEMMA BudgetTyped == Typed => \A d \in Deliveries : Budget(d) \in Nat
<1>1. \A m, n \in Nat : m * n \in Nat
  OBVIOUS
<1> QED
  BY <1>1, QueueAssumption DEF Typed, TypeOK, Budget

(* One more retry buys MaxAttempts more.                                     *)
LEMMA BudgetOfRetry == \A r \in Nat : MaxAttempts * (r + 1) = MaxAttempts * r + MaxAttempts
  BY QueueAssumption

LEMMA CountsTyped ==
  ASSUME Typed, NEW d \in Deliveries
  PROVE  /\ sends[d] \in Nat /\ retries[d] \in Nat /\ faults \in Nat /\ Budget(d) \in Nat
         /\ rows[d].attempts \in 0..MaxAttempts /\ MaxAttempts \in Nat \ {0}
  BY BudgetTyped, QueueAssumption DEF Typed, TypeOK, Rows

(* A step that sends nothing and counts nothing, and where no job that is    *)
(* done disappears without a fault.                                          *)
LEMMA CountsKept ==
  ASSUME Typed, CountInv,
         faults' = faults \/ faults' = faults + 1,
         UNCHANGED <<published, sends, retries>>,
         \A d \in Deliveries : /\ rows'[d].attempts = rows[d].attempts
                               /\ rows'[d].state = "absent" <=> rows[d].state = "absent",
         \A k \in jobs' :
           \/ \E j \in jobs : k.d = j.d /\ k.number = j.number /\ (j.stage = "done" => k.stage = "done")
           \/ /\ rows[k.d].state # "absent" /\ k.d \in Deliveries
              /\ k.number = rows[k.d].attempts + 1 /\ k.d[1] \in published,
         faults' = faults =>
           \A j \in jobs : rows[j.d].state # "absent" /\ j.stage = "done" =>
             \E k \in jobs' : k.d = j.d /\ k.stage = "done"
  PROVE  CountInv'
<1>0. \A j \in jobs : j.d \in Deliveries
  BY DEF Typed, TypeOK, Jobs
<1>1. \A d \in Deliveries : Budget(d)' = IF faults' = faults THEN Budget(d) ELSE Budget(d) + 1
  <2> SUFFICES ASSUME NEW d \in Deliveries
               PROVE  Budget(d)' = IF faults' = faults THEN Budget(d) ELSE Budget(d) + 1
    OBVIOUS
  <2>1. retries' = retries /\ faults \in Nat
    BY CountsTyped
  <2>2. Budget(d)' = MaxAttempts * retries[d] + faults'
    BY <2>1 DEF Budget
  <2>3. MaxAttempts * retries[d] \in Nat
    BY CountsTyped
  <2> QED
    BY <2>1, <2>2, <2>3 DEF Budget
<1>2. Numbered'
  <2> SUFFICES ASSUME NEW k \in jobs', rows'[k.d].state # "absent"
               PROVE  k.number = rows'[k.d].attempts + 1
    BY DEF Numbered
  <2>1. CASE \E j \in jobs : k.d = j.d /\ k.number = j.number
    <3>1. PICK j \in jobs : k.d = j.d /\ k.number = j.number
      BY <2>1
    <3>2. /\ j.d \in Deliveries
          /\ rows'[j.d].attempts = rows[j.d].attempts
          /\ rows[j.d].state # "absent"
      BY <1>0, <3>1
    <3>3. j.number = rows[j.d].attempts + 1
      BY <3>1, <3>2 DEF CountInv, Numbered
    <3> QED
      BY <3>1, <3>2, <3>3
  <2>2. CASE k.d \in Deliveries /\ k.number = rows[k.d].attempts + 1
    BY <2>2
  <2> QED
    BY <2>1, <2>2
<1>3. SentIsPublished'
  <2>1. \A k \in jobs' : k.d[1] \in published
    <3> SUFFICES ASSUME NEW k \in jobs' PROVE k.d[1] \in published
      OBVIOUS
    <3>1. (\E j \in jobs : k.d = j.d) \/ k.d[1] \in published
      OBVIOUS
    <3> QED
      BY <3>1 DEF CountInv, SentIsPublished
  <2> QED
    BY <2>1 DEF CountInv, SentIsPublished
<1>4. RowCounts'
  <2> SUFFICES ASSUME NEW d \in Deliveries, rows'[d].state # "absent"
               PROVE  /\ sends[d] <= Budget(d)' + rows[d].attempts + 1
                      /\ (\A k \in jobs' : k.d = d => k.stage # "done")
                           => sends[d] <= Budget(d)' + rows[d].attempts
    BY DEF RowCounts
  <2>1. /\ rows[d].state # "absent"
        /\ sends[d] <= Budget(d) + rows[d].attempts + 1
        /\ (\A j \in jobs : j.d = d => j.stage # "done") => sends[d] <= Budget(d) + rows[d].attempts
    BY DEF CountInv, RowCounts
  <2>2. /\ sends[d] \in Nat /\ Budget(d) \in Nat /\ rows[d].attempts \in Nat
    BY CountsTyped
  <2>3. CASE faults' # faults
    BY <1>1, <2>1, <2>2, <2>3
  <2>4. CASE faults' = faults
    <3>1. Budget(d)' = Budget(d)
      BY <1>1, <2>4
    <3>2. (\A k \in jobs' : k.d = d => k.stage # "done") => \A j \in jobs : j.d = d => j.stage # "done"
      BY <2>1, <2>4
    <3> QED
      BY <2>1, <3>1, <3>2
  <2> QED
    BY <2>3, <2>4
<1>5. GoneCounts'
  <2> SUFFICES ASSUME NEW d \in Deliveries, rows'[d].state = "absent"
               PROVE  /\ sends[d] <= Budget(d)' + MaxAttempts
                      /\ \A k \in jobs' : k.d = d /\ k.stage # "done"
                                          => sends[d] + 1 <= Budget(d)' + MaxAttempts
    BY DEF GoneCounts
  <2>1. /\ rows[d].state = "absent"
        /\ sends[d] <= Budget(d) + MaxAttempts
        /\ \A j \in jobs : j.d = d /\ j.stage # "done" => sends[d] + 1 <= Budget(d) + MaxAttempts
    BY DEF CountInv, GoneCounts
  <2>2. sends[d] \in Nat /\ Budget(d) \in Nat /\ MaxAttempts \in Nat /\ Budget(d)' \in Nat
        /\ Budget(d) <= Budget(d)'
    BY <1>1, CountsTyped
  <2>3. ASSUME NEW k \in jobs', k.d = d, k.stage # "done"
        PROVE  \E j \in jobs : j.d = d /\ j.stage # "done"
    <3>1. \E j \in jobs : k.d = j.d /\ (j.stage = "done" => k.stage = "done")
      BY <2>1, <2>3
    <3> QED
      BY <2>3, <3>1
  <2> QED
    BY <2>1, <2>2, <2>3
<1> QED
  BY <1>2, <1>3, <1>4, <1>5 DEF CountInv

LEMMA PublishCounts ==
  ASSUME Typed, CountInv, NEW e \in Events, Publish(e)
  PROVE  CountInv'
<1>1. \A d \in Deliveries :
        \/ rows'[d] = rows[d]
        \/ d[1] = e /\ rows'[d].state = "pending" /\ rows'[d].attempts = 0
  BY DEF Publish, Row
<1>2. \A d \in Deliveries : Budget(d)' = Budget(d)
  BY DEF Publish, Budget
<1>3. \A j \in jobs : j.d \in Deliveries /\ j.d[1] # e
  BY DEF Publish, Typed, TypeOK, Jobs, CountInv, SentIsPublished
<1>4. \A d \in Deliveries : d[1] = e => sends[d] = 0
  BY DEF Publish, CountInv, SentIsPublished
<1>5. Numbered'
  BY <1>1, <1>3 DEF Publish, CountInv, Numbered
<1>6. SentIsPublished'
  BY DEF Publish, CountInv, SentIsPublished
<1>7. RowCounts'
  <2> SUFFICES ASSUME NEW d \in Deliveries, rows'[d].state # "absent"
               PROVE  /\ sends[d] <= Budget(d) + rows'[d].attempts + 1
                      /\ (\A j \in jobs : j.d = d => j.stage # "done")
                           => sends[d] <= Budget(d) + rows'[d].attempts
    BY <1>2 DEF RowCounts, Publish
  <2>1. CASE rows'[d] = rows[d]
    BY <2>1 DEF CountInv, RowCounts
  <2>2. CASE d[1] = e /\ rows'[d].attempts = 0
    BY <1>4, <2>2, CountsTyped
  <2> QED
    BY <1>1, <2>1, <2>2
<1>8. GoneCounts'
  <2>1. \A d \in Deliveries : rows'[d].state = "absent" => rows'[d] = rows[d]
    BY <1>1
  <2> QED
    BY <1>2, <2>1 DEF GoneCounts, Publish, CountInv
<1> QED
  BY <1>5, <1>6, <1>7, <1>8 DEF CountInv

(* A deleted row leaves its job the attempt it was claimed for.              *)
LEMMA DeleteCounts ==
  ASSUME Typed, SafeInv, CountInv, NEW x \in Destinations, DeleteDestination(x)
  PROVE  CountInv'
<1>1. \A d \in Deliveries : IF d[2] = x THEN rows'[d].state = "absent" ELSE rows'[d] = rows[d]
  BY NoRowTyped DEF DeleteDestination
<1>2. \A d \in Deliveries : Budget(d)' = Budget(d)
  BY DEF DeleteDestination, Budget
<1>3. \A j \in jobs : j.d \in Deliveries
  BY DEF Typed, TypeOK, Jobs
<1>4. UNCHANGED <<jobs, sends, published>>
  BY DEF DeleteDestination
<1>5. Numbered'
  BY <1>1, <1>3, <1>4 DEF CountInv, Numbered
<1>6. SentIsPublished'
  BY <1>4 DEF CountInv, SentIsPublished
<1>7. RowCounts'
  BY <1>1, <1>2, <1>4 DEF CountInv, RowCounts
<1>8. GoneCounts'
  <2> SUFFICES ASSUME NEW d \in Deliveries, rows'[d].state = "absent"
               PROVE  /\ sends[d] <= Budget(d) + MaxAttempts
                      /\ \A j \in jobs : j.d = d /\ j.stage # "done" => sends[d] + 1 <= Budget(d) + MaxAttempts
    BY <1>2, <1>4 DEF GoneCounts
  <2>1. CASE rows[d].state = "absent"
    BY <2>1 DEF CountInv, GoneCounts
  <2>2. CASE rows[d].state # "absent" /\ \A j \in jobs : j.d # d
    BY <2>2, CountsTyped DEF CountInv, RowCounts
  <2>3. ASSUME NEW j \in jobs, j.d = d, rows[d].state # "absent"
        PROVE  /\ sends[d] <= Budget(d) + MaxAttempts
               /\ \A k \in jobs : k.d = d /\ k.stage # "done" => sends[d] + 1 <= Budget(d) + MaxAttempts
    <3>1. rows[d].attempts < MaxAttempts
      BY <2>3 DEF SafeInv, LockHeld, Typed, OpenAttempts, Open
    <3>2. \A k \in jobs : k.d = d => k = j
      BY <2>3 DEF SafeInv, Exclusive
    <3>3. sends[d] <= Budget(d) + rows[d].attempts + 1
      BY <2>3 DEF CountInv, RowCounts
    <3>4. j.stage # "done" => sends[d] <= Budget(d) + rows[d].attempts
      BY <2>3, <3>2 DEF CountInv, RowCounts
    <3>5. sends[d] <= Budget(d) + MaxAttempts
      BY <3>1, <3>3, CountsTyped
    <3>6. j.stage # "done" => sends[d] + 1 <= Budget(d) + MaxAttempts
      BY <3>1, <3>4, CountsTyped
    <3> QED
      BY <3>2, <3>5, <3>6
  <2> QED
    BY <2>1, <2>2, <2>3
<1> QED
  BY <1>5, <1>6, <1>7, <1>8 DEF CountInv

LEMMA RetryCounts ==
  ASSUME Typed, SafeInv, CountInv, NEW d \in Deliveries, Retry(d)
  PROVE  CountInv'
<1>1. \A j \in jobs : j.d \in Deliveries /\ j.d # d
  BY DEF Retry, Retriable, SafeInv, LockHeld, Typed, TypeOK, Jobs
<1>2. /\ rows'[d].state = "pending" /\ rows'[d].attempts = 0 /\ rows[d].state # "absent"
      /\ retries'[d] = retries[d] + 1
      /\ \A c \in Deliveries : c # d => rows'[c] = rows[c] /\ retries'[c] = retries[c]
      /\ UNCHANGED <<jobs, sends, published, faults>>
  BY DEF Retry, Retriable, Row, Typed, TypeOK
<1>3. \A c \in Deliveries : c # d => Budget(c)' = Budget(c)
  BY <1>2 DEF Budget
<1>4. Budget(d)' = Budget(d) + MaxAttempts
  <2>1. MaxAttempts * (retries[d] + 1) = MaxAttempts * retries[d] + MaxAttempts
    BY BudgetOfRetry, CountsTyped
  <2>2. MaxAttempts * retries[d] \in Nat
    BY CountsTyped
  <2> QED
    BY <1>2, <2>1, <2>2, CountsTyped DEF Budget
<1>5. Numbered'
  BY <1>1, <1>2 DEF CountInv, Numbered
<1>6. SentIsPublished'
  BY <1>2 DEF CountInv, SentIsPublished
<1>7. RowCounts'
  <2> SUFFICES ASSUME NEW c \in Deliveries, rows'[c].state # "absent"
               PROVE  /\ sends[c] <= Budget(c)' + rows'[c].attempts + 1
                      /\ (\A j \in jobs : j.d = c => j.stage # "done")
                           => sends[c] <= Budget(c)' + rows'[c].attempts
    BY <1>2 DEF RowCounts
  <2>1. CASE c # d
    BY <1>2, <1>3, <2>1 DEF CountInv, RowCounts
  <2>2. CASE c = d
    <3>1. sends[d] <= Budget(d) + rows[d].attempts
      BY <1>1, <1>2 DEF CountInv, RowCounts
    <3> QED
      BY <1>2, <1>4, <2>2, <3>1, CountsTyped
  <2> QED
    BY <2>1, <2>2
<1>8. GoneCounts'
  BY <1>2, <1>3 DEF CountInv, GoneCounts
<1> QED
  BY <1>5, <1>6, <1>7, <1>8 DEF CountInv

(* The attempt is the only job of its delivery, so it is the first sent      *)
(* since the row's last count.                                               *)
LEMMA SendCounts ==
  ASSUME Typed, SafeInv, CountInv, NEW j \in jobs, Send(j)
  PROVE  CountInv'
<1>1. /\ j.d \in Deliveries /\ j \in Jobs
      /\ \A k \in jobs : k.d \in Deliveries /\ (k.d = j.d => k = j)
  BY DEF Typed, TypeOK, Jobs, SafeInv, Exclusive
<1>2. PICK i : /\ jobs' = (jobs \ {j}) \cup {i}
               /\ i.d = j.d /\ i.number = j.number /\ i.stage = "done"
  <2>1. PICK r : jobs' = (jobs \ {j}) \cup {[j EXCEPT !.stage = "done", !.result = r]}
    BY DEF Send, Becomes
  <2> DEFINE k == [j EXCEPT !.stage = "done", !.result = r]
  <2>2. k.d = j.d /\ k.number = j.number /\ k.stage = "done"
    BY <1>1 DEF Jobs
  <2> HIDE DEF k
  <2> QED
    BY <2>1, <2>2 DEF k
<1>3. /\ sends'[j.d] = sends[j.d] + 1
      /\ \A d \in Deliveries : d # j.d => sends'[d] = sends[d]
      /\ UNCHANGED <<rows, published, retries, faults>>
      /\ j.stage = "prepared"
  BY <1>1 DEF Send, Typed, TypeOK
<1>4. \A d \in Deliveries : Budget(d)' = Budget(d)
  BY <1>3 DEF Budget
<1>5. Numbered'
  BY <1>1, <1>2, <1>3 DEF CountInv, Numbered
<1>6. SentIsPublished'
  BY <1>1, <1>2, <1>3 DEF CountInv, SentIsPublished
<1>7. RowCounts'
  <2> SUFFICES ASSUME NEW d \in Deliveries, rows[d].state # "absent"
               PROVE  /\ sends'[d] <= Budget(d) + rows[d].attempts + 1
                      /\ (\A k \in jobs' : k.d = d => k.stage # "done")
                           => sends'[d] <= Budget(d) + rows[d].attempts
    BY <1>3, <1>4 DEF RowCounts
  <2>1. CASE d # j.d
    BY <1>2, <1>3, <2>1 DEF CountInv, RowCounts
  <2>2. CASE d = j.d
    <3>1. sends[d] <= Budget(d) + rows[d].attempts
      BY <1>1, <1>3, <2>2 DEF CountInv, RowCounts
    <3>2. ~(\A k \in jobs' : k.d = d => k.stage # "done")
      BY <1>2, <2>2
    <3> QED
      BY <1>3, <2>2, <3>1, <3>2, CountsTyped
  <2> QED
    BY <2>1, <2>2
<1>8. GoneCounts'
  <2> SUFFICES ASSUME NEW d \in Deliveries, rows[d].state = "absent"
               PROVE  /\ sends'[d] <= Budget(d) + MaxAttempts
                      /\ \A k \in jobs' : k.d = d /\ k.stage # "done"
                                            => sends'[d] + 1 <= Budget(d) + MaxAttempts
    BY <1>3, <1>4 DEF GoneCounts
  <2>1. CASE d # j.d
    BY <1>2, <1>3, <2>1 DEF CountInv, GoneCounts
  <2>2. CASE d = j.d
    BY <1>1, <1>2, <1>3, <2>2 DEF CountInv, GoneCounts
  <2> QED
    BY <2>1, <2>2
<1> QED
  BY <1>5, <1>6, <1>7, <1>8 DEF CountInv

(* The row counts the attempt of the job that ends.                          *)
LEMMA RecordCounts ==
  ASSUME Typed, SafeInv, CountInv, NEW j \in jobs, Record(j)
  PROVE  CountInv'
<1>1. /\ j.d \in Deliveries /\ j \in Jobs
      /\ \A k \in jobs' : k \in jobs /\ k.d \in Deliveries /\ k.d # j.d
  BY DEF Record, Typed, TypeOK, Jobs, SafeInv, Exclusive
<1>2. UNCHANGED <<sends, retries, published>>
  BY DEF Record
<1>3. CASE UNCHANGED faults /\ rows[j.d].state # "absent" /\ rows' = [rows EXCEPT ![j.d] = After(j)]
  <2>1. \A d \in Deliveries : Budget(d)' = Budget(d)
    BY <1>2, <1>3 DEF Budget
  <2>2. /\ rows'[j.d].state # "absent"
        /\ rows'[j.d].attempts = rows[j.d].attempts + 1
        /\ \A d \in Deliveries : d # j.d => rows'[d] = rows[d]
    <3>1. rows'[j.d] = After(j) /\ \A d \in Deliveries : d # j.d => rows'[d] = rows[d]
      BY <1>1, <1>3 DEF Typed, TypeOK
    <3>2. After(j).attempts = j.number
      BY DEF After, Row
    <3>3. j.number = rows[j.d].attempts + 1
      BY <1>3 DEF CountInv, Numbered
    <3> QED
      BY <1>1, <3>1, <3>2, <3>3, AfterTyped
  <2>3. Numbered'
    BY <1>1, <2>2 DEF CountInv, Numbered
  <2>4. SentIsPublished'
    BY <1>1, <1>2 DEF CountInv, SentIsPublished
  <2>5. RowCounts'
    <3> SUFFICES ASSUME NEW d \in Deliveries, rows'[d].state # "absent"
                 PROVE  /\ sends[d] <= Budget(d) + rows'[d].attempts + 1
                        /\ (\A k \in jobs' : k.d = d => k.stage # "done")
                             => sends[d] <= Budget(d) + rows'[d].attempts
      BY <1>2, <2>1 DEF RowCounts
    <3>1. CASE d # j.d
      <4>1. (\A k \in jobs' : k.d = d => k.stage # "done")
              => \A k \in jobs : k.d = d => k.stage # "done"
        BY <3>1 DEF Record
      <4> QED
        BY <2>2, <3>1, <4>1 DEF CountInv, RowCounts
    <3>2. CASE d = j.d
      <4>1. sends[d] <= Budget(d) + rows[d].attempts + 1
        BY <1>3, <3>2 DEF CountInv, RowCounts
      <4> QED
        BY <2>2, <3>2, <4>1, CountsTyped
    <3> QED
      BY <3>1, <3>2
  <2>6. GoneCounts'
    BY <1>1, <1>2, <2>1, <2>2 DEF CountInv, GoneCounts
  <2> QED
    BY <2>3, <2>4, <2>5, <2>6 DEF CountInv
<1>4. CASE rows' = rows /\ (faults' = faults => rows[j.d].state = "absent")
  <2>1. faults' = faults \/ faults' = faults + 1
    BY DEF Record, Fault
  <2>2. faults' = faults =>
          \A k \in jobs : rows[k.d].state # "absent" /\ k.stage = "done" =>
            \E i \in jobs' : i.d = k.d /\ i.stage = "done"
    <3>1. \A k \in jobs : k # j => k \in jobs'
      BY DEF Record
    <3> QED
      BY <1>4, <3>1
  <2> QED
    BY <1>1, <1>2, <1>4, <2>1, <2>2, CountsKept
<1> QED
  <2>1. \/ UNCHANGED faults /\ rows[j.d].state # "absent" /\ rows' = [rows EXCEPT ![j.d] = After(j)]
        \/ rows[j.d].state = "absent" /\ rows' = rows
        \/ Fault /\ rows' = rows
    BY DEF Record
  <2>2. Fault => faults' # faults
    BY DEF Fault, Typed, TypeOK
  <2> QED
    BY <1>3, <1>4, <2>1, <2>2

LEMMA ClaimCounts ==
  ASSUME Typed, SafeInv, CountInv, NEW p \in Procs, Claim(p)
  PROVE  CountInv'
<1>1. PICK S \in SUBSET Due, slack \in 0..MaxSlack :
        /\ rows' = [d \in Deliveries |->
             IF d \in S THEN [rows[d] EXCEPT !.state = "delivering", !.age = 0] ELSE rows[d]]
        /\ \/ jobs' = jobs \cup {NewJob(p, d, slack) : d \in S} /\ UNCHANGED faults
           \/ Fault /\ UNCHANGED jobs
  BY DEF Claim
<1>2. \A d \in S : /\ d \in Deliveries
                   /\ rows[d].state \in {"pending", "failed"}
                   /\ rows'[d].state = "delivering" /\ rows'[d].attempts = rows[d].attempts
  BY <1>1 DEF Due, Typed, TypeOK, Rows
<1>3. \A d \in Deliveries \ S : rows'[d] = rows[d]
  BY <1>1
<1>4. \A d \in Deliveries : /\ rows'[d].attempts = rows[d].attempts
                            /\ rows'[d].state = "absent" <=> rows[d].state = "absent"
  BY <1>2, <1>3
<1>5. faults' = faults \/ faults' = faults + 1
  BY <1>1, Zenon DEF Fault
<1>6. \A d \in S : /\ NewJob(p, d, slack).d = d
                   /\ NewJob(p, d, slack).number = rows[d].attempts + 1
  BY DEF NewJob
<1>7. jobs \subseteq jobs' /\ \A k \in jobs' : k \in jobs \/ \E d \in S : k = NewJob(p, d, slack)
  BY <1>1, Zenon
<1>8. \A d \in S : d[1] \in published
  <2>1. \A d \in S : rows[d].state # "absent"
    BY <1>2
  <2> QED
    BY <1>2, <2>1 DEF SafeInv, RowsKnown
<1>9. \A k \in jobs' :
        \/ \E j \in jobs : k.d = j.d /\ k.number = j.number /\ (j.stage = "done" => k.stage = "done")
        \/ /\ rows[k.d].state # "absent" /\ k.d \in Deliveries
           /\ k.number = rows[k.d].attempts + 1 /\ k.d[1] \in published
  <2> SUFFICES ASSUME NEW k \in jobs', k \notin jobs
               PROVE  /\ rows[k.d].state # "absent" /\ k.d \in Deliveries
                      /\ k.number = rows[k.d].attempts + 1 /\ k.d[1] \in published
    OBVIOUS
  <2>1. PICK d \in S : k = NewJob(p, d, slack)
    BY <1>7
  <2>2. k.d = d /\ k.number = rows[d].attempts + 1
    BY <1>6, <2>1
  <2> QED
    BY <1>2, <1>8, <2>1, <2>2
<1>10. UNCHANGED <<published, sends, retries>>
  BY DEF Claim
<1> QED
  BY <1>4, <1>5, <1>7, <1>9, <1>10, CountsKept

(* Every other step leaves the counts, or loses a job to a fault.            *)
LEMMA OtherCounts ==
  ASSUME Typed, CountInv,
         \/ \E x \in Destinations : Toggle(x)
         \/ \E p \in Procs : ReleaseStale(p) \/ Shutdown(p) \/ Crash(p) \/ Restart(p)
         \/ \E j \in jobs : Prepare(j) \/ Expire(j)
         \/ Tick
  PROVE  CountInv'
<1>1. ASSUME NEW x \in Destinations, Toggle(x) PROVE CountInv'
  BY <1>1, CountsKept DEF Toggle
<1>2. ASSUME NEW p \in Procs, ReleaseStale(p) PROVE CountInv'
  <2>1. \A d \in Stale : /\ rows'[d].attempts = rows[d].attempts
                         /\ rows[d].state = "delivering" /\ rows'[d].state = "failed"
    BY <1>2 DEF ReleaseStale, Stale, Row
  <2>2. \A d \in Deliveries \ Stale : rows'[d] = rows[d]
    BY <1>2 DEF ReleaseStale
  <2>3. \A d \in Deliveries : /\ rows'[d].attempts = rows[d].attempts
                              /\ rows'[d].state = "absent" <=> rows[d].state = "absent"
    BY <2>1, <2>2
  <2> QED
    BY <1>2, <2>3, CountsKept DEF ReleaseStale
<1>3. ASSUME NEW p \in Procs, Shutdown(p) \/ Restart(p) PROVE CountInv'
  BY <1>3, CountsKept DEF Shutdown, Restart, Fault
<1>4. ASSUME NEW p \in Procs, Crash(p) PROVE CountInv'
  <2>1. faults' = faults + 1 /\ faults' # faults
    BY <1>4 DEF Crash, Fault, Typed, TypeOK
  <2> QED
    BY <1>4, <2>1, CountsKept DEF Crash
<1>5. ASSUME NEW j \in jobs, Expire(j) PROVE CountInv'
  <2>1. faults' = faults + 1 /\ faults' # faults
    BY <1>5 DEF Expire, Fault, Typed, TypeOK
  <2> QED
    BY <1>5, <2>1, CountsKept DEF Expire
<1>6. ASSUME NEW j \in jobs, Prepare(j) PROVE CountInv'
  <2>1. PICK k : jobs' = (jobs \ {j}) \cup {k} /\ k.d = j.d /\ k.number = j.number
    <3>1. \/ jobs' = (jobs \ {j}) \cup {[j EXCEPT !.stage = "prepared"]}
          \/ jobs' = (jobs \ {j}) \cup {[j EXCEPT !.stage = "done", !.result = "final"]}
      BY <1>6 DEF Prepare, Becomes
    <3>2. LET k == [j EXCEPT !.stage = "prepared"] IN k.d = j.d /\ k.number = j.number
      BY DEF Typed, TypeOK, Jobs
    <3>3. LET k == [j EXCEPT !.stage = "done", !.result = "final"]
          IN  k.d = j.d /\ k.number = j.number
      BY DEF Typed, TypeOK, Jobs
    <3> QED
      BY <3>1, <3>2, <3>3, Zenon
  <2>2. j.stage # "done" /\ (faults' = faults \/ faults' = faults + 1)
    BY <1>6 DEF Prepare, Fault
  <2>3. \A i \in jobs : i.stage = "done" => i \in jobs'
    BY <2>1, <2>2
  <2>4. \A i \in jobs' : \E h \in jobs :
          i.d = h.d /\ i.number = h.number /\ (h.stage = "done" => i.stage = "done")
    BY <2>1, <2>2
  <2>5. UNCHANGED <<rows, published, sends, retries>>
    BY <1>6 DEF Prepare
  <2> QED
    BY <2>2, <2>3, <2>4, <2>5, CountsKept
<1>7. ASSUME Tick PROVE CountInv'
  <2>1. \A d \in Deliveries : rows'[d].attempts = rows[d].attempts /\ rows'[d].state = rows[d].state
    BY <1>7 DEF Tick, Aged, Typed, TypeOK, Rows
  <2>2. \A k \in jobs' : \E j \in jobs : k = [j EXCEPT !.left = j.left - 1]
    BY <1>7, Zenon DEF Tick
  <2>3. \A j \in jobs : [j EXCEPT !.left = j.left - 1] \in jobs'
    BY <1>7, Zenon DEF Tick
  <2>4. \A j \in jobs : LET k == [j EXCEPT !.left = j.left - 1]
                       IN  k.d = j.d /\ k.number = j.number /\ k.stage = j.stage
    BY DEF Typed, TypeOK, Jobs
  <2>5. \A k \in jobs' : \E j \in jobs :
          k.d = j.d /\ k.number = j.number /\ (j.stage = "done" => k.stage = "done")
    BY <2>2, <2>4, Zenon
  <2>6. \A j \in jobs : \E k \in jobs' : k.d = j.d /\ k.stage = j.stage
    BY <2>3, <2>4, Zenon
  <2>7. UNCHANGED <<published, sends, retries, faults>>
    BY <1>7 DEF Tick
  <2> QED
    BY <2>1, <2>5, <2>6, <2>7, CountsKept
<1> QED
  BY <1>1, <1>2, <1>3, <1>4, <1>5, <1>6, <1>7

LEMMA CountInvHolds ==
  ASSUME Prompt
  PROVE  Spec => [](Typed /\ CountInv)
<1>1. Init => CountInv
  <2> SUFFICES ASSUME Init PROVE CountInv
    OBVIOUS
  <2>1. \A d \in Deliveries : sends[d] = 0 /\ rows[d].state = "absent"
    BY NoRowTyped DEF Init
  <2>2. \A d \in Deliveries : Budget(d) \in Nat
    BY BudgetTyped, NoRowTyped, QueueAssumption DEF Init, Typed, TypeOK, OpenAttempts, Open
  <2> QED
    BY <2>1, <2>2, QueueAssumption
       DEF Init, CountInv, Numbered, SentIsPublished, RowCounts, GoneCounts
<1>2. Typed /\ SafeInv /\ CountInv /\ [Next]_vars => CountInv'
  <2> SUFFICES ASSUME Typed, SafeInv, CountInv, [Next]_vars PROVE CountInv'
    OBVIOUS
  <2>1. CASE UNCHANGED vars
    BY <2>1, CountsKept DEF vars
  <2> QED
    BY <2>1, PublishCounts, DeleteCounts, RetryCounts, ClaimCounts, SendCounts, RecordCounts,
       OtherCounts DEF Next
<1> QED
  BY <1>1, <1>2, SafeInvHolds, PTL DEF Spec

(* A delivery is sent at most MaxAttempts times for each time it was opened, *)
(* and once more for each fault, provided that attempts end before their     *)
(* locks are stale.                                                          *)
THEOREM SendsAreBounded ==
  ASSUME Prompt
  PROVE  Spec => []AttemptsBounded
<1>1. ASSUME Typed, CountInv PROVE AttemptsBounded
  <2> SUFFICES ASSUME NEW d \in Deliveries
               PROVE  sends[d] <= MaxAttempts * (1 + retries[d]) + faults
    BY DEF AttemptsBounded
  <2>1. sends[d] <= Budget(d) + MaxAttempts
    <3>1. CASE rows[d].state = "absent"
      BY <1>1, <3>1 DEF CountInv, GoneCounts
    <3>2. CASE rows[d].state # "absent" /\ \A j \in jobs : j.d # d
      BY <1>1, <3>2, CountsTyped DEF CountInv, RowCounts
    <3>3. ASSUME NEW j \in jobs, j.d = d, rows[d].state # "absent"
          PROVE  sends[d] <= Budget(d) + MaxAttempts
      <4>1. rows[d].attempts + 1 <= MaxAttempts
        BY <1>1, <3>3 DEF CountInv, Numbered, Typed, TypeOK, Jobs
      <4>2. sends[d] <= Budget(d) + rows[d].attempts + 1
        BY <1>1, <3>3 DEF CountInv, RowCounts
      <4> QED
        BY <1>1, <4>1, <4>2, CountsTyped
    <3> QED
      BY <3>1, <3>2, <3>3
  <2>2. MaxAttempts * (1 + retries[d]) = MaxAttempts * retries[d] + MaxAttempts
    BY <1>1, BudgetOfRetry, CountsTyped
  <2>3. MaxAttempts * retries[d] \in Nat
    BY <1>1, CountsTyped
  <2> QED
    BY <1>1, <2>1, <2>2, <2>3, CountsTyped DEF Budget
<1> QED
  BY <1>1, CountInvHolds, PTL
=============================================================================
