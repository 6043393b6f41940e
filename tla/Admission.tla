------------------------------ MODULE Admission ------------------------------
(* What one application may disburse (payout/service.go Request, the limits *)
(* of payout/repository.go, api/admin_payouts.go, api/payouts.go).  A       *)
(* request reads the limits, looks for its original, adds up the day and    *)
(* inserts, each a statement of its own; administrators read the limits,    *)
(* merge what they were asked to change and write the whole row.  Amounts   *)
(* are far below 2^63, so that the sums of the code do not wrap.            *)
EXTENDS Naturals, FiniteSetsExt, Sums

CONSTANTS
  Requesters,   \* requests under way at a time
  References,   \* application_payout_id
  Amounts,
  Ceilings,     \* values a limit is given, 0 and too high a maximum included
  NoCeiling,    \* a limit that is NULL
  Keep,         \* a field a body leaves out
  LimitAdmins,  \* changes of the limits under way at a time
  Patches,      \* bodies of PATCH .../payout-limits
  FirstLimits,  \* the limits at first
  MaxWrites     \* bound: changes of the limits

(* The amounts are bounded, a column of a limit is a number or NULL, and a  *)
(* body names some of the columns.                                          *)
ASSUME AdmissionAssumption ==
  /\ Requesters # {} /\ IsFiniteSet(Requesters)
  /\ References # {} /\ IsFiniteSet(References)
  /\ Amounts \subseteq Nat /\ \E most \in Amounts : \A n \in Amounts : n <= most
  /\ Ceilings \subseteq Nat /\ NoCeiling \notin Ceilings
  /\ MaxWrites \in Nat
  /\ Patches # {}
  /\ \A p \in Patches :
       p \in [enabled : BOOLEAN \cup {Keep}, approval : BOOLEAN \cup {Keep},
             max : Ceilings \cup {NoCeiling, Keep}, daily : Ceilings \cup {NoCeiling, Keep}]

VARIABLES
  limits,    \* the payout columns of the applications row
  entered,   \* payouts, by reference
  asking,    \* each request
  changing,  \* each change of the limits
  highest,   \* the highest daily limit there has been
  writes

admissionVars == <<limits, entered, asking, changing, highest, writes>>

Limits == [enabled : BOOLEAN, approval : BOOLEAN,
           max : Ceilings \cup {NoCeiling}, daily : Ceilings \cup {NoCeiling}]

(* A payout: the amount, and its status as far as the day's total goes: an  *)
(* open one is REQUESTED, APPROVED, SUBMITTED or UNRESOLVED, and an ended   *)
(* one REJECTED, FAILED or CANCELED, or older than a day.                   *)
PayoutStates == {"none", "open", "COMPLETED", "ended"}
Entries == [amount : Amounts \cup {0}, state : PayoutStates]
NoEntry == [amount |-> 0, state |-> "none"]

AskStages == {"idle", "original", "daily", "insert"}
Asks == [stage : AskStages, reference : References, amount : Amounts,
         daily : Ceilings \cup {NoCeiling}]
Changes == [stage : {"idle", "write"}, next : Limits, patch : Patches]

AdmissionTypeOK ==
  /\ limits \in Limits
  /\ entered \in [References -> Entries]
  /\ asking \in [Requesters -> Asks]
  /\ changing \in [LimitAdmins -> Changes]
  /\ highest \in Ceilings \cup {NoCeiling}
  /\ writes \in 0..MaxWrites

NoAsk == [stage |-> "idle", reference |-> CHOOSE r \in References : TRUE,
          amount |-> CHOOSE a \in Amounts : TRUE, daily |-> NoCeiling]
NoChange == [stage |-> "idle", next |-> FirstLimits, patch |-> CHOOSE p \in Patches : TRUE]

AdmissionInit ==
  /\ limits = FirstLimits
  /\ entered = [r \in References |-> NoEntry]
  /\ asking = [q \in Requesters |-> NoAsk]
  /\ changing = [a \in LimitAdmins |-> NoChange]
  /\ highest = FirstLimits.daily
  /\ writes = 0

-----------------------------------------------------------------------------
(* Requests *)

Ask(q, stage) == asking' = [asking EXCEPT ![q].stage = stage]
Refuse(q) == asking' = [asking EXCEPT ![q] = NoAsk]

Within(n, most) == most # NoCeiling => n <= most

(* LimitsFor, permission and the ceiling for one payout.                    *)
ReadLimits(q, r, n) ==
  /\ asking[q].stage = "idle"
  /\ limits.enabled
  /\ Within(n, limits.max)
  /\ asking' = [asking EXCEPT ![q] = [stage |-> "original", reference |-> r, amount |-> n,
                                      daily |-> limits.daily]]
  /\ UNCHANGED <<limits, entered, changing, highest, writes>>

(* A payout with that reference is the answer.                              *)
FindOriginal(q) ==
  /\ asking[q].stage = "original"
  /\ IF entered[asking[q].reference] # NoEntry THEN Refuse(q) ELSE Ask(q, "daily")
  /\ UNCHANGED <<limits, entered, changing, highest, writes>>

(* Payouts that were made forgotten. *)
BugCounts == {"open"}
Counts == {"open", "COMPLETED"}

PayoutAmounts == [r \in References |-> entered[r].amount]

SentToday == SumOf(PayoutAmounts, {r \in References : entered[r].state \in Counts})

CheckDaily(q) ==
  /\ asking[q].stage = "daily"
  /\ IF Within(SentToday + asking[q].amount, asking[q].daily)
       THEN Ask(q, "insert") ELSE Refuse(q)
  /\ UNCHANGED <<limits, entered, changing, highest, writes>>

(* The beneficiary may be refused (AddressBook), or the reference be taken  *)
(* by now; otherwise the payout is stored.                                  *)
Enter(q) ==
  LET r == asking[q].reference IN
  /\ asking[q].stage = "insert"
  /\ Refuse(q)
  /\ entered' = IF entered[r] = NoEntry
                  THEN [entered EXCEPT ![r] = [amount |-> asking[q].amount, state |-> "open"]]
                  ELSE entered
  /\ UNCHANGED <<limits, changing, highest, writes>>

(* A statement fails, the beneficiary is refused or the process dies.       *)
GiveUp(q) ==
  /\ asking[q].stage # "idle"
  /\ Refuse(q)
  /\ UNCHANGED <<limits, entered, changing, highest, writes>>

(* What becomes of a payout after it was entered: module Payout.            *)
Proceed(r) ==
  /\ entered[r].state \in {"open", "COMPLETED"}
  /\ \E state \in {"COMPLETED", "ended"} \ {entered[r].state} :
       entered' = [entered EXCEPT ![r].state = state]
  /\ UNCHANGED <<limits, asking, changing, highest, writes>>

-----------------------------------------------------------------------------
(* Changes of the limits *)

(* A body names fields and what they become; Keep where it is left out.   *)
Named(p) == {f \in DOMAIN p : p[f] # Keep}

Merged(l, p) == [f \in DOMAIN l |-> IF f \in Named(p) THEN p[f] ELSE l[f]]

(* validateLimits.                                                          *)
ValidLimits(l) ==
  l.enabled =>
    /\ l.max # NoCeiling => l.max > 0
    /\ l.daily # NoCeiling => l.daily > 0
    /\ l.max # NoCeiling => Within(l.max, l.daily)
    /\ l.approval \/ l.max # NoCeiling \/ l.daily # NoCeiling

(* An application starts with payouts switched off (0002_disbursement.sql). *)
ASSUME FirstLimitsAssumption == FirstLimits \in Limits /\ ValidLimits(FirstLimits)

(* LimitsFor again, the merge and the validation of its result.             *)
ReadCurrent(a, p) ==
  /\ changing[a].stage = "idle" /\ writes < MaxWrites
  /\ ValidLimits(Merged(limits, p))
  /\ changing' = [changing EXCEPT ![a] = [stage |-> "write", next |-> Merged(limits, p), patch |-> p]]
  /\ writes' = writes + 1
  /\ UNCHANGED <<limits, entered, asking, highest>>

Higher(m, n) == IF m = NoCeiling \/ n = NoCeiling THEN NoCeiling ELSE IF m < n THEN n ELSE m

(* An UPDATE of the named columns alone. *)
BugColumnsWritten(a) == Merged(limits, changing[a].patch)

(* SetLimits: all four columns, as they were read and merged.               *)
ColumnsWritten(a) == changing[a].next

SetLimits(a) ==
  /\ changing[a].stage = "write"
  /\ limits' = ColumnsWritten(a)
  /\ highest' = Higher(highest, limits'.daily)
  /\ changing' = [changing EXCEPT ![a] = NoChange]
  /\ UNCHANGED <<entered, asking, writes>>

AdmissionNext ==
  \/ \E q \in Requesters :
       \/ \E r \in References, n \in Amounts : ReadLimits(q, r, n)
       \/ FindOriginal(q) \/ CheckDaily(q) \/ Enter(q) \/ GiveUp(q)
  \/ \E r \in References : Proceed(r)
  \/ \E a \in LimitAdmins :
       \/ \E p \in Patches : ReadCurrent(a, p)
       \/ SetLimits(a)

AdmissionSpec == AdmissionInit /\ [][AdmissionNext]_admissionVars

-----------------------------------------------------------------------------
(* Properties *)

(* The day's total is read before the payout is inserted and nothing is     *)
(* locked in between, so requests that run together go over the daily       *)
(* limit, but never by more than one payout each: what counts today stays   *)
(* within the highest limit there was plus one largest payout for every     *)
(* other request under way, whatever ends, ages or is raised meanwhile      *)
(* (Request, SentToday).                                                    *)
OvershootIsBounded ==
  LET today  == {r \in References : entered[r].state \in {"open", "COMPLETED"}}
      beyond == (Cardinality(Requesters) - 1) * Max(Amounts) IN
  highest # NoCeiling => SumOf(PayoutAmounts, today) <= highest + beyond

(* Two administrators who change the limits together may undo each other's  *)
(* change, but they never leave a combination that validateLimits would     *)
(* have refused: no approval and no ceiling, or a maximum that makes the    *)
(* daily limit pointless.                                                   *)
LimitsAreValid == ValidLimits(limits)
=============================================================================
