----------------------------- MODULE AddressBook -----------------------------
(* The beneficiaries of one application (payout/beneficiary_repository.go,  *)
(* VerifyBeneficiary and resolveBeneficiary in payout/service.go,           *)
(* api/payouts.go): where money may be sent, what the bank said about it,   *)
(* and the payouts that refer to it.  Verifying asks the bank between a     *)
(* read and a write; a payout copies the entry between a read and an        *)
(* insert.                                                                  *)
EXTENDS Naturals

CONSTANTS
  Beneficiaries,   \* ids; an alias is as good as an id
  Numbers,         \* account number and bank of a destination
  FirstNumber,     \* any of them
  Verifiers,       \* verifications under way at a time
  PayoutRequests,  \* payout requests under way at a time
  NoBeneficiary,
  MaxBookEdits     \* bound: entries created, edited and deleted

ASSUME NumbersAssumption ==
  FirstNumber \in Numbers /\ Numbers \cap {"unverified", "no row", "deleted"} = {}
ASSUME NoBeneficiaryAssumption == NoBeneficiary \notin Beneficiaries
ASSUME BookEditsAssumption == MaxBookEdits \in Nat

VARIABLES
  entry,      \* beneficiaries
  verifying,  \* each verification
  resolving,  \* each payout request
  sentTo,     \* payouts: the beneficiary referred to and the number copied
  overtaken,  \* entries edited while a verification of theirs was under way
  bookEdits

bookVars == <<entry, verifying, resolving, sentTo, overtaken, bookEdits>>

(* An entry: its destination, whether it is disabled, and the destination   *)
(* the bank's answer on file is about, if it has one.                       *)
Unverified == "unverified"
EntryRows == [number : Numbers, disabled : BOOLEAN, verified : Numbers \cup {Unverified}]
NoEntryRow == [number |-> FirstNumber, disabled |-> TRUE, verified |-> "no row"]
DeletedRow == [NoEntryRow EXCEPT !.verified = "deleted"]
Listed(b) == entry[b] \notin {NoEntryRow, DeletedRow}

Verifications == [stage : {"idle", "ask", "mark"}, who : Beneficiaries \cup {NoBeneficiary},
                  number : Numbers]
NoVerification == [stage |-> "idle", who |-> NoBeneficiary, number |-> FirstNumber]
Resolutions == [who : Beneficiaries \cup {NoBeneficiary}, number : Numbers]
NoResolution == [who |-> NoBeneficiary, number |-> FirstNumber]

BookTypeOK ==
  /\ entry \in [Beneficiaries -> EntryRows \cup {NoEntryRow, DeletedRow}]
  /\ verifying \in [Verifiers -> Verifications]
  /\ resolving \in [PayoutRequests -> Resolutions]
  /\ sentTo \subseteq Resolutions
  /\ overtaken \subseteq Beneficiaries
  /\ bookEdits \in 0..MaxBookEdits

BookInit ==
  /\ entry = [b \in Beneficiaries |-> NoEntryRow]
  /\ verifying = [v \in Verifiers |-> NoVerification]
  /\ resolving = [q \in PayoutRequests |-> NoResolution]
  /\ sentTo = {}
  /\ overtaken = {}
  /\ bookEdits = 0

BookEdit == bookEdits < MaxBookEdits /\ bookEdits' = bookEdits + 1

-----------------------------------------------------------------------------
(* The entries *)

CreateBeneficiary(b, n) ==
  /\ BookEdit
  /\ entry[b] = NoEntryRow
  /\ entry' = [entry EXCEPT ![b] = [number |-> n, disabled |-> FALSE, verified |-> Unverified]]
  /\ UNCHANGED <<verifying, resolving, sentTo, overtaken>>

(* A new number with the old answer of the bank. *)
BugEdited(row, n) == [row EXCEPT !.number = n]

(* An account or a bank in the body, changed or not, drops what the bank    *)
(* said.                                                                    *)
Edited(row, n) == [row EXCEPT !.number = n, !.verified = Unverified]

UpdateBeneficiary(b, n) ==
  /\ BookEdit
  /\ Listed(b)
  /\ entry' = [entry EXCEPT ![b] = Edited(@, n)]
  /\ overtaken' = IF \E v \in Verifiers : verifying[v].who = b
                    THEN overtaken \cup {b} ELSE overtaken
  /\ UNCHANGED <<verifying, resolving, sentTo>>

SetDisabled(b, disabled) ==
  /\ BookEdit
  /\ Listed(b) /\ entry[b].disabled # disabled
  /\ entry' = [entry EXCEPT ![b].disabled = disabled]
  /\ UNCHANGED <<verifying, resolving, sentTo, overtaken>>

(* DELETE, under the foreign key payouts.beneficiary_id ... ON DELETE SET   *)
(* NULL: the payouts lose the reference.                                    *)
DeleteBeneficiary(b) ==
  /\ BookEdit
  /\ Listed(b)
  /\ entry' = [entry EXCEPT ![b] = DeletedRow]
  /\ sentTo' = {IF p.who = b THEN [p EXCEPT !.who = NoBeneficiary] ELSE p : p \in sentTo}
  /\ UNCHANGED <<verifying, resolving, overtaken>>

-----------------------------------------------------------------------------
(* VerifyBeneficiary *)

(* GetBeneficiary; an entry verified again starts afresh.                   *)
BeginVerify(v, b) ==
  /\ verifying[v].stage = "idle"
  /\ Listed(b)
  /\ verifying' = [verifying EXCEPT ![v] = [stage |-> "ask", who |-> b, number |-> entry[b].number]]
  /\ UNCHANGED <<entry, resolving, sentTo, overtaken, bookEdits>>

(* ValidateAccount: the bank names the owner of that number, or refuses.    *)
ValidateAccount(v) ==
  /\ verifying[v].stage = "ask"
  /\ \E refused \in BOOLEAN :
       verifying' = [verifying EXCEPT ![v] = IF refused THEN NoVerification
                                                        ELSE [@ EXCEPT !.stage = "mark"]]
  /\ UNCHANGED <<entry, resolving, sentTo, overtaken, bookEdits>>

(* MarkBeneficiaryVerified, by id.                                          *)
MarkVerified(v) ==
  LET b == verifying[v].who IN
  /\ verifying[v].stage = "mark"
  /\ entry' = IF Listed(b) THEN [entry EXCEPT ![b].verified = verifying[v].number] ELSE entry
  /\ verifying' = [verifying EXCEPT ![v] = NoVerification]
  /\ UNCHANGED <<resolving, sentTo, overtaken, bookEdits>>

-----------------------------------------------------------------------------
(* A payout's destination *)

(* resolveBeneficiary: a disabled entry is refused.                         *)
Resolve(q, b) ==
  /\ resolving[q] = NoResolution
  /\ Listed(b) /\ ~entry[b].disabled
  /\ resolving' = [resolving EXCEPT ![q] = [who |-> b, number |-> entry[b].number]]
  /\ UNCHANGED <<entry, verifying, sentTo, overtaken, bookEdits>>

(* The payout is stored with the copy, if the entry is still there.         *)
StorePayout(q) ==
  /\ resolving[q] # NoResolution
  /\ sentTo' = IF Listed(resolving[q].who) THEN sentTo \cup {resolving[q]} ELSE sentTo
  /\ resolving' = [resolving EXCEPT ![q] = NoResolution]
  /\ UNCHANGED <<entry, verifying, overtaken, bookEdits>>

BookNext ==
  \/ \E b \in Beneficiaries :
       \/ \E n \in Numbers : CreateBeneficiary(b, n) \/ UpdateBeneficiary(b, n)
       \/ \E disabled \in BOOLEAN : SetDisabled(b, disabled)
       \/ DeleteBeneficiary(b)
       \/ \E v \in Verifiers : BeginVerify(v, b)
       \/ \E q \in PayoutRequests : Resolve(q, b)
  \/ \E v \in Verifiers : ValidateAccount(v) \/ MarkVerified(v)
  \/ \E q \in PayoutRequests : StorePayout(q)

BookSpec == BookInit /\ [][BookNext]_bookVars

-----------------------------------------------------------------------------
(* Properties *)

(* What the bank said about an entry is about the number the entry has now, *)
(* whoever edits it (UpdateBeneficiary: "the confirmation was about the old *)
(* number and says nothing about the new one").                             *)
VerifiedIsAboutThisNumber ==
  \A b \in Beneficiaries : Listed(b) /\ entry[b].verified # Unverified
    => entry[b].verified = entry[b].number

(* The same, except for an entry that was edited while a verification of it *)
(* was under way: that is the only way to a stale answer.                   *)
OnlyARaceMisleads ==
  \A b \in Beneficiaries \ overtaken : Listed(b) /\ entry[b].verified # Unverified
    => entry[b].verified = entry[b].number

(* A destination that a payout was entered for stays on record              *)
(* (DeleteBeneficiary: "It fails while payouts still reference it, by       *)
(* design: the row is part of the record of where money went, and the       *)
(* foreign key says so").                                                   *)
PaidDestinationsStay ==
  [][\A b \in Beneficiaries : (\E p \in sentTo : p.who = b) => entry'[b] # DeletedRow]_bookVars
=============================================================================
