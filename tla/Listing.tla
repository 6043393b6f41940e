------------------------------- MODULE Listing -------------------------------
(* Keyset pages (storage/page.go) over a table that changes while a client  *)
(* walks it: List in the payment, notification, event, subscription and     *)
(* application repositories, and ListAll of refunds.  Ids are numbers in    *)
(* their order as text; a row's class says whether the filter matches it.   *)
(* A page is the set of its rows: within one, ORDER BY gives the order.     *)
EXTENDS Naturals, Sequences, FiniteSetsExt

CONSTANTS
  LastId,            \* ids are 1..LastId
  DefaultPageLimit,
  MaxPageLimit,
  MaxTableEdits      \* bound: rows inserted, changed and deleted

ASSUME PagesAssumption ==
  /\ LastId \in Nat /\ MaxTableEdits \in Nat
  /\ DefaultPageLimit \in Nat \ {0} /\ MaxPageLimit \in Nat
  /\ DefaultPageLimit <= MaxPageLimit

VARIABLES
  table,       \* class of each row
  cursor,      \* starting_after; 0 for none
  shown,       \* the pages the client saw, in order
  throughout,  \* rows that matched from the first page on
  walk,        \* "ready", "walking" or "done"
  tableEdits

listingVars == <<table, cursor, shown, throughout, walk, tableEdits>>

RowIds == 1..LastId
Classes == {"absent", "match", "other", "deleted"}

ListingTypeOK ==
  /\ table \in [RowIds -> Classes]
  /\ cursor \in 0..LastId
  /\ shown \in Seq(SUBSET RowIds)
  /\ throughout \subseteq RowIds
  /\ walk \in {"ready", "walking", "done"}
  /\ tableEdits \in 0..MaxTableEdits

ListingInit ==
  /\ table = [i \in RowIds |-> "absent"]
  /\ cursor = 0
  /\ shown = <<>>
  /\ throughout = {}
  /\ walk = "ready"
  /\ tableEdits = 0

-----------------------------------------------------------------------------
(* The table.  An id is drawn before its row is committed, so a new row may *)
(* have any id; an update may take a row into the filter or out of it.      *)

(* Rows that are there before the first page. *)
Fill(i) ==
  /\ walk = "ready"
  /\ table[i] = "absent"
  /\ table' = [table EXCEPT ![i] = "match"]
  /\ UNCHANGED <<cursor, shown, throughout, walk, tableEdits>>

Reclass(i, from, to) ==
  /\ walk = "walking" /\ tableEdits < MaxTableEdits
  /\ table[i] \in from
  /\ table' = [table EXCEPT ![i] = to]
  /\ throughout' = IF to = "match" THEN throughout ELSE throughout \ {i}
  /\ tableEdits' = tableEdits + 1
  /\ UNCHANGED <<cursor, shown, walk>>

InsertMatch(i) == Reclass(i, {"absent"}, "match")
ChangeRow(i) == Reclass(i, {"match"}, "other") \/ Reclass(i, {"other"}, "match")
DeleteRow(i) == Reclass(i, {"match", "other"}, "deleted")

-----------------------------------------------------------------------------
(* The pages *)

(* Page.Normalize.                                                          *)
Normalize(limit) ==
  IF limit = 0 THEN DefaultPageLimit ELSE IF limit > MaxPageLimit THEN MaxPageLimit ELSE limit

BugFetchLimit(limit) == Normalize(limit)

(* One row more than the page, to see whether there is another page.        *)
FetchLimit(limit) == Normalize(limit) + 1

BugAfterCursor(i) == cursor = 0 \/ i <= cursor

(* id < $cursor.                                                            *)
AfterCursor(i) == cursor = 0 \/ i < cursor

(* ORDER BY id DESC LIMIT n.                                                *)
Newest(rows, n) == {i \in rows : Cardinality({j \in rows : j > i}) < n}

Fetched(limit) == Newest({i \in RowIds : table[i] = "match" /\ AfterCursor(i)}, FetchLimit(limit))

(* NewList: the extra row is cut off.                                       *)
HasMore(items, limit) == Cardinality(items) > Normalize(limit)
Items(items, limit) == Newest(items, Normalize(limit))

(* The client asks for the page after the last row it saw, with any         *)
(* limit, until it is told that there is no more.                           *)
NextPage(limit) ==
  LET fetched == Fetched(limit)
      page    == Items(fetched, limit) IN
  /\ walk # "done"
  /\ shown' = Append(shown, page)
  /\ cursor' = IF page = {} THEN cursor ELSE Min(page)
  /\ walk' = IF HasMore(fetched, limit) THEN "walking" ELSE "done"
  /\ throughout' = IF walk = "ready" THEN {i \in RowIds : table[i] = "match"} ELSE throughout
  /\ UNCHANGED <<table, tableEdits>>

ListingNext ==
  \/ \E i \in RowIds : Fill(i) \/ InsertMatch(i) \/ ChangeRow(i) \/ DeleteRow(i)
  \/ \E limit \in 0..(MaxPageLimit + 1) : NextPage(limit)

ListingSpec == ListingInit /\ [][ListingNext]_listingVars

-----------------------------------------------------------------------------
(* A client that follows the pages to the end has seen every row that was   *)
(* there and matched all the time, and none twice, newest first, whatever   *)
(* was inserted, changed or deleted between two pages, and whatever limits  *)
(* it asked for (Page: "a page stays stable even as new rows arrive").      *)
WalkIsComplete ==
  /\ \A m, n \in DOMAIN shown : m < n => \A i \in shown[m], j \in shown[n] : i > j
  /\ walk = "done" => \A i \in throughout : \E n \in DOMAIN shown : i \in shown[n]
=============================================================================
