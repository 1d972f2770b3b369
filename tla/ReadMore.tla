------------------------------ MODULE ReadMore ------------------------------
(***************************************************************************)
(* A list of log rows in the web console that grows by a "more" button:    *)
(* views/common/pagination.js together with originalLogList.js (kind       *)
(* "log"; applicationLogList.js, fileMetaList.js and the lists of the      *)
(* traffic tabs page in the same way) and auditLogList.js (kind "audit").  *)
(* The list counts what it has ASKED for, not what it got: a window of     *)
(* row numbers moves on with every press, answers come whenever they come, *)
(* and the server pages by OFFSET and LIMIT over a table that grows.       *)
(*                                                                         *)
(* The rows of a search are known by their numbers, from the last one of   *)
(* the server's order, 1, up.  An audit row that is written becomes the    *)
(* first; an original log is written when its session ends (TMEND) and     *)
(* ordered by when it started (TMSTART), so it lands anywhere and moves    *)
(* the numbers of those before it.  The two queries of an answer, for the  *)
(* rows and for the total, are one step.                                   *)
(***************************************************************************)
EXTENDS Integers, FiniteSets, SequencesExt

CONSTANTS
  Kinds,        \* the lists of a run: "log", "audit"
  MaxSearches,  \* how many searches are made
  MaxRows,      \* how many rows a search may find
  MaxPending,   \* how many requests are under way at once
  FirstSize,    \* pagination.js: rowSize, 30
  ChangeValue,  \* pagination.js: changeValue, 10
  MaxRowSize,   \* pagination.js: maxRowSize, 500
  ModelLimit,   \* auditLogList.js: modelLimit, 2000
  FaultSets     \* what may go wrong, run by run: sets of Troubles

(***************************************************************************)
(* "rush": a search while requests are under way.  "double": "more" is     *)
(* pressed twice in a row (the audit list leaves the button in place).     *)
(* "fail": a request for a page fails.  "grow": rows are written while the *)
(* list is read.  "export": "more" or a search while all rows are          *)
(* exported.  "exportFails": the export of all rows fails.  "edge": audit  *)
(* rows of the very seconds the period starts or ends at, of which the     *)
(* query for the rows takes the last (AuditLogStatusMapper.xml 49-50) and  *)
(* the one for the total the first (73-74).                                *)
(***************************************************************************)
Troubles == {"rush", "double", "fail", "grow", "export", "exportFails", "edge"}

ASSUME KindsAssumption == Kinds \subseteq {"log", "audit"}
ASSUME NumbersAssumption ==
  /\ {MaxSearches, MaxRows, MaxPending} \subseteq Nat
  /\ {FirstSize, ChangeValue, MaxRowSize, ModelLimit} \subseteq Nat \ {0}
  /\ FirstSize <= MaxRowSize
ASSUME TroublesAssumption == FaultSets \subseteq SUBSET Troubles

VARIABLES
  kind, faults,   \* the list and the troubles of this run: rigid
  search,         \* the search shown, 0 before the first
  counts,         \* the rows the server has for each search made
  told,           \* what it counts them to be: selectAuditLogListTotalCount
  late,           \* the rows written since their search was made (history)
  startRowSize, endRowSize, rowSize,  \* pagination.js
  totalRowSize,   \* pagination.js; Unknown is its null
  button,         \* is "more" shown by the pagination?
  layout,         \* is #pageLayout, which holds it, shown by the list?
  download,       \* is isDownload of the search's model 'Y'?
  exporting,      \* is an export of all rows under way?
  whole,          \* was a page ever asked for with isDownload 'Y'? (history)
  pending,        \* the requests under way
  rows            \* the rows in the table of the page

Unknown == -1

count == IF search = 0 THEN 0 ELSE counts[search]
totalCount == IF search = 0 THEN 0 ELSE told[search]

server   == <<kind, faults, search, counts, told, late>>
paging   == <<startRowSize, endRowSize, totalRowSize>>
export   == <<download, exporting>>
listVars == <<server, rowSize, paging, button, layout, export, whole, pending, rows>>

Quiet == search > 0 /\ pending = {}

----------------------------------------------------------------------------
ListInit ==
  /\ kind \in Kinds /\ faults \in FaultSets
  /\ search = 0 /\ counts = <<>> /\ told = <<>> /\ late = {}
  /\ startRowSize = 0 /\ endRowSize = 0 /\ rowSize = FirstSize
  /\ totalRowSize = Unknown
  /\ button = TRUE /\ layout = TRUE /\ download = FALSE /\ exporting = FALSE
  /\ whole = FALSE /\ pending = {} /\ rows = <<>>

(* min(a, b) *)
Least(a, b) == IF a < b THEN a ELSE b

(***************************************************************************)
(* readMorePagination, from the window [end, total]: the next window; with *)
(* no total the first one, with a total of 0 the same one again.           *)
(***************************************************************************)
NextWindowEarly(end, total, size) ==  \* (mutant: starts one row early)
  IF total = Unknown THEN [start |-> 0, end |-> size]
  ELSE IF total = 0 THEN [start |-> startRowSize, end |-> end]
  ELSE [start |-> IF end > 1 THEN end - 1 ELSE 0, end |-> Least(end + size, total)]
NextWindowNext(end, total, size) ==  \* (mutant: starts one row late)
  IF total = Unknown THEN [start |-> 0, end |-> size]
  ELSE IF total = 0 THEN [start |-> startRowSize, end |-> end]
  ELSE [start |-> Least(end + 1, total), end |-> Least(end + size, total)]
NextWindow(end, total, size) ==
  IF total = Unknown THEN [start |-> 0, end |-> size]
  ELSE IF total = 0 THEN [start |-> startRowSize, end |-> end]
  ELSE [start |-> end, end |-> Least(end + size, total)]

(* It shows the button and hides it again when the window meets the total. *)
ButtonAfterAsking(end, total, size) ==
  ~ (total \notin {Unknown, 0} /\ end + size >= total)

(***************************************************************************)
(* getListData: the request takes the window, the search and its           *)
(* isDownload along; the rows replace the old ones when the window is the  *)
(* first, in the audit list also when it passes the limit.                 *)
(***************************************************************************)
RequestAppends(s, w, size) ==  \* (mutant: the first page is appended, too)
  [id |-> CHOOSE i \in 1 .. MaxPending : \A q \in pending : q.id # i, search |-> s,
   start |-> w.start, size |-> size, all |-> download, reset |-> FALSE]
Request(s, w, size) ==
  [id |-> CHOOSE i \in 1 .. MaxPending : \A q \in pending : q.id # i, search |-> s,
   start |-> w.start, size |-> size, all |-> download,
   reset |-> w.start = 0 \/ (kind = "audit" /\ w.end > ModelLimit)]

(* setMaxListPageValue, after the request's parameters were copied. *)
StartAfterLimit(w) ==
  IF kind = "audit" /\ w.start # 0 /\ ModelLimit < w.end
  THEN w.end - ModelLimit ELSE w.start

GetListData(s, end, total, size) ==
  LET w == NextWindow(end, total, size)
  IN /\ pending' = pending \cup {Request(s, w, size)}
     /\ startRowSize' = StartAfterLimit(w) /\ endRowSize' = w.end
     /\ totalRowSize' = total
     /\ button' = ButtonAfterAsking(end, total, size)
     /\ layout' = (kind = "audit")
     /\ whole' = (whole \/ download)

(* What the query for the total makes of n rows. *)
Totals(n) == IF kind = "audit" /\ "edge" \in faults THEN 0 .. MaxRows ELSE {n}

(* A search: retrieve, with setInitialization. *)
Retrieve ==
  /\ search < MaxSearches /\ Cardinality(pending) < MaxPending
  /\ pending # {} => "rush" \in faults
  /\ exporting => "export" \in faults
  /\ search' = search + 1
  /\ \E n \in 0 .. MaxRows : /\ counts' = Append(counts, n)
                             /\ \E t \in Totals(n) : told' = Append(told, t)
  /\ rowSize' = FirstSize
  /\ GetListData(search + 1, 0, Unknown, FirstSize)
  /\ UNCHANGED <<kind, faults, late, export, rows>>

(* A press of "more", where it can be seen. *)
More ==
  /\ search > 0 /\ button /\ layout
  /\ pending # {} => "double" \in faults
  /\ exporting => "export" \in faults
  /\ Cardinality(pending) < MaxPending
  /\ totalRowSize \notin {0, Unknown} => rowSize # 0
  /\ GetListData(search, endRowSize, totalRowSize, rowSize)
  /\ UNCHANGED <<server, rowSize, export, rows>>

(* With 0 rows a page and a total known it only tells the user to give a   *)
(* number, but has shown the button by then, which it does when it is.     *)

(* The buttons beside it, and a number that is typed, 0 when it is none. *)
RowSizePlusBtn ==
  /\ search > 0 /\ button /\ layout
  /\ rowSize' = Least(rowSize + ChangeValue, MaxRowSize)
  /\ UNCHANGED <<server, paging, button, layout, export, whole, pending, rows>>

RowSizeMinusBtn ==
  /\ search > 0 /\ button /\ layout
  /\ rowSize' = IF rowSize <= ChangeValue THEN 0 ELSE rowSize - ChangeValue
  /\ UNCHANGED <<server, paging, button, layout, export, whole, pending, rows>>

ChangeListRowSize ==
  /\ search > 0 /\ button /\ layout
  /\ \E size \in 0 .. MaxRowSize : rowSize' = size
  /\ UNCHANGED <<server, paging, button, layout, export, whole, pending, rows>>

(***************************************************************************)
(* The server: ORDER BY time DESC, and LIMIT size OFFSET start unless all  *)
(* is asked for (OriginalLogMapper.xml 147-150).                           *)
(***************************************************************************)
Found(q) ==
  LET n     == counts[q.search]
      first == IF q.all THEN 0 ELSE q.start
      last  == IF q.all THEN n ELSE Least(q.start + q.size, n)
  IN [i \in 1 .. IF last > first THEN last - first ELSE 0 |->
        [search |-> q.search, row |-> n - first - i + 1]]

(***************************************************************************)
(* fetch, success: the collection is reset and the table emptied, or new   *)
(* rows are appended; then setTotalRowSize with what the second query      *)
(* says, which an answer without rows has none of: the total is 0.         *)
(***************************************************************************)
AnswerUncounted(q) ==  \* (mutant: setTotalRowSize hides the button for good)
  LET found == Found(q)
      total == IF found = <<>> THEN 0 ELSE told[q.search]
  IN /\ q \in pending /\ pending' = pending \ {q}
     /\ rows' = IF q.reset THEN found ELSE rows \o found
     /\ totalRowSize' = total /\ button' = FALSE /\ layout' = TRUE
     /\ IF total = 0 THEN startRowSize' = 0 /\ endRowSize' = 0
        ELSE UNCHANGED <<startRowSize, endRowSize>>
     /\ UNCHANGED <<server, rowSize, export, whole>>
Answer(q) ==
  LET found == Found(q)
      total == IF found = <<>> THEN 0 ELSE told[q.search]
  IN /\ q \in pending /\ pending' = pending \ {q}
     /\ rows' = IF q.reset THEN found ELSE rows \o found
     /\ totalRowSize' = total
     /\ button' = (total # 0 /\ endRowSize < total)
     /\ IF total = 0 THEN startRowSize' = 0 /\ endRowSize' = 0
        ELSE UNCHANGED <<startRowSize, endRowSize>>
     /\ layout' = TRUE
     /\ UNCHANGED <<server, rowSize, export, whole>>

(* fetch, error: only complete is run. *)
Failed(q) ==
  /\ "fail" \in faults
  /\ q \in pending /\ pending' = pending \ {q}
  /\ layout' = TRUE
  /\ UNCHANGED <<server, rowSize, paging, button, export, whole, rows>>

(* callMakeExport: for all rows it marks the model, for those shown it     *)
(* unmarks it.  One export at a time.                                      *)
ExportAll ==
  /\ Quiet /\ rows # <<>> /\ ~ exporting
  /\ download' = TRUE /\ exporting' = TRUE
  /\ UNCHANGED <<server, rowSize, paging, button, layout, whole, pending, rows>>

ExportShown ==
  /\ Quiet /\ rows # <<>> /\ ~ exporting
  /\ download' = FALSE
  /\ UNCHANGED <<server, rowSize, paging, button, layout, exporting, whole, pending, rows>>

(* getExportList, success. *)
ExportEnds ==
  /\ exporting /\ exporting' = FALSE /\ download' = FALSE
  /\ UNCHANGED <<server, rowSize, paging, button, layout, whole, pending, rows>>

(* Its error handler would unmark the model, but app.js 86-99 puts one of  *)
(* its own in its place, which does not: the mark stays, for the searches  *)
(* to come as well, as the model is that of the search form.               *)
ExportFails ==
  /\ "exportFails" \in faults /\ exporting /\ exporting' = FALSE
  /\ UNCHANGED <<server, rowSize, paging, button, layout, download, whole, pending, rows>>

(* One more row is written and gets the number k; those from there on move. *)
Moved(r, k) ==
  IF r.search = search /\ r.row >= k THEN [r EXCEPT !.row = @ + 1] ELSE r

Grow ==
  /\ "grow" \in faults /\ search > 0 /\ count < MaxRows
  /\ counts' = [counts EXCEPT ![search] = @ + 1]
  /\ told' = [told EXCEPT ![search] = @ + 1]
  /\ \E k \in (IF kind = "audit" THEN {count + 1} ELSE 1 .. count + 1) :
       /\ rows' = [i \in DOMAIN rows |-> Moved(rows[i], k)]
       /\ late' = {Moved(r, k) : r \in late} \cup {[search |-> search, row |-> k]}
  /\ UNCHANGED <<kind, faults, search, rowSize, paging, button, layout, export, whole,
                 pending>>

ListNext ==
  \/ Retrieve \/ More \/ RowSizePlusBtn \/ RowSizeMinusBtn \/ ChangeListRowSize
  \/ \E q \in pending : Answer(q) \/ Failed(q)
  \/ ExportAll \/ ExportShown \/ ExportEnds \/ ExportFails \/ Grow

(* The user reads on while there is a button; requests are answered. *)
ListFairness ==
  /\ SF_listVars(More)
  /\ WF_listVars(\E q \in pending : Answer(q)) /\ WF_listVars(ExportEnds)
ListSpec == ListInit /\ [][ListNext]_listVars /\ ListFairness

----------------------------------------------------------------------------
(* Type invariant. *)
ListTypeOK ==
  /\ kind \in {"log", "audit"} /\ faults \subseteq Troubles
  /\ search \in 0 .. MaxSearches /\ counts \in Seq(0 .. MaxRows) /\ Len(counts) = search
  /\ told \in Seq(Nat) /\ Len(told) = search
  /\ startRowSize \in Nat /\ endRowSize \in Nat
  /\ rowSize \in 0 .. MaxRowSize /\ totalRowSize \in Nat \cup {Unknown}
  /\ {button, layout, download, exporting, whole} \subseteq BOOLEAN
  /\ pending \subseteq [id : 1 .. MaxPending, search : 1 .. search, start : Nat,
                        size : Nat, all : BOOLEAN, reset : BOOLEAN]
  /\ rows \in Seq([search : 1 .. MaxSearches, row : 1 .. MaxRows])
  /\ late \subseteq [search : 1 .. MaxSearches, row : 1 .. MaxRows]

Unless(troubles) == faults \cap troubles = {}

(***************************************************************************)
(* No row of the log is shown twice, however pages and page sizes follow   *)
(* each other, also when pages or exports fail and when the total is not   *)
(* that of the rows, until a page is asked for while isDownload is 'Y',    *)
(* which brings all rows once more.  Rows written meanwhile shift the      *)
(* pages, and then one is shown again; two first pages of different sizes  *)
(* under way at once leave a window that does not fit the rows.            *)
(***************************************************************************)
NoRowTwice == (Unless({"rush", "double", "grow"}) /\ ~ whole) => IsInjective(rows)

(***************************************************************************)
(* Reading down the table, no row is skipped that was there when the       *)
(* search was made, also while rows are written, while exports are on or   *)
(* after one has failed, and with any total.  In the audit list nothing is *)
(* skipped at all; in the original log a row may land among those that     *)
(* were read and is not shown.  A page that fails is never asked for       *)
(* again: the window has moved on (pagination.js 205-210).                 *)
(***************************************************************************)
NothingSkipped ==
  Unless({"rush", "double", "fail"}) =>
    \A i \in 1 .. Len(rows) - 1 : \A n \in rows[i + 1].row + 1 .. rows[i].row - 1 :
      kind = "log" /\ [search |-> rows[i].search, row |-> n] \in late

(***************************************************************************)
(* When all answers are in, the table shows the newest rows of the last    *)
(* search up to the end of the window, one after the other, and "more" is  *)
(* there as long as the window has not met the total; past its limit the   *)
(* audit list shows the last page only.  The total is the number of rows,  *)
(* but for audit rows at the edges of the period: then "more" may go with  *)
(* rows left, or stay with none left, but not before as many rows are      *)
(* shown as the total says.  The last page hides "more" before its answer  *)
(* is there, so when it fails there is no way to the rest but another      *)
(* search.                                                                 *)
(***************************************************************************)
ShowsWindow ==
  (Quiet /\ Unless({"rush", "double", "fail", "grow"}) /\ ~ whole) =>
    /\ button <=> endRowSize < totalRowSize
    /\ \A i \in 1 .. Len(rows) - 1 : rows[i + 1].row = rows[i].row - 1
    /\ \A i \in DOMAIN rows : rows[i].search = search
    /\ (~ button /\ rows # <<>>) => Last(rows).row <= count - Least(totalCount, count) + 1
    /\ "edge" \notin faults => totalRowSize = count
    /\ (button \/ "edge" \notin faults) =>
         /\ rows # <<>> => Last(rows).row = count - Least(endRowSize, count) + 1
         /\ (endRowSize <= ModelLimit \/ kind = "log") => Len(rows) = Least(endRowSize, count)

(***************************************************************************)
(* Whoever reads on comes to the end, and then has seen every row if the   *)
(* total is that of the rows, or makes another search, or asks for pages   *)
(* of no rows.                                                             *)
(***************************************************************************)
ReadingOnEnds ==
  (search > 0 /\ faults \subseteq {"edge"})
    ~> (Quiet /\ (rowSize = 0 \/ (~ button /\ (faults = {} => endRowSize >= count))))
=============================================================================
