--------------------------- MODULE ReadMoreProofs ---------------------------
(***************************************************************************)
(* The lists that are read on, for any number of searches and rows, any    *)
(* page sizes and any limit: no row is shown twice, none is skipped, and   *)
(* when all is quiet the table shows the window.  Each result has its own  *)
(* troubles, those its property excepts; all three rest on `Window`, what  *)
(* the page knows while it asks for one page at a time.                    *)
(***************************************************************************)
EXTENDS ReadMore, SequenceTheorems, FiniteSetTheorems, TLAPS

Row == [search : 1 .. MaxSearches, row : 1 .. MaxRows]
Asked == [id : 1 .. MaxPending, search : 1 .. search, start : Nat,
          size : Nat, all : BOOLEAN, reset : BOOLEAN]

\* The steps that change the size of the next page and nothing else.
Sizes == RowSizePlusBtn \/ RowSizeMinusBtn \/ ChangeListRowSize

\* The exports, which change only their two marks.
Exports == ExportAll \/ ExportShown \/ ExportEnds \/ ExportFails

LEMMA NumbersAreNat ==
  /\ MaxSearches \in Nat /\ MaxRows \in Nat /\ MaxPending \in Nat
  /\ FirstSize \in Nat /\ FirstSize > 0 /\ FirstSize <= MaxRowSize
  /\ ChangeValue \in Nat /\ ChangeValue > 0
  /\ MaxRowSize \in Nat /\ ModelLimit \in Nat
BY NumbersAssumption

LEMMA FaultsStay == ASSUME [ListNext]_listVars PROVE faults' = faults /\ kind' = kind
BY DEF ListNext, listVars, server, Retrieve, More, RowSizePlusBtn, RowSizeMinusBtn,
       ChangeListRowSize, Answer, Failed, ExportAll, ExportShown, ExportEnds, ExportFails, Grow

LEMMA SizesLeave ==
  ASSUME Sizes
  PROVE  UNCHANGED <<server, paging, button, layout, export, whole, pending, rows>>
BY DEF Sizes, RowSizePlusBtn, RowSizeMinusBtn, ChangeListRowSize

LEMMA ExportsLeave ==
  ASSUME Exports
  PROVE  UNCHANGED <<server, rowSize, paging, button, layout, whole, pending, rows>>
BY DEF Exports, ExportAll, ExportShown, ExportEnds, ExportFails

-----------------------------------------------------------------------------
(* What the operators return. *)

LEMMA LeastType ==
  ASSUME NEW a \in Int, NEW b \in Int
  PROVE  /\ Least(a, b) \in {a, b} /\ Least(a, b) <= a /\ Least(a, b) <= b
         /\ Least(a, b) \in Int
BY DEF Least

\* The rows of an answer: from the first one it skips to the last it reaches.
From(q) == IF q.all THEN 0 ELSE q.start
Until(q) == IF q.all THEN counts[q.search] ELSE Least(q.start + q.size, counts[q.search])

LEMMA FoundRows ==
  ASSUME ListTypeOK, NEW q \in pending
  PROVE  /\ Found(q) \in Seq(Row)
         /\ counts[q.search] \in Nat /\ From(q) \in Nat /\ Until(q) \in Nat
         /\ Until(q) <= counts[q.search]
         /\ Len(Found(q)) = IF Until(q) > From(q) THEN Until(q) - From(q) ELSE 0
         /\ \A i \in 1 .. Len(Found(q)) :
              /\ Found(q)[i].search = q.search
              /\ Found(q)[i].row = counts[q.search] - From(q) - i + 1
<1> DEFINE n == counts[q.search]
           m == IF Until(q) > From(q) THEN Until(q) - From(q) ELSE 0
           row(i) == [search |-> q.search, row |-> n - From(q) - i + 1]
<1>1. /\ q.search \in 1 .. MaxSearches /\ q.start \in Nat /\ q.size \in Nat /\ q.all \in BOOLEAN
      /\ n \in 0 .. MaxRows
  <2>1. q \in Asked /\ search \in 0 .. MaxSearches
    BY DEF ListTypeOK, Asked
  <2>2. q.search \in 1 .. Len(counts) /\ counts \in Seq(0 .. MaxRows)
    BY <2>1 DEF ListTypeOK, Asked
  <2>3. n \in 0 .. MaxRows
    BY <2>2, ElementOfSeq
  <2>4. q.start \in Nat /\ q.size \in Nat /\ q.all \in BOOLEAN
    BY <2>1 DEF Asked
  <2> QED
    BY <2>1, <2>2, <2>3, <2>4, NumbersAreNat DEF ListTypeOK
<1>2. /\ From(q) \in Nat /\ Until(q) \in Nat /\ Until(q) <= n /\ m \in Nat
      /\ n \in Nat /\ n <= MaxRows
  <2> HIDE DEF n
  <2>1. n \in Nat /\ n <= MaxRows /\ From(q) \in Nat
    BY <1>1, NumbersAreNat DEF From
  <2>2. Until(q) \in Nat /\ Until(q) <= n
    BY <1>1, <2>1 DEF Until, Least, n
  <2> QED
    BY <2>1, <2>2
<1>3. Found(q) = [i \in 1 .. m |-> row(i)]
  BY DEF Found, From, Until
<1>4. \A i \in 1 .. m : n - From(q) - i + 1 \in 1 .. MaxRows
  BY <1>2, NumbersAreNat
<1>5. \A i \in 1 .. m : row(i) \in Row
  BY <1>1, <1>4 DEF Row
<1> HIDE DEF row, m, n
<1>6. Found(q) \in [1 .. m -> Row]
  BY <1>3, <1>5
<1>7. Found(q) \in Seq(Row) /\ Len(Found(q)) = m
  BY <1>2, <1>6
<1>8. ASSUME NEW i \in 1 .. m
      PROVE  Found(q)[i].search = q.search /\ Found(q)[i].row = n - From(q) - i + 1
  BY <1>3 DEF row
<1> QED
  BY <1>2, <1>7, <1>8 DEF m, n

\* While fewer requests are under way than there may be, one more has a number.
LEMMA FreeNumber ==
  ASSUME ListTypeOK, IsFiniteSet(pending), Cardinality(pending) < MaxPending
  PROVE  \E i \in 1 .. MaxPending : \A q \in pending : q.id # i
<1> SUFFICES ASSUME \A i \in 1 .. MaxPending : \E q \in pending : q.id = i
             PROVE  FALSE
  OBVIOUS
<1> DEFINE f == [i \in 1 .. MaxPending |-> CHOOSE q \in pending : q.id = i]
<1>1. \A i \in 1 .. MaxPending : f[i] \in pending /\ f[i].id = i
  OBVIOUS
<1>2. f \in [1 .. MaxPending -> pending]
  BY <1>1
<1> HIDE DEF f
<1>3. \A i, j \in 1 .. MaxPending : f[i] = f[j] => i = j
  BY <1>1
<1>4. f \in Injection(1 .. MaxPending, pending)
  BY <1>2, <1>3 DEF Injection, IsInjective
<1>5. Cardinality(1 .. MaxPending) <= Cardinality(pending)
  BY <1>4, FS_Injection
<1>6. Cardinality(1 .. MaxPending) = MaxPending
  BY NumbersAreNat, FS_Interval
<1>7. Cardinality(pending) \in Nat
  BY FS_CardinalityType
<1> QED
  BY <1>5, <1>6, <1>7, NumbersAreNat

LEMMA RequestType ==
  ASSUME ListTypeOK, IsFiniteSet(pending), Cardinality(pending) < MaxPending,
         NEW s \in Nat \ {0}, NEW w \in [start : Nat, end : Nat], NEW size \in Nat
  PROVE  /\ Request(s, w, size) \in [id : 1 .. MaxPending, search : 1 .. s, start : Nat,
                                     size : Nat, all : BOOLEAN, reset : BOOLEAN]
         /\ Request(s, w, size).search = s /\ Request(s, w, size).start = w.start
         /\ Request(s, w, size).size = size /\ Request(s, w, size).all = download
         /\ Request(s, w, size).reset
               <=> (w.start = 0 \/ (kind = "audit" /\ w.end > ModelLimit))
<1> DEFINE number == CHOOSE i \in 1 .. MaxPending : \A q \in pending : q.id # i
           fresh == w.start = 0 \/ (kind = "audit" /\ w.end > ModelLimit)
<1>1. number \in 1 .. MaxPending
  BY FreeNumber
<1>2. download \in BOOLEAN /\ fresh \in BOOLEAN
  BY DEF ListTypeOK
<1>3. Request(s, w, size) = [id |-> number, search |-> s, start |-> w.start,
                             size |-> size, all |-> download, reset |-> fresh]
  BY DEF Request
<1> HIDE DEF number, fresh
<1>4. Request(s, w, size).reset = fresh
  BY <1>3
<1>5. Request(s, w, size).reset <=> (w.start = 0 \/ (kind = "audit" /\ w.end > ModelLimit))
  BY <1>4, Zenon DEF fresh
<1> QED
  BY <1>1, <1>2, <1>3, <1>5

LEMMA WindowType ==
  ASSUME NEW end \in Nat, NEW total \in Nat \cup {Unknown}, NEW size \in Nat,
         startRowSize \in Nat
  PROVE  /\ NextWindow(end, total, size) \in [start : Nat, end : Nat]
         /\ StartAfterLimit(NextWindow(end, total, size)) \in Nat
<1> DEFINE w == NextWindow(end, total, size)
<1>1. w \in [start : Nat, end : Nat]
  BY DEF NextWindow, Least, Unknown
<1> HIDE DEF w
<1>2. StartAfterLimit(w) \in Nat
  BY <1>1, NumbersAreNat DEF StartAfterLimit
<1> QED
  BY <1>1, <1>2 DEF w

-----------------------------------------------------------------------------
(* Types.  That every request has a number of its own, below the bound of   *)
(* how many may be under way, needs that they are finitely many; that rows  *)
(* moved by another one stay below MaxRows, that they are in the table.     *)

Numbered(r) == r.search \in 1 .. search /\ r.row <= counts[r.search]

Typed ==
  /\ ListTypeOK /\ IsFiniteSet(pending)
  /\ \A i \in 1 .. Len(rows) : Numbered(rows[i])
  /\ \A r \in late : Numbered(r)

LEMMA GetListDataType ==
  ASSUME Typed, Cardinality(pending) < MaxPending, search' \in {search, search + 1},
         NEW end \in Nat, NEW total \in Nat \cup {Unknown}, NEW size \in Nat,
         search' > 0, GetListData(search', end, total, size)
  PROVE  /\ startRowSize' \in Nat /\ endRowSize' \in Nat
         /\ totalRowSize' \in Nat \cup {Unknown}
         /\ button' \in BOOLEAN /\ layout' \in BOOLEAN /\ whole' \in BOOLEAN
         /\ pending' \subseteq Asked' /\ IsFiniteSet(pending')
<1> DEFINE w == NextWindow(end, total, size)
           r == Request(search', w, size)
<1>1. /\ pending' = pending \cup {r}
      /\ startRowSize' = StartAfterLimit(w) /\ endRowSize' = w.end
      /\ totalRowSize' = total /\ button' = ButtonAfterAsking(end, total, size)
      /\ layout' = (kind = "audit")
  BY DEF GetListData
<1>2. search \in Nat /\ search' \in Nat \ {0} /\ startRowSize \in Nat
  BY NumbersAreNat DEF Typed, ListTypeOK
<1>3. w \in [start : Nat, end : Nat] /\ StartAfterLimit(w) \in Nat
  BY <1>2, WindowType
<1> HIDE DEF w
<1>4. r \in [id : 1 .. MaxPending, search : 1 .. search', start : Nat,
             size : Nat, all : BOOLEAN, reset : BOOLEAN]
  BY <1>2, <1>3, RequestType DEF Typed
<1> HIDE DEF r
<1>5. r \in Asked'
  BY <1>4 DEF Asked
<1>6. \A q \in pending : q \in Asked'
  BY <1>2 DEF Typed, ListTypeOK, Asked
<1>7. IsFiniteSet(pending')
  BY <1>1, FS_AddElement DEF Typed
<1>8. button' \in BOOLEAN /\ layout' \in BOOLEAN
  BY <1>1 DEF ButtonAfterAsking
<1>9. whole' \in BOOLEAN
  BY DEF GetListData, Typed, ListTypeOK
<1> QED
  BY <1>1, <1>3, <1>5, <1>6, <1>7, <1>8, <1>9

\* A row that another one is put below moves up, and stays in the table.
LEMMA MovedRow ==
  ASSUME Typed, Grow, NEW k \in Int, NEW r \in Row, Numbered(r)
  PROVE  /\ Moved(r, k) \in Row /\ Moved(r, k).search = r.search
         /\ Moved(r, k).row = IF r.search = search /\ r.row >= k THEN r.row + 1 ELSE r.row
         /\ Moved(r, k).search \in 1 .. search
         /\ Moved(r, k).row <= counts'[Moved(r, k).search]
<1>1. /\ search \in 1 .. Len(counts) /\ counts[search] \in 0 .. MaxRows - 1
      /\ counts \in Seq(0 .. MaxRows) /\ Len(counts) = search
  BY ElementOfSeq, NumbersAreNat DEF Typed, ListTypeOK, Grow, count
<1>2. \A s \in 1 .. search : counts[s] \in Nat /\ counts'[s] = IF s = search THEN counts[s] + 1 ELSE counts[s]
  BY <1>1, ElementOfSeq, NumbersAreNat DEF Grow
<1>3. r.search \in 1 .. MaxSearches /\ r.row \in 1 .. MaxRows /\ r.row <= counts[r.search]
      /\ r.search \in 1 .. search
  BY DEF Row, Numbered
<1>4. /\ Moved(r, k).search = r.search
      /\ Moved(r, k).row = IF r.search = search /\ r.row >= k THEN r.row + 1 ELSE r.row
  BY DEF Moved, Row
<1>5. Moved(r, k) = [search |-> r.search,
                     row |-> IF r.search = search /\ r.row >= k THEN r.row + 1 ELSE r.row]
  BY DEF Moved, Row
<1>6. (IF r.search = search /\ r.row >= k THEN r.row + 1 ELSE r.row) \in 1 .. MaxRows
  BY <1>1, <1>3, NumbersAreNat
<1>7. Moved(r, k) \in Row
  BY <1>3, <1>5, <1>6 DEF Row
<1>8. Moved(r, k).row <= counts'[r.search]
  BY <1>2, <1>3, <1>4
<1> QED
  BY <1>3, <1>4, <1>7, <1>8

LEMMA CountType ==
  ASSUME Typed
  PROVE  /\ count \in Nat /\ (search > 0 => count = counts[search])
         /\ totalCount \in Nat /\ (search > 0 => totalCount = told[search])
BY ElementOfSeq, NumbersAreNat DEF Typed, ListTypeOK, count, totalCount

\* What is written becomes a late row, and rows and late rows move.
LEMMA GrowMoves ==
  ASSUME Typed, Grow
  PROVE  /\ search > 0 /\ "grow" \in faults /\ search' = search
         /\ counts' = [counts EXCEPT ![search] = @ + 1]
         /\ told' = [told EXCEPT ![search] = @ + 1]
         /\ \E k \in 1 .. count + 1 :
              /\ kind = "audit" => k = count + 1
              /\ rows' = [i \in DOMAIN rows |-> Moved(rows[i], k)]
              /\ late' = {Moved(r, k) : r \in late} \cup {[search |-> search, row |-> k]}
         /\ UNCHANGED <<kind, faults, rowSize, paging, button, layout, export, whole, pending>>
<1>1. count \in Nat
  BY CountType
<1>2. PICK k \in (IF kind = "audit" THEN {count + 1} ELSE 1 .. count + 1) :
        /\ rows' = [i \in DOMAIN rows |-> Moved(rows[i], k)]
        /\ late' = {Moved(r, k) : r \in late} \cup {[search |-> search, row |-> k]}
  BY DEF Grow
<1>3. k \in 1 .. count + 1 /\ (kind = "audit" => k = count + 1)
  BY <1>1, <1>2
<1> QED
  BY <1>2, <1>3 DEF Grow

LEMMA TypedStep == Typed /\ [ListNext]_listVars => Typed'
<1> SUFFICES ASSUME Typed, [ListNext]_listVars PROVE Typed'
  OBVIOUS
<1>0. /\ kind \in {"log", "audit"} /\ faults \subseteq Troubles
      /\ search \in 0 .. MaxSearches /\ counts \in Seq(0 .. MaxRows) /\ Len(counts) = search
      /\ told \in Seq(Nat) /\ Len(told) = search
      /\ startRowSize \in Nat /\ endRowSize \in Nat
      /\ rowSize \in 0 .. MaxRowSize /\ totalRowSize \in Nat \cup {Unknown}
      /\ button \in BOOLEAN /\ layout \in BOOLEAN /\ download \in BOOLEAN
      /\ exporting \in BOOLEAN /\ whole \in BOOLEAN /\ late \subseteq Row
      /\ pending \subseteq Asked /\ rows \in Seq(Row) /\ IsFiniteSet(pending)
      /\ \A i \in 1 .. Len(rows) : Numbered(rows[i])
      /\ \A r \in late : Numbered(r)
  BY DEF Typed, ListTypeOK, Asked, Row
<1> USE DEF server, export
<1>1. CASE UNCHANGED listVars
  BY <1>1 DEF listVars, paging, Typed, ListTypeOK, Numbered
<1>2. CASE Retrieve
  <2>1. search' = search + 1 /\ search < MaxSearches
    BY <1>2 DEF Retrieve
  <2>2. PICK n \in 0 .. MaxRows : /\ counts' = Append(counts, n)
                                  /\ \E t \in Totals(n) : told' = Append(told, t)
    BY <1>2 DEF Retrieve
  <2>3. PICK t \in Totals(n) : told' = Append(told, t)
    BY <2>2
  <2>4. t \in Nat
    BY NumbersAreNat DEF Totals
  <2>5. /\ counts' \in Seq(0 .. MaxRows) /\ Len(counts') = search'
        /\ \A s \in 1 .. search : counts'[s] = counts[s]
    BY <1>0, <2>1, <2>2, AppendProperties
  <2>6. told' \in Seq(Nat) /\ Len(told') = search'
    BY <1>0, <2>1, <2>3, <2>4, AppendProperties
  <2>7. GetListData(search', 0, Unknown, FirstSize) /\ Cardinality(pending) < MaxPending
    BY <1>2, <2>1 DEF Retrieve
  <2>8. /\ startRowSize' \in Nat /\ endRowSize' \in Nat
        /\ totalRowSize' \in Nat \cup {Unknown} /\ button' \in BOOLEAN /\ layout' \in BOOLEAN
        /\ whole' \in BOOLEAN /\ pending' \subseteq Asked' /\ IsFiniteSet(pending')
    <3>1. search' > 0 /\ search' \in {search, search + 1}
      BY <1>0, <2>1
    <3> QED
      BY <2>7, <3>1, GetListDataType, NumbersAreNat
  <2>9. UNCHANGED <<kind, faults, late, download, exporting, rows>> /\ rowSize' = FirstSize
    BY <1>2 DEF Retrieve
  <2>10. search' \in 0 .. MaxSearches /\ rowSize' \in 0 .. MaxRowSize
    BY <1>0, <2>1, <2>9, NumbersAreNat
  <2>11. ASSUME NEW r, Numbered(r)
         PROVE  r.search \in 1 .. search' /\ r.row <= counts'[r.search]
    BY <1>0, <2>1, <2>5, <2>11 DEF Numbered
  <2>12. (\A i \in 1 .. Len(rows) : Numbered(rows[i]))' /\ (\A r \in late : Numbered(r))'
    BY <1>0, <2>9, <2>11 DEF Numbered
  <2> QED
    BY <1>0, <2>5, <2>6, <2>8, <2>9, <2>10, <2>12 DEF Typed, ListTypeOK, Asked, Row
<1>3. CASE More
  <2>1. /\ GetListData(search', endRowSize, totalRowSize, rowSize)
        /\ UNCHANGED <<server, rowSize, export, rows>>
        /\ Cardinality(pending) < MaxPending /\ search' > 0
    BY <1>3 DEF More
  <2>2. /\ startRowSize' \in Nat /\ endRowSize' \in Nat
        /\ totalRowSize' \in Nat \cup {Unknown} /\ button' \in BOOLEAN /\ layout' \in BOOLEAN
        /\ whole' \in BOOLEAN /\ pending' \subseteq Asked' /\ IsFiniteSet(pending')
    <3>1. rowSize \in Nat /\ search' \in {search, search + 1}
      BY <1>0, <2>1, NumbersAreNat
    <3> QED
      BY <1>0, <2>1, <3>1, GetListDataType
  <2> QED
    BY <1>0, <2>1, <2>2 DEF Typed, ListTypeOK, Asked, Row, Numbered
<1>4. CASE Sizes
  <2>1. UNCHANGED <<server, paging, button, layout, export, whole, pending, rows>>
    BY <1>4, SizesLeave
  <2>2. rowSize' \in 0 .. MaxRowSize
    BY <1>0, <1>4, NumbersAreNat
       DEF Sizes, RowSizePlusBtn, RowSizeMinusBtn, ChangeListRowSize, Least
  <2> QED
    BY <1>0, <2>1, <2>2 DEF Typed, ListTypeOK, paging, Asked, Row, Numbered
<1>5. ASSUME NEW q \in pending, Answer(q) PROVE Typed'
  <2>1. /\ counts[q.search] \in Nat /\ Found(q) \in Seq(Row) /\ From(q) \in Nat
        /\ \A i \in 1 .. Len(Found(q)) :
             /\ Found(q)[i].search = q.search
             /\ Found(q)[i].row = counts[q.search] - From(q) - i + 1
    BY FoundRows DEF Typed
  <2>2. q.search \in 1 .. search
    BY <1>0 DEF Asked
  <2>3. told[q.search] \in Nat
    BY <1>0, <2>2, ElementOfSeq
  <2>4. UNCHANGED <<kind, faults, search, counts, told, late, rowSize, download, exporting, whole>>
    BY <1>5 DEF Answer
  <2>5. ASSUME NEW i \in 1 .. Len(Found(q)) PROVE Numbered(Found(q)[i])
    BY <2>1, <2>2 DEF Numbered
  <2>6. rows' \in Seq(Row) /\ \A i \in 1 .. Len(rows') : Numbered(rows'[i])
    <3>1. CASE q.reset
      BY <1>5, <2>1, <2>5, <3>1 DEF Answer
    <3>2. CASE ~ q.reset
      <4>1. rows' = rows \o Found(q)
        BY <1>5, <3>2 DEF Answer
      <4>2. /\ rows' \in Seq(Row) /\ Len(rows') = Len(rows) + Len(Found(q))
            /\ \A i \in 1 .. Len(rows) + Len(Found(q)) :
                 rows'[i] = IF i <= Len(rows) THEN rows[i] ELSE Found(q)[i - Len(rows)]
        BY <1>0, <2>1, <4>1, ConcatProperties
      <4>3. ASSUME NEW i \in 1 .. Len(rows') PROVE Numbered(rows'[i])
        <5>1. Len(rows) \in Nat /\ Len(Found(q)) \in Nat
          BY <1>0, <2>1, LenProperties
        <5>2. CASE i <= Len(rows)
          BY <1>0, <4>2, <5>1, <5>2
        <5>3. CASE i > Len(rows)
          <6>1. i - Len(rows) \in 1 .. Len(Found(q)) /\ rows'[i] = Found(q)[i - Len(rows)]
            BY <4>2, <5>1, <5>3
          <6> QED
            BY <2>5, <6>1
        <5> QED
          BY <5>1, <5>2, <5>3
      <4> QED
        BY <4>2, <4>3
    <3> QED
      BY <3>1, <3>2
  <2>7. IsFiniteSet(pending') /\ pending' \subseteq Asked'
    BY <1>0, <1>5, FS_Subset DEF Answer, Asked
  <2>8. /\ startRowSize' \in Nat /\ endRowSize' \in Nat /\ totalRowSize' \in Nat
    BY <1>0, <1>5, <2>3 DEF Answer
  <2>9. button' \in BOOLEAN /\ layout' \in BOOLEAN
    BY <1>5 DEF Answer
  <2>10. (\A i \in 1 .. Len(rows) : Numbered(rows[i]))' /\ (\A r \in late : Numbered(r))'
    BY <1>0, <2>4, <2>6 DEF Numbered
  <2> QED
    BY <1>0, <2>4, <2>6, <2>7, <2>8, <2>9, <2>10 DEF Typed, ListTypeOK, Asked, Row
<1>6. ASSUME NEW q \in pending, Failed(q) PROVE Typed'
  <2>1. IsFiniteSet(pending') /\ pending' \subseteq Asked'
    BY <1>0, <1>6, FS_Subset DEF Failed, Asked
  <2> QED
    BY <1>0, <1>6, <2>1 DEF Failed, paging, Typed, ListTypeOK, Asked, Row, Numbered
<1>7. CASE Exports
  <2>1. UNCHANGED <<server, rowSize, paging, button, layout, whole, pending, rows>>
    BY <1>7, ExportsLeave
  <2>2. download' \in BOOLEAN /\ exporting' \in BOOLEAN
    BY <1>0, <1>7 DEF Exports, ExportAll, ExportShown, ExportEnds, ExportFails
  <2> QED
    BY <1>0, <2>1, <2>2 DEF paging, Typed, ListTypeOK, Asked, Row, Numbered
<1>8. CASE Grow
  <2>1. /\ search \in 1 .. Len(counts) /\ counts[search] \in 0 .. MaxRows - 1
        /\ search \in 1 .. Len(told) /\ told[search] \in Nat /\ count = counts[search]
    BY <1>0, <1>8, ElementOfSeq, NumbersAreNat DEF Grow, count
  <2>2. counts' \in Seq(0 .. MaxRows) /\ Len(counts') = Len(counts)
    <3>1. counts[search] + 1 \in 0 .. MaxRows
      BY <2>1, NumbersAreNat
    <3>2. counts' = [counts EXCEPT ![search] = counts[search] + 1]
      BY <1>8 DEF Grow
    <3> QED
      BY <1>0, <2>1, <3>1, <3>2, ExceptSeq
  <2>3. told' \in Seq(Nat) /\ Len(told') = Len(told)
    <3>1. told[search] + 1 \in Nat
      BY <2>1
    <3>2. told' = [told EXCEPT ![search] = told[search] + 1]
      BY <1>8 DEF Grow
    <3> QED
      BY <1>0, <2>1, <3>1, <3>2, ExceptSeq
  <2>4. PICK k \in 1 .. count + 1 :
          /\ rows' = [i \in DOMAIN rows |-> Moved(rows[i], k)]
          /\ late' = {Moved(r, k) : r \in late} \cup {[search |-> search, row |-> k]}
    BY <1>8, GrowMoves
  <2>5. DOMAIN rows = 1 .. Len(rows) /\ Len(rows) \in Nat
    BY <1>0, LenProperties
  <2>6. ASSUME NEW i \in 1 .. Len(rows)
        PROVE  /\ rows'[i] \in Row /\ rows'[i].search \in 1 .. search
               /\ rows'[i].row <= counts'[rows'[i].search]
    <3>1. /\ rows[i] \in Row /\ Numbered(rows[i]) /\ rows'[i] = Moved(rows[i], k)
          /\ k \in Int
      BY <1>0, <2>1, <2>4, <2>5, ElementOfSeq
    <3> QED
      BY <1>8, <3>1, MovedRow
  <2>7. rows' \in Seq(Row) /\ Len(rows') = Len(rows)
    BY <2>4, <2>5, <2>6
  <2>8. ASSUME NEW r \in late'
        PROVE  r \in Row /\ r.search \in 1 .. search /\ r.row <= counts'[r.search]
    <3>1. CASE r = [search |-> search, row |-> k]
      <4>1. counts'[search] = counts[search] + 1 /\ k \in 1 .. counts[search] + 1
        BY <1>0, <2>1, <1>8 DEF Grow
      <4>2. search \in 1 .. MaxSearches /\ k \in 1 .. MaxRows
        BY <1>0, <2>1, <4>1, NumbersAreNat
      <4> QED
        BY <2>1, <3>1, <4>1, <4>2 DEF Row
    <3>2. CASE r # [search |-> search, row |-> k]
      <4>1. PICK o \in late : r = Moved(o, k)
        BY <2>4, <3>2
      <4>2. o \in Row /\ Numbered(o) /\ k \in Int
        BY <1>0, <2>1, <2>4
      <4> QED
        BY <1>8, <4>1, <4>2, MovedRow
    <3> QED
      BY <3>1, <3>2
  <2>9. UNCHANGED <<kind, faults, search, rowSize, paging, button, layout, download,
                    exporting, whole, pending>>
    BY <1>8 DEF Grow
  <2>10. (\A i \in 1 .. Len(rows) : Numbered(rows[i]))' /\ (\A r \in late : Numbered(r))'
    BY <2>6, <2>7, <2>8, <2>9 DEF Numbered
  <2>11. late' \subseteq Row
    BY <2>8
  <2> QED
    BY <1>0, <2>2, <2>3, <2>7, <2>9, <2>10, <2>11 DEF paging, Typed, ListTypeOK, Asked, Row
<1> QED
  BY <1>1, <1>2, <1>3, <1>4, <1>5, <1>6, <1>7, <1>8 DEF ListNext, Sizes, Exports

LEMMA TypedInit == ListInit => Typed
<1> SUFFICES ASSUME ListInit PROVE Typed
  OBVIOUS
<1>1. kind \in {"log", "audit"} /\ faults \subseteq Troubles
  BY KindsAssumption, TroublesAssumption DEF ListInit
<1>2. /\ search \in 0 .. MaxSearches /\ counts \in Seq(0 .. MaxRows) /\ Len(counts) = search
      /\ told \in Seq(Nat) /\ Len(told) = search
      /\ rows \in Seq([search : 1 .. MaxSearches, row : 1 .. MaxRows])
      /\ Len(rows) = 0 /\ late = {}
  BY NumbersAreNat DEF ListInit
<1>3. /\ startRowSize \in Nat /\ endRowSize \in Nat /\ rowSize \in 0 .. MaxRowSize
      /\ totalRowSize \in Nat \cup {Unknown}
  BY NumbersAreNat DEF ListInit
<1>4. pending = {} /\ IsFiniteSet(pending)
  BY FS_EmptySet DEF ListInit
<1>5. {button, layout, download, exporting, whole} \subseteq BOOLEAN
  BY DEF ListInit
<1>6. pending \subseteq [id : 1 .. MaxPending, search : 1 .. search, start : Nat,
                        size : Nat, all : BOOLEAN, reset : BOOLEAN]
  BY <1>4
<1>7. ListTypeOK
  BY <1>1, <1>2, <1>3, <1>5, <1>6 DEF ListTypeOK
<1>8. (\A i \in 1 .. Len(rows) : Numbered(rows[i])) /\ (\A r \in late : Numbered(r))
  BY <1>2
<1> QED
  BY <1>4, <1>7, <1>8 DEF Typed

\* The variables have their types.
THEOREM ListTypeCorrect == ListSpec => []ListTypeOK
<1>1. Typed => ListTypeOK
  BY DEF Typed
<1> QED
  BY <1>1, TypedInit, TypedStep, PTL DEF ListSpec

-----------------------------------------------------------------------------
(* What a page knows that asks for one window at a time: the request under  *)
(* way is for the window that ends where the page's window ends now, and    *)
(* while there is a button there are rows the window does not reach.        *)

OneUnderWay == \A p, q \in pending : p = q

Asks(q) ==
  /\ search > 0 /\ q.search = search
  /\ q.reset => q.start = 0 \/ (kind = "audit" /\ endRowSize > ModelLimit)
  /\ totalRowSize = Unknown => q.start = 0 /\ q.reset /\ endRowSize = q.size
  /\ totalRowSize # Unknown =>
       /\ q.start < totalRowSize /\ q.size > 0
       /\ endRowSize = Least(q.start + q.size, totalRowSize)

WindowFits ==
  /\ search = 0 => rows = <<>> /\ pending = {} /\ totalRowSize = Unknown
  /\ \A i, j \in DOMAIN rows : rows[i].search = rows[j].search
  /\ totalRowSize # Unknown =>
       /\ button => endRowSize < totalRowSize
       /\ \A i \in DOMAIN rows : rows[i].search = search

Window ==
  Unless({"rush", "double"}) => OneUnderWay /\ (\A q \in pending : Asks(q)) /\ WindowFits

\* Where the rows shown must reach to: the end of the window, when "more" can be
\* pressed, and the start of the window that is asked for.
Reached(n) ==
  \/ pending = {} /\ button /\ totalRowSize # Unknown /\ n = endRowSize
  \/ totalRowSize # Unknown /\ \E q \in pending : n = q.start

\* A page of all rows is asked for only after `whole` was set.
NoneOfAll == ~ whole => \A q \in pending : ~ q.all

\* The total is the number of rows, but for audit rows at the edges of the period.
Counted == kind = "log" \/ "edge" \notin faults
TotalsAgree == Counted => \A s \in 1 .. search : told[s] = counts[s]

\* No row twice: the rows go down, and do not go further than the window.
GoDown == \A i, j \in DOMAIN rows : i < j => rows[i].row > rows[j].row
AllAbove(n) == \A i \in DOMAIN rows : rows[i].row > count - n
TotalIsTold == totalRowSize \notin {Unknown, 0} => totalRowSize = totalCount

Downwards ==
  (Unless({"rush", "double", "grow"}) /\ ~ whole) =>
    /\ GoDown /\ TotalIsTold
    /\ \A n \in Nat : Reached(n) => AllAbove(n)

\* No row skipped: between two rows shown there are but late ones, and the last row
\* shown is not above where the next page starts, or the very last.
Between(i) == rows[i + 1].row + 1 .. rows[i].row - 1
LateRow(s, n) == kind = "log" /\ [search |-> s, row |-> n] \in late
NoGap == \A i \in 1 .. Len(rows) - 1 : \A n \in Between(i) : LateRow(rows[i].search, n)
DownTo(n) ==
  rows # <<>> =>
    Last(rows).row <= count - n + 1 \/ (kind = "audit" /\ Last(rows).row = 1)

Gapless ==
  Unless({"rush", "double", "fail"}) => NoGap /\ (\A n \in Nat : Reached(n) => DownTo(n))

\* All as it should be: the rows are those of the window, to the row; with another
\* total, while there is a button.
Consecutive == \A i \in 1 .. Len(rows) - 1 : rows[i + 1].row = rows[i].row - 1
Exactly(n) ==
  /\ rows # <<>> => Last(rows).row = count - n + 1
  /\ (endRowSize <= ModelLimit \/ kind = "log") => Len(rows) = n
ButtonFits == button <=> endRowSize < totalRowSize
NoneLeft ==
  (~ button /\ rows # <<>>) => Last(rows).row <= count - Least(totalCount, count) + 1

Showing ==
  (Unless({"rush", "double", "fail", "grow"}) /\ ~ whole) =>
    /\ Consecutive
    /\ (pending = {} /\ search > 0) =>
         /\ totalRowSize \in {0, totalCount} /\ ButtonFits /\ NoneLeft
         /\ Counted => totalRowSize = count
         /\ (button \/ Counted) => Exactly(Least(endRowSize, count))
    /\ \A q \in pending : q.size > 0 /\ (totalRowSize # Unknown =>
         totalRowSize = totalCount /\ Exactly(Least(q.start, count)))

\* What the two ways to ask leave behind: the request r, and the window to fit.
FirstPage(r) ==
  /\ pending' = pending \cup {r}
  /\ r.search = search' /\ r.start = 0 /\ r.size = FirstSize
  /\ r.all = download /\ r.reset

NextPage(r) ==
  /\ pending' = pending \cup {r}
  /\ r.search = search /\ r.size = rowSize /\ r.all = download
  /\ r.reset <=> (r.start = 0 \/ (kind = "audit" /\ endRowSize' > ModelLimit))
  /\ totalRowSize = Unknown => r.start = 0 /\ endRowSize' = rowSize
  /\ totalRowSize \notin {Unknown, 0} =>
       /\ r.start = endRowSize /\ rowSize > 0
       /\ endRowSize' = Least(endRowSize + rowSize, totalRowSize)
       /\ button' <=> endRowSize + rowSize < totalRowSize

LEMMA RetrieveAsks ==
  ASSUME Typed, Retrieve
  PROVE  /\ search' = search + 1 /\ search' > 0
         /\ totalRowSize' = Unknown /\ endRowSize' = FirstSize
         /\ UNCHANGED <<kind, late, download, rows>>
         /\ (pending # {} => "rush" \in faults) /\ (~ whole' => ~ whole /\ ~ download)
         /\ \E r : FirstPage(r)
<1> DEFINE w == NextWindow(0, Unknown, FirstSize)
           s == search + 1
           r == Request(s, w, FirstSize)
<1>1. search \in Nat /\ startRowSize \in Nat /\ s \in Nat \ {0} /\ s = search'
  BY NumbersAreNat DEF Typed, ListTypeOK, Retrieve
<1>2. w.start = 0 /\ w.end = FirstSize /\ w \in [start : Nat, end : Nat]
  BY NumbersAreNat DEF NextWindow
<1>3. /\ pending' = pending \cup {r} /\ endRowSize' = w.end /\ totalRowSize' = Unknown
      /\ Cardinality(pending) < MaxPending
      /\ search' = search + 1 /\ UNCHANGED <<kind, late, download, rows>>
      /\ (pending # {} => "rush" \in faults) /\ (~ whole' => ~ whole /\ ~ download)
  BY DEF Retrieve, GetListData, export
<1> HIDE DEF w, s
<1>4. /\ r.search = s /\ r.start = w.start /\ r.size = FirstSize /\ r.all = download
      /\ r.reset <=> (w.start = 0 \/ (kind = "audit" /\ w.end > ModelLimit))
  <2>1. Cardinality(pending) < MaxPending
    BY <1>3
  <2>2. ListTypeOK /\ IsFiniteSet(pending) /\ FirstSize \in Nat
    BY NumbersAreNat DEF Typed
  <2>3. r.search = s /\ r.start = w.start /\ r.size = FirstSize /\ r.all = download
    BY <1>1, <1>2, <2>1, <2>2, RequestType
  <2>4. r.reset <=> (w.start = 0 \/ (kind = "audit" /\ w.end > ModelLimit))
    BY <1>1, <1>2, <2>1, <2>2, RequestType
  <2> QED
    BY <2>3, <2>4
<1> HIDE DEF r
<1>5. r.search = search' /\ r.start = 0 /\ r.reset
  BY <1>1, <1>2, <1>4
<1>6. FirstPage(r)
  BY <1>3, <1>4, <1>5 DEF FirstPage
<1> QED
  BY <1>1, <1>2, <1>3, <1>6

LEMMA MoreAsks ==
  ASSUME Typed, More
  PROVE  /\ UNCHANGED <<kind, search, counts, told, late, rowSize, download, rows, totalRowSize>>
         /\ search > 0 /\ button
         /\ (pending # {} => "double" \in faults) /\ (~ whole' => ~ whole /\ ~ download)
         /\ \E r : NextPage(r)
<1> DEFINE w == NextWindow(endRowSize, totalRowSize, rowSize)
           r == Request(search, w, rowSize)
<1>1. /\ search \in Nat /\ startRowSize \in Nat /\ endRowSize \in Nat /\ rowSize \in Nat
      /\ totalRowSize \in Nat \cup {Unknown}
  BY NumbersAreNat DEF Typed, ListTypeOK
<1>2. /\ pending' = pending \cup {r} /\ endRowSize' = w.end /\ totalRowSize' = totalRowSize
      /\ button' = ButtonAfterAsking(endRowSize, totalRowSize, rowSize)
      /\ Cardinality(pending) < MaxPending
      /\ search > 0 /\ button
      /\ UNCHANGED <<kind, search, counts, told, late, rowSize, download, rows>>
      /\ (pending # {} => "double" \in faults) /\ (~ whole' => ~ whole /\ ~ download)
      /\ totalRowSize \notin {0, Unknown} => rowSize # 0
  BY DEF More, GetListData, server, export
<1>3. w \in [start : Nat, end : Nat]
  BY <1>1, WindowType
<1>4. /\ totalRowSize = Unknown => w.start = 0 /\ w.end = rowSize
      /\ totalRowSize \notin {Unknown, 0} =>
           w.start = endRowSize /\ w.end = Least(endRowSize + rowSize, totalRowSize)
  BY <1>1 DEF NextWindow, Unknown
<1>5. totalRowSize \notin {Unknown, 0} => (button' <=> endRowSize + rowSize < totalRowSize)
  <2>1. totalRowSize \notin {Unknown, 0} =>
          (ButtonAfterAsking(endRowSize, totalRowSize, rowSize)
             <=> endRowSize + rowSize < totalRowSize)
    BY <1>1 DEF ButtonAfterAsking, Unknown
  <2>2. button' = ButtonAfterAsking(endRowSize, totalRowSize, rowSize)
    BY <1>2
  <2> QED
    BY <2>1, <2>2, Zenon
<1> HIDE DEF w
<1>6. /\ r.search = search /\ r.start = w.start /\ r.size = rowSize /\ r.all = download
      /\ r.reset <=> (w.start = 0 \/ (kind = "audit" /\ w.end > ModelLimit))
  <2>1. search \in Nat \ {0} /\ rowSize \in Nat
    BY <1>1, <1>2
  <2>2. ListTypeOK /\ IsFiniteSet(pending)
    BY DEF Typed
  <2>3. Cardinality(pending) < MaxPending
    BY DEF More
  <2> QED
    <3>1. r.search = search /\ r.start = w.start /\ r.size = rowSize /\ r.all = download
      BY <1>3, <2>1, <2>2, <2>3, RequestType
    <3>2. r.reset <=> (w.start = 0 \/ (kind = "audit" /\ w.end > ModelLimit))
      BY <1>3, <2>1, <2>2, <2>3, RequestType
    <3> QED
      BY <3>1, <3>2
<1> HIDE DEF r
<1>7. r.reset <=> (r.start = 0 \/ (kind = "audit" /\ endRowSize' > ModelLimit))
  BY <1>2, <1>6
<1>8. /\ totalRowSize = Unknown => r.start = 0 /\ endRowSize' = rowSize
      /\ totalRowSize \notin {Unknown, 0} =>
           /\ r.start = endRowSize /\ rowSize > 0
           /\ endRowSize' = Least(endRowSize + rowSize, totalRowSize)
  BY <1>1, <1>2, <1>4, <1>6
<1>9. r.search = search /\ r.size = rowSize /\ r.all = download
  BY <1>6
<1>10. NextPage(r)
  BY <1>2, <1>5, <1>7, <1>8, <1>9 DEF NextPage
<1> QED
  BY <1>2, <1>10

\* What an answer leaves behind: the rows that are kept, then those found.
Kept(q) == IF q.reset THEN 0 ELSE Len(rows)

LEMMA AnswerLeaves ==
  ASSUME Typed, NEW q \in pending, Answer(q)
  PROVE  /\ pending' = pending \ {q}
         /\ UNCHANGED <<kind, search, counts, told, late, download, whole>>
         /\ told[q.search] \in Nat
         /\ totalRowSize' = IF Len(Found(q)) = 0 THEN 0 ELSE told[q.search]
         /\ endRowSize' = IF totalRowSize' = 0 THEN 0 ELSE endRowSize
         /\ button' <=> (totalRowSize' # 0 /\ endRowSize < totalRowSize')
         /\ Kept(q) \in Nat /\ Kept(q) <= Len(rows)
         /\ rows' \in Seq(Row) /\ Len(rows') = Kept(q) + Len(Found(q))
         /\ \A i \in 1 .. Kept(q) : rows'[i] = rows[i]
         /\ \A i \in 1 .. Len(Found(q)) :
              /\ rows'[Kept(q) + i].search = q.search
              /\ rows'[Kept(q) + i].row = counts[q.search] - From(q) - i + 1
<1> DEFINE n == counts[q.search]
           found == Found(q)
<1>1. /\ found \in Seq(Row) /\ n \in Nat /\ From(q) \in Nat /\ Until(q) \in Nat
      /\ Until(q) <= n
      /\ Len(found) = IF Until(q) > From(q) THEN Until(q) - From(q) ELSE 0
      /\ \A i \in 1 .. Len(found) :
           found[i].search = q.search /\ found[i].row = n - From(q) - i + 1
  BY FoundRows DEF Typed
<1>2. rows \in Seq(Row) /\ Len(rows) \in Nat /\ endRowSize \in Nat
  BY LenProperties DEF Typed, ListTypeOK, Row
<1>3. told[q.search] \in Nat
  <2>1. q.search \in 1 .. Len(told) /\ told \in Seq(Nat)
    BY DEF Typed, ListTypeOK
  <2> QED
    BY <2>1, ElementOfSeq
<1> HIDE DEF found, n
<1>4. found = <<>> <=> Len(found) = 0
  BY <1>1, EmptySeq
<1>5. /\ pending' = pending \ {q}
      /\ UNCHANGED <<kind, search, counts, told, late, download, whole>>
      /\ totalRowSize' = IF found = <<>> THEN 0 ELSE told[q.search]
      /\ totalRowSize' = 0 => endRowSize' = 0
      /\ totalRowSize' # 0 => endRowSize' = endRowSize
  BY DEF Answer, found, n, server, export
<1>6. button' <=> (totalRowSize' # 0 /\ endRowSize < totalRowSize')
  BY Zenon DEF Answer
<1>7. /\ q.reset => rows' = found
      /\ ~ q.reset => rows' = rows \o found
  BY DEF Answer, found
<1>8. /\ Kept(q) \in Nat /\ Kept(q) <= Len(rows)
      /\ rows' \in Seq(Row) /\ Len(rows') = Kept(q) + Len(found)
      /\ \A i \in 1 .. Kept(q) : rows'[i] = rows[i]
      /\ \A i \in 1 .. Len(found) : rows'[Kept(q) + i] = found[i]
  <2>0. Len(found) \in Nat
    BY <1>1
  <2>1. CASE q.reset
    <3>1. Kept(q) = 0 /\ rows' = found
      BY <1>7, <2>1 DEF Kept
    <3> QED
      BY <1>1, <1>2, <2>0, <3>1
  <2>2. CASE ~ q.reset
    <3>1. Kept(q) = Len(rows) /\ rows' = rows \o found
      BY <1>7, <2>2 DEF Kept
    <3>2. /\ rows' \in Seq(Row) /\ Len(rows') = Len(rows) + Len(found)
          /\ \A i \in 1 .. Len(rows) + Len(found) :
               rows'[i] = IF i <= Len(rows) THEN rows[i] ELSE found[i - Len(rows)]
      BY <1>1, <1>2, <3>1, ConcatProperties
    <3>3. \A i \in 1 .. Len(rows) : rows'[i] = rows[i]
      BY <1>2, <2>0, <3>2
    <3>4. \A i \in 1 .. Len(found) : rows'[Len(rows) + i] = found[i]
      BY <1>2, <2>0, <3>2
    <3> QED
      BY <1>2, <3>1, <3>2, <3>3, <3>4
  <2> QED
    BY <2>1, <2>2
<1>9. /\ totalRowSize' = IF Len(found) = 0 THEN 0 ELSE told[q.search]
      /\ endRowSize' = IF totalRowSize' = 0 THEN 0 ELSE endRowSize
  BY <1>1, <1>4, <1>5
<1>10. \A i \in 1 .. Len(found) : /\ rows'[Kept(q) + i].search = q.search
                                 /\ rows'[Kept(q) + i].row = n - From(q) - i + 1
  BY <1>1, <1>8
<1> QED
  BY <1>3, <1>5, <1>6, <1>8, <1>9, <1>10 DEF found, n

\* What no action but the request, the answer and the failure changes.
LEMMA OthersLeave ==
  ASSUME Typed, Sizes \/ Exports \/ Grow \/ UNCHANGED listVars
  PROVE  /\ UNCHANGED <<kind, search, endRowSize, totalRowSize, button, pending, whole>>
         /\ "grow" \notin faults =>
              UNCHANGED <<rows, late, counts, told>> /\ count' = count /\ totalCount' = totalCount
         /\ Grow \/ UNCHANGED <<rows, late, counts, told>>
         /\ rows' \in Seq(Row) /\ Len(rows') = Len(rows)
         /\ \A i \in 1 .. Len(rows) : rows'[i].search = rows[i].search
<1>1. UNCHANGED <<kind, search, endRowSize, totalRowSize, button, pending, whole>>
  BY SizesLeave, ExportsLeave DEF Grow, listVars, server, paging
<1>2. Grow \/ UNCHANGED <<rows, late, counts, told>>
  BY SizesLeave, ExportsLeave DEF listVars, server
<1>3. rows \in Seq(Row) /\ DOMAIN rows = 1 .. Len(rows) /\ Len(rows) \in Nat
  BY LenProperties DEF Typed, ListTypeOK, Row
<1>4. CASE UNCHANGED <<rows, late, counts, told>>
  BY <1>1, <1>2, <1>3, <1>4 DEF count, totalCount
<1>5. CASE Grow
  <2>1. "grow" \in faults
    BY <1>5 DEF Grow
  <2>2. PICK k \in 1 .. count + 1 : rows' = [i \in DOMAIN rows |-> Moved(rows[i], k)]
    BY <1>5, GrowMoves
  <2>3. k \in Int
    BY <2>2, CountType
  <2>4. \A i \in 1 .. Len(rows) : Numbered(rows[i]) /\ rows[i] \in Row
    BY <1>3, ElementOfSeq DEF Typed
  <2>5. \A i \in 1 .. Len(rows) : rows'[i] \in Row /\ rows'[i].search = rows[i].search
    BY <1>3, <1>5, <2>2, <2>3, <2>4, MovedRow
  <2>6. rows' \in Seq(Row) /\ Len(rows') = Len(rows)
    BY <1>3, <2>2, <2>5
  <2> QED
    BY <1>1, <1>5, <2>1, <2>5, <2>6
<1> QED
  BY <1>2, <1>4, <1>5

LEMMA WindowStep == Typed /\ Window /\ [ListNext]_listVars => Window'
<1> DEFINE Inv == OneUnderWay /\ (\A q \in pending : Asks(q)) /\ WindowFits
<1> SUFFICES ASSUME Typed, Inv, Unless({"rush", "double"}), [ListNext]_listVars
             PROVE  Inv'
  BY FaultsStay DEF Window, Unless
<1>0. /\ "rush" \notin faults /\ "double" \notin faults
      /\ search \in Nat /\ endRowSize \in Nat /\ rowSize \in Nat
      /\ totalRowSize \in Nat \cup {Unknown} /\ Len(rows) \in Nat
      /\ DOMAIN rows = 1 .. Len(rows) /\ rows \in Seq(Row)
  BY NumbersAreNat, LenProperties DEF Unless, Typed, ListTypeOK, Row
<1>1. CASE Sizes \/ Exports \/ Grow \/ UNCHANGED listVars
  <2>1. /\ UNCHANGED <<kind, search, endRowSize, totalRowSize, button, pending>>
        /\ rows' \in Seq(Row) /\ Len(rows') = Len(rows)
        /\ \A i \in 1 .. Len(rows) : rows'[i].search = rows[i].search
    BY <1>1, OthersLeave
  <2>2. DOMAIN rows' = DOMAIN rows
    BY <1>0, <2>1, LenProperties
  <2>3. rows = <<>> => rows' = <<>>
    BY <1>0, <2>1, EmptySeq
  <2> QED
    BY <1>0, <2>1, <2>2, <2>3 DEF OneUnderWay, Asks, WindowFits
<1>2. CASE Retrieve
  <2>1. /\ pending = {} /\ search' = search + 1 /\ search' > 0 /\ rows' = rows
        /\ totalRowSize' = Unknown /\ endRowSize' = FirstSize
    BY <1>0, <1>2, RetrieveAsks
  <2>2. PICK r : FirstPage(r)
    BY <1>2, RetrieveAsks
  <2>3. pending' = {r}
    BY <2>1, <2>2 DEF FirstPage
  <2> QED
    BY <2>1, <2>2, <2>3 DEF FirstPage, OneUnderWay, Asks, WindowFits
<1>3. CASE More
  <2>1. /\ pending = {} /\ UNCHANGED <<kind, search, counts, rows, totalRowSize>>
        /\ search > 0 /\ button
    BY <1>0, <1>3, MoreAsks
  <2>2. totalRowSize # Unknown => totalRowSize # 0 /\ endRowSize < totalRowSize
    BY <1>0, <2>1 DEF WindowFits
  <2>3. PICK r : NextPage(r)
    BY <1>3, MoreAsks
  <2>4. pending' = {r}
    BY <2>1, <2>3 DEF NextPage
  <2>5. Asks(r)'
    BY <1>0, <2>1, <2>2, <2>3 DEF Asks, NextPage
  <2>6. totalRowSize' # Unknown /\ button' => endRowSize' < totalRowSize'
    <3>1. SUFFICES ASSUME totalRowSize # Unknown, button' PROVE endRowSize' < totalRowSize
      BY <2>1
    <3>2. endRowSize + rowSize < totalRowSize
      BY <2>2, <2>3, <3>1 DEF NextPage
    <3> QED
      BY <1>0, <2>2, <2>3, <3>1, <3>2 DEF Least, NextPage
  <2> QED
    BY <2>1, <2>4, <2>5, <2>6 DEF OneUnderWay, WindowFits
<1>4. ASSUME NEW q \in pending, Answer(q) PROVE Inv'
  <2>1. pending' = {}
    BY <1>4, AnswerLeaves DEF OneUnderWay
  <2>2. search' = search /\ search > 0 /\ q.search = search
    BY <1>4, AnswerLeaves DEF Asks
  <2>3. Len(Found(q)) \in Nat
    BY FoundRows, LenProperties DEF Typed
  <2>4. totalRowSize' \in Nat
    BY <1>4, AnswerLeaves
  <2>5. button' => endRowSize' < totalRowSize'
    <3>1. SUFFICES ASSUME button' PROVE endRowSize' < totalRowSize'
      OBVIOUS
    <3>2. totalRowSize' # 0 /\ endRowSize < totalRowSize'
      BY <1>4, <3>1, AnswerLeaves
    <3> QED
      BY <1>4, <3>2, AnswerLeaves
  <2>6. ASSUME NEW i \in 1 .. Len(rows') PROVE rows'[i].search = search
    <3>1. /\ Kept(q) \in Nat /\ Kept(q) <= Len(rows) /\ Len(rows') = Kept(q) + Len(Found(q))
          /\ \A j \in 1 .. Kept(q) : rows'[j] = rows[j]
          /\ \A j \in 1 .. Len(Found(q)) : rows'[Kept(q) + j].search = q.search
      BY <1>4, AnswerLeaves
    <3>2. CASE i <= Kept(q)
      <4>1. totalRowSize # Unknown
        BY <3>1, <3>2 DEF Kept, Asks
      <4>2. rows[i].search = search /\ rows'[i] = rows[i]
        BY <1>0, <3>1, <3>2, <4>1 DEF WindowFits
      <4> QED
        BY <4>2
    <3>3. CASE i > Kept(q)
      <4>1. i - Kept(q) \in 1 .. Len(Found(q)) /\ Kept(q) + (i - Kept(q)) = i
        BY <2>3, <3>1, <3>3
      <4> QED
        BY <2>2, <3>1, <4>1
    <3> QED
      BY <2>3, <3>1, <3>2, <3>3
  <2>7. DOMAIN rows' = 1 .. Len(rows')
    BY <1>4, AnswerLeaves, LenProperties
  <2> QED
    BY <2>1, <2>2, <2>5, <2>6, <2>7 DEF OneUnderWay, WindowFits
<1>5. ASSUME NEW q \in pending, Failed(q) PROVE Inv'
  <2>1. /\ pending' = {} /\ search > 0
        /\ UNCHANGED <<search, endRowSize, totalRowSize, button, rows>>
    BY <1>5 DEF Failed, server, paging, OneUnderWay, Asks
  <2> QED
    BY <2>1 DEF OneUnderWay, WindowFits
<1> QED
  BY <1>1, <1>2, <1>3, <1>4, <1>5 DEF ListNext, Sizes, Exports

LEMMA WindowInit == ListInit => Window
BY DEF ListInit, Window, OneUnderWay, WindowFits

-----------------------------------------------------------------------------
(* What the three proofs have in common: the facts about types, how a       *)
(* request carries what was reached on, and the answer to the only one.     *)

LEMMA Basics ==
  ASSUME Typed
  PROVE  /\ search \in Nat /\ endRowSize \in Nat /\ rowSize \in Nat /\ count \in Nat
         /\ totalCount \in Nat /\ totalRowSize \in Nat \cup {Unknown}
         /\ rows \in Seq(Row) /\ Len(rows) \in Nat /\ DOMAIN rows = 1 .. Len(rows)
         /\ \A i \in 1 .. Len(rows) : rows[i].row \in Int
         /\ \A q \in pending : q.start \in Nat /\ q.size \in Nat
<1>1. rows \in Seq(Row)
  BY DEF Typed, ListTypeOK, Row
<1>2. \A i \in 1 .. Len(rows) : rows[i] \in Row
  BY <1>1, ElementOfSeq
<1>3. \A i \in 1 .. Len(rows) : rows[i].row \in Int
  BY <1>2, NumbersAreNat DEF Row
<1>4. count \in Nat /\ totalCount \in Nat
  BY CountType
<1>5. /\ search \in Nat /\ endRowSize \in Nat /\ rowSize \in Nat
      /\ totalRowSize \in Nat \cup {Unknown}
      /\ \A q \in pending : q.start \in Nat /\ q.size \in Nat
  BY NumbersAreNat DEF Typed, ListTypeOK
<1> QED
  BY <1>1, <1>3, <1>4, <1>5, LenProperties

\* After a request, what has to be reached had to be reached before.
LEMMA AskingReaches ==
  ASSUME Typed, Window, Unless({"rush", "double"}), Retrieve \/ More, NEW n, Reached(n)'
  PROVE  Reached(n) /\ More
<1>1. "rush" \notin faults /\ "double" \notin faults
  BY DEF Unless
<1>2. CASE Retrieve
  <2>1. totalRowSize' = Unknown
    BY <1>2, RetrieveAsks
  <2> QED
    BY <2>1 DEF Reached
<1>3. CASE More
  <2>1. pending = {} /\ button /\ totalRowSize' = totalRowSize /\ search > 0
    BY <1>1, <1>3, MoreAsks
  <2>2. PICK r : NextPage(r)
    BY <1>3, MoreAsks
  <2>3. pending' = {r}
    BY <2>1, <2>2 DEF NextPage
  <2>4. totalRowSize # Unknown /\ n = r.start
    BY <2>1, <2>3 DEF Reached
  <2>5. totalRowSize # 0
    BY <2>1, <2>4, Basics DEF Window, WindowFits
  <2>6. r.start = endRowSize
    BY <2>2, <2>4, <2>5 DEF NextPage
  <2> QED
    BY <1>3, <2>1, <2>4, <2>6 DEF Reached
<1> QED
  BY <1>2, <1>3

\* The answer to the only request: whose rows, how far, and what it leaves to reach.
LEMMA OnlyAnswer ==
  ASSUME Typed, Window, Unless({"rush", "double"}), NEW q \in pending, Answer(q)
  PROVE  /\ pending' = {} /\ count' = count /\ counts[q.search] = count
         /\ totalCount' = totalCount /\ told[q.search] = totalCount
         /\ search > 0 /\ q.start <= endRowSize
         /\ Kept(q) > 0 => totalRowSize # Unknown /\ Kept(q) = Len(rows)
         /\ From(q) \in Nat /\ Until(q) \in Nat /\ Until(q) <= count
         /\ From(q) <= q.start
         /\ Len(Found(q)) = IF Until(q) > From(q) THEN Until(q) - From(q) ELSE 0
         /\ endRowSize <= Until(q) \/ Until(q) = count
         /\ \A n : Reached(n)' => n = endRowSize /\ Len(Found(q)) # 0
                                  /\ endRowSize < totalCount
<1>1. Asks(q) /\ OneUnderWay /\ WindowFits
  BY DEF Window
<1>2. /\ q.search = search /\ counts[q.search] = count /\ count' = count /\ search > 0
      /\ told[q.search] = totalCount /\ totalCount' = totalCount
  BY <1>1, CountType, AnswerLeaves DEF Asks, count, totalCount
<1>3. pending' = {}
  BY <1>1, AnswerLeaves DEF OneUnderWay
<1>4. q.start <= endRowSize
  BY <1>1, Basics DEF Asks, Least
<1>5. Kept(q) > 0 => totalRowSize # Unknown /\ Kept(q) = Len(rows)
  BY <1>1, Basics DEF Kept, Asks
<1>6. From(q) <= q.start
  BY Basics DEF From
<1>7. endRowSize <= Until(q) \/ Until(q) = count
  BY <1>1, <1>2, Basics DEF Until, Asks, Least
<1>8. ASSUME NEW n, Reached(n)'
      PROVE  n = endRowSize /\ Len(Found(q)) # 0 /\ endRowSize < totalCount
  <2>1. button' /\ n = endRowSize'
    BY <1>3, <1>8 DEF Reached
  <2>2. totalRowSize' # 0 /\ endRowSize < totalRowSize'
    BY <2>1, AnswerLeaves
  <2> QED
    BY <1>2, <2>1, <2>2, AnswerLeaves
<1>9. /\ From(q) \in Nat /\ Until(q) \in Nat /\ Until(q) <= count
      /\ Len(Found(q)) = IF Until(q) > From(q) THEN Until(q) - From(q) ELSE 0
  BY <1>2, FoundRows DEF Typed
<1> QED
  BY <1>2, <1>3, <1>4, <1>5, <1>6, <1>7, <1>8, <1>9

\* The row at a place of the table after an answer.
LEMMA RowAfter ==
  ASSUME Typed, Window, Unless({"rush", "double"}), NEW q \in pending, Answer(q),
         NEW i \in 1 .. Len(rows')
  PROVE  /\ i <= Kept(q) => i \in 1 .. Len(rows) /\ rows'[i] = rows[i]
         /\ i > Kept(q) =>
              /\ i - Kept(q) \in 1 .. Len(Found(q))
              /\ rows'[i].row = count - From(q) - (i - Kept(q)) + 1
<1>1. Len(rows) \in Nat /\ Len(Found(q)) \in Nat /\ count \in Nat
  BY Basics, OnlyAnswer
<1>2. /\ Kept(q) \in Nat /\ Kept(q) <= Len(rows) /\ Len(rows') = Kept(q) + Len(Found(q))
      /\ \A j \in 1 .. Kept(q) : rows'[j] = rows[j]
      /\ \A j \in 1 .. Len(Found(q)) : rows'[Kept(q) + j].row = counts[q.search] - From(q) - j + 1
  BY AnswerLeaves
<1>3. counts[q.search] = count
  BY OnlyAnswer
<1>4. CASE i <= Kept(q)
  BY <1>1, <1>2, <1>4
<1>5. CASE i > Kept(q)
  <2>1. i - Kept(q) \in 1 .. Len(Found(q)) /\ Kept(q) + (i - Kept(q)) = i
    BY <1>1, <1>2, <1>5
  <2>2. rows'[Kept(q) + (i - Kept(q))].row = count - From(q) - (i - Kept(q)) + 1
    BY <1>2, <1>3, <2>1
  <2> QED
    BY <1>5, <1>2, <2>1, <2>2
<1> QED
  BY <1>1, <1>2, <1>4, <1>5

LEMMA NoneOfAllStep ==
  ASSUME Typed, NoneOfAll, [ListNext]_listVars
  PROVE  NoneOfAll'
<1>1. CASE Sizes \/ Exports \/ Grow \/ UNCHANGED listVars
  <2>1. UNCHANGED <<pending, whole>>
    BY <1>1, OthersLeave
  <2> QED
    BY <2>1 DEF NoneOfAll
<1>2. CASE Retrieve \/ More
  <2>1. ~ whole' => ~ whole /\ ~ download
    BY <1>2, RetrieveAsks, MoreAsks
  <2>2. \E r : pending' = pending \cup {r} /\ r.all = download
    BY <1>2, RetrieveAsks, MoreAsks DEF FirstPage, NextPage
  <2> QED
    BY <2>1, <2>2 DEF NoneOfAll
<1>3. ASSUME NEW q \in pending, Answer(q) \/ Failed(q) PROVE NoneOfAll'
  BY <1>3 DEF Answer, Failed, NoneOfAll
<1> QED
  BY <1>1, <1>2, <1>3 DEF ListNext, Sizes, Exports

\* Pages of all rows stay asked for: what was never asked for was not a step ago.
LEMMA WholeStays == ASSUME Typed, [ListNext]_listVars, ~ whole' PROVE ~ whole
<1>1. CASE Sizes \/ Exports \/ Grow \/ UNCHANGED listVars
  BY <1>1, OthersLeave
<1>2. CASE Retrieve \/ More
  BY <1>2, RetrieveAsks, MoreAsks
<1>3. ASSUME NEW q \in pending, Answer(q) \/ Failed(q) PROVE ~ whole
  BY <1>3 DEF Answer, Failed
<1> QED
  BY <1>1, <1>2, <1>3 DEF ListNext, Sizes, Exports

LEMMA TotalsAgreeStep ==
  ASSUME Typed, TotalsAgree, [ListNext]_listVars
  PROVE  TotalsAgree'
<1>0. /\ counts \in Seq(0 .. MaxRows) /\ Len(counts) = search /\ search \in Nat
      /\ told \in Seq(Nat) /\ Len(told) = search
  BY NumbersAreNat DEF Typed, ListTypeOK
<1>1. SUFFICES ASSUME Counted, NEW s \in 1 .. search' PROVE told'[s] = counts'[s]
  BY FaultsStay DEF TotalsAgree, Counted
<1>2. \A i \in 1 .. search : told[i] = counts[i]
  BY <1>1 DEF TotalsAgree
<1>3. CASE UNCHANGED <<search, counts, told>>
  BY <1>1, <1>2, <1>3
<1>4. CASE Retrieve
  <2>1. PICK n \in 0 .. MaxRows : /\ counts' = Append(counts, n)
                                  /\ \E t \in Totals(n) : told' = Append(told, t)
    BY <1>4 DEF Retrieve
  <2>2. told' = Append(told, n) /\ search' = search + 1
    BY <1>1, <1>4, <2>1 DEF Counted, Totals, Retrieve
  <2>3. CASE s = search + 1
    BY <1>0, <2>1, <2>2, <2>3, AppendProperties, NumbersAreNat
  <2>4. CASE s # search + 1
    <3>1. s \in 1 .. search
      BY <1>0, <1>1, <2>2, <2>4
    <3> QED
      BY <1>0, <1>2, <2>1, <2>2, <3>1, AppendProperties, NumbersAreNat
  <2> QED
    BY <2>3, <2>4
<1>5. CASE Grow
  <2>1. /\ counts' = [counts EXCEPT ![search] = @ + 1]
        /\ told' = [told EXCEPT ![search] = @ + 1] /\ search' = search
    BY <1>5 DEF Grow
  <2>2. s \in DOMAIN counts /\ s \in DOMAIN told
    BY <1>0, <1>1, <2>1, LenProperties
  <2> QED
    BY <1>1, <1>2, <2>1, <2>2
<1>6. UNCHANGED <<search, counts, told>> \/ Retrieve \/ Grow
  BY SizesLeave, ExportsLeave DEF ListNext, Sizes, Exports, More, Answer, Failed, listVars, server
<1> QED
  BY <1>3, <1>4, <1>5, <1>6

-----------------------------------------------------------------------------
(* No row is shown twice.                                                   *)

LEMMA DownwardsStep ==
  Typed /\ Window /\ NoneOfAll /\ Downwards /\ [ListNext]_listVars => Downwards'
<1> DEFINE Inv == GoDown /\ TotalIsTold /\ (\A n \in Nat : Reached(n) => AllAbove(n))
<1> SUFFICES ASSUME Typed, Window, NoneOfAll, Inv, Unless({"rush", "double", "grow"}),
                    [ListNext]_listVars, ~ whole, ~ whole'
             PROVE  Inv'
  BY FaultsStay, WholeStays DEF Downwards, Unless
<1>0. Unless({"rush", "double"}) /\ "grow" \notin faults
  BY DEF Unless
<1>1. CASE Sizes \/ Exports \/ Grow \/ UNCHANGED listVars
  <2>1. /\ UNCHANGED <<search, endRowSize, totalRowSize, button, pending, rows>>
        /\ count' = count /\ totalCount' = totalCount
    BY <1>0, <1>1, OthersLeave
  <2> QED
    BY <2>1 DEF GoDown, TotalIsTold, Reached, AllAbove
<1>2. CASE Retrieve \/ More
  <2>1. rows' = rows
    BY <1>2, RetrieveAsks, MoreAsks
  <2>2. TotalIsTold'
    BY <1>2, RetrieveAsks, MoreAsks DEF TotalIsTold, totalCount
  <2>3. ASSUME NEW n \in Nat, Reached(n)' PROVE AllAbove(n)'
    <3>1. Reached(n) /\ More
      BY <1>0, <1>2, <2>3, AskingReaches
    <3>2. count' = count
      BY <3>1, MoreAsks DEF count
    <3> QED
      BY <2>1, <3>1, <3>2 DEF AllAbove
  <2> QED
    BY <2>1, <2>2, <2>3 DEF GoDown
<1>3. ASSUME NEW q \in pending, Answer(q) PROVE Inv'
  <2>1. /\ pending' = {} /\ count' = count /\ counts[q.search] = count
        /\ totalCount' = totalCount /\ told[q.search] = totalCount
        /\ q.start <= endRowSize /\ From(q) \in Nat /\ Until(q) \in Nat
        /\ Len(Found(q)) = IF Until(q) > From(q) THEN Until(q) - From(q) ELSE 0
    BY <1>0, <1>3, OnlyAnswer
  <2>2. From(q) = q.start
    BY DEF NoneOfAll, From
  <2>3. Kept(q) \in Nat /\ count \in Nat /\ endRowSize \in Nat /\ q.start \in Nat
    BY <1>3, AnswerLeaves, Basics
  <2>4. DOMAIN rows' = 1 .. Len(rows') /\ Len(rows') \in Nat
    BY <1>3, AnswerLeaves, LenProperties
  <2>5. ASSUME NEW i \in 1 .. Len(rows'), i <= Kept(q)
        PROVE  /\ i \in 1 .. Len(rows) /\ rows'[i] = rows[i] /\ rows[i].row \in Int
               /\ rows[i].row > count - q.start
    <3>1. i \in 1 .. Len(rows) /\ rows'[i] = rows[i]
      BY <1>0, <1>3, <2>5, RowAfter
    <3>2. totalRowSize # Unknown
      BY <1>0, <1>3, <2>3, <2>5, OnlyAnswer
    <3>3. AllAbove(q.start)
      BY <2>3, <3>2 DEF Reached
    <3> QED
      BY <3>1, <3>3, Basics DEF AllAbove
  <2>6. ASSUME NEW i \in 1 .. Len(rows'), i > Kept(q)
        PROVE  /\ i - Kept(q) \in 1 .. Len(Found(q))
               /\ rows'[i].row = count - q.start - (i - Kept(q)) + 1
    BY <1>0, <1>3, <2>2, <2>6, RowAfter
  <2>7. ASSUME NEW i \in 1 .. Len(rows'), NEW j \in 1 .. Len(rows'), i < j
        PROVE  rows'[i].row > rows'[j].row
    <3>1. CASE j <= Kept(q)
      <4>1. i <= Kept(q)
        BY <2>3, <2>4, <2>7, <3>1
      <4>2. /\ i \in DOMAIN rows /\ j \in DOMAIN rows
            /\ rows'[i] = rows[i] /\ rows'[j] = rows[j]
        BY <2>5, <3>1, <4>1, Basics
      <4> QED
        BY <2>7, <4>2 DEF GoDown
    <3>2. CASE i <= Kept(q) /\ j > Kept(q)
      <4>1. rows'[i].row \in Int /\ rows'[i].row > count - q.start
        BY <2>5, <3>2
      <4>2. rows'[j].row <= count - q.start
        BY <2>3, <2>6, <3>2
      <4>3. rows'[j].row \in Int
        BY <2>3, <2>6, <3>2
      <4> QED
        BY <2>3, <4>1, <4>2, <4>3
    <3>3. CASE i > Kept(q)
      <4>1. j > Kept(q) /\ i \in Nat /\ j \in Nat
        BY <2>3, <2>4, <2>7, <3>3
      <4>2. /\ rows'[i].row = count - q.start - (i - Kept(q)) + 1
            /\ rows'[j].row = count - q.start - (j - Kept(q)) + 1
        BY <2>6, <3>3, <4>1
      <4> QED
        BY <2>3, <2>7, <4>1, <4>2
    <3> QED
      BY <2>3, <2>7, <3>1, <3>2, <3>3
  <2>8. ASSUME NEW n \in Nat, Reached(n)', NEW i \in 1 .. Len(rows')
        PROVE  rows'[i].row > count - n
    <3>1. n = endRowSize /\ Len(Found(q)) # 0 /\ endRowSize < totalCount
      BY <1>0, <1>3, <2>8, OnlyAnswer
    <3>2. CASE i <= Kept(q)
      BY <2>1, <2>3, <2>5, <3>1, <3>2
    <3>3. CASE i > Kept(q)
      <4>1. Until(q) <= endRowSize
        <5>1. Asks(q) /\ TotalIsTold /\ ~ q.all
          BY <1>0 DEF Window, NoneOfAll
        <5>3. totalRowSize # Unknown => totalRowSize = totalCount
          BY <2>3, <5>1, Basics DEF Asks, TotalIsTold
        <5>2. Until(q) = Least(q.start + q.size, count)
          BY <2>1, <5>1 DEF Until
        <5> QED
          BY <2>3, <3>1, <5>1, <5>2, <5>3, Basics DEF Asks, Least
      <4> QED
        BY <2>1, <2>2, <2>3, <2>6, <3>1, <3>3, <4>1
    <3> QED
      BY <2>3, <3>2, <3>3
  <2>9. TotalIsTold'
    BY <1>3, <2>1, AnswerLeaves DEF TotalIsTold
  <2> QED
    BY <2>1, <2>4, <2>7, <2>8, <2>9 DEF GoDown, AllAbove
<1>4. ASSUME NEW q \in pending, Failed(q) PROVE Inv'
  <2>1. /\ pending' = {} /\ Asks(q)
        /\ UNCHANGED <<search, counts, told, endRowSize, totalRowSize, button, rows>>
    BY <1>0, <1>4 DEF Failed, server, paging, Window, OneUnderWay
  <2>2. count' = count /\ totalCount' = totalCount
    BY <2>1 DEF count, totalCount
  <2>3. ASSUME NEW n \in Nat, Reached(n)' PROVE AllAbove(n)
    <3>1. totalRowSize # Unknown /\ n = endRowSize
      BY <2>1, <2>3 DEF Reached
    <3>2. AllAbove(q.start)
      BY <3>1, Basics DEF Reached
    <3>3. q.start <= endRowSize
      BY <2>1, <3>1, Basics DEF Asks, Least
    <3> QED
      BY <3>1, <3>2, <3>3, Basics DEF AllAbove
  <2> QED
    BY <2>1, <2>2, <2>3 DEF GoDown, TotalIsTold, AllAbove
<1> QED
  BY <1>1, <1>2, <1>3, <1>4 DEF ListNext, Sizes, Exports

\* No row of the log is shown twice, with any page sizes, with pages and exports that
\* fail and with any total, as long as no page was asked for with isDownload 'Y'.
THEOREM NoRowShownTwice == ListSpec => []NoRowTwice
<1>1. ListInit => Downwards /\ NoneOfAll
  BY EmptySeq DEF ListInit, Downwards, GoDown, TotalIsTold, NoneOfAll, Reached
<1>2. Typed /\ Downwards => NoRowTwice
  <2> SUFFICES ASSUME Typed, Downwards, Unless({"rush", "double", "grow"}), ~ whole
               PROVE  IsInjective(rows)
    BY DEF NoRowTwice
  <2>1. /\ DOMAIN rows = 1 .. Len(rows) /\ Len(rows) \in Nat
        /\ \A i \in 1 .. Len(rows) : rows[i].row \in Int
    BY Basics
  <2>2. \A i, j \in 1 .. Len(rows) : i < j => rows[i].row > rows[j].row
    BY <2>1 DEF Downwards, GoDown
  <2>3. ASSUME NEW i \in 1 .. Len(rows), NEW j \in 1 .. Len(rows), rows[i] = rows[j]
        PROVE  i = j
    BY <2>1, <2>2, <2>3
  <2> QED
    BY <2>1, <2>3 DEF IsInjective
<1>3. ListInit => Typed
  BY TypedInit
<1>4. Typed /\ NoneOfAll /\ [ListNext]_listVars => NoneOfAll'
  BY NoneOfAllStep
<1> QED
  BY <1>1, <1>2, <1>3, <1>4, TypedStep, WindowInit, WindowStep, DownwardsStep, PTL DEF ListSpec

-----------------------------------------------------------------------------
(* No row is skipped.                                                       *)

\* A row that is written lands above, below or between two rows of the table, which are
\* of one search: between these there are then the late rows there were, moved, and it.
LEMMA GrowLeavesNoGap ==
  ASSUME Typed, WindowFits, NoGap, Grow
  PROVE  NoGap'
<1>1. PICK k \in 1 .. count + 1 :
        /\ kind = "audit" => k = count + 1
        /\ rows' = [i \in DOMAIN rows |-> Moved(rows[i], k)]
        /\ late' = {Moved(r, k) : r \in late} \cup {[search |-> search, row |-> k]}
  BY GrowMoves
<1>2. /\ search > 0 /\ count = counts[search] /\ count \in Nat /\ k \in Int /\ k >= 1
      /\ kind' = kind /\ kind \in {"log", "audit"}
  BY <1>1, CountType, GrowMoves DEF Typed, ListTypeOK
<1>3. /\ rows \in Seq(Row) /\ DOMAIN rows = 1 .. Len(rows) /\ Len(rows) \in Nat
      /\ Len(rows') = Len(rows)
  BY OthersLeave, LenProperties DEF Typed, ListTypeOK, Row
<1>4. SUFFICES ASSUME NEW i \in 1 .. Len(rows) - 1, NEW n \in Between(i)'
               PROVE  LateRow(rows[i].search, n)'
  BY <1>3 DEF NoGap
<1> DEFINE j == i + 1
           s == rows[i].search
           a == rows[j].row
           b == rows[i].row
<1>5. i \in 1 .. Len(rows) /\ j \in 1 .. Len(rows)
  BY <1>3
<1>6. /\ rows[i] \in Row /\ rows[j] \in Row /\ a \in Nat /\ b \in Nat
      /\ rows[j].search = s /\ b <= counts[s] /\ n \in Int
  <2>1. rows[i] \in Row /\ rows[j] \in Row
    BY <1>3, <1>5, ElementOfSeq
  <2>2. a \in Nat /\ b \in Nat
    BY <2>1, NumbersAreNat DEF Row
  <2>3. rows[j].search = s
    BY <1>3, <1>5 DEF WindowFits
  <2>4. Numbered(rows[i])
    BY <1>5 DEF Typed
  <2>5. n \in Int
    BY DEF Between
  <2> QED
    BY <2>1, <2>2, <2>3, <2>4, <2>5 DEF Numbered
<1>7. /\ rows'[i].search = s
      /\ rows'[i].row = IF s = search /\ b >= k THEN b + 1 ELSE b
      /\ rows'[j].row = IF s = search /\ a >= k THEN a + 1 ELSE a
  BY <1>1, <1>3, <1>5, <1>6 DEF Moved, Row
<1>8. rows'[j].row < n /\ n < rows'[i].row
  BY <1>3, <1>6, <1>7 DEF Between
<1>9. \A m \in Int : a < m /\ m < b => LateRow(s, m)
  <2>1. ASSUME NEW m \in Int, a < m, m < b PROVE LateRow(s, m)
    <3>1. m \in Between(i)
      BY <1>6, <2>1 DEF Between
    <3> QED
      BY <3>1 DEF NoGap
  <2> QED
    BY <2>1
<1>10. \A m : LateRow(s, m) => kind = "log" /\ Moved([search |-> s, row |-> m], k) \in late'
  BY <1>1 DEF LateRow
<1> HIDE DEF j, s, a, b
<1>11. kind' = "log" /\ [search |-> s, row |-> n] \in late'
  <2>1. CASE s # search \/ n < k
    <3>1. a < n /\ n < b
      BY <1>2, <1>6, <1>7, <1>8, <2>1
    <3>2. Moved([search |-> s, row |-> n], k) = [search |-> s, row |-> n]
      BY <1>2, <1>6, <2>1 DEF Moved
    <3> QED
      BY <1>2, <1>6, <1>9, <1>10, <3>1, <3>2
  <2>2. CASE s = search /\ n = k
    <3>1. b >= k
      BY <1>2, <1>6, <1>7, <1>8, <2>2
    <3>2. kind = "log"
      BY <1>1, <1>2, <1>6, <2>2, <3>1
    <3> QED
      BY <1>1, <1>2, <2>2, <3>2
  <2>3. CASE s = search /\ n > k
    <3>1. a < n - 1 /\ n - 1 < b /\ n - 1 \in Int /\ n - 1 >= k
      BY <1>2, <1>6, <1>7, <1>8, <2>3
    <3>2. Moved([search |-> s, row |-> n - 1], k) = [search |-> s, row |-> n]
      <4>1. Moved([search |-> s, row |-> n - 1], k) = [search |-> s, row |-> (n - 1) + 1]
        BY <2>3, <3>1 DEF Moved
      <4> QED
        BY <1>6, <4>1
    <3> QED
      BY <1>2, <1>9, <1>10, <3>1, <3>2
  <2> QED
    BY <1>2, <1>6, <2>1, <2>2, <2>3
<1> QED
  BY <1>7, <1>11 DEF LateRow, s

\* The last row shown moves no further than the rows there are.
LEMMA GrowLeavesDownTo ==
  ASSUME Typed, Grow, NEW n \in Nat, DownTo(n)
  PROVE  DownTo(n)'
<1>1. PICK k \in 1 .. count + 1 :
        /\ kind = "audit" => k = count + 1
        /\ rows' = [i \in DOMAIN rows |-> Moved(rows[i], k)]
  BY GrowMoves
<1>2. /\ search > 0 /\ count = counts[search] /\ count \in Nat /\ k \in Int /\ k >= 1
      /\ kind' = kind /\ search' = search /\ counts' = [counts EXCEPT ![search] = @ + 1]
  BY <1>1, CountType, GrowMoves
<1>3. /\ rows \in Seq(Row) /\ DOMAIN rows = 1 .. Len(rows) /\ Len(rows) \in Nat
      /\ rows' \in Seq(Row) /\ Len(rows') = Len(rows)
  BY OthersLeave, LenProperties DEF Typed, ListTypeOK, Row
<1>4. count' = count + 1
  <2>1. search \in 1 .. Len(counts) /\ counts \in Seq(0 .. MaxRows)
    BY <1>2, NumbersAreNat DEF Typed, ListTypeOK
  <2> QED
    BY <1>2, <2>1 DEF count
<1>5. SUFFICES ASSUME rows # <<>>
               PROVE  \/ Last(rows').row <= count' - n + 1
                      \/ kind = "audit" /\ Last(rows').row = 1
  BY <1>2, <1>3, EmptySeq DEF DownTo
<1> DEFINE l == Len(rows)
           b == rows[l].row
<1>6. l \in 1 .. Len(rows) /\ Last(rows) = rows[l] /\ Last(rows') = rows'[l]
  BY <1>3, <1>5, EmptySeq DEF Last
<1>7. rows[l] \in Row /\ b \in Nat /\ (rows[l].search = search => b <= count)
  <2>1. rows[l] \in Row
    BY <1>3, <1>6, ElementOfSeq
  <2>2. b \in Nat
    BY <2>1, NumbersAreNat DEF Row
  <2>3. Numbered(rows[l])
    BY <1>6 DEF Typed
  <2> QED
    BY <1>2, <2>1, <2>2, <2>3 DEF Numbered
<1>8. rows'[l].row = IF rows[l].search = search /\ b >= k THEN b + 1 ELSE b
  BY <1>1, <1>3, <1>6, <1>7 DEF Moved, Row
<1>9. b <= count - n + 1 \/ (kind = "audit" /\ b = 1)
  BY <1>5, <1>6 DEF DownTo
<1> HIDE DEF l, b
<1>10. CASE b <= count - n + 1
  BY <1>2, <1>4, <1>6, <1>7, <1>8, <1>10
<1>11. CASE kind = "audit" /\ b = 1
  BY <1>1, <1>2, <1>6, <1>7, <1>8, <1>11
<1> QED
  BY <1>9, <1>10, <1>11

LEMMA GaplessStep ==
  Typed /\ Window /\ TotalsAgree /\ Gapless /\ [ListNext]_listVars => Gapless'
<1> DEFINE Inv == NoGap /\ (\A n \in Nat : Reached(n) => DownTo(n))
<1> SUFFICES ASSUME Typed, Window, TotalsAgree, Inv, Unless({"rush", "double", "fail"}),
                    [ListNext]_listVars
             PROVE  Inv'
  BY FaultsStay DEF Gapless, Unless
<1>0. Unless({"rush", "double"}) /\ "fail" \notin faults
  BY DEF Unless
<1>1. CASE Sizes \/ Exports \/ Grow \/ UNCHANGED listVars
  <2>1. UNCHANGED <<kind, search, endRowSize, totalRowSize, button, pending>>
    BY <1>1, OthersLeave
  <2>2. \A n \in Nat : Reached(n)' => Reached(n)
    BY <2>1 DEF Reached
  <2>3. CASE Grow
    <3>1. WindowFits
      BY <1>0 DEF Window
    <3> QED
      BY <2>2, <2>3, <3>1, GrowLeavesNoGap, GrowLeavesDownTo
  <2>4. CASE UNCHANGED <<rows, late, counts, told>>
    BY <2>1, <2>2, <2>4 DEF NoGap, Between, LateRow, DownTo, count, Last
  <2> QED
    BY <1>1, <2>3, <2>4, OthersLeave
<1>2. CASE Retrieve \/ More
  <2>1. rows' = rows /\ late' = late /\ kind' = kind
    BY <1>2, RetrieveAsks, MoreAsks
  <2>2. ASSUME NEW n \in Nat, Reached(n)' PROVE DownTo(n)'
    <3>1. Reached(n) /\ More
      BY <1>0, <1>2, <2>2, AskingReaches
    <3>2. count' = count
      BY <3>1, MoreAsks DEF count
    <3> QED
      BY <2>1, <3>1, <3>2 DEF DownTo, Last
  <2> QED
    BY <2>1, <2>2 DEF NoGap, Between, LateRow
<1>3. ASSUME NEW q \in pending, Answer(q) PROVE Inv'
  <2>1. /\ count' = count /\ From(q) \in Nat /\ Until(q) \in Nat /\ From(q) <= q.start
        /\ Len(Found(q)) = IF Until(q) > From(q) THEN Until(q) - From(q) ELSE 0
        /\ Kept(q) > 0 => totalRowSize # Unknown /\ Kept(q) = Len(rows)
        /\ Until(q) <= count
    BY <1>0, <1>3, OnlyAnswer
  <2>2. /\ Kept(q) \in Nat /\ count \in Nat /\ endRowSize \in Nat /\ q.start \in Nat
        /\ Len(rows) \in Nat
    BY <1>3, AnswerLeaves, Basics
  <2>3. Len(rows') = Kept(q) + Len(Found(q)) /\ Len(rows') \in Nat
    BY <1>3, AnswerLeaves, LenProperties
  <2>4. ASSUME NEW i \in 1 .. Len(rows'), i <= Kept(q)
        PROVE  i \in 1 .. Len(rows) /\ rows'[i] = rows[i] /\ rows[i].row \in Int
    BY <1>0, <1>3, <2>4, RowAfter, Basics
  <2>5. ASSUME NEW i \in 1 .. Len(rows'), i > Kept(q)
        PROVE  rows'[i].row = count - From(q) - (i - Kept(q)) + 1
    BY <1>0, <1>3, <2>5, RowAfter
  <2>6. kind' = kind /\ late' = late
    BY <1>3, AnswerLeaves
  <2>7. ASSUME NEW i \in 1 .. Len(rows') - 1, NEW n \in Between(i)'
        PROVE  kind' = "log" /\ [search |-> rows'[i].search, row |-> n] \in late'
    <3> DEFINE j == i + 1
    <3>0. i \in 1 .. Len(rows') /\ j \in 1 .. Len(rows') /\ i \in Nat /\ j = i + 1 /\ j \in Nat
      BY <2>3, <2>7
    <3>1. n \in rows'[j].row + 1 .. rows'[i].row - 1
      BY <2>7 DEF Between
    <3> HIDE DEF j
    <3>2. CASE j <= Kept(q)
      <4>1. i <= Kept(q)
        BY <2>2, <3>0, <3>2
      <4>2. /\ rows'[i] = rows[i] /\ rows'[j] = rows[j] /\ j \in 1 .. Len(rows)
        BY <2>4, <3>0, <3>2, <4>1
      <4>3. i \in 1 .. Len(rows) - 1
        BY <2>2, <3>0, <4>2
      <4>4. n \in Between(i)
        BY <3>0, <3>1, <4>2 DEF Between
      <4> QED
        <5>1. LateRow(rows[i].search, n)
          BY <4>3, <4>4 DEF NoGap
        <5> QED
          BY <2>6, <4>2, <5>1 DEF LateRow
    <3>3. CASE i = Kept(q)
      <4>1. rows'[i] = rows[i] /\ rows[i].row \in Int
        BY <2>2, <2>4, <3>0, <3>3
      <4>2. totalRowSize # Unknown /\ i = Len(rows)
        BY <2>1, <3>0, <3>3
      <4>3. DownTo(q.start) /\ rows # <<>>
        BY <2>2, <3>0, <4>2, EmptySeq DEF Reached
      <4>4. rows[i].row <= count - q.start + 1 \/ rows[i].row = 1
        BY <4>2, <4>3 DEF DownTo, Last
      <4>5. j > Kept(q)
        BY <2>2, <3>0, <3>3
      <4>6. rows'[j].row = count - From(q) - (j - Kept(q)) + 1
        BY <2>5, <3>0, <4>5
      <4>7. rows'[j].row = count - From(q)
        BY <2>1, <2>2, <3>0, <3>3, <4>6
      <4>8. Len(Found(q)) > 0
        BY <2>1, <2>2, <2>3, <3>0, <3>3
      <4>9. count - From(q) >= 1 /\ count - From(q) >= count - q.start
        BY <2>1, <2>2, <4>8
      <4>10. rows[i].row - 1 <= count - From(q)
        BY <2>1, <2>2, <4>1, <4>4, <4>9
      <4> QED
        BY <2>1, <2>2, <3>1, <4>1, <4>7, <4>10
    <3>4. CASE i > Kept(q)
      <4>1. j > Kept(q)
        BY <2>2, <3>0, <3>4
      <4>2. /\ rows'[i].row = count - From(q) - (i - Kept(q)) + 1
            /\ rows'[j].row = count - From(q) - (j - Kept(q)) + 1
        BY <2>5, <3>0, <3>4, <4>1
      <4>0. count \in Int /\ From(q) \in Int /\ Kept(q) \in Int /\ i \in Int /\ j = i + 1
        BY <2>1, <2>2, <3>0
      <4>3. rows'[j].row = rows'[i].row - 1
        BY <4>0, <4>2
      <4>4. rows'[i].row \in Int
        BY <4>0, <4>2
      <4> QED
        BY <3>1, <4>3, <4>4
    <3> QED
      BY <2>2, <3>0, <3>2, <3>3, <3>4
  <2>8. ASSUME NEW n \in Nat, Reached(n)' PROVE DownTo(n)'
    <3>1. n = endRowSize /\ Len(Found(q)) # 0 /\ endRowSize < totalCount
      BY <1>0, <1>3, <2>8, OnlyAnswer
    <3>2. endRowSize <= Until(q) \/ Until(q) = count
      BY <1>0, <1>3, OnlyAnswer
    <3>3. Len(rows') \in 1 .. Len(rows') /\ Len(rows') > Kept(q)
      BY <2>1, <2>2, <2>3, <3>1
    <3>4. Last(rows').row = count - From(q) - (Len(rows') - Kept(q)) + 1
      BY <2>5, <3>3 DEF Last
    <3>5. Last(rows').row = count - Until(q) + 1
      BY <2>1, <2>2, <2>3, <3>1, <3>4
    <3>6. kind = "log" => totalCount = count
      <4>1. search \in 1 .. search /\ count = counts[search] /\ totalCount = told[search]
        BY <1>0, <1>3, OnlyAnswer, Basics, CountType
      <4> QED
        BY <4>1 DEF TotalsAgree, Counted
    <3>7. CASE kind = "log"
      BY <2>1, <2>2, <3>1, <3>2, <3>5, <3>6, <3>7 DEF DownTo
    <3>8. CASE kind = "audit"
      BY <2>1, <2>2, <2>6, <3>1, <3>2, <3>5, <3>8 DEF DownTo
    <3> QED
      BY <3>7, <3>8 DEF Typed, ListTypeOK
  <2> QED
    BY <2>7, <2>8 DEF NoGap, LateRow
<1>4. ASSUME NEW q \in pending, Failed(q) PROVE FALSE
  BY <1>0, <1>4 DEF Failed
<1> QED
  BY <1>1, <1>2, <1>3, <1>4 DEF ListNext, Sizes, Exports

\* Reading down the table no row is skipped but late ones of the original log, while rows
\* are written and exported, after a failed export and with any total.
THEOREM NoRowSkipped == ListSpec => []NothingSkipped
<1>1. ListInit => Gapless /\ TotalsAgree
  BY DEF ListInit, Gapless, NoGap, Reached, TotalsAgree
<1>2. Gapless => NothingSkipped
  BY DEF Gapless, NoGap, NothingSkipped, Between, LateRow
<1>3. Typed /\ TotalsAgree /\ [ListNext]_listVars => TotalsAgree'
  BY TotalsAgreeStep
<1> QED
  BY <1>1, <1>2, <1>3, TypedInit, TypedStep, WindowInit, WindowStep, GaplessStep, PTL
     DEF ListSpec

-----------------------------------------------------------------------------
(* When nothing goes wrong the table shows the window.                      *)

LEMMA ShowingStep ==
  Typed /\ Window /\ NoneOfAll /\ TotalsAgree /\ Showing /\ [ListNext]_listVars => Showing'
<1> DEFINE Settled == (pending = {} /\ search > 0) =>
                        /\ totalRowSize \in {0, totalCount} /\ ButtonFits /\ NoneLeft
                        /\ Counted => totalRowSize = count
                        /\ (button \/ Counted) => Exactly(Least(endRowSize, count))
           OnTheWay == \A q \in pending : q.size > 0 /\ (totalRowSize # Unknown =>
                         totalRowSize = totalCount /\ Exactly(Least(q.start, count)))
           Inv == Consecutive /\ Settled /\ OnTheWay
<1> SUFFICES ASSUME Typed, Window, NoneOfAll, TotalsAgree, Inv, ~ whole,
                    Unless({"rush", "double", "fail", "grow"}), [ListNext]_listVars
             PROVE  Inv'
  BY FaultsStay, WholeStays DEF Showing, Unless
<1>0. /\ Unless({"rush", "double"}) /\ kind' = kind /\ faults' = faults
      /\ "rush" \notin faults /\ "double" \notin faults /\ "fail" \notin faults
      /\ "grow" \notin faults
  BY FaultsStay DEF Unless
<1>1. CASE Sizes \/ Exports \/ Grow \/ UNCHANGED listVars
  <2>1. /\ UNCHANGED <<search, endRowSize, totalRowSize, button, pending, rows, kind>>
        /\ count' = count /\ totalCount' = totalCount
    BY <1>0, <1>1, OthersLeave
  <2>2. UNCHANGED <<ButtonFits, NoneLeft, Counted>>
    BY <1>0, <2>1 DEF ButtonFits, NoneLeft, Counted, Last, Least
  <2>3. Exactly(Least(endRowSize, count))' <=> Exactly(Least(endRowSize, count))
    BY <2>1 DEF Exactly, Last, Least
  <2>4. Settled'
    BY <2>1, <2>2, <2>3
  <2>5. OnTheWay'
    BY <2>1 DEF Exactly, Last, Least
  <2> QED
    BY <2>1, <2>4, <2>5 DEF Consecutive
<1>2. CASE Retrieve
  <2>1. /\ pending = {} /\ rows' = rows /\ totalRowSize' = Unknown
    BY <1>0, <1>2, RetrieveAsks
  <2>2. PICK r : FirstPage(r)
    BY <1>2, RetrieveAsks
  <2>3. pending' = {r} /\ r.size > 0
    BY <2>1, <2>2, NumbersAreNat DEF FirstPage
  <2> QED
    BY <2>1, <2>3 DEF Consecutive
<1>3. CASE More
  <2>1. /\ pending = {} /\ UNCHANGED <<kind, search, counts, told, rows, totalRowSize>>
        /\ search > 0 /\ button
    BY <1>0, <1>3, MoreAsks
  <2>2. /\ totalRowSize \in {0, totalCount} /\ endRowSize < totalRowSize
        /\ Exactly(Least(endRowSize, count))
    BY <2>1 DEF ButtonFits
  <2>3. PICK r : NextPage(r)
    BY <1>3, MoreAsks
  <2>4. /\ pending' = {r} /\ r.start = endRowSize /\ r.size > 0 /\ endRowSize <= endRowSize'
        /\ count' = count /\ totalCount' = totalCount /\ totalRowSize' = totalCount
        /\ endRowSize' \in Nat
    <3>1. /\ totalRowSize # 0 /\ totalRowSize # Unknown /\ totalRowSize = totalCount
          /\ endRowSize \in Nat /\ rowSize \in Nat
      BY <2>2, Basics DEF Unknown
    <3>2. count' = count /\ totalCount' = totalCount
      BY <2>1 DEF count, totalCount
    <3> QED
      BY <2>1, <2>2, <2>3, <3>1, <3>2 DEF NextPage, Least
  <2>5. Exactly(Least(r.start, count))'
    <3>1. endRowSize' <= ModelLimit => endRowSize <= ModelLimit
      BY <2>4, NumbersAreNat, Basics
    <3>2. UNCHANGED <<kind, rows>>
      BY <2>1
    <3> QED
      BY <2>2, <2>4, <3>1, <3>2 DEF Exactly, Last, Least
  <2> QED
    BY <2>1, <2>4, <2>5 DEF Consecutive
<1>4. ASSUME NEW q \in pending, Answer(q) PROVE Inv'
  <2>1. /\ pending' = {} /\ count' = count /\ counts[q.search] = count /\ search > 0
        /\ totalCount' = totalCount /\ told[q.search] = totalCount
        /\ From(q) \in Nat /\ Until(q) \in Nat /\ Until(q) <= count
        /\ Len(Found(q)) = IF Until(q) > From(q) THEN Until(q) - From(q) ELSE 0
        /\ Kept(q) > 0 => totalRowSize # Unknown /\ Kept(q) = Len(rows)
    BY <1>0, <1>4, OnlyAnswer
  <2>2. /\ Kept(q) \in Nat /\ count \in Nat /\ endRowSize \in Nat /\ q.start \in Nat
        /\ q.size \in Nat /\ Len(rows) \in Nat /\ totalCount \in Nat
        /\ totalRowSize \in Nat \cup {Unknown} /\ search \in Nat
    BY <1>4, AnswerLeaves, Basics
  <2>3. /\ Len(rows') = Kept(q) + Len(Found(q)) /\ Len(rows') \in Nat
        /\ rows' \in Seq(Row) /\ search' = search
    BY <1>4, AnswerLeaves, LenProperties
  <2>4. Asks(q) /\ ~ q.all /\ q.size > 0
    BY <1>0 DEF Window, NoneOfAll
  <2>5. From(q) = q.start /\ Until(q) = Least(q.start + q.size, count)
    BY <2>1, <2>4 DEF From, Until
  <2>6. totalRowSize # Unknown => totalRowSize = totalCount /\ Exactly(Least(q.start, count))
    OBVIOUS
  <2>7. Counted => totalCount = count
    <3>1. count = counts[search] /\ totalCount = told[search] /\ search \in 1 .. search
      BY <2>1, <2>2, CountType
    <3> QED
      BY <3>1 DEF TotalsAgree
  <2>8. /\ totalRowSize' = IF Len(Found(q)) = 0 THEN 0 ELSE totalCount
        /\ endRowSize' = IF totalRowSize' = 0 THEN 0 ELSE endRowSize
    BY <1>4, <2>1, AnswerLeaves
  <2>9. Counted' <=> Counted
    BY <1>0 DEF Counted
  <2>10. ButtonFits'
    <3>1. button' <=> (totalRowSize' # 0 /\ endRowSize < totalRowSize')
      BY <1>4, AnswerLeaves
    <3>2. (totalRowSize' # 0 /\ endRowSize < totalRowSize') <=> endRowSize' < totalRowSize'
      BY <2>2, <2>8
    <3> QED
      BY <3>1, <3>2, Zenon DEF ButtonFits
  <2>11. ASSUME NEW i \in 1 .. Len(rows'), i <= Kept(q)
         PROVE  i \in 1 .. Len(rows) /\ rows'[i] = rows[i] /\ rows[i].row \in Int
    BY <1>0, <1>4, <2>11, RowAfter, Basics
  <2>12. ASSUME NEW i \in 1 .. Len(rows'), i > Kept(q)
         PROVE  rows'[i].row = count - q.start - (i - Kept(q)) + 1
    BY <1>0, <1>4, <2>5, <2>12, RowAfter
  <2>13. count \in Int /\ q.start \in Int /\ Kept(q) \in Int
    BY <2>2
  <2>14. Len(Found(q)) # 0 => q.start < count
    BY <2>1, <2>2, <2>5
  <2>15. ASSUME NEW i \in 1 .. Len(rows') - 1, NEW j, j = i + 1
         PROVE  rows'[j].row = rows'[i].row - 1
    <3>0. i \in 1 .. Len(rows') /\ j \in 1 .. Len(rows') /\ i \in Nat /\ j = i + 1 /\ j \in Nat
      BY <2>3, <2>15
    <3>1. CASE j <= Kept(q)
      <4>1. i <= Kept(q)
        BY <2>2, <3>0, <3>1
      <4>2. /\ rows'[i] = rows[i] /\ rows'[j] = rows[j] /\ j \in 1 .. Len(rows)
        BY <2>11, <3>0, <3>1, <4>1
      <4>3. i \in 1 .. Len(rows) - 1
        BY <2>2, <3>0, <4>2
      <4> QED
        BY <3>0, <4>2, <4>3 DEF Consecutive
    <3>2. CASE i = Kept(q)
      <4>1. rows'[i] = rows[i] /\ i = Len(rows)
        BY <2>1, <2>2, <2>11, <3>0, <3>2
      <4>2. Exactly(Least(q.start, count)) /\ rows # <<>>
        BY <2>1, <2>6, <3>0, <3>2, <4>1, EmptySeq
      <4>3. Least(q.start, count) = q.start
        <5>1. Len(Found(q)) # 0
          BY <2>2, <2>3, <3>0, <3>2
        <5> QED
          BY <2>14, <5>1 DEF Least
      <4>4. rows[i].row = count - q.start + 1
        BY <4>1, <4>2, <4>3 DEF Exactly, Last
      <4>5. j > Kept(q)
        BY <2>2, <3>0, <3>2
      <4>6. rows'[j].row = count - q.start - (j - Kept(q)) + 1
        BY <2>12, <3>0, <4>5
      <4>7. rows'[j].row = count - q.start
        <5>1. j - Kept(q) = 1
          BY <2>13, <3>0, <3>2
        <5> QED
          BY <2>13, <4>6, <5>1
      <4>8. rows'[i].row = count - q.start + 1
        BY <4>1, <4>4
      <4>9. (count - q.start + 1) - 1 = count - q.start
        BY <2>13
      <4> QED
        BY <4>7, <4>8, <4>9
    <3>3. CASE i > Kept(q)
      <4>1. j > Kept(q)
        BY <2>2, <3>0, <3>3
      <4>2. /\ rows'[i].row = count - q.start - (i - Kept(q)) + 1
            /\ rows'[j].row = count - q.start - (j - Kept(q)) + 1
        BY <2>12, <3>0, <3>3, <4>1
      <4> QED
        BY <2>13, <3>0, <4>2
    <3> QED
      BY <2>2, <3>0, <3>1, <3>2, <3>3
  <2>16. Consecutive'
    BY <2>15 DEF Consecutive
  <2>17. CASE Len(Found(q)) = 0
    <3>1. totalRowSize' = 0 /\ endRowSize' = 0 /\ Until(q) <= q.start /\ count <= q.start
      BY <2>1, <2>2, <2>4, <2>5, <2>8, <2>17 DEF Least
    <3>2. ~ button'
      <4>1. button' <=> (totalRowSize' # 0 /\ endRowSize < totalRowSize')
        BY <1>4, AnswerLeaves
      <4> QED
        BY <3>1, <4>1
    <3>3. totalRowSize = Unknown => count = 0 /\ Len(rows') = 0
      BY <2>1, <2>2, <2>3, <2>4, <2>17, <3>1 DEF Asks
    <3>4. totalRowSize # Unknown => ~ Counted
      BY <2>2, <2>4, <2>6, <2>7, <3>1 DEF Asks
    <3>5. ASSUME rows' # <<>>
          PROVE  Last(rows').row <= count - Least(totalCount, count) + 1
      <4>1. Len(rows') # 0
        BY <2>3, <3>5, EmptySeq
      <4>2. totalRowSize # Unknown /\ Kept(q) = Len(rows) /\ Len(rows') = Kept(q)
        BY <2>1, <2>2, <2>3, <2>17, <3>3, <4>1
      <4>3. rows # <<>> /\ Last(rows') = Last(rows)
        <5>1. Len(rows') \in 1 .. Len(rows') /\ Len(rows') <= Kept(q)
          BY <2>2, <2>3, <4>1, <4>2
        <5> QED
          BY <2>11, <4>1, <4>2, <5>1, EmptySeq DEF Last
      <4>4. Last(rows).row = count - Least(q.start, count) + 1
        BY <2>6, <4>2, <4>3 DEF Exactly
      <4> QED
        BY <2>2, <3>1, <4>3, <4>4 DEF Least
    <3>6. NoneLeft'
      BY <2>1, <3>5 DEF NoneLeft
    <3>7. Counted => totalRowSize' = count /\ Len(rows') = 0
      BY <3>1, <3>3, <3>4
    <3>8. Counted => Exactly(Least(endRowSize, count))'
      <4>1. Counted => Least(endRowSize', count) = 0
        BY <3>1, <3>7 DEF Least
      <4>2. Counted => rows' = <<>>
        BY <2>3, <3>7, EmptySeq
      <4> QED
        BY <2>1, <3>7, <4>1, <4>2 DEF Exactly
    <3>9. Settled'
      BY <2>1, <2>9, <2>10, <3>1, <3>2, <3>6, <3>7, <3>8
    <3> QED
      BY <2>1, <2>16, <3>9
  <2>18. CASE Len(Found(q)) # 0
    <3>1. /\ totalRowSize' = totalCount /\ Until(q) > q.start
      BY <2>1, <2>2, <2>5, <2>8, <2>18
    <3>2. totalCount = 0 => endRowSize' = 0
      BY <2>8, <3>1
    <3>3. totalCount # 0 => endRowSize' = endRowSize
      BY <2>8, <3>1
    <3>4. endRowSize' < totalCount \/ Counted => Until(q) = Least(endRowSize', count)
      <4>1. CASE totalRowSize = Unknown
        BY <2>2, <2>4, <2>5, <2>7, <3>1, <3>2, <3>3, <4>1 DEF Asks, Least
      <4>2. CASE totalRowSize # Unknown
        BY <2>2, <2>4, <2>5, <2>6, <2>7, <3>1, <3>2, <3>3, <4>2 DEF Asks, Least
      <4> QED
        BY <4>1, <4>2
    <3>5. endRowSize' >= totalCount => Until(q) >= Least(totalCount, count)
      <4>1. CASE totalRowSize = Unknown
        BY <2>2, <2>4, <2>5, <3>1, <3>2, <3>3, <4>1 DEF Asks, Least
      <4>2. CASE totalRowSize # Unknown
        BY <2>2, <2>4, <2>5, <2>6, <3>1, <3>2, <3>3, <4>2 DEF Asks, Least
      <4> QED
        BY <4>1, <4>2
    <3>6. Last(rows').row = count - Until(q) + 1
      <4>1. Len(rows') \in 1 .. Len(rows') /\ Len(rows') > Kept(q)
        BY <2>1, <2>2, <2>3, <2>18
      <4>2. rows'[Len(rows')].row = count - q.start - (Len(rows') - Kept(q)) + 1
        BY <2>12, <4>1
      <4> QED
        BY <2>1, <2>2, <2>3, <2>5, <2>18, <4>2 DEF Last
    <3>7. (endRowSize' <= ModelLimit \/ kind = "log") /\ totalCount # 0 => Len(rows') = Until(q)
      <4>1. SUFFICES ASSUME endRowSize <= ModelLimit \/ kind = "log"
                     PROVE  Len(rows') = Until(q)
        BY <3>3
      <4>2. Kept(q) = q.start
        <5>1. CASE q.reset
          BY <2>2, <2>4, <4>1, <5>1, NumbersAreNat DEF Asks, Kept
        <5>2. CASE ~ q.reset
          <6>1. Exactly(Least(q.start, count)) /\ Least(q.start, count) = q.start
            BY <2>4, <2>6, <2>14, <2>18, <5>2 DEF Asks, Least
          <6> QED
            BY <4>1, <5>2, <6>1 DEF Kept, Exactly
        <5> QED
          BY <5>1, <5>2
      <4> QED
        BY <2>1, <2>2, <2>3, <2>5, <2>18, <4>2
    <3>8. button' => totalCount # 0 /\ endRowSize' < totalCount
      <4>1. button' => endRowSize' < totalRowSize'
        BY <2>10 DEF ButtonFits
      <4>2. endRowSize' \in Nat
        BY <2>2, <3>2, <3>3
      <4> QED
        BY <2>2, <3>1, <4>1, <4>2
    <3>9. ~ button' => endRowSize' >= totalCount
      <4>1. ~ button' => ~ (endRowSize' < totalRowSize')
        BY <2>10 DEF ButtonFits
      <4>2. endRowSize' \in Nat
        BY <2>2, <3>2, <3>3
      <4> QED
        BY <2>2, <3>1, <4>1, <4>2
    <3>10. NoneLeft'
      <4>1. ASSUME ~ button' PROVE Last(rows').row <= count - Least(totalCount, count) + 1
        BY <2>1, <2>2, <3>5, <3>6, <3>9, <4>1 DEF Least
      <4> QED
        BY <2>1, <4>1 DEF NoneLeft
    <3>11. Counted => totalCount = count /\ totalCount # 0
      BY <2>1, <2>2, <2>7, <3>1
    <3>12. button' \/ Counted => Exactly(Least(endRowSize, count))'
      <4>1. SUFFICES ASSUME button' \/ Counted PROVE Exactly(Least(endRowSize, count))'
        OBVIOUS
      <4>2. totalCount # 0 /\ Until(q) = Least(endRowSize', count)
        BY <3>4, <3>8, <3>11, <4>1
      <4>3. (endRowSize' <= ModelLimit \/ kind = "log") => Len(rows') = Until(q)
        BY <3>7, <4>2
      <4> QED
        BY <1>0, <2>1, <3>6, <4>2, <4>3 DEF Exactly
    <3>13. Settled'
      BY <2>1, <2>9, <2>10, <3>1, <3>10, <3>11, <3>12
    <3> QED
      BY <2>1, <2>16, <3>13
  <2> QED
    BY <2>17, <2>18
<1>5. ASSUME NEW q \in pending, Failed(q) PROVE FALSE
  BY <1>0, <1>5 DEF Failed
<1> QED
  BY <1>1, <1>2, <1>3, <1>4, <1>5 DEF ListNext, Sizes, Exports

\* When all answers are in, the table shows the rows of the window and "more" is there as
\* long as it has not met the total; where the total is that of the rows, to the row.
THEOREM TableShowsWindow == ListSpec => []ShowsWindow
<1>1. ListInit => Showing /\ NoneOfAll /\ TotalsAgree
  BY DEF ListInit, Showing, Consecutive, NoneOfAll, TotalsAgree
<1>2. Typed /\ Window /\ Showing => ShowsWindow
  <2> SUFFICES ASSUME Typed, Window, Showing, Quiet, ~ whole,
                      Unless({"rush", "double", "fail", "grow"})
               PROVE  /\ button <=> endRowSize < totalRowSize
                      /\ Consecutive
                      /\ \A i \in DOMAIN rows : rows[i].search = search
                      /\ NoneLeft
                      /\ "edge" \notin faults => totalRowSize = count
                      /\ (button \/ "edge" \notin faults) => Exactly(Least(endRowSize, count))
    BY DEF ShowsWindow, Consecutive, NoneLeft, Exactly
  <2>1. Unless({"rush", "double"}) /\ search > 0 /\ pending = {}
    BY DEF Unless, Quiet
  <2>2. /\ Consecutive /\ totalRowSize \in {0, totalCount} /\ ButtonFits /\ NoneLeft
        /\ Counted => totalRowSize = count
        /\ (button \/ Counted) => Exactly(Least(endRowSize, count))
    BY <2>1 DEF Showing
  <2>3. \A i \in DOMAIN rows : rows[i].search = search
    BY <2>1, <2>2, Basics DEF Window, WindowFits, Unknown
  <2> QED
    BY <2>2, <2>3 DEF ButtonFits, Counted
<1>3. Typed /\ NoneOfAll /\ [ListNext]_listVars => NoneOfAll'
  BY NoneOfAllStep
<1>4. Typed /\ TotalsAgree /\ [ListNext]_listVars => TotalsAgree'
  BY TotalsAgreeStep
<1> QED
  BY <1>1, <1>2, <1>3, <1>4, TypedInit, TypedStep, WindowInit, WindowStep, ShowingStep, PTL
     DEF ListSpec
=============================================================================
