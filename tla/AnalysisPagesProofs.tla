------------------------ MODULE AnalysisPagesProofs ------------------------
(***************************************************************************)
(* The pages of the traffic analysis, for any number of visits and tabs.   *)
(* Whatever the user does: no handler is bound twice, whatever the tabs    *)
(* (`Apart`), the visits are numbered in the order of the clicks, and the  *)
(* bus knows only pages that have come up (`Order`), and the first tab was *)
(* last told to search (`Kept`).  When the user waits for a page to come   *)
(* up (`Calm`): the visits follow each other (`InTurn`), the page shown is *)
(* bound last and has a marked tab that listens (`Attended`), and the      *)
(* names of its panes count its tabs (`Numbered`), unless one was closed   *)
(* before the last.  Each stage rests on the one before it.                *)
(***************************************************************************)
EXTENDS AnalysisPages, SequenceTheorems, FiniteSetTheorems, WellFoundedInduction, TLAPS

LEMMA VisitsAreNumbers ==
  /\ MaxVisits \in Nat /\ MaxVisits > 0 /\ Visits = 1 .. MaxVisits
  /\ Visits \subseteq Nat /\ 0 \notin Visits /\ MaxExtra \in Nat
BY BoundsAssumption DEF Visits

LEMMA PagesHaveNames == "none" \notin Pages /\ "none" \notin TabPages
BY PagesAssumption DEF TabPages

-----------------------------------------------------------------------------
(* What the operators return. *)

LEMMA SetHasLeast ==
  ASSUME NEW S, S \subseteq Nat, S # {}
  PROVE  \E x \in S : \A y \in S : x <= y
<1>1. PICK x \in S : \A y \in S : <<y, x>> \notin OpToRel(<, Nat)
  BY WFMin, NatLessThanWellFounded, Zenon
<1>2. \A y \in S : ~ (y < x)
  BY <1>1 DEF OpToRel
<1> QED
  BY <1>2

LEMMA LeastIsMin ==
  ASSUME NEW S, S \subseteq Nat, S # {}
  PROVE  Min(S) \in S /\ \A y \in S : Min(S) <= y
BY SetHasLeast DEF Min

LEMMA SeqIn == ASSUME NEW S, NEW s \in Seq(S) PROVE \A i \in 1 .. Len(s) : s[i] \in S
OBVIOUS

LEMMA InToSet ==
  ASSUME NEW S, NEW s \in Seq(S)
  PROVE  /\ ToSet(s) \subseteq S
         /\ \A x : x \in ToSet(s) <=> \E i \in 1 .. Len(s) : s[i] = x
         /\ \A x : Contains(s, x) <=> x \in ToSet(s)
         /\ s = <<>> <=> ToSet(s) = {}
BY DEF ToSet, Contains

LEMMA ToSetAppend ==
  ASSUME NEW S, NEW s \in Seq(S), NEW x \in S
  PROVE  ToSet(Append(s, x)) = ToSet(s) \cup {x}
<1>1. /\ Append(s, x) \in Seq(S) /\ Len(Append(s, x)) = Len(s) + 1
      /\ \A i \in 1 .. Len(s) : Append(s, x)[i] = s[i]
      /\ Append(s, x)[Len(s) + 1] = x
  OBVIOUS
<1>2. /\ Len(s) \in Nat
      /\ \A y : y \in ToSet(Append(s, x)) <=> \E i \in 1 .. Len(s) + 1 : Append(s, x)[i] = y
      /\ \A y : y \in ToSet(s) <=> \E i \in 1 .. Len(s) : s[i] = y
  <2>1. DOMAIN Append(s, x) = 1 .. Len(s) + 1 /\ DOMAIN s = 1 .. Len(s) /\ Len(s) \in Nat
    BY <1>1
  <2> QED
    BY <2>1 DEF ToSet
<1>3. ASSUME NEW y \in ToSet(Append(s, x)) PROVE y \in ToSet(s) \cup {x}
  <2>1. PICK i \in 1 .. Len(s) + 1 : Append(s, x)[i] = y
    BY <1>1, <1>3, InToSet
  <2>2. CASE i = Len(s) + 1
    BY <1>1, <2>1, <2>2
  <2>3. CASE i \in 1 .. Len(s)
    BY <1>1, <2>1, <2>3, InToSet
  <2> QED
    BY <1>2, <2>2, <2>3
<1>4. ASSUME NEW y \in ToSet(s) \cup {x} PROVE y \in ToSet(Append(s, x))
  <2>1. CASE y = x
    <3>1. Len(s) + 1 \in 1 .. Len(s) + 1
      BY <1>2
    <3> QED
      BY <1>1, <1>2, <2>1, <3>1
  <2>2. CASE y \in ToSet(s)
    <3>1. PICK i \in 1 .. Len(s) : s[i] = y
      BY <1>2, <2>2
    <3>2. i \in 1 .. Len(s) + 1 /\ Append(s, x)[i] = y
      BY <1>1, <1>2, <3>1
    <3> QED
      BY <1>2, <3>2
  <2> QED
    BY <1>4, <2>1, <2>2
<1> QED
  BY <1>3, <1>4

LEMMA ToSetTail ==
  ASSUME NEW S, NEW s \in Seq(S), s # <<>>
  PROVE  /\ ToSet(Tail(s)) \subseteq ToSet(s) /\ Head(s) \in ToSet(s)
         /\ ToSet(s) \subseteq ToSet(Tail(s)) \cup {Head(s)}
<1>1. /\ Tail(s) \in Seq(S) /\ Len(Tail(s)) = Len(s) - 1 /\ Head(s) = s[1] /\ Len(s) \in Nat \ {0}
      /\ \A i \in 1 .. Len(s) - 1 : Tail(s)[i] = s[i + 1]
  OBVIOUS
<1>2. \A i \in 1 .. Len(s) - 1 : i + 1 \in 1 .. Len(s)
  BY <1>1
<1>3. /\ 1 \in 1 .. Len(s)
      /\ \A y : y \in ToSet(Tail(s)) <=> \E i \in 1 .. Len(s) - 1 : Tail(s)[i] = y
      /\ \A y : y \in ToSet(s) <=> \E i \in 1 .. Len(s) : s[i] = y
  <2>1. DOMAIN Tail(s) = 1 .. Len(s) - 1 /\ DOMAIN s = 1 .. Len(s) /\ 1 \in 1 .. Len(s)
    BY <1>1
  <2> QED
    BY <2>1 DEF ToSet
<1>4. ASSUME NEW y \in ToSet(s) PROVE y \in ToSet(Tail(s)) \cup {Head(s)}
  <2>1. PICK i \in 1 .. Len(s) : s[i] = y
    BY <1>4, InToSet
  <2>2. CASE i = 1
    BY <1>1, <2>1, <2>2
  <2>3. CASE i # 1
    <3>1. i - 1 \in 1 .. Len(s) - 1 /\ (i - 1) + 1 = i
      BY <1>1, <2>3
    <3>2. Tail(s)[i - 1] = y
      BY <1>1, <2>1, <3>1
    <3> QED
      BY <1>3, <3>1, <3>2
  <2> QED
    BY <2>2, <2>3
<1>5. ToSet(Tail(s)) \subseteq ToSet(s)
  BY <1>1, <1>2, <1>3
<1> QED
  BY <1>1, <1>3, <1>4, <1>5

LEMMA ToSetOne == ASSUME NEW x PROVE ToSet(<<x>>) = {x} /\ ToSet(<<>>) = {}
BY DEF ToSet

LEMMA RemoveAtShape ==
  ASSUME NEW S, NEW s \in Seq(S), NEW i \in 1 .. Len(s)
  PROVE  /\ RemoveAt(s, i) \in Seq(S) /\ Len(RemoveAt(s, i)) = Len(s) - 1
         /\ \A j \in 1 .. Len(s) - 1 : RemoveAt(s, i)[j] = IF j < i THEN s[j] ELSE s[j + 1]
<1> DEFINE a == SubSeq(s, 1, i - 1)
           b == SubSeq(s, i + 1, Len(s))
<1>1. Len(s) \in Nat /\ i \in Nat /\ 1 <= i /\ i <= Len(s)
  OBVIOUS
<1>2. /\ a \in Seq(S) /\ Len(a) = i - 1
      /\ \A j \in 1 .. i - 1 : a[j] = s[j]
  BY <1>1, SubSeqProperties
<1>3. /\ b \in Seq(S) /\ Len(b) = Len(s) - i
      /\ \A j \in 1 .. Len(s) - i : b[j] = s[i + j]
  <2>1. CASE i = Len(s)
    BY <1>1, <2>1, SubSeqEmpty
  <2>2. CASE i < Len(s)
    <3>1. i + 1 \in 1 .. Len(s) + 1 /\ Len(s) \in i .. Len(s)
      BY <1>1, <2>2
    <3> QED
      BY <1>1, <2>2, <3>1, SubSeqProperties
  <2> QED
    BY <1>1, <2>1, <2>2
<1>4. RemoveAt(s, i) = a \o b
  BY DEF RemoveAt
<1>5. /\ a \o b \in Seq(S) /\ Len(a \o b) = Len(a) + Len(b)
      /\ \A j \in 1 .. Len(a) + Len(b) : (a \o b)[j] = IF j <= Len(a) THEN a[j] ELSE b[j - Len(a)]
  BY <1>2, <1>3, ConcatProperties
<1> HIDE DEF a, b
<1>6. ASSUME NEW j \in 1 .. Len(s) - 1
      PROVE  RemoveAt(s, i)[j] = IF j < i THEN s[j] ELSE s[j + 1]
  <2>1. CASE j < i
    <3>1. j \in 1 .. i - 1 /\ j <= Len(a) /\ j \in 1 .. Len(a) + Len(b)
      BY <1>1, <1>2, <1>3, <2>1
    <3> QED
      BY <1>2, <1>4, <1>5, <2>1, <3>1
  <2>2. CASE ~ (j < i)
    <3>1. j - (i - 1) \in 1 .. Len(s) - i /\ i + (j - (i - 1)) = j + 1 /\ ~ (j <= Len(a))
          /\ j \in 1 .. Len(a) + Len(b)
      BY <1>1, <1>2, <1>3, <2>2
    <3>2. b[j - (i - 1)] = s[j + 1]
      BY <1>3, <3>1
    <3> QED
      BY <1>2, <1>4, <1>5, <2>2, <3>1, <3>2
  <2> QED
    BY <2>1, <2>2
<1> QED
  BY <1>1, <1>2, <1>3, <1>4, <1>5, <1>6

LEMMA RemoveFirstShape ==
  ASSUME NEW S, NEW s \in Seq(S), NEW e
  PROVE  RemoveFirst(s, e) \in Seq(S)
<1> DEFINE where == {i \in 1 .. Len(s) : s[i] = e}
<1>1. CASE where = {}
  BY <1>1 DEF RemoveFirst
<1>2. CASE where # {}
  <2>1. Min(where) \in where
    <3>1. where \subseteq Nat
      OBVIOUS
    <3> HIDE DEF where
    <3> QED
      BY <1>2, <3>1, LeastIsMin
  <2>2. RemoveFirst(s, e) = RemoveAt(s, Min(where))
    BY <1>2 DEF RemoveFirst, SelectInSeq
  <2> QED
    BY <2>1, <2>2, RemoveAtShape
<1> QED
  BY <1>1, <1>2

LEMMA RemoveOnly == ASSUME NEW e PROVE RemoveFirst(<<e>>, e) = <<>> /\ RemoveFirst(<<>>, e) = <<>>
<1> DEFINE where == {i \in 1 .. Len(<<e>>) : <<e>>[i] = e}
<1>1. where = {1}
  OBVIOUS
<1>2. Min({1}) = 1
  BY DEF Min
<1>3. RemoveFirst(<<e>>, e) = RemoveAt(<<e>>, 1)
  BY <1>1, <1>2 DEF RemoveFirst, SelectInSeq
<1>4. RemoveAt(<<e>>, 1) \in Seq({e}) /\ Len(RemoveAt(<<e>>, 1)) = 0
  <2>1. <<e>> \in Seq({e}) /\ Len(<<e>>) = 1
    OBVIOUS
  <2>2. 1 \in 1 .. Len(<<e>>)
    BY <2>1
  <2>3. Len(RemoveAt(<<e>>, 1)) = 1 - 1 /\ RemoveAt(<<e>>, 1) \in Seq({e})
    BY <2>1, <2>2, RemoveAtShape
  <2> QED
    BY <2>3
<1>5. RemoveFirst(<<>>, e) = <<>>
  BY DEF RemoveFirst
<1> QED
  BY <1>3, <1>4, <1>5

LEMMA ToldShape ==
  ASSUME NEW M, NEW made \in Seq(M), NEW m \in M, NEW listeners
  PROVE  /\ Told(made, listeners, m) \in Seq(M) /\ Len(Told(made, listeners, m)) = Len(made)
         /\ \A n \in 1 .. Len(made) :
              Told(made, listeners, m)[n] = IF Contains(listeners, n) THEN m ELSE made[n]
<1>1. DOMAIN made = 1 .. Len(made) /\ Len(made) \in Nat
  OBVIOUS
<1>2. Told(made, listeners, m) = [n \in 1 .. Len(made) |-> IF Contains(listeners, n) THEN m ELSE made[n]]
  BY <1>1 DEF Told
<1>3. \A n \in 1 .. Len(made) : (IF Contains(listeners, n) THEN m ELSE made[n]) \in M
  OBVIOUS
<1> HIDE DEF Told
<1>4. Told(made, listeners, m) \in [1 .. Len(made) -> M]
  BY <1>2, <1>3
<1> QED
  BY <1>1, <1>2, <1>4

LEMMA Pairs ==
  ASSUME NEW s, NEW t, NEW S, s \in Seq(S), t \in Seq(S), Len(s) = 2, Len(t) = 2,
         s[1] = t[1], s[2] = t[2]
  PROVE  s = t
<1>1. \A i \in 1 .. Len(s) : s[i] = t[i]
  <2>1. \A i \in 1 .. 2 : i = 1 \/ i = 2
    OBVIOUS
  <2> QED
    BY <2>1
<1> QED
  BY <1>1, SeqEqual

LEMMA FirstTwo ==
  ASSUME NEW S, NEW ts \in Seq(S), Len(ts) >= 2
  PROVE  /\ SubSeq(ts, 1, 2) = <<ts[1], ts[2]>> /\ ts[1] \in S /\ ts[2] \in S
         /\ ShownListener(ts, Static) \o <<ts[Range_]>> = <<ts[1], ts[2]>>
<1>1. Len(ts) \in Nat /\ 1 \in 1 .. Len(ts) /\ 2 \in 1 .. Len(ts)
  OBVIOUS
<1>2. ts[1] \in S /\ ts[2] \in S
  BY <1>1
<1> DEFINE two == <<ts[1], ts[2]>>
<1>3. two \in Seq(S) /\ Len(two) = 2 /\ two[1] = ts[1] /\ two[2] = ts[2]
  BY <1>2
<1>4. /\ SubSeq(ts, 1, 2) \in Seq(S) /\ Len(SubSeq(ts, 1, 2)) = 2
      /\ SubSeq(ts, 1, 2)[1] = ts[1] /\ SubSeq(ts, 1, 2)[2] = ts[2]
  BY <1>1
<1> DEFINE both == <<ts[1]>> \o <<ts[2]>>
<1>5. both \in Seq(S) /\ Len(both) = 2 /\ both[1] = ts[1] /\ both[2] = ts[2]
  BY <1>2
<1>6. ShownListener(ts, Static) \o <<ts[Range_]>> = both
  BY <1>1 DEF ShownListener, Static, Range_
<1> HIDE DEF two, both
<1>7. SubSeq(ts, 1, 2) = two /\ both = two
  BY <1>3, <1>4, <1>5, Pairs
<1> QED
  BY <1>2, <1>6, <1>7 DEF two

\* Where the first container is that has the id, and the pane in it.
PlaceOf(ts, k) == SelectInSeq(content, LAMBDA v : HasId(v, ts, k))
PaneOf(v, ts, k) == CHOOSE j \in 3 .. Len(ts[v]) :
                      /\ num[ts[v][j]] = k
                      /\ \A h \in 3 .. j - 1 : num[ts[v][h]] # k

LEMMA PanesAfterIs ==
  ASSUME NEW ts, NEW panes, NEW k
  PROVE  PanesAfter(ts, panes, k) =
           IF PlaceOf(ts, k) = 0 THEN panes
           ELSE [panes EXCEPT ![content[PlaceOf(ts, k)]] = PaneOf(content[PlaceOf(ts, k)], ts, k)]
BY DEF PanesAfter, PlaceOf, PaneOf, SelectInSeq

LEMMA PlaceOfId ==
  ASSUME NEW ts, NEW k, content \in Seq(Visits)
  PROVE  /\ PlaceOf(ts, k) \in 0 .. Len(content)
         /\ PlaceOf(ts, k) # 0 => HasId(content[PlaceOf(ts, k)], ts, k)
         /\ PlaceOf(ts, k) = 0 => \A i \in 1 .. Len(content) : ~ HasId(content[i], ts, k)
<1> DEFINE holders == {i \in 1 .. Len(content) : HasId(content[i], ts, k)}
           where == PlaceOf(ts, k)
<1>1. where = IF holders # {} THEN Min(holders) ELSE 0
  BY DEF PlaceOf, SelectInSeq
<1>2. holders \subseteq 1 .. Len(content) /\ holders \subseteq Nat /\ Len(content) \in Nat
  OBVIOUS
<1>3. CASE holders = {}
  <2>1. \A i \in 1 .. Len(content) : ~ HasId(content[i], ts, k)
    BY <1>3
  <2> QED
    BY <1>1, <1>2, <1>3, <2>1
<1>4. CASE holders # {}
  <2>1. Min(holders) \in holders
    <3> HIDE DEF holders
    <3> QED
      BY <1>2, <1>4, LeastIsMin
  <2>2. where = Min(holders) /\ where \in 1 .. Len(content) /\ HasId(content[where], ts, k)
    BY <1>1, <1>4, <2>1
  <2> QED
    BY <1>2, <2>2
<1> QED
  BY <1>3, <1>4

\* The pane that a click shows, and that it is one of the container's.
LEMMA FirstWithId ==
  ASSUME NEW ts, NEW k, NEW v, ts[v] \in Seq(1 .. born), HasId(v, ts, k)
  PROVE  PaneOf(v, ts, k) \in 3 .. Len(ts[v]) /\ num[ts[v][PaneOf(v, ts, k)]] = k
<1> DEFINE places == {j \in 3 .. Len(ts[v]) : num[ts[v][j]] = k}
<1>1. places # {} /\ places \subseteq Nat
  BY DEF HasId
<1>2. PICK j \in places : \A h \in places : j <= h
  <2> HIDE DEF places
  <2> QED
    BY <1>1, SetHasLeast
<1>3. j \in 3 .. Len(ts[v]) /\ num[ts[v][j]] = k
  BY <1>2
<1>4. \A h \in 3 .. j - 1 : num[ts[v][h]] # k
  <2>1. ASSUME NEW h \in 3 .. j - 1, num[ts[v][h]] = k PROVE FALSE
    <3>1. h \in 3 .. Len(ts[v]) /\ h < j
      BY <1>3, <2>1
    <3>2. j <= h
      BY <1>2, <2>1, <3>1
    <3> QED
      BY <1>3, <3>1, <3>2
  <2> QED
    BY <2>1
<1> DEFINE First(i) == /\ num[ts[v][i]] = k
                       /\ \A h \in 3 .. i - 1 : num[ts[v][h]] # k
<1>5. j \in 3 .. Len(ts[v]) /\ First(j)
  BY <1>3, <1>4
<1>6. LET i == CHOOSE i \in 3 .. Len(ts[v]) : First(i) IN i \in 3 .. Len(ts[v]) /\ First(i)
  <2> HIDE DEF First
  <2> QED
    BY <1>5
<1> QED
  BY <1>6 DEF PaneOf

LEMMA PanesAfterType ==
  ASSUME NEW ts \in [Visits -> Seq(1 .. born)], NEW panes \in [Visits -> Nat], NEW k,
         content \in Seq(Visits)
  PROVE  PanesAfter(ts, panes, k) \in [Visits -> Nat]
<1> DEFINE where == PlaceOf(ts, k)
           v == content[where]
           i == PaneOf(v, ts, k)
<1>1. where \in 0 .. Len(content) /\ (where # 0 => HasId(v, ts, k))
  BY PlaceOfId
<1>2. PanesAfter(ts, panes, k) = IF where = 0 THEN panes ELSE [panes EXCEPT ![v] = i]
  BY PanesAfterIs
<1>3. CASE where = 0
  BY <1>2, <1>3
<1>4. CASE where # 0
  <2>1. v \in Visits
    BY <1>1, <1>4
  <2>2. ts[v] \in Seq(1 .. born) /\ HasId(v, ts, k)
    BY <1>1, <1>4, <2>1
  <2> HIDE DEF where
  <2>3. i \in 3 .. Len(ts[v])
    BY <2>2, FirstWithId
  <2>4. i \in Nat
    BY <2>2, <2>3
  <2> HIDE DEF v, i
  <2> QED
    BY <1>2, <1>4, <2>1, <2>4
<1> QED
  BY <1>3, <1>4

\* With one container in the document, only its own tabs count.
NoneNamed(c, ts, k) == \A j \in 3 .. Len(ts[c]) : num[ts[c][j]] # k
OnlyNamed(c, ts, k, i) == \A j \in 3 .. Len(ts[c]) : num[ts[c][j]] = k <=> j = i

LEMMA PanesOfOne ==
  ASSUME NEW c \in Visits, content = <<c>>, NEW ts, NEW panes, NEW k
  PROVE  PanesAfter(ts, panes, k) =
           IF HasId(c, ts, k) THEN [panes EXCEPT ![c] = PaneOf(c, ts, k)] ELSE panes
<1>1. content \in Seq(Visits) /\ Len(content) = 1 /\ content[1] = c
  OBVIOUS
<1>2. /\ PlaceOf(ts, k) \in 0 .. 1
      /\ PlaceOf(ts, k) # 0 => HasId(content[PlaceOf(ts, k)], ts, k)
      /\ PlaceOf(ts, k) = 0 => \A i \in 1 .. 1 : ~ HasId(content[i], ts, k)
  BY <1>1, PlaceOfId
<1>3. CASE PlaceOf(ts, k) = 0
  <2>1. ~ HasId(c, ts, k)
    BY <1>1, <1>2, <1>3
  <2> QED
    BY <1>3, <2>1, PanesAfterIs
<1>4. CASE PlaceOf(ts, k) = 1
  <2>1. HasId(c, ts, k)
    BY <1>1, <1>2, <1>4
  <2>2. content[PlaceOf(ts, k)] = c
    BY <1>1, <1>4
  <2> QED
    BY <1>4, <2>1, <2>2, PanesAfterIs
<1> QED
  BY <1>2, <1>3, <1>4

LEMMA PanesWithout ==
  ASSUME NEW c \in Visits, content = <<c>>, NEW ts, NEW panes, NEW k, NoneNamed(c, ts, k)
  PROVE  PanesAfter(ts, panes, k) = panes
<1>1. ~ HasId(c, ts, k)
  BY DEF HasId, NoneNamed
<1> QED
  BY <1>1, PanesOfOne

LEMMA PanesWith ==
  ASSUME NEW c \in Visits, content = <<c>>, NEW ts, ts[c] \in Seq(1 .. born), NEW panes, NEW k,
         NEW i \in 3 .. Len(ts[c]), OnlyNamed(c, ts, k, i)
  PROVE  PanesAfter(ts, panes, k) = [panes EXCEPT ![c] = i]
<1>1. HasId(c, ts, k)
  BY DEF HasId, OnlyNamed
<1>2. PaneOf(c, ts, k) \in 3 .. Len(ts[c]) /\ num[ts[c][PaneOf(c, ts, k)]] = k
  BY <1>1, FirstWithId
<1>3. PaneOf(c, ts, k) = i
  BY <1>2 DEF OnlyNamed
<1> QED
  BY <1>1, <1>3, PanesOfOne

LEMMA PanesOther ==
  ASSUME NEW c \in Visits, content = <<c>>, NEW ts, NEW panes \in [Visits -> Nat], NEW k,
         NEW w \in Visits, w # c
  PROVE  PanesAfter(ts, panes, k)[w] = panes[w]
<1>1. CASE HasId(c, ts, k)
  <2>1. PanesAfter(ts, panes, k) = [panes EXCEPT ![c] = PaneOf(c, ts, k)]
    BY <1>1, PanesOfOne
  <2> QED
    BY <2>1
<1>2. CASE ~ HasId(c, ts, k)
  BY <1>2, PanesOfOne
<1> QED
  BY <1>1, <1>2

-----------------------------------------------------------------------------
(* The type invariant, and that a page with its tabs has the first two. *)

Tabbed(v) == stage[v] = "open" /\ page[v] \in TabPages /\ v \notin closed
TwoTabs == \A v \in Visits : Tabbed(v) => Len(tabs[v]) >= 2
Typed == PagesTypeOK /\ TwoTabs

Command == {"nothing", "search", "range"}
Step == {"unused", "loading", "made", "open"}

\* A menu item is clicked, or a visit comes on.
NavStep == \/ \E p \in Pages : Navigate(p)
           \/ \E v \in Visits : Arrive(v) \/ Render(v)
\* What is done to the tabs of the page that is shown.
TabStep == \/ \E v \in Visits : Search(v) \/ RefusedSearch(v)
           \/ \E v \in Visits, i \in 1 .. MaxExtra + 2 : ShowTab(v, i) \/ RemoveTab(v, i)
PressStep == \E v \in Visits : PressRange(v) \/ PressDetail(v)

LEMMA StepsAre == PagesNext => NavStep \/ TabStep \/ PressStep \/ RenderTab
BY DEF PagesNext, NavStep, TabStep, PressStep

LEMMA HabitsStay == ASSUME [PagesNext]_pageVars PROVE habits' = habits
BY DEF PagesNext, pageVars, Navigate, Arrive, Render, Search, RefusedSearch, PressRange,
       PressDetail, RenderTab, ShowTab, RemoveTab

LEMMA NavType ==
  ASSUME PagesTypeOK
  PROVE  /\ visited \in Nat /\ page \in [Visits -> Pages \cup {"none"}]
         /\ stage \in [Visits -> Step] /\ closed \subseteq Visits
         /\ content \in Seq(Visits) /\ current \in Nat /\ timers \in Seq(Visits)
         /\ newTab \in Seq(Visits) /\ detail \in Seq(Visits) /\ firing \in Seq(Visits)
BY VisitsAreNumbers DEF PagesTypeOK, Step

LEMMA DocType ==
  ASSUME PagesTypeOK
  PROVE  /\ born \in Nat /\ tabs \in [Visits -> Seq(1 .. born)]
         /\ active \in [Visits -> Nat] /\ pane \in [Visits -> Nat]
         /\ num \in Seq(Int) /\ Len(num) = born /\ subs \in Seq(1 .. born)
         /\ asked \in Seq(Command) /\ Len(asked) = born /\ born = Len(asked)
BY DEF PagesTypeOK, born, Command

LEMMA TwoOf ==
  ASSUME Typed, NEW v \in Visits, OnScreen(v)
  PROVE  /\ Len(tabs[v]) >= 2 /\ tabs[v] # <<>> /\ tabs[v] \in Seq(1 .. born)
         /\ Tabbed(v) /\ Idle /\ timers = <<>>
BY DocType DEF Typed, TwoTabs, OnScreen, Tabbed

LEMMA ShownIndexType ==
  ASSUME NEW S, NEW ts \in Seq(S), NEW i \in Int
  PROVE  /\ ShownIndex(ts, i) \in 0 .. Len(ts) /\ ShownIndex(ts, i) \in Nat
         /\ ShownListener(ts, i) \in Seq(S)
         /\ ShownIndex(ts, i) # 0 => ShownIndex(ts, i) = i /\ ShownListener(ts, i) = <<ts[i]>>
BY DEF ShownIndex, ShownListener

LEMMA HideTabType ==
  ASSUME PagesTypeOK, NEW v \in Visits
  PROVE  HideTab(v, subs) \in Seq(1 .. born) /\ HideTab(v, subs) \in {subs, <<>>}
<1>1. subs \in Seq(1 .. born) /\ <<>> \in Seq(1 .. born)
  BY DocType
<1>2. HideTab(v, subs) = IF tabs[v] = <<>> THEN subs ELSE <<>>
  BY DEF HideTab
<1> QED
  BY <1>1, <1>2, Zenon

\* Sequences of tabs stay so while more tabs are made.
LEMMA SeqGrows == ASSUME NEW m \in Nat, NEW n \in Nat, m <= n PROVE Seq(1 .. m) \subseteq Seq(1 .. n)
<1>1. 1 .. m \subseteq 1 .. n
  OBVIOUS
<1> QED
  BY <1>1, SeqMonotonic

LEMMA CloseType ==
  ASSUME PagesTypeOK, CloseCurrent
  PROVE  /\ closed' \subseteq Visits /\ content' \in Seq(Visits)
         /\ tabs' \in [Visits -> Seq(1 .. born)] /\ subs' \in Seq(1 .. born)
         /\ newTab' \in Seq(Visits) /\ detail' \in Seq(Visits)
         /\ \A v \in Visits \ closed' : tabs'[v] = tabs[v]
         /\ closed \subseteq closed'
<1>1. CASE current = 0
  BY <1>1, NavType, DocType DEF CloseCurrent
<1>2. CASE current # 0
  <2>1. current \in Visits
    BY <1>2, VisitsAreNumbers DEF PagesTypeOK
  <2>2. closed' = closed \cup {current} /\ content' \in Seq(Visits)
    BY <1>2, NavType, RemoveFirstShape DEF CloseCurrent
  <2>3. CASE page[current] \in TabPages
    <3>1. /\ newTab' = <<>> /\ detail' = IF page[current] = "ip" THEN detail ELSE <<>>
          /\ subs' = IF tabs[current] = <<>> THEN subs ELSE <<>>
          /\ tabs' = [tabs EXCEPT ![current] = <<>>]
      BY <1>2, <2>3, Zenon DEF CloseCurrent
    <3>2. <<>> \in Seq(1 .. born) /\ <<>> \in Seq(Visits)
      OBVIOUS
    <3>3. subs' \in Seq(1 .. born) /\ newTab' \in Seq(Visits) /\ detail' \in Seq(Visits)
      BY <3>1, <3>2, NavType, DocType, Zenon
    <3>4. tabs' \in [Visits -> Seq(1 .. born)]
      BY <2>1, <3>1, <3>2, DocType
    <3>5. \A v \in Visits : v # current => tabs'[v] = tabs[v]
      BY <3>1, DocType
    <3> QED
      BY <2>1, <2>2, <3>3, <3>4, <3>5, NavType
  <2>4. CASE page[current] \notin TabPages
    BY <1>2, <2>1, <2>2, <2>4, NavType, DocType DEF CloseCurrent
  <2> QED
    BY <2>3, <2>4
<1> QED
  BY <1>1, <1>2

LEMMA NavigateType == ASSUME Typed, NEW p \in Pages, Navigate(p) PROVE Typed'
<1> USE DEF Typed
<1>1. visited + 1 \in Visits /\ visited + 1 \in 0 .. MaxVisits
  BY NavType, VisitsAreNumbers DEF Navigate, PagesTypeOK
<1>2. /\ url' \in Pages /\ visited' \in 0 .. MaxVisits
      /\ page' \in [Visits -> Pages \cup {"none"}] /\ stage' \in [Visits -> Step]
  BY <1>1, NavType DEF Navigate, Step
<1>3. CloseCurrent
  BY DEF Navigate
<1>4. PagesTypeOK'
  BY <1>2, <1>3, CloseType DEF Navigate, PagesTypeOK, born, Step
<1>5. TwoTabs'
  <2> SUFFICES ASSUME NEW v \in Visits, Tabbed(v)' PROVE Len(tabs'[v]) >= 2
    BY DEF TwoTabs
  <2>1. v # visited + 1
    BY <1>1, NavType DEF Navigate, Tabbed
  <2>2. stage'[v] = stage[v] /\ page'[v] = page[v]
    BY <1>1, <2>1, NavType DEF Navigate
  <2>3. v \notin closed /\ tabs'[v] = tabs[v]
    BY <1>3, CloseType DEF Tabbed
  <2> QED
    BY <2>2, <2>3 DEF Tabbed, TwoTabs
<1> QED
  BY <1>4, <1>5

LEMMA ArriveType == ASSUME Typed, NEW v \in Visits, Arrive(v) PROVE Typed'
<1> USE DEF Typed
<1>1. /\ stage' \in [Visits -> Step] /\ content' \in Seq(Visits) /\ timers' \in Seq(Visits)
      /\ newTab' \in Seq(Visits) /\ detail' \in Seq(Visits)
  <2>1. stage' \in [Visits -> Step] /\ content' \in Seq(Visits) /\ timers' \in Seq(Visits)
    BY NavType DEF Arrive, Step
  <2>2. \/ newTab' = Append(newTab, v) /\ detail' = Append(detail, v)
        \/ newTab' = newTab /\ detail' = detail
    BY DEF Arrive, openers
  <2>3. newTab' \in Seq(Visits) /\ detail' \in Seq(Visits)
    <3>1. Append(newTab, v) \in Seq(Visits) /\ Append(detail, v) \in Seq(Visits)
      BY NavType
    <3> QED
      BY <2>2, <3>1, NavType, Zenon
  <2> QED
    BY <2>1, <2>3
<1>2. current' \in 0 .. MaxVisits
  BY VisitsAreNumbers DEF Arrive
<1>3. PagesTypeOK'
  BY <1>1, <1>2 DEF Arrive, PagesTypeOK, born, doc, Step
<1>4. TwoTabs'
  BY NavType DEF Arrive, TwoTabs, Tabbed, doc
<1> QED
  BY <1>3, <1>4

\* The two tabs that render makes.
LEMMA RenderMakes ==
  ASSUME Typed, NEW v \in Visits, Render(v), page[v] \in TabPages
  PROVE  /\ tabs' = [tabs EXCEPT ![v] = <<born + 1, born + 2>>]
         /\ active' = [active EXCEPT ![v] = 1] /\ pane' = [pane EXCEPT ![v] = 1]
         /\ subs' = <<born + 1, born + 2>>
         /\ asked' \in Seq(Command) /\ Len(asked') = born + 2
         /\ num' \in Seq(Int) /\ Len(num') = born + 2
         /\ \A n \in 1 .. born : asked'[n] = asked[n] /\ num'[n] = num[n]
         /\ asked'[born + 1] = "search" /\ asked'[born + 2] = "search"
<1> DEFINE two == <<born + 1, born + 2>>
           made == asked \o <<"nothing", "nothing">>
<1>1. born \in Nat
  BY DocType DEF Typed
<1>2. two \in Seq(Int) /\ Len(two) = 2 /\ two[1] = born + 1 /\ two[2] = born + 2
  BY <1>1
<1>3. /\ InitTab(v, two)
      /\ asked' = Told(made, subs', "search") /\ num' = num \o <<0, 0>>
  BY DEF Render
<1>4. /\ SubSeq(two, 1, 2) = two
      /\ ShownListener(two, Static) \o <<two[Range_]>> = two
  <2>1. <<two[1], two[2]>> = two
    BY <1>2
  <2> HIDE DEF two
  <2> QED
    <3>1. Len(two) >= 2
      BY <1>2
    <3>2. /\ SubSeq(two, 1, 2) = <<two[1], two[2]>>
          /\ ShownListener(two, Static) \o <<two[Range_]>> = <<two[1], two[2]>>
      BY <1>2, <3>1, FirstTwo
    <3> QED
      BY <2>1, <3>2
<1>5. /\ tabs' = [tabs EXCEPT ![v] = two] /\ subs' = two
      /\ active' = [active EXCEPT ![v] = 1] /\ pane' = [pane EXCEPT ![v] = 1]
  BY <1>3, <1>4 DEF InitTab, Static
<1>6. /\ made \in Seq(Command) /\ Len(made) = born + 2
      /\ \A n \in 1 .. born : made[n] = asked[n]
  <2>1. asked \in Seq(Command) /\ Len(asked) = born
    BY DocType DEF Typed
  <2>2. <<"nothing", "nothing">> \in Seq(Command) /\ Len(<<"nothing", "nothing">>) = 2
    BY DEF Command
  <2> QED
    BY <1>1, <2>1, <2>2
<1>7. /\ num' \in Seq(Int) /\ Len(num') = born + 2
      /\ \A n \in 1 .. born : num'[n] = num[n]
  BY <1>1, <1>3, DocType DEF Typed
<1>8. \A n \in Int : Contains(two, n) <=> n \in {born + 1, born + 2}
  <2>1. \A i \in 1 .. 2 : i = 1 \/ i = 2
    OBVIOUS
  <2> HIDE DEF two
  <2> QED
    BY <1>2, <2>1 DEF Contains
<1>9. "search" \in Command
  BY DEF Command
<1> HIDE DEF two, made
<1>10. /\ asked' \in Seq(Command) /\ Len(asked') = born + 2
       /\ \A n \in 1 .. born + 2 : asked'[n] = IF Contains(two, n) THEN "search" ELSE made[n]
  BY <1>3, <1>5, <1>6, <1>9, ToldShape
<1>11. \A n \in 1 .. born : asked'[n] = asked[n]
  BY <1>1, <1>6, <1>8, <1>10
<1>12. asked'[born + 1] = "search" /\ asked'[born + 2] = "search"
  BY <1>1, <1>8, <1>10
<1> QED
  BY <1>5, <1>7, <1>10, <1>11, <1>12 DEF two

LEMMA RenderType == ASSUME Typed, NEW v \in Visits, Render(v) PROVE Typed'
<1> USE DEF Typed
<1>1. stage' \in [Visits -> Step] /\ timers' \in Seq(Visits)
  BY NavType DEF Render, Step
<1>2. CASE page[v] \in TabPages
  <2>1. born \in Nat /\ born' = born + 2 /\ born <= born'
    BY <1>2, DocType, RenderMakes DEF born
  <2>2. tabs' \in [Visits -> Seq(1 .. born')]
    <3>1. tabs \in [Visits -> Seq(1 .. born')]
      BY <2>1, DocType, SeqGrows
    <3>2. <<born + 1, born + 2>> \in Seq(1 .. born')
      BY <2>1
    <3>3. tabs' = [tabs EXCEPT ![v] = <<born + 1, born + 2>>]
      BY <1>2, RenderMakes
    <3> QED
      BY <3>1, <3>2, <3>3
  <2>3. subs' \in Seq(1 .. born')
    <3>1. <<born + 1, born + 2>> \in Seq(1 .. born')
      BY <2>1
    <3>2. subs' = <<born + 1, born + 2>>
      BY <1>2, RenderMakes
    <3> QED
      BY <3>1, <3>2
  <2>4. active' \in [Visits -> Nat] /\ pane' \in [Visits -> Nat]
    <3>1. active' = [active EXCEPT ![v] = 1] /\ pane' = [pane EXCEPT ![v] = 1]
      BY <1>2, RenderMakes
    <3> QED
      BY <3>1, DocType
  <2>5. PagesTypeOK'
    BY <1>1, <1>2, <2>1, <2>2, <2>3, <2>4, RenderMakes
    DEF Render, PagesTypeOK, born, openers, Step, Command
  <2>6. TwoTabs'
    <3> SUFFICES ASSUME NEW w \in Visits, Tabbed(w)' PROVE Len(tabs'[w]) >= 2
      BY DEF TwoTabs
    <3>1. CASE w = v
      <4>1. tabs'[w] = <<born + 1, born + 2>>
        BY <1>2, <3>1, DocType, RenderMakes
      <4> QED
        BY <4>1
    <3>2. CASE w # v
      <4>1. tabs'[w] = tabs[w]
        BY <1>2, <3>2, DocType, RenderMakes
      <4>2. Tabbed(w)
        BY <3>2, NavType DEF Tabbed, Render
      <4> QED
        BY <4>1, <4>2 DEF TwoTabs
    <3> QED
      BY <3>1, <3>2
  <2> QED
    BY <2>5, <2>6
<1>3. CASE page[v] \notin TabPages
  <2>1. UNCHANGED doc /\ subs' = subs
    BY <1>3 DEF Render
  <2>2. PagesTypeOK'
    BY <1>1, <2>1 DEF Render, PagesTypeOK, born, doc, openers, Step
  <2>3. TwoTabs'
    <3> SUFFICES ASSUME NEW w \in Visits, Tabbed(w)' PROVE Len(tabs'[w]) >= 2
      BY DEF TwoTabs
    <3>1. w # v
      BY <1>3 DEF Tabbed, Render
    <3>2. Tabbed(w) /\ tabs' = tabs
      BY <2>1, <3>1, NavType DEF Tabbed, Render, doc
    <3> QED
      BY <3>2 DEF TwoTabs
  <2> QED
    BY <2>2, <2>3
<1> QED
  BY <1>2, <1>3

LEMMA HeadersAreNat == ASSUME PagesTypeOK PROVE HeadersShown \in Nat
<1> DEFINE inDoc == ToSet(content)
           headers(v) == {v} \X DOMAIN tabs[v]
           all == {headers(v) : v \in inDoc}
           f == [v \in inDoc |-> headers(v)]
<1>1. inDoc \subseteq Visits /\ IsFiniteSet(inDoc)
  <2>1. inDoc \subseteq Visits
    BY NavType, InToSet
  <2>2. IsFiniteSet(Visits)
    BY VisitsAreNumbers, FS_Interval
  <2> QED
    BY <2>1, <2>2, FS_Subset
<1>2. \A v \in inDoc : IsFiniteSet(headers(v))
  <2> SUFFICES ASSUME NEW v \in inDoc PROVE IsFiniteSet(headers(v))
    OBVIOUS
  <2>1. tabs[v] \in Seq(1 .. born)
    BY <1>1, DocType
  <2>2. DOMAIN tabs[v] = 1 .. Len(tabs[v]) /\ Len(tabs[v]) \in Nat
    BY <2>1
  <2>3. IsFiniteSet(DOMAIN tabs[v])
    BY <2>2, FS_Interval
  <2>4. IsFiniteSet({v})
    BY FS_Singleton
  <2> QED
    BY <2>3, <2>4, FS_Product
<1>3. IsFiniteSet(all)
  <2>1. f \in Surjection(inDoc, all)
    BY Zenon DEF Surjection
  <2> HIDE DEF inDoc, all, f
  <2> QED
    BY <1>1, <2>1, FS_Surjection
<1>4. \A T \in all : IsFiniteSet(T)
  BY <1>2
<1>5. IsFiniteSet(UNION all)
  <2> HIDE DEF all
  <2> QED
    BY <1>3, <1>4, FS_UNION
<1>6. HeadersShown = Cardinality(UNION all)
  BY DEF HeadersShown
<1> HIDE DEF all
<1> QED
  BY <1>5, <1>6, FS_CardinalityType

LEMMA HeadersOfOne ==
  ASSUME PagesTypeOK, NEW c \in Visits, content = <<c>>
  PROVE  HeadersShown = Len(tabs[c])
<1>1. tabs[c] \in Seq(1 .. born)
  BY DocType
<1>2. DOMAIN tabs[c] = 1 .. Len(tabs[c]) /\ Len(tabs[c]) \in Nat
  BY <1>1
<1>3. ToSet(content) = {c}
  BY DEF ToSet
<1>4. UNION {{v} \X DOMAIN tabs[v] : v \in {c}} = {c} \X (1 .. Len(tabs[c]))
  BY <1>2
<1> DEFINE n == Len(tabs[c])
<1>5. Cardinality({c} \X (1 .. n)) = n
  <2>1. n \in Nat
    BY <1>2
  <2> HIDE DEF n
  <2>2. IsFiniteSet({c}) /\ Cardinality({c}) = 1
    BY FS_Singleton
  <2>3. IsFiniteSet(1 .. n) /\ Cardinality(1 .. n) = n
    BY <2>1, FS_Interval
  <2>4. Cardinality({c} \X (1 .. n)) = Cardinality({c}) * Cardinality(1 .. n)
    BY <2>2, <2>3, FS_Product
  <2> QED
    BY <2>1, <2>2, <2>3, <2>4
<1>6. HeadersShown = Cardinality(UNION {{v} \X DOMAIN tabs[v] : v \in {c}})
  BY <1>3 DEF HeadersShown
<1> QED
  BY <1>4, <1>5, <1>6

\* A search leaves the two fixed tabs, which listen.
LEMMA InitTabShape ==
  ASSUME Typed, NEW v \in Visits, OnScreen(v), InitTab(v, tabs[v])
  PROVE  /\ tabs' = [tabs EXCEPT ![v] = <<tabs[v][1], tabs[v][2]>>]
         /\ active' = [active EXCEPT ![v] = 1] /\ pane' = [pane EXCEPT ![v] = 1]
         /\ subs' = <<tabs[v][1], tabs[v][2]>>
         /\ tabs[v][1] \in 1 .. born /\ tabs[v][2] \in 1 .. born
<1> DEFINE ts == tabs[v]
<1>1. ts \in Seq(1 .. born) /\ Len(ts) >= 2
  BY TwoOf
<1> HIDE DEF ts
<1>2. /\ SubSeq(ts, 1, 2) = <<ts[1], ts[2]>> /\ ts[1] \in 1 .. born /\ ts[2] \in 1 .. born
      /\ ShownListener(ts, Static) \o <<ts[Range_]>> = <<ts[1], ts[2]>>
  BY <1>1, FirstTwo
<1> QED
  BY <1>2 DEF InitTab, Static, ts

LEMMA SearchAsks ==
  ASSUME Typed, NEW v \in Visits, Search(v)
  PROVE  /\ asked' \in Seq(Command) /\ Len(asked') = born
         /\ \A n \in 1 .. born : asked'[n] \in {asked[n], "search"}
<1>1. asked' = Told(asked, subs', "search")
  BY DEF Search
<1>2. asked \in Seq(Command) /\ "search" \in Command /\ Len(asked) = born
  BY DocType DEF Typed, Command
<1> QED
  BY <1>1, <1>2, ToldShape

LEMMA InitTabType ==
  ASSUME Typed, NEW v \in Visits, OnScreen(v), InitTab(v, tabs[v]),
         asked' \in Seq(Command), Len(asked') = born,
         UNCHANGED <<habits, nav, num, extra, openers, firing>>
  PROVE  Typed'
<1> DEFINE two == <<tabs[v][1], tabs[v][2]>>
<1>1. /\ tabs' = [tabs EXCEPT ![v] = two] /\ subs' = two
      /\ active' = [active EXCEPT ![v] = 1] /\ pane' = [pane EXCEPT ![v] = 1]
      /\ two \in Seq(1 .. born) /\ Len(two) = 2
  BY InitTabShape
<1> HIDE DEF two
<1>2. born' = born
  BY DEF born
<1>3. /\ tabs' \in [Visits -> Seq(1 .. born)] /\ subs' \in Seq(1 .. born)
      /\ active' \in [Visits -> Nat] /\ pane' \in [Visits -> Nat]
  BY <1>1, DocType DEF Typed
<1>4. PagesTypeOK'
  BY <1>2, <1>3 DEF Typed, PagesTypeOK, born, nav, openers, Command
<1>5. TwoTabs'
  <2> SUFFICES ASSUME NEW w \in Visits, Tabbed(w)' PROVE Len(tabs'[w]) >= 2
    BY DEF TwoTabs
  <2>1. Tabbed(w)
    BY DEF Tabbed, nav
  <2>2. Len(tabs[w]) >= 2
    BY <2>1 DEF Typed, TwoTabs
  <2>3. w = v => tabs'[w] = two
    BY <1>1, DocType DEF Typed
  <2>4. w # v => tabs'[w] = tabs[w]
    BY <1>1, DocType DEF Typed
  <2>5. CASE w = v
    <3>1. tabs'[w] = two /\ Len(two) = 2
      BY <1>1, <2>3, <2>5
    <3>2. Len(tabs'[w]) = 2
      BY <3>1, Zenon
    <3> QED
      BY <3>2
  <2>6. CASE w # v
    BY <2>2, <2>4, <2>6
  <2> QED
    BY <2>5, <2>6
<1> QED
  BY <1>4, <1>5 DEF Typed

LEMMA SearchType == ASSUME Typed, NEW v \in Visits, Search(v) \/ RefusedSearch(v) PROVE Typed'
<1>1. OnScreen(v) /\ InitTab(v, tabs[v]) /\ UNCHANGED <<habits, nav, num, extra, openers, firing>>
  BY DEF Search, RefusedSearch
<1>2. asked' \in Seq(Command) /\ Len(asked') = born
  BY SearchAsks, DocType DEF RefusedSearch, Typed
<1> QED
  BY <1>1, <1>2, InitTabType

LEMMA PressType == ASSUME Typed, PressStep PROVE Typed'
<1>1. PICK v \in Visits : PressRange(v) \/ PressDetail(v)
  BY DEF PressStep
<1>2. /\ UNCHANGED <<habits, nav, doc, subs, openers>>
      /\ firing' \in Seq(Visits) /\ extra' \in Nat
  <2>1. Len(newTab) \in Nat /\ Len(detail) \in Nat /\ extra \in Nat
    BY NavType DEF Typed, PagesTypeOK
  <2> QED
    BY <1>1, <2>1, NavType DEF Typed, PressRange, PressDetail
<1>3. PagesTypeOK'
  BY <1>2 DEF Typed, PagesTypeOK, born, doc, nav, openers
<1> QED
  BY <1>2, <1>3 DEF Typed, TwoTabs, Tabbed, doc, nav

\* The tab that is made for a range: it alone listens, unless its container had none.
LEMMA RenderTabShape ==
  ASSUME Typed, RenderTab
  PROVE  LET v == Head(firing)
             n == born + 1
             others == HideTab(v, subs)
         IN /\ v \in Visits /\ ~ Idle /\ v \in ToSet(firing)
            /\ subs' = Append(others, n) /\ others \in Seq(1 .. born) /\ others \in {subs, <<>>}
            /\ tabs' = [tabs EXCEPT ![v] = Append(tabs[v], n)]
            /\ active' = [active EXCEPT ![v] = Len(tabs[v]) + 1]
            /\ pane' = [pane EXCEPT ![v] = Len(tabs[v]) + 1]
            /\ num' = Append(num, HeadersShown - 2)
            /\ asked' \in Seq(Command) /\ Len(asked') = n
            /\ \A k \in 1 .. born : ~ Contains(others, k) => asked'[k] = asked[k]
            /\ firing' = Tail(firing) /\ firing' \in Seq(Visits)
            /\ UNCHANGED <<habits, nav, extra, openers>>
<1> DEFINE v == Head(firing)
           n == born + 1
           others == HideTab(v, subs)
           made == Append(asked, "nothing")
<1>1. firing \in Seq(Visits) /\ firing # <<>> /\ ~ Idle
  BY NavType DEF RenderTab, Idle, Typed
<1>2. v \in Visits /\ firing' = Tail(firing) /\ firing' \in Seq(Visits) /\ v \in ToSet(firing)
  <2>1. Head(firing) \in Visits /\ Tail(firing) \in Seq(Visits) /\ Head(firing) = firing[1]
        /\ 1 \in 1 .. Len(firing)
    BY <1>1
  <2>2. Head(firing) \in ToSet(firing)
    BY <1>1, <2>1, InToSet
  <2> QED
    BY <2>1, <2>2 DEF RenderTab
<1>3. others \in Seq(1 .. born) /\ others \in {subs, <<>>}
  BY <1>2, HideTabType DEF Typed
<1>4. /\ subs' = Append(others, n)
      /\ asked' = Told(made, subs', "range")
      /\ tabs' = [tabs EXCEPT ![v] = Append(tabs[v], n)]
      /\ active' = [active EXCEPT ![v] = Len(tabs'[v])]
      /\ pane' = [pane EXCEPT ![v] = Len(tabs'[v])]
      /\ num' = Append(num, HeadersShown - 2)
      /\ UNCHANGED <<habits, nav, extra, openers>>
  BY DEF RenderTab
<1> HIDE DEF v, others
<1>5. born \in Nat /\ asked \in Seq(Command) /\ Len(asked) = born /\ {"nothing", "range"} \subseteq Command
  BY DocType DEF Typed, Command
<1>6. /\ made \in Seq(Command) /\ Len(made) = n /\ n \in Nat
      /\ \A k \in 1 .. born : made[k] = asked[k] /\ k \in 1 .. n
  BY <1>5
<1> HIDE DEF made
<1>7. /\ asked' \in Seq(Command) /\ Len(asked') = n
      /\ \A k \in 1 .. n : asked'[k] = IF Contains(subs', k) THEN "range" ELSE made[k]
  BY <1>4, <1>5, <1>6, ToldShape
<1>8. ASSUME NEW k \in 1 .. born, ~ Contains(others, k) PROVE asked'[k] = asked[k]
  <2>1. k # n
    BY <1>5
  <2>2. /\ subs' \in Seq(1 .. n)
        /\ ToSet(subs') = ToSet(others) \cup {n}
    <3>1. others \in Seq(1 .. n) /\ n \in 1 .. n
      BY <1>3, <1>5, SeqGrows
    <3>2. Append(others, n) \in Seq(1 .. n)
      BY <3>1
    <3>3. ToSet(Append(others, n)) = ToSet(others) \cup {n}
      BY <3>1, ToSetAppend
    <3> QED
      BY <1>4, <3>2, <3>3
  <2>3. k \notin ToSet(others)
    BY <1>3, <1>8, InToSet
  <2>4. ~ Contains(subs', k)
    BY <2>1, <2>2, <2>3, InToSet
  <2> QED
    BY <1>6, <1>7, <2>4
<1>9. Len(tabs'[v]) = Len(tabs[v]) + 1
  <2>1. tabs[v] \in Seq(1 .. born) /\ tabs'[v] = Append(tabs[v], n)
    BY <1>2, <1>4, DocType DEF Typed
  <2> QED
    BY <2>1
<1> QED
  BY <1>1, <1>2, <1>3, <1>4, <1>7, <1>8, <1>9 DEF v, others

LEMMA RenderTabType == ASSUME Typed, RenderTab PROVE Typed'
<1> DEFINE v == Head(firing)
           n == born + 1
           others == HideTab(v, subs)
           longer == Append(tabs[v], n)
<1>1. /\ v \in Visits
      /\ subs' = Append(others, n) /\ others \in Seq(1 .. born)
      /\ tabs' = [tabs EXCEPT ![v] = longer]
      /\ active' = [active EXCEPT ![v] = Len(tabs[v]) + 1]
      /\ pane' = [pane EXCEPT ![v] = Len(tabs[v]) + 1]
      /\ num' = Append(num, HeadersShown - 2)
      /\ asked' \in Seq(Command) /\ Len(asked') = n
      /\ firing' \in Seq(Visits)
      /\ UNCHANGED <<habits, nav, extra, openers>>
  BY RenderTabShape
<1> HIDE DEF v, others
<1>2. born \in Nat /\ born' = n /\ born <= n /\ n \in 1 .. n /\ n \in Nat
  BY <1>1, DocType DEF born, Typed
<1>3. tabs[v] \in Seq(1 .. born) /\ tabs \in [Visits -> Seq(1 .. born)]
  BY <1>1, DocType DEF Typed
<1>4. tabs \in [Visits -> Seq(1 .. n)] /\ others \in Seq(1 .. n)
  BY <1>1, <1>2, <1>3, SeqGrows
<1>5. longer \in Seq(1 .. n) /\ Len(longer) = Len(tabs[v]) + 1 /\ Len(tabs[v]) \in Nat
  <2>1. tabs[v] \in Seq(1 .. n)
    BY <1>1, <1>4
  <2> QED
    BY <1>2, <2>1
<1>6. subs' \in Seq(1 .. n)
  BY <1>1, <1>2, <1>4
<1>7. num' \in Seq(Int) /\ Len(num') = n
  <2>1. HeadersShown - 2 \in Int /\ num \in Seq(Int) /\ Len(num) = born
    BY DocType, HeadersAreNat DEF Typed
  <2> QED
    BY <1>1, <2>1
<1> HIDE DEF n, longer
<1>8. /\ tabs' \in [Visits -> Seq(1 .. n)]
      /\ active' \in [Visits -> Nat] /\ pane' \in [Visits -> Nat]
  BY <1>1, <1>4, <1>5, DocType DEF Typed
<1>9. PagesTypeOK'
  BY <1>1, <1>2, <1>6, <1>7, <1>8 DEF Typed, PagesTypeOK, nav, openers, Command
<1>10. TwoTabs'
  <2> SUFFICES ASSUME NEW w \in Visits, Tabbed(w)' PROVE Len(tabs'[w]) >= 2
    BY DEF TwoTabs
  <2>1. Tabbed(w)
    BY <1>1 DEF Tabbed, nav
  <2>2. Len(tabs[w]) >= 2
    BY <2>1 DEF Typed, TwoTabs
  <2>3. CASE w = v
    <3>1. tabs'[w] = longer
      BY <1>1, <1>3, <2>3
    <3> QED
      BY <1>5, <2>2, <2>3, <3>1
  <2>4. CASE w # v
    <3>1. tabs'[w] = tabs[w]
      BY <1>1, <1>3, <2>4
    <3> QED
      BY <2>2, <3>1
  <2> QED
    BY <2>3, <2>4
<1> QED
  BY <1>9, <1>10 DEF Typed

\* A click on a header: the tab listens, and no other.
LEMMA ShowTabShape ==
  ASSUME Typed, NEW v \in Visits, NEW i \in 1 .. MaxExtra + 2, ShowTab(v, i)
  PROVE  /\ OnScreen(v) /\ i \in 1 .. Len(tabs[v]) /\ tabs[v] \in Seq(1 .. born)
         /\ subs' = <<tabs[v][i]>> /\ tabs[v][i] \in 1 .. born
         /\ active' = [active EXCEPT ![v] = i]
         /\ pane' = IF i <= Range_ THEN [pane EXCEPT ![v] = i]
                    ELSE PanesAfter(tabs, [pane EXCEPT ![v] = i], num[tabs[v][i]])
         /\ UNCHANGED <<habits, nav, tabs, num, asked, extra, openers, firing>>
<1>1. /\ OnScreen(v) /\ i \in 1 .. Len(tabs[v])
      /\ UNCHANGED <<habits, nav, tabs, num, asked, extra, openers, firing>>
  BY DEF ShowTab
<1>2. tabs[v] \in Seq(1 .. born) /\ tabs[v] # <<>>
  BY <1>1, TwoOf
<1>3. ShownIndex(tabs[v], i) = i /\ ShownListener(tabs[v], i) = <<tabs[v][i]>> /\ HideTab(v, subs) = <<>>
  BY <1>1, <1>2 DEF ShownIndex, ShownListener, HideTab
<1>4. tabs[v][i] \in 1 .. born
  BY <1>1, <1>2, SeqIn
<1>5. <<>> \o <<tabs[v][i]>> = <<tabs[v][i]>>
  BY <1>4
<1> QED
  BY <1>1, <1>2, <1>3, <1>4, <1>5 DEF ShowTab

LEMMA ShowTabType ==
  ASSUME Typed, NEW v \in Visits, NEW i \in 1 .. MaxExtra + 2, ShowTab(v, i) PROVE Typed'
<1>0. i \in Nat
  BY VisitsAreNumbers
<1>1. /\ subs' = <<tabs[v][i]>> /\ tabs[v][i] \in 1 .. born
      /\ active' = [active EXCEPT ![v] = i]
      /\ UNCHANGED <<habits, nav, tabs, num, asked, extra, openers, firing>>
  BY ShowTabShape
<1>2. pane' \in [Visits -> Nat]
  <2>1. [pane EXCEPT ![v] = i] \in [Visits -> Nat]
    BY <1>0, DocType DEF Typed
  <2>2. tabs \in [Visits -> Seq(1 .. born)] /\ content \in Seq(Visits)
    BY DocType, NavType DEF Typed
  <2>3. PanesAfter(tabs, [pane EXCEPT ![v] = i], num[tabs[v][i]]) \in [Visits -> Nat]
    BY <2>1, <2>2, PanesAfterType
  <2>4. pane' = IF i <= Range_ THEN [pane EXCEPT ![v] = i]
                ELSE PanesAfter(tabs, [pane EXCEPT ![v] = i], num[tabs[v][i]])
    BY ShowTabShape
  <2> QED
    BY <2>1, <2>3, <2>4
<1>3. active' \in [Visits -> Nat] /\ subs' \in Seq(1 .. born)
  BY <1>0, <1>1, DocType DEF Typed
<1>4. PagesTypeOK'
  BY <1>1, <1>2, <1>3 DEF Typed, PagesTypeOK, born, nav, openers
<1> QED
  BY <1>1, <1>4 DEF Typed, TwoTabs, Tabbed, nav

\* The cross of a tab: those after it move up, and the next one shown listens.
LEMMA RemoveTabShape ==
  ASSUME Typed, NEW v \in Visits, NEW i \in 1 .. MaxExtra + 2, RemoveTab(v, i)
  PROVE  LET left == RemoveAt(tabs[v], i)
             next == NextTab(active[v], i, Len(tabs[v]))
             gone == [tabs EXCEPT ![v] = left]
             kept == IF pane[v] = i THEN 0 ELSE IF pane[v] > i THEN pane[v] - 1 ELSE pane[v]
         IN /\ OnScreen(v) /\ i \in 3 .. Len(tabs[v]) /\ tabs[v] \in Seq(1 .. born)
            /\ i # Len(tabs[v]) => "middle" \in habits
            /\ (i # Len(tabs[v]) /\ i = active[v]) => "drop" \in habits
            /\ left \in Seq(1 .. born) /\ Len(left) = Len(tabs[v]) - 1
            /\ \A j \in 1 .. Len(left) : left[j] = IF j < i THEN tabs[v][j] ELSE tabs[v][j + 1]
            /\ next \in Int /\ kept \in Nat
            /\ tabs' = gone /\ gone \in [Visits -> Seq(1 .. born)]
            /\ active' = [active EXCEPT ![v] = ShownIndex(left, next)]
            /\ subs' = ShownListener(left, next)
            /\ pane' = PanesAfter(gone,
                 [pane EXCEPT ![v] = IF next = 0 THEN kept ELSE ShownIndex(left, next)],
                 num[tabs[v][i]])
            /\ UNCHANGED <<habits, nav, num, asked, extra, openers, firing>>
<1>1. OnScreen(v) /\ i \in 3 .. Len(tabs[v])
  BY DEF RemoveTab
<1>2. tabs[v] \in Seq(1 .. born) /\ i \in 1 .. Len(tabs[v]) /\ Len(tabs[v]) \in Nat
  <2>1. tabs[v] \in Seq(1 .. born)
    BY <1>1, TwoOf
  <2> QED
    BY <1>1, <2>1
<1>3. /\ RemoveAt(tabs[v], i) \in Seq(1 .. born) /\ Len(RemoveAt(tabs[v], i)) = Len(tabs[v]) - 1
      /\ \A j \in 1 .. Len(tabs[v]) - 1 :
           RemoveAt(tabs[v], i)[j] = IF j < i THEN tabs[v][j] ELSE tabs[v][j + 1]
  BY <1>2, RemoveAtShape
<1>4. active[v] \in Nat /\ pane[v] \in Nat
  BY DocType DEF Typed
<1>5. NextTab(active[v], i, Len(tabs[v])) \in Int
  BY <1>2, <1>4 DEF NextTab
<1>6. [tabs EXCEPT ![v] = RemoveAt(tabs[v], i)] \in [Visits -> Seq(1 .. born)]
  BY <1>3, DocType DEF Typed
<1>7. (IF pane[v] = i THEN 0 ELSE IF pane[v] > i THEN pane[v] - 1 ELSE pane[v]) \in Nat
  BY <1>2, <1>4
<1> QED
  BY <1>1, <1>2, <1>3, <1>5, <1>6, <1>7 DEF RemoveTab

LEMMA RemoveTabType ==
  ASSUME Typed, NEW v \in Visits, NEW i \in 1 .. MaxExtra + 2, RemoveTab(v, i) PROVE Typed'
<1> DEFINE left == RemoveAt(tabs[v], i)
           next == NextTab(active[v], i, Len(tabs[v]))
           gone == [tabs EXCEPT ![v] = left]
           kept == IF pane[v] = i THEN 0 ELSE IF pane[v] > i THEN pane[v] - 1 ELSE pane[v]
           mark == ShownIndex(left, next)
           panes == [pane EXCEPT ![v] = IF next = 0 THEN kept ELSE mark]
<1>1. /\ i \in 3 .. Len(tabs[v]) /\ tabs[v] \in Seq(1 .. born)
      /\ left \in Seq(1 .. born) /\ Len(left) = Len(tabs[v]) - 1
      /\ next \in Int /\ kept \in Nat
      /\ tabs' = gone /\ gone \in [Visits -> Seq(1 .. born)]
      /\ active' = [active EXCEPT ![v] = mark]
      /\ subs' = ShownListener(left, next)
      /\ pane' = PanesAfter(gone, panes, num[tabs[v][i]])
      /\ UNCHANGED <<habits, nav, num, asked, extra, openers, firing>>
  BY RemoveTabShape
<1>2. Len(left) >= 2
  BY <1>1
<1> HIDE DEF left, next, kept, gone
<1>3. subs' \in Seq(1 .. born) /\ mark \in Nat
  BY <1>1, ShownIndexType
<1> HIDE DEF mark
<1>4. active' \in [Visits -> Nat] /\ panes \in [Visits -> Nat]
  BY <1>1, <1>3, DocType DEF Typed
<1> HIDE DEF panes
<1>5. pane' \in [Visits -> Nat]
  BY <1>1, <1>4, PanesAfterType, NavType DEF Typed
<1>6. PagesTypeOK'
  BY <1>1, <1>3, <1>4, <1>5 DEF Typed, PagesTypeOK, born, nav, openers
<1>7. TwoTabs'
  <2> SUFFICES ASSUME NEW w \in Visits, Tabbed(w)' PROVE Len(tabs'[w]) >= 2
    BY DEF TwoTabs
  <2>1. Tabbed(w)
    BY <1>1 DEF Tabbed, nav
  <2>2. Len(tabs[w]) >= 2
    BY <2>1 DEF Typed, TwoTabs
  <2>3. CASE w = v
    <3>1. tabs'[w] = left
      BY <1>1, <2>3, DocType DEF gone, Typed
    <3> QED
      BY <1>2, <3>1
  <2>4. CASE w # v
    <3>1. tabs'[w] = tabs[w]
      BY <1>1, <2>4, DocType DEF gone, Typed
    <3> QED
      BY <2>2, <3>1
  <2> QED
    BY <2>3, <2>4
<1> QED
  BY <1>6, <1>7 DEF Typed

\* For a step's proof: one case for each action.
LEMMA TypedInit == PagesInit => Typed
<1> SUFFICES ASSUME PagesInit PROVE Typed
  OBVIOUS
<1>1. habits \subseteq Habits
  BY HabitsAssumption DEF PagesInit
<1>2. /\ page \in [Visits -> Pages \cup {"none"}]
      /\ stage \in [Visits -> {"unused", "loading", "made", "open"}]
      /\ active \in [Visits -> Nat] /\ pane \in [Visits -> Nat]
      /\ tabs \in [Visits -> Seq(1 .. born)]
  BY DEF PagesInit
<1>3. PagesTypeOK
  BY <1>1, <1>2, VisitsAreNumbers DEF PagesInit, PagesTypeOK, born
<1>4. TwoTabs
  BY DEF PagesInit, TwoTabs, Tabbed
<1> QED
  BY <1>3, <1>4 DEF Typed

LEMMA TypedStep == ASSUME Typed, [PagesNext]_pageVars PROVE Typed'
<1>1. CASE NavStep
  BY <1>1, NavigateType, ArriveType, RenderType DEF NavStep
<1>2. CASE TabStep
  BY <1>2, SearchType, ShowTabType, RemoveTabType DEF TabStep
<1>3. CASE PressStep
  BY <1>3, PressType
<1>4. CASE RenderTab
  BY <1>4, RenderTabType
<1>5. CASE UNCHANGED pageVars
  BY <1>5 DEF Typed, PagesTypeOK, TwoTabs, Tabbed, pageVars, nav, doc, openers, born
<1> QED
  BY <1>1, <1>2, <1>3, <1>4, <1>5, StepsAre

LEMMA TypedAlways == PagesSpec => []Typed
BY TypedInit, TypedStep, PTL DEF PagesSpec

(* Every variable keeps its type: the pages, their tabs, the handlers on   *)
(* the bus and those that the event under way has still to call.           *)
THEOREM PagesTypeCorrect == PagesSpec => []PagesTypeOK
<1>1. Typed => PagesTypeOK
  BY DEF Typed
<1> QED
  BY <1>1, TypedAlways, PTL

-----------------------------------------------------------------------------
(* Nobody is bound to "retrieve" twice: no container has a tab twice. *)

TabsApart == \A v \in Visits : IsInjective(tabs[v])
Apart == TabsApart /\ NobodyAskedTwice

LEMMA OneApart == ASSUME NEW x PROVE IsInjective(<<x>>) /\ IsInjective(<<>>)
BY DEF IsInjective

LEMMA TwoApart == ASSUME NEW x, NEW y, x # y PROVE IsInjective(<<x, y>>)
<1> DEFINE s == <<x, y>>
<1>1. DOMAIN s = {1, 2} /\ s[1] = x /\ s[2] = y
  OBVIOUS
<1> HIDE DEF s
<1>2. IsInjective(s)
  BY <1>1 DEF IsInjective
<1> QED
  BY <1>2 DEF s

LEMMA ApartAt ==
  ASSUME NEW S, NEW s \in Seq(S)
  PROVE  IsInjective(s) <=> \A i, j \in 1 .. Len(s) : s[i] = s[j] => i = j
BY DEF IsInjective

LEMMA AppendApart ==
  ASSUME NEW m \in Nat, NEW s \in Seq(1 .. m), IsInjective(s)
  PROVE  IsInjective(Append(s, m + 1))
<1> DEFINE t == Append(s, m + 1)
<1>1. /\ t \in Seq(1 .. m + 1) /\ Len(t) = Len(s) + 1 /\ Len(s) \in Nat
      /\ \A i \in 1 .. Len(s) : t[i] = s[i]
      /\ t[Len(s) + 1] = m + 1
  <2>1. s \in Seq(1 .. m + 1) /\ m + 1 \in 1 .. m + 1
    BY SeqGrows
  <2> QED
    BY <2>1
<1> HIDE DEF t
<1>2. \A i \in 1 .. Len(s) : t[i] # m + 1
  <2>1. \A i \in 1 .. Len(s) : s[i] \in 1 .. m
    BY SeqIn
  <2> QED
    BY <1>1, <2>1
<1>3. \A i, j \in 1 .. Len(s) : s[i] = s[j] => i = j
  BY ApartAt
<1>4. ASSUME NEW i \in 1 .. Len(t), NEW j \in 1 .. Len(t), t[i] = t[j] PROVE i = j
  <2>1. CASE i = Len(s) + 1
    <3>1. j \notin 1 .. Len(s)
      BY <1>1, <1>2, <1>4, <2>1
    <3> QED
      BY <1>1, <2>1, <3>1
  <2>2. CASE j = Len(s) + 1
    <3>1. i \notin 1 .. Len(s)
      BY <1>1, <1>2, <1>4, <2>2
    <3> QED
      BY <1>1, <2>2, <3>1
  <2>3. CASE i # Len(s) + 1 /\ j # Len(s) + 1
    <3>1. i \in 1 .. Len(s) /\ j \in 1 .. Len(s)
      BY <1>1, <2>3
    <3> QED
      BY <1>1, <1>3, <1>4, <3>1
  <2> QED
    BY <2>1, <2>2, <2>3
<1>5. IsInjective(t)
  BY <1>1, <1>4, ApartAt
<1> QED
  BY <1>5 DEF t

LEMMA RemoveApart ==
  ASSUME NEW S, NEW s \in Seq(S), IsInjective(s), NEW t \in Seq(S), NEW k \in 1 .. Len(s),
         Len(t) = Len(s) - 1,
         \A j \in 1 .. Len(t) : t[j] = IF j < k THEN s[j] ELSE s[j + 1]
  PROVE  IsInjective(t)
<1> DEFINE from(j) == IF j < k THEN j ELSE j + 1
<1>1. Len(s) \in Nat
  OBVIOUS
<1>2. \A j \in 1 .. Len(t) : from(j) \in 1 .. Len(s) /\ t[j] = s[from(j)]
  BY <1>1
<1>3. \A i, j \in 1 .. Len(t) : from(i) = from(j) => i = j
  BY <1>1
<1> HIDE DEF from
<1>4. \A i, j \in 1 .. Len(s) : s[i] = s[j] => i = j
  BY ApartAt
<1>5. \A i, j \in 1 .. Len(t) : t[i] = t[j] => i = j
  BY <1>2, <1>3, <1>4
<1> QED
  BY <1>5, ApartAt

\* When one container's tabs change, it is enough to look at those.
LEMMA ApartOnce ==
  ASSUME TabsApart, NEW v \in Visits, NEW ts, tabs \in [Visits -> Seq(1 .. born)],
         tabs' = [tabs EXCEPT ![v] = ts], IsInjective(ts)
  PROVE  TabsApart'
<1> SUFFICES ASSUME NEW w \in Visits PROVE IsInjective(tabs'[w])
  BY DEF TabsApart
<1>1. CASE w = v
  <2>1. tabs'[w] = ts
    BY <1>1
  <2> QED
    BY <2>1
<1>2. CASE w # v
  <2>1. tabs'[w] = tabs[w]
    BY <1>2
  <2> QED
    BY <2>1 DEF TabsApart
<1> QED
  BY <1>1, <1>2

LEMMA ApartInit == PagesInit => Apart
BY OneApart DEF PagesInit, Apart, TabsApart, NobodyAskedTwice

LEMMA CloseApart == ASSUME Typed, Apart, CloseCurrent PROVE Apart'
<1>1. \/ subs' = subs
      \/ subs' = <<>>
  BY DEF CloseCurrent
<1>2. NobodyAskedTwice'
  BY <1>1, OneApart DEF Apart, NobodyAskedTwice
<1>3. CASE tabs' = tabs
  BY <1>2, <1>3 DEF Apart, TabsApart
<1>4. CASE tabs' = [tabs EXCEPT ![current] = <<>>] /\ current # 0
  <2>1. current \in Visits
    BY <1>4, VisitsAreNumbers DEF Typed, PagesTypeOK
  <2> QED
    BY <1>2, <1>4, <2>1, OneApart, ApartOnce, DocType DEF Apart, Typed
<1> QED
  BY <1>3, <1>4 DEF CloseCurrent

LEMMA ApartStep == ASSUME Typed, Apart, [PagesNext]_pageVars PROVE Apart'
<1> USE DEF Apart
<1>1. ASSUME NEW p \in Pages, Navigate(p) PROVE Apart'
  BY <1>1, CloseApart DEF Navigate
<1>2. ASSUME NEW v \in Visits, Arrive(v) PROVE Apart'
  BY <1>2 DEF Arrive, doc, TabsApart, NobodyAskedTwice
<1>3. ASSUME NEW v \in Visits, Render(v) PROVE Apart'
  <2>1. CASE page[v] \in TabPages
    <3>1. IsInjective(<<born + 1, born + 2>>)
      BY TwoApart, DocType DEF Typed
    <3>2. tabs' = [tabs EXCEPT ![v] = <<born + 1, born + 2>>] /\ subs' = <<born + 1, born + 2>>
      BY <1>3, <2>1, RenderMakes
    <3> QED
      BY <3>1, <3>2, ApartOnce, DocType DEF NobodyAskedTwice, Typed
  <2>2. CASE page[v] \notin TabPages
    BY <1>3, <2>2 DEF Render, doc, TabsApart, NobodyAskedTwice
  <2> QED
    BY <2>1, <2>2
<1>4. ASSUME NEW v \in Visits, Search(v) \/ RefusedSearch(v) PROVE Apart'
  <2>1. OnScreen(v) /\ InitTab(v, tabs[v])
    BY <1>4 DEF Search, RefusedSearch
  <2>2. tabs[v][1] # tabs[v][2]
    <3>1. tabs[v] \in Seq(1 .. born) /\ Len(tabs[v]) >= 2 /\ IsInjective(tabs[v])
      BY <2>1, TwoOf DEF TabsApart
    <3>2. 1 \in 1 .. Len(tabs[v]) /\ 2 \in 1 .. Len(tabs[v])
      BY <3>1
    <3>3. tabs[v][1] = tabs[v][2] => 1 = 2
      BY <3>1, <3>2, ApartAt
    <3> QED
      BY <3>3
  <2> DEFINE two == <<tabs[v][1], tabs[v][2]>>
  <2>3. IsInjective(two) /\ tabs' = [tabs EXCEPT ![v] = two] /\ subs' = two
    BY <2>1, <2>2, TwoApart, InitTabShape
  <2> HIDE DEF two
  <2> QED
    BY <2>3, ApartOnce, DocType DEF NobodyAskedTwice, Typed
<1>5. CASE PressStep
  BY <1>5 DEF PressStep, PressRange, PressDetail, doc, TabsApart, NobodyAskedTwice
<1>6. CASE RenderTab
  <2> DEFINE v == Head(firing)
             others == HideTab(v, subs)
  <2>1. /\ v \in Visits /\ subs' = Append(others, born + 1)
        /\ others \in Seq(1 .. born) /\ others \in {subs, <<>>}
        /\ tabs' = [tabs EXCEPT ![v] = Append(tabs[v], born + 1)]
    BY <1>6, RenderTabShape
  <2> HIDE DEF v, others
  <2>2. IsInjective(others)
    BY <2>1, OneApart DEF NobodyAskedTwice
  <2>3. IsInjective(subs')
    BY <2>1, <2>2, AppendApart, DocType DEF Typed
  <2>4. IsInjective(Append(tabs[v], born + 1))
    BY <2>1, AppendApart, DocType DEF Typed, TabsApart
  <2> QED
    BY <2>1, <2>3, <2>4, ApartOnce, DocType DEF NobodyAskedTwice, Typed
<1>7. ASSUME NEW v \in Visits, NEW i \in 1 .. MaxExtra + 2, ShowTab(v, i) PROVE Apart'
  <2>1. subs' = <<tabs[v][i]>> /\ tabs' = tabs
    BY <1>7, ShowTabShape
  <2> QED
    BY <2>1, OneApart DEF TabsApart, NobodyAskedTwice
<1>8. ASSUME NEW v \in Visits, NEW i \in 1 .. MaxExtra + 2, RemoveTab(v, i) PROVE Apart'
  <2> DEFINE left == RemoveAt(tabs[v], i)
             next == NextTab(active[v], i, Len(tabs[v]))
  <2>1. /\ i \in 3 .. Len(tabs[v]) /\ tabs[v] \in Seq(1 .. born)
        /\ left \in Seq(1 .. born) /\ Len(left) = Len(tabs[v]) - 1
        /\ \A j \in 1 .. Len(left) : left[j] = IF j < i THEN tabs[v][j] ELSE tabs[v][j + 1]
        /\ tabs' = [tabs EXCEPT ![v] = left] /\ subs' = ShownListener(left, next)
    BY <1>8, RemoveTabShape
  <2> HIDE DEF left, next
  <2>2. IsInjective(tabs[v]) /\ i \in 1 .. Len(tabs[v])
    BY <2>1 DEF TabsApart
  <2>3. IsInjective(left)
    BY <2>1, <2>2, RemoveApart
  <2>4. IsInjective(subs')
    BY <2>1, OneApart DEF ShownListener
  <2> QED
    BY <2>1, <2>3, <2>4, ApartOnce, DocType DEF NobodyAskedTwice, Typed
<1>9. CASE UNCHANGED pageVars
  BY <1>9 DEF pageVars, doc, TabsApart, NobodyAskedTwice
<1> QED
  BY <1>1, <1>2, <1>3, <1>4, <1>5, <1>6, <1>7, <1>8, <1>9, StepsAre DEF NavStep, TabStep

LEMMA ApartAlways == PagesSpec => []Apart
BY ApartInit, ApartStep, TypedAlways, PTL DEF PagesSpec

(* NobodyAskedTwice: whatever pages and tabs come before it, a search or a *)
(* range is sent once by each tab that is to send it, though customOn      *)
(* binds a handler without looking whether it is bound already.            *)
THEOREM NobodyIsAskedTwice == PagesSpec => []NobodyAskedTwice
<1>1. Apart => NobodyAskedTwice
  BY DEF Apart
<1> QED
  BY <1>1, ApartAlways, PTL

-----------------------------------------------------------------------------
(* The visits in their order, and whom the bus knows. *)

InOrder ==
  /\ \A v \in Visits : stage[v] = "unused" <=> v > visited
  /\ closed \subseteq 1 .. visited /\ current \in 0 .. visited
  /\ \A v \in ToSet(timers) : stage[v] # "unused"
  /\ Idle \/ timers = <<>>

OnBus == ToSet(newTab) \cup ToSet(detail) \cup ToSet(firing)
BusKnows == \A v \in OnBus : page[v] \in TabPages /\ stage[v] # "unused"
Order == InOrder /\ BusKnows

LEMMA OnBusType == ASSUME PagesTypeOK PROVE OnBus \subseteq Visits /\ ToSet(timers) \subseteq Visits
BY NavType, InToSet DEF OnBus

\* A step that is not of the menu and leaves the visits as they are.
LEMMA OrderKept ==
  ASSUME Order, UNCHANGED nav, OnBus' \subseteq OnBus, Idle' \/ timers = <<>> PROVE Order'
<1>1. InOrder'
  BY DEF Order, InOrder, nav
<1>2. BusKnows'
  BY DEF Order, BusKnows, nav
<1> QED
  BY <1>1, <1>2 DEF Order

LEMMA NavigateOrder == ASSUME Typed, Order, NEW p \in Pages, Navigate(p) PROVE Order'
<1>1. /\ visited \in Nat /\ visited + 1 \in Visits /\ visited' = visited + 1 /\ current \in 0 .. visited
      /\ page' = [page EXCEPT ![visited + 1] = p]
      /\ stage' = [stage EXCEPT ![visited + 1] = "loading"]
      /\ CloseCurrent /\ Idle
      /\ UNCHANGED <<current, timers, firing>>
  BY NavType, VisitsAreNumbers DEF Navigate, Typed, PagesTypeOK, Order, InOrder
<1>2. \A v \in Visits : stage[v] # "unused" => page'[v] = page[v] /\ stage'[v] = stage[v]
  <2>1. stage[visited + 1] = "unused"
    BY <1>1 DEF Order, InOrder
  <2> QED
    BY <1>1, <2>1, NavType DEF Typed
<1>3. InOrder'
  <2>1. \A v \in Visits : stage'[v] = "unused" <=> v > visited + 1
    <3> SUFFICES ASSUME NEW v \in Visits PROVE stage'[v] = "unused" <=> v > visited + 1
      OBVIOUS
    <3>1. CASE v = visited + 1
      <4>1. stage'[v] = "loading" /\ ~ (v > visited + 1)
        BY <1>1, <3>1, NavType DEF Typed
      <4> QED
        BY <4>1
    <3>2. CASE v # visited + 1
      <4>1. stage'[v] = stage[v] /\ (v > visited <=> v > visited + 1)
        BY <1>1, <3>2, NavType, VisitsAreNumbers DEF Typed
      <4> QED
        BY <4>1 DEF Order, InOrder
    <3> QED
      BY <3>1, <3>2
  <2>2. closed' \subseteq 1 .. visited + 1
    <3>1. \/ closed' = closed
          \/ current # 0 /\ closed' = closed \cup {current}
      BY <1>1 DEF CloseCurrent
    <3>2. closed \subseteq 1 .. visited + 1 /\ (current # 0 => current \in 1 .. visited + 1)
      BY <1>1 DEF Order, InOrder
    <3> QED
      BY <3>1, <3>2
  <2>3. current' \in 0 .. visited + 1
    BY <1>1
  <2>4. \A v \in ToSet(timers') : stage'[v] # "unused"
    BY <1>1, <1>2, OnBusType DEF Order, InOrder, Typed
  <2> QED
    BY <1>1, <2>1, <2>2, <2>3, <2>4 DEF InOrder, Idle
<1>4. OnBus' \subseteq OnBus
  <2>1. newTab' \in {newTab, <<>>} /\ detail' \in {detail, <<>>}
    BY <1>1 DEF CloseCurrent
  <2>2. ToSet(newTab') \subseteq ToSet(newTab) /\ ToSet(detail') \subseteq ToSet(detail)
    BY <2>1, ToSetOne
  <2> QED
    BY <1>1, <2>2 DEF OnBus
<1>5. BusKnows'
  <2> SUFFICES ASSUME NEW v \in OnBus' PROVE page'[v] \in TabPages /\ stage'[v] # "unused"
    BY DEF BusKnows
  <2>1. v \in Visits /\ page[v] \in TabPages /\ stage[v] # "unused"
    BY <1>4, OnBusType DEF Order, BusKnows, Typed
  <2> QED
    BY <1>2, <2>1
<1> QED
  BY <1>3, <1>5 DEF Order

LEMMA ArriveOrder == ASSUME Typed, Order, NEW v \in Visits, Arrive(v) PROVE Order'
<1>1. /\ stage' = [stage EXCEPT ![v] = "made"] /\ stage[v] = "loading"
      /\ current' = v /\ timers' = Append(timers, v) /\ Idle
      /\ UNCHANGED <<visited, page, closed, firing>>
  BY DEF Arrive
<1>2. \A w \in Visits : stage'[w] = "unused" <=> stage[w] = "unused"
  BY <1>1, NavType DEF Typed
<1>3. InOrder'
  <2>1. v \in 0 .. visited
    BY <1>1, NavType, VisitsAreNumbers DEF Order, InOrder, Typed
  <2>2. ToSet(timers') = ToSet(timers) \cup {v}
    BY <1>1, NavType, ToSetAppend DEF Typed
  <2>3. \A w \in ToSet(timers') : stage'[w] # "unused"
    <3>1. \A w \in ToSet(timers) \cup {v} : w \in Visits /\ stage[w] # "unused"
      BY <1>1, OnBusType DEF Order, InOrder, Typed
    <3> QED
      BY <1>2, <2>2, <3>1
  <2> QED
    BY <1>1, <1>2, <2>1, <2>3 DEF Order, InOrder, Idle
<1>4. BusKnows'
  <2>1. OnBus' = IF page[v] \in TabPages THEN OnBus \cup {v} ELSE OnBus
    <3>1. CASE page[v] \in TabPages
      <4>1. newTab' = Append(newTab, v) /\ detail' = Append(detail, v)
        BY <3>1 DEF Arrive
      <4>2. ToSet(newTab') = ToSet(newTab) \cup {v} /\ ToSet(detail') = ToSet(detail) \cup {v}
        BY <4>1, NavType, ToSetAppend DEF Typed
      <4> QED
        BY <1>1, <3>1, <4>2 DEF OnBus
    <3>2. CASE page[v] \notin TabPages
      BY <1>1, <3>2 DEF OnBus, Arrive, openers
    <3> QED
      BY <3>1, <3>2
  <2> SUFFICES ASSUME NEW w \in OnBus' PROVE page'[w] \in TabPages /\ stage'[w] # "unused"
    BY DEF BusKnows
  <2>2. w \in Visits /\ page[w] \in TabPages /\ stage[w] # "unused"
    BY <1>1, <2>1, OnBusType DEF Order, BusKnows, Typed
  <2> QED
    BY <1>1, <1>2, <2>2
<1> QED
  BY <1>3, <1>4 DEF Order

LEMMA TimersGo ==
  ASSUME Typed, NEW v \in Visits, Render(v)
  PROVE  /\ timers # <<>> /\ v \in ToSet(timers) /\ ToSet(timers') \subseteq ToSet(timers)
         /\ ToSet(timers) \subseteq ToSet(timers') \cup {v}
<1>1. timers \in Seq(Visits) /\ timers # <<>> /\ v = Head(timers) /\ timers' = Tail(timers)
  BY NavType DEF Render, Typed
<1> QED
  BY <1>1, ToSetTail

LEMMA RenderOrder == ASSUME Typed, Order, NEW v \in Visits, Render(v) PROVE Order'
<1>1. /\ stage' = [stage EXCEPT ![v] = "open"] /\ stage[v] # "unused" /\ Idle
      /\ UNCHANGED <<visited, current, page, closed, firing, newTab, detail>>
  BY TimersGo DEF Render, Order, InOrder, openers
<1>2. \A w \in Visits : stage'[w] = "unused" <=> stage[w] = "unused"
  BY <1>1, NavType DEF Typed
<1>3. InOrder'
  <2>1. \A w \in ToSet(timers') : stage'[w] # "unused"
    BY <1>2, TimersGo, OnBusType DEF Order, InOrder, Typed
  <2> QED
    BY <1>1, <1>2, <2>1 DEF Order, InOrder, Idle
<1>4. BusKnows'
  <2>1. OnBus' = OnBus /\ OnBus \subseteq Visits
    BY <1>1, OnBusType DEF OnBus, Typed
  <2> QED
    BY <1>1, <1>2, <2>1 DEF Order, BusKnows
<1> QED
  BY <1>3, <1>4 DEF Order

LEMMA OrderInit == PagesInit => Order
<1> SUFFICES ASSUME PagesInit PROVE Order
  OBVIOUS
<1>1. InOrder
  <2>1. \A v \in Visits : v > 0 /\ stage[v] = "unused"
    BY VisitsAreNumbers DEF PagesInit
  <2>2. ToSet(timers) = {} /\ timers = <<>> /\ closed = {} /\ current = 0 /\ visited = 0
    BY ToSetOne DEF PagesInit
  <2> QED
    BY <2>1, <2>2 DEF InOrder
<1>2. BusKnows
  BY ToSetOne DEF PagesInit, BusKnows, OnBus
<1> QED
  BY <1>1, <1>2 DEF Order

LEMMA OrderStep == ASSUME Typed, Order, [PagesNext]_pageVars PROVE Order'
<1>1. CASE NavStep
  BY <1>1, NavigateOrder, ArriveOrder, RenderOrder DEF NavStep
<1>2. CASE TabStep
  <2>1. UNCHANGED <<nav, openers, firing>> /\ Idle
    BY <1>2 DEF TabStep, Search, RefusedSearch, ShowTab, RemoveTab, OnScreen
  <2> QED
    BY <2>1, OrderKept DEF OnBus, openers, Idle
<1>3. CASE PressStep
  <2>1. UNCHANGED <<nav, openers>> /\ timers = <<>> /\ (firing' = newTab \/ firing' = detail)
    BY <1>3 DEF PressStep, PressRange, PressDetail, OnScreen
  <2> QED
    BY <2>1, OrderKept DEF OnBus, openers
<1>4. CASE RenderTab
  <2>1. UNCHANGED <<nav, openers>> /\ ~ Idle /\ firing' = Tail(firing)
    BY <1>4, RenderTabShape
  <2>2. ToSet(firing') \subseteq ToSet(firing)
    BY <2>1, NavType, ToSetTail DEF Typed, Idle
  <2>3. timers = <<>>
    BY <2>1 DEF Order, InOrder
  <2> QED
    BY <2>1, <2>2, <2>3, OrderKept DEF OnBus, openers
<1>5. CASE UNCHANGED pageVars
  BY <1>5, OrderKept DEF pageVars, OnBus, openers, Order, InOrder, Idle
<1> QED
  BY <1>1, <1>2, <1>3, <1>4, <1>5, StepsAre

LEMMA OrderAlways == PagesSpec => []Order
BY OrderInit, OrderStep, TypedAlways, PTL DEF PagesSpec

-----------------------------------------------------------------------------
(* The statistics of the first tab, for users of any habit. *)

NoIpClosed == \A v \in closed : page[v] # "ip"
FirstSearched == \A v \in Visits : tabs[v] # <<>> => asked[tabs[v][1]] = "search"
OpenersHaveTabs == \A v \in ToSet(newTab) \cup ToSet(detail) : v \in ToSet(timers) \/ tabs[v] # <<>>
FiringHaveTabs == \A v \in ToSet(firing) : tabs[v] # <<>>
Kept == NoIpClosed => FirstSearched /\ OpenersHaveTabs /\ FiringHaveTabs

LEMMA FirstTab ==
  ASSUME Typed, NEW v \in Visits, tabs[v] # <<>>
  PROVE  /\ tabs[v] \in Seq(1 .. born) /\ Len(tabs[v]) >= 1 /\ Len(tabs[v]) \in Nat
         /\ tabs[v][1] \in 1 .. born
<1>1. tabs[v] \in Seq(1 .. born)
  BY DocType DEF Typed
<1>2. Len(tabs[v]) >= 1 /\ Len(tabs[v]) \in Nat /\ 1 \in 1 .. Len(tabs[v])
  BY <1>1
<1>3. tabs[v][1] \in 1 .. born
  BY <1>1, <1>2, SeqIn
<1> QED
  BY <1>1, <1>2, <1>3

\* The change of one container's tabs, if it keeps its first tab and there are some.
LEMMA KeptOnce ==
  ASSUME Typed, FirstSearched /\ OpenersHaveTabs, NEW v \in Visits, NEW ts,
         tabs' = [tabs EXCEPT ![v] = ts], ts # <<>>, asked'[ts[1]] = "search",
         \A n \in 1 .. born : asked'[n] \in {asked[n], "search"},
         ToSet(timers) \subseteq ToSet(timers') \cup {v}, UNCHANGED openers
  PROVE  FirstSearched' /\ OpenersHaveTabs' /\ \A w \in Visits : tabs[w] # <<>> => tabs'[w] # <<>>
<1>1. /\ tabs'[v] = ts
      /\ \A w \in Visits : w # v => tabs'[w] = tabs[w]
  BY DocType DEF Typed
<1>2. FirstSearched'
  <2> SUFFICES ASSUME NEW w \in Visits, tabs'[w] # <<>> PROVE asked'[tabs'[w][1]] = "search"
    BY DEF FirstSearched
  <2>1. CASE w = v
    BY <1>1, <2>1
  <2>2. CASE w # v
    <3>1. tabs'[w] = tabs[w] /\ tabs[w][1] \in 1 .. born
      BY <1>1, <2>2, FirstTab
    <3>2. asked[tabs[w][1]] = "search"
      BY <3>1 DEF FirstSearched
    <3> QED
      BY <3>1, <3>2
  <2> QED
    BY <2>1, <2>2
<1>3. \A w \in Visits : tabs[w] # <<>> => tabs'[w] # <<>>
  BY <1>1
<1>4. OpenersHaveTabs'
  <2> SUFFICES ASSUME NEW w \in ToSet(newTab) \cup ToSet(detail)
               PROVE  w \in ToSet(timers') \/ tabs'[w] # <<>>
    BY DEF OpenersHaveTabs, openers
  <2>1. w \in Visits /\ (w \in ToSet(timers) \/ tabs[w] # <<>>)
    BY OnBusType DEF OnBus, OpenersHaveTabs, Typed
  <2> QED
    BY <1>1, <1>3, <2>1
<1> QED
  BY <1>2, <1>3, <1>4

\* An ip page that was closed stays so: its exception lasts.
LEMMA IpStaysClosed == ASSUME Typed, Order, [PagesNext]_pageVars, NoIpClosed' PROVE NoIpClosed
<1>1. CASE \E p \in Pages : Navigate(p)
  <2>1. PICK p \in Pages : Navigate(p)
    BY <1>1
  <2>2. closed \subseteq closed' /\ closed \subseteq Visits
    BY <2>1, CloseType DEF Navigate, Typed
  <2>3. \A v \in closed : page'[v] = page[v]
    <3>1. page' = [page EXCEPT ![visited + 1] = p] /\ visited \in Nat
      BY <2>1, NavType DEF Navigate, Typed
    <3>2. \A v \in closed : v # visited + 1
      BY <3>1 DEF Order, InOrder
    <3> QED
      BY <2>2, <3>1, <3>2, NavType DEF Typed
  <2> QED
    BY <2>2, <2>3 DEF NoIpClosed
<1>2. CASE UNCHANGED <<closed, page>>
  BY <1>2 DEF NoIpClosed
<1>3. \/ \E p \in Pages : Navigate(p)
      \/ UNCHANGED <<closed, page>>
  BY DEF PagesNext, pageVars, Arrive, Render, Search, RefusedSearch, PressRange, PressDetail,
         RenderTab, ShowTab, RemoveTab, nav
<1> QED
  BY <1>1, <1>2, <1>3

LEMMA KeptInit == PagesInit => Kept
BY ToSetOne DEF PagesInit, Kept, FirstSearched, OpenersHaveTabs, FiringHaveTabs

LEMMA NavigateKept ==
  ASSUME Typed, Order, NEW p \in Pages, Navigate(p), NoIpClosed',
         FirstSearched /\ OpenersHaveTabs
  PROVE  FirstSearched' /\ OpenersHaveTabs' /\ FiringHaveTabs'
<1>1. /\ CloseCurrent /\ Idle /\ UNCHANGED <<timers, asked, firing>>
      /\ page' = [page EXCEPT ![visited + 1] = p]
      /\ visited \in Nat /\ current \in 0 .. visited
  BY NavType DEF Navigate, Typed, Order, InOrder
<1>2. FiringHaveTabs'
  BY <1>1, ToSetOne DEF FiringHaveTabs, Idle
<1>3. CASE current = 0 \/ page[current] \notin TabPages
  <2>1. UNCHANGED <<newTab, detail, tabs>>
    BY <1>1, <1>3 DEF CloseCurrent
  <2> QED
    BY <1>1, <1>2, <2>1 DEF FirstSearched, OpenersHaveTabs
<1>4. CASE current # 0 /\ page[current] \in TabPages
  <2>1. current \in Visits /\ current # visited + 1 /\ current \in closed'
    BY <1>1, <1>4, VisitsAreNumbers DEF Typed, PagesTypeOK, CloseCurrent
  <2>2. page'[current] = page[current]
    BY <1>1, <2>1, NavType DEF Typed
  <2>3. page[current] # "ip"
    BY <2>1, <2>2 DEF NoIpClosed
  <2>4. newTab' = <<>> /\ detail' = <<>> /\ tabs' = [tabs EXCEPT ![current] = <<>>]
    BY <1>1, <1>4, <2>3 DEF CloseCurrent
  <2>5. OpenersHaveTabs'
    BY <2>4, ToSetOne DEF OpenersHaveTabs
  <2>6. FirstSearched'
    <3> SUFFICES ASSUME NEW v \in Visits, tabs'[v] # <<>> PROVE asked[tabs'[v][1]] = "search"
      BY <1>1 DEF FirstSearched
    <3>1. tabs'[v] = tabs[v]
      BY <2>1, <2>4, DocType DEF Typed
    <3> QED
      BY <3>1 DEF FirstSearched
  <2> QED
    BY <1>2, <2>5, <2>6
<1> QED
  BY <1>3, <1>4

LEMMA RenderKept ==
  ASSUME Typed, Order, NEW v \in Visits, Render(v), FirstSearched /\ OpenersHaveTabs
  PROVE  FirstSearched' /\ OpenersHaveTabs' /\ FiringHaveTabs'
<1>1. FiringHaveTabs'
  BY ToSetOne DEF FiringHaveTabs, Idle, Render
<1>2. UNCHANGED openers /\ ToSet(timers) \subseteq ToSet(timers') \cup {v}
  BY TimersGo DEF Render
<1>3. CASE page[v] \in TabPages
  <2> DEFINE two == <<born + 1, born + 2>>
  <2>1. /\ tabs' = [tabs EXCEPT ![v] = two] /\ asked'[born + 1] = "search"
        /\ \A n \in 1 .. born : asked'[n] = asked[n]
    BY <1>3, RenderMakes
  <2>2. two # <<>> /\ two[1] = born + 1
    OBVIOUS
  <2> HIDE DEF two
  <2> QED
    BY <1>1, <1>2, <2>1, <2>2, KeptOnce
<1>4. CASE page[v] \notin TabPages
  <2>1. tabs' = tabs /\ asked' = asked
    BY <1>4 DEF Render, doc
  <2>2. v \notin OnBus
    BY <1>4 DEF Order, BusKnows
  <2>3. OpenersHaveTabs'
    BY <1>2, <2>1, <2>2 DEF OpenersHaveTabs, openers, OnBus
  <2> QED
    BY <1>1, <2>1, <2>3 DEF FirstSearched
<1> QED
  BY <1>3, <1>4

LEMMA TabKept ==
  ASSUME Typed, TabStep, FirstSearched /\ OpenersHaveTabs
  PROVE  FirstSearched' /\ OpenersHaveTabs' /\ FiringHaveTabs'
<1>1. Idle' /\ UNCHANGED <<timers, openers>>
  BY DEF TabStep, Search, RefusedSearch, ShowTab, RemoveTab, OnScreen, Idle, nav
<1>2. FiringHaveTabs'
  BY <1>1, ToSetOne DEF FiringHaveTabs, Idle
<1>3. ASSUME NEW v \in Visits, Search(v) \/ RefusedSearch(v) PROVE FirstSearched' /\ OpenersHaveTabs'
  <2> DEFINE two == <<tabs[v][1], tabs[v][2]>>
  <2>1. OnScreen(v) /\ InitTab(v, tabs[v])
    BY <1>3 DEF Search, RefusedSearch
  <2>2. tabs' = [tabs EXCEPT ![v] = two] /\ two # <<>> /\ two[1] = tabs[v][1]
    BY <2>1, InitTabShape
  <2>3. /\ \A n \in 1 .. born : asked'[n] \in {asked[n], "search"}
        /\ tabs[v][1] \in 1 .. born /\ asked[tabs[v][1]] = "search"
    <3>1. \A n \in 1 .. born : asked'[n] \in {asked[n], "search"}
      BY <1>3, SearchAsks DEF RefusedSearch
    <3> QED
      BY <2>1, <3>1, TwoOf, FirstTab DEF FirstSearched
  <2> HIDE DEF two
  <2>4. asked'[two[1]] = "search"
    BY <2>2, <2>3
  <2> QED
    BY <1>1, <2>2, <2>3, <2>4, KeptOnce
<1>4. ASSUME NEW v \in Visits, NEW i \in 1 .. MaxExtra + 2, ShowTab(v, i)
      PROVE  FirstSearched' /\ OpenersHaveTabs'
  BY <1>1, <1>4, ShowTabShape DEF FirstSearched, OpenersHaveTabs, openers
<1>5. ASSUME NEW v \in Visits, NEW i \in 1 .. MaxExtra + 2, RemoveTab(v, i)
      PROVE  FirstSearched' /\ OpenersHaveTabs'
  <2> DEFINE left == RemoveAt(tabs[v], i)
  <2>1. /\ i \in 3 .. Len(tabs[v]) /\ tabs[v] \in Seq(1 .. born)
        /\ left \in Seq(1 .. born) /\ Len(left) = Len(tabs[v]) - 1
        /\ \A j \in 1 .. Len(left) : left[j] = IF j < i THEN tabs[v][j] ELSE tabs[v][j + 1]
        /\ tabs' = [tabs EXCEPT ![v] = left] /\ asked' = asked
    BY <1>5, RemoveTabShape
  <2> HIDE DEF left
  <2>2. left # <<>> /\ left[1] = tabs[v][1] /\ tabs[v] # <<>>
    BY <2>1
  <2>3. asked'[left[1]] = "search"
    BY <2>1, <2>2 DEF FirstSearched
  <2> QED
    BY <1>1, <2>1, <2>2, <2>3, KeptOnce
<1> QED
  BY <1>2, <1>3, <1>4, <1>5 DEF TabStep

LEMMA RenderTabKept ==
  ASSUME Typed, RenderTab, FirstSearched /\ OpenersHaveTabs /\ FiringHaveTabs
  PROVE  FirstSearched' /\ OpenersHaveTabs' /\ FiringHaveTabs'
<1> DEFINE v == Head(firing)
           n == born + 1
           others == HideTab(v, subs)
           longer == Append(tabs[v], n)
<1>1. /\ v \in Visits /\ ~ Idle /\ v \in ToSet(firing)
      /\ tabs' = [tabs EXCEPT ![v] = longer]
      /\ \A k \in 1 .. born : ~ Contains(others, k) => asked'[k] = asked[k]
      /\ firing' = Tail(firing)
      /\ UNCHANGED <<nav, openers>>
  BY RenderTabShape
<1>2. tabs[v] # <<>>
  BY <1>1 DEF FiringHaveTabs
<1>3. others = <<>>
  BY <1>2 DEF HideTab
<1>4. \A k \in 1 .. born : asked'[k] = asked[k]
  BY <1>1, <1>3 DEF Contains
<1> HIDE DEF v, others
<1>5. tabs[v] \in Seq(1 .. born) /\ Len(tabs[v]) \in Nat /\ Len(tabs[v]) >= 1 /\ tabs[v][1] \in 1 .. born
  BY <1>1, <1>2, FirstTab
<1>6. longer # <<>> /\ longer[1] = tabs[v][1]
  <2>1. tabs[v] \in Seq(1 .. n) /\ n \in 1 .. n
    BY <1>5, SeqGrows, DocType DEF Typed
  <2>2. 1 \in 1 .. Len(tabs[v])
    BY <1>5
  <2> HIDE DEF n
  <2> QED
    BY <1>5, <2>1, <2>2
<1> HIDE DEF longer
<1>7. asked'[longer[1]] = "search"
  BY <1>1, <1>2, <1>4, <1>5, <1>6 DEF FirstSearched
<1>8. FirstSearched' /\ OpenersHaveTabs' /\ \A w \in Visits : tabs[w] # <<>> => tabs'[w] # <<>>
  BY <1>1, <1>4, <1>6, <1>7, KeptOnce DEF nav
<1>9. FiringHaveTabs'
  <2>1. ToSet(firing') \subseteq ToSet(firing) /\ ToSet(firing) \subseteq Visits
    BY <1>1, NavType, ToSetTail, InToSet DEF Typed, Idle
  <2> QED
    BY <1>8, <2>1 DEF FiringHaveTabs
<1> QED
  BY <1>8, <1>9

LEMMA KeptStep == ASSUME Typed, Order, Kept, [PagesNext]_pageVars PROVE Kept'
<1> SUFFICES ASSUME NoIpClosed' PROVE FirstSearched' /\ OpenersHaveTabs' /\ FiringHaveTabs'
  BY DEF Kept
<1>1. FirstSearched /\ OpenersHaveTabs /\ FiringHaveTabs
  BY IpStaysClosed DEF Kept
<1>2. CASE \E p \in Pages : Navigate(p)
  BY <1>1, <1>2, NavigateKept
<1>3. ASSUME NEW v \in Visits, Arrive(v) PROVE FirstSearched' /\ OpenersHaveTabs' /\ FiringHaveTabs'
  <2>1. UNCHANGED <<tabs, asked, firing>> /\ timers' = Append(timers, v)
    BY <1>3 DEF Arrive, doc
  <2>2. ToSet(timers') = ToSet(timers) \cup {v}
    BY <2>1, NavType, ToSetAppend DEF Typed
  <2>3. \/ newTab' = Append(newTab, v) /\ detail' = Append(detail, v)
        \/ newTab' = newTab /\ detail' = detail
    BY <1>3 DEF Arrive, openers
  <2>4. ToSet(Append(newTab, v)) = ToSet(newTab) \cup {v} /\ ToSet(Append(detail, v)) = ToSet(detail) \cup {v}
    BY NavType, ToSetAppend DEF Typed
  <2>5. ToSet(newTab') \cup ToSet(detail') \subseteq ToSet(newTab) \cup ToSet(detail) \cup {v}
    BY <2>3, <2>4
  <2> QED
    BY <1>1, <2>1, <2>2, <2>5 DEF FirstSearched, OpenersHaveTabs, FiringHaveTabs
<1>4. ASSUME NEW v \in Visits, Render(v) PROVE FirstSearched' /\ OpenersHaveTabs' /\ FiringHaveTabs'
  BY <1>1, <1>4, RenderKept
<1>5. CASE TabStep
  BY <1>1, <1>5, TabKept
<1>6. CASE PressStep
  <2>1. UNCHANGED <<nav, doc, openers>> /\ timers = <<>> /\ (firing' = newTab \/ firing' = detail)
    BY <1>6 DEF PressStep, PressRange, PressDetail, OnScreen
  <2>2. FiringHaveTabs'
    BY <1>1, <2>1, ToSetOne DEF OpenersHaveTabs, FiringHaveTabs, doc
  <2> QED
    BY <1>1, <2>1, <2>2 DEF FirstSearched, OpenersHaveTabs, nav, doc, openers
<1>7. CASE RenderTab
  BY <1>1, <1>7, RenderTabKept
<1>8. CASE UNCHANGED pageVars
  BY <1>1, <1>8 DEF pageVars, nav, doc, openers, FirstSearched, OpenersHaveTabs, FiringHaveTabs
<1> QED
  BY <1>2, <1>3, <1>4, <1>5, <1>6, <1>7, <1>8, StepsAre DEF NavStep

LEMMA KeptAlways == PagesSpec => []Kept
BY KeptInit, KeptStep, TypedAlways, OrderAlways, PTL DEF PagesSpec

(* StaticKeepsSearch: whatever the user does, in a rush or not, the first  *)
(* tab was last told to search, until an ip page is left, whose handler of *)
(* "detailTab" stays on the bus.                                           *)
THEOREM StaticTabKeepsSearch == PagesSpec => []StaticKeepsSearch
<1>1. Typed /\ Kept => StaticKeepsSearch
  <2> SUFFICES ASSUME Typed, Kept, NoIpClosed PROVE \A v \in ToSet(content) : tabs[v] # <<>> => asked[tabs[v][Static]] = "search"
    BY DEF StaticKeepsSearch, NoIpClosed
  <2>1. ToSet(content) \subseteq Visits
    BY NavType, InToSet DEF Typed
  <2> QED
    BY <2>1 DEF Kept, FirstSearched, Static
<1> QED
  BY <1>1, TypedAlways, KeptAlways, PTL

-----------------------------------------------------------------------------
(* Without a rush: one page at a time, and its container alone in the document. *)

Calm == "rush" \notin habits
Shown(s) == visited > 0 /\ stage[visited] = s

Start    == visited = 0 /\ content = <<>> /\ timers = <<>> /\ current = 0
IsLoading == Shown("loading") /\ content = <<>> /\ timers = <<>> /\ current = visited - 1
IsMade   == Shown("made") /\ content = <<visited>> /\ timers = <<visited>> /\ current = visited
IsOpen   == Shown("open") /\ content = <<visited>> /\ timers = <<>> /\ current = visited

InTurn ==
  /\ \A v \in Visits : v < visited => stage[v] = "open"
  /\ closed = 1 .. visited - 1
  /\ visited > 0 => page[visited] = url
  /\ Start \/ IsLoading \/ IsMade \/ IsOpen

CalmInTurn == Calm => InTurn

LEMMA CurrentVisit ==
  ASSUME PagesTypeOK
  PROVE  visited \in 0 .. MaxVisits /\ visited \in Nat /\ (visited > 0 => visited \in Visits)
BY VisitsAreNumbers DEF PagesTypeOK

\* What is on the screen is the page of the last visit.
LEMMA ScreenIsLast ==
  ASSUME Typed, Order, InTurn, NEW v \in Visits, OnScreen(v)
  PROVE  v = visited /\ IsOpen /\ Tabbed(v) /\ visited > 0
<1>1. v \in Nat /\ v > 0 /\ visited \in Nat
  BY VisitsAreNumbers, CurrentVisit DEF Typed
<1>2. v <= visited
  BY <1>1 DEF OnScreen, Order, InOrder
<1>3. v \notin 1 .. visited - 1
  BY DEF OnScreen, InTurn
<1>4. v = visited
  BY <1>1, <1>2, <1>3
<1>5. Tabbed(v) /\ stage[v] = "open"
  BY DEF OnScreen, Tabbed
<1>6. IsOpen
  BY <1>1, <1>4, <1>5 DEF InTurn, Start, IsLoading, IsMade, Shown
<1> QED
  BY <1>1, <1>4, <1>5, <1>6

LEMMA NavigateTurn == ASSUME Typed, Order, InTurn, Calm, NEW p \in Pages, Navigate(p) PROVE InTurn' /\ IsLoading'
<1>1. /\ visited \in Nat /\ visited + 1 \in Visits /\ visited' = visited + 1
      /\ url' = p /\ page' = [page EXCEPT ![visited + 1] = p]
      /\ stage' = [stage EXCEPT ![visited + 1] = "loading"]
      /\ CloseCurrent /\ Loading = {}
      /\ UNCHANGED <<current, timers>>
  BY CurrentVisit, VisitsAreNumbers DEF Navigate, Typed, PagesTypeOK, Calm
<1>2. /\ stage'[visited + 1] = "loading" /\ page'[visited + 1] = p
      /\ \A v \in Visits : v < visited + 1 => stage'[v] = stage[v]
  BY <1>1, NavType, VisitsAreNumbers DEF Typed
<1>3. Start \/ IsOpen
  <2>1. visited > 0 => stage[visited] \notin {"loading", "made"}
    BY <1>1, CurrentVisit DEF Loading, Typed
  <2> QED
    BY <2>1 DEF InTurn, IsLoading, IsMade, Shown
<1>4. CASE Start
  <2>1. content' = <<>> /\ closed' = closed
    BY <1>1, <1>4 DEF CloseCurrent, Start
  <2>2. IsLoading'
    BY <1>1, <1>2, <1>4, <2>1 DEF Start, IsLoading, Shown
  <2>3. closed' = 1 .. visited' - 1
    BY <1>1, <1>4, <2>1 DEF Start, InTurn
  <2>4. \A v \in Visits : v < visited' => stage'[v] = "open"
    BY <1>1, <1>4, VisitsAreNumbers DEF Start
  <2> QED
    BY <1>1, <1>2, <2>2, <2>3, <2>4 DEF InTurn
<1>5. CASE IsOpen
  <2>1. content' = RemoveFirst(content, current) /\ closed' = closed \cup {visited}
    BY <1>1, <1>5 DEF CloseCurrent, IsOpen, Shown
  <2>2. content' = <<>>
    BY <1>5, <2>1, RemoveOnly DEF IsOpen
  <2>3. IsLoading'
    BY <1>1, <1>2, <1>5, <2>2 DEF IsOpen, IsLoading, Shown
  <2>4. closed' = 1 .. visited' - 1
    BY <1>1, <1>5, <2>1 DEF IsOpen, Shown, InTurn
  <2>5. \A v \in Visits : v < visited' => stage'[v] = "open"
    <3> SUFFICES ASSUME NEW v \in Visits, v < visited + 1 PROVE stage[v] = "open"
      BY <1>1, <1>2
    <3>1. v < visited \/ v = visited
      BY <1>1, VisitsAreNumbers
    <3> QED
      BY <1>5, <3>1 DEF InTurn, IsOpen, Shown
  <2> QED
    BY <1>1, <1>2, <2>3, <2>4, <2>5 DEF InTurn
<1> QED
  BY <1>3, <1>4, <1>5

LEMMA ArriveTurn ==
  ASSUME Typed, Order, InTurn, NEW v \in Visits, Arrive(v)
  PROVE  InTurn' /\ IsMade' /\ v = visited /\ IsLoading /\ visited' = visited
<1>1. /\ stage' = [stage EXCEPT ![v] = "made"] /\ stage[v] = "loading"
      /\ content' = Append(content, v) /\ current' = v /\ timers' = Append(timers, v)
      /\ UNCHANGED <<url, visited, page, closed>>
  BY DEF Arrive
<1>2. v = visited
  <2>1. ~ (v < visited)
    BY <1>1 DEF InTurn
  <2>2. ~ (v > visited)
    BY <1>1 DEF Order, InOrder
  <2> QED
    BY <2>1, <2>2, CurrentVisit, VisitsAreNumbers DEF Typed
<1>3. IsLoading
  BY <1>1, <1>2, VisitsAreNumbers DEF InTurn, Start, IsMade, IsOpen, Shown
<1>4. stage'[v] = "made" /\ \A w \in Visits : w # v => stage'[w] = stage[w]
  BY <1>1, NavType DEF Typed
<1>5. IsMade'
  BY <1>1, <1>2, <1>3, <1>4 DEF IsLoading, IsMade, Shown
<1> QED
  BY <1>1, <1>2, <1>3, <1>4, <1>5 DEF InTurn

LEMMA RenderTurn ==
  ASSUME Typed, Order, InTurn, NEW v \in Visits, Render(v)
  PROVE  InTurn' /\ IsOpen' /\ v = visited /\ IsMade /\ visited' = visited
<1>1. /\ stage' = [stage EXCEPT ![v] = "open"]
      /\ timers # <<>> /\ v = Head(timers) /\ timers' = Tail(timers)
      /\ UNCHANGED <<url, visited, page, closed, content, current>>
  BY DEF Render
<1>2. IsMade
  BY <1>1 DEF InTurn, Start, IsLoading, IsOpen
<1>3. v = visited /\ timers' = <<>>
  BY <1>1, <1>2 DEF IsMade
<1>4. stage'[v] = "open" /\ \A w \in Visits : w # v => stage'[w] = stage[w]
  BY <1>1, NavType DEF Typed
<1>5. IsOpen'
  BY <1>1, <1>2, <1>3, <1>4 DEF IsMade, IsOpen, Shown
<1> QED
  BY <1>1, <1>2, <1>3, <1>4, <1>5 DEF InTurn

LEMMA SameTurn == ASSUME InTurn, UNCHANGED nav PROVE InTurn'
BY DEF InTurn, nav, Start, IsLoading, IsMade, IsOpen, Shown

LEMMA OthersKeepNav == TabStep \/ PressStep \/ RenderTab \/ UNCHANGED pageVars => UNCHANGED nav
BY DEF TabStep, PressStep, Search, RefusedSearch, ShowTab, RemoveTab, PressRange, PressDetail,
       RenderTab, pageVars

LEMMA TurnInit == PagesInit => CalmInTurn
<1> SUFFICES ASSUME PagesInit PROVE InTurn
  BY DEF CalmInTurn
<1>1. Start /\ closed = {} /\ visited = 0
  BY DEF PagesInit, Start
<1>2. closed = 1 .. visited - 1 /\ \A v \in Visits : ~ (v < visited)
  BY <1>1, VisitsAreNumbers
<1> QED
  BY <1>1, <1>2 DEF InTurn

LEMMA TurnStep == ASSUME Typed, Order, CalmInTurn, [PagesNext]_pageVars PROVE CalmInTurn'
<1> SUFFICES ASSUME Calm, InTurn PROVE InTurn'
  BY HabitsStay DEF CalmInTurn, Calm
<1>1. CASE NavStep
  BY <1>1, NavigateTurn, ArriveTurn, RenderTurn DEF NavStep
<1>2. CASE UNCHANGED nav
  BY <1>2, SameTurn
<1> QED
  BY <1>1, <1>2, StepsAre, OthersKeepNav

LEMMA TurnAlways == PagesSpec => []CalmInTurn
BY TurnInit, TurnStep, TypedAlways, OrderAlways, PTL DEF PagesSpec

(* OneContainer: as long as the user waits for a page to come up, the      *)
(* document holds its container alone and frame.js knows it as the current *)
(* one, so that the next click closes it.                                  *)
THEOREM OneContainerAtATime == PagesSpec => []OneContainer
<1>1. Typed /\ CalmInTurn => OneContainer
  <2> SUFFICES ASSUME Typed, InTurn, visited > 0, Loading = {}
               PROVE  content = <<current>> /\ page[current] = url
    BY DEF CalmInTurn, Calm, OneContainer
  <2>1. stage[visited] \notin {"loading", "made"}
    BY CurrentVisit DEF Loading, Typed
  <2>2. IsOpen
    BY <2>1 DEF InTurn, Start, IsLoading, IsMade, Shown
  <2> QED
    BY <2>2 DEF IsOpen, InTurn
<1> QED
  BY <1>1, TypedAlways, TurnAlways, PTL

-----------------------------------------------------------------------------
(* Without a rush: what the pages hold before they come up, and whom an    *)
(* event reaches.                                                          *)

\* A page that has no tabs, or none yet, has none marked and shows none.
Bare(v) == tabs[v] = <<>> /\ active[v] = 0 /\ pane[v] = 0
Fresh == \A v \in Visits : (stage[v] # "open" \/ page[v] \notin TabPages) => Bare(v)

EndsHere(s) == s # <<>> /\ s[Len(s)] = visited
\* The page shown is bound, after those that were left bound before it.
BoundLast ==
  /\ (Shown("made") \/ Shown("open")) /\ page[visited] \in TabPages
       => EndsHere(newTab) /\ EndsHere(detail)
  /\ ~ Idle => Shown("open") /\ page[visited] \in TabPages /\ EndsHere(firing)

Ready == Fresh /\ BoundLast

\* Only the tabs of the page shown listen, between two events.
Listening == Idle => \A n \in ToSet(subs) : Shown("open") /\ n \in ToSet(tabs[visited])

LEMMA AppendEnds ==
  ASSUME NEW S, NEW s \in Seq(S), NEW x \in S
  PROVE  Append(s, x) # <<>> /\ Append(s, x)[Len(Append(s, x))] = x
OBVIOUS

LEMMA TailEnds ==
  ASSUME NEW S, NEW s \in Seq(S), s # <<>>, Tail(s) # <<>>
  PROVE  Tail(s)[Len(Tail(s))] = s[Len(s)]
<1>1. Len(Tail(s)) = Len(s) - 1 /\ Len(s) \in Nat /\ Tail(s) \in Seq(S)
  OBVIOUS
<1>2. Len(Tail(s)) > 0
  BY <1>1
<1>3. \A i \in 1 .. Len(s) - 1 : Tail(s)[i] = s[i + 1]
  OBVIOUS
<1>4. Len(s) - 1 \in 1 .. Len(s) - 1 /\ (Len(s) - 1) + 1 = Len(s)
  BY <1>1, <1>2
<1> QED
  BY <1>1, <1>3, <1>4

LEMMA TailGone ==
  ASSUME NEW S, NEW s \in Seq(S), s # <<>>, Tail(s) = <<>> PROVE s[Len(s)] = Head(s)
<1> DEFINE rest == Tail(s)
<1>1. Len(rest) = Len(s) - 1 /\ Len(s) \in Nat /\ Head(s) = s[1]
  BY HeadTailProperties
<1>2. rest = <<>>
  OBVIOUS
<1> HIDE DEF rest
<1>3. Len(rest) = 0
  BY <1>2
<1>4. Len(s) = 1
  BY <1>1, <1>3
<1> QED
  BY <1>1, <1>4

\* Where RenderTab works: a page that has come up.
LEMMA RenderTabWhere ==
  ASSUME Typed, Order, InTurn, BoundLast, RenderTab
  PROVE  /\ Head(firing) \in Visits /\ stage[Head(firing)] = "open" /\ page[Head(firing)] \in TabPages
         /\ IsOpen /\ Tabbed(visited) /\ visited \in Visits
         /\ Idle' => Head(firing) = visited
         /\ ~ Idle' => EndsHere(firing')
<1>1. /\ Head(firing) \in Visits /\ Head(firing) \in ToSet(firing) /\ firing \in Seq(Visits)
      /\ ~ Idle /\ firing # <<>> /\ firing' = Tail(firing)
  BY RenderTabShape, NavType DEF Typed, Idle
<1>2. IsOpen /\ page[visited] \in TabPages /\ visited \in Visits /\ visited > 0
  BY <1>1, CurrentVisit DEF BoundLast, InTurn, Start, IsLoading, IsMade, Shown, Typed
<1>3. Tabbed(visited)
  <2>1. visited \notin 1 .. visited - 1
    BY CurrentVisit DEF Typed
  <2> QED
    BY <1>2, <2>1 DEF Tabbed, IsOpen, Shown, InTurn
<1>4. page[Head(firing)] \in TabPages /\ stage[Head(firing)] # "unused"
  BY <1>1 DEF Order, BusKnows, OnBus
<1>5. stage[Head(firing)] = "open"
  <2>1. ~ (Head(firing) > visited)
    BY <1>1, <1>4 DEF Order, InOrder
  <2>2. Head(firing) < visited \/ Head(firing) = visited
    BY <1>1, <2>1, CurrentVisit, VisitsAreNumbers DEF Typed
  <2> QED
    BY <1>1, <1>2, <2>2 DEF InTurn, IsOpen, Shown
<1>6. EndsHere(firing)
  BY <1>1 DEF BoundLast
<1>7. Idle' => Head(firing) = visited
  BY <1>1, <1>6, TailGone DEF Idle, EndsHere
<1>8. ~ Idle' => EndsHere(firing')
  <2>1. visited' = visited
    BY OthersKeepNav DEF nav
  <2> QED
    BY <1>1, <1>6, <2>1, TailEnds DEF Idle, EndsHere
<1> QED
  BY <1>1, <1>2, <1>3, <1>4, <1>5, <1>7, <1>8

\* A change of an open page's tabs leaves the bare ones bare.
LEMMA FreshOnce ==
  ASSUME Typed, Fresh, UNCHANGED nav, NEW v \in Visits, stage[v] = "open", page[v] \in TabPages,
         \A w \in Visits : w # v => tabs'[w] = tabs[w] /\ active'[w] = active[w] /\ pane'[w] = pane[w]
  PROVE  Fresh'
<1> SUFFICES ASSUME NEW w \in Visits, stage[w] # "open" \/ page[w] \notin TabPages PROVE Bare(w)'
  BY DEF Fresh, nav
<1>1. w # v
  OBVIOUS
<1>2. Bare(w)
  BY DEF Fresh
<1> QED
  BY <1>1, <1>2 DEF Bare

LEMMA FreshInit == PagesInit => Fresh /\ BoundLast /\ Listening
<1> SUFFICES ASSUME PagesInit PROVE Fresh /\ BoundLast /\ Listening
  OBVIOUS
<1>1. Fresh
  BY DEF PagesInit, Fresh, Bare
<1>2. BoundLast
  BY DEF PagesInit, BoundLast, Idle, Shown
<1>3. Listening
  BY ToSetOne DEF PagesInit, Listening
<1> QED
  BY <1>1, <1>2, <1>3

LEMMA NavigateReady ==
  ASSUME Typed, Order, InTurn, Calm, Ready, Listening, NEW p \in Pages, Navigate(p)
  PROVE  Ready' /\ Listening' /\ IsLoading'
<1>1. /\ visited \in Nat /\ visited' = visited + 1 /\ visited + 1 \in Visits
      /\ page' = [page EXCEPT ![visited + 1] = p] /\ stage' = [stage EXCEPT ![visited + 1] = "loading"]
      /\ CloseCurrent /\ Idle
      /\ UNCHANGED <<active, pane, firing>>
  BY CurrentVisit, VisitsAreNumbers DEF Navigate, Typed, PagesTypeOK
<1>2. IsLoading' /\ InTurn'
  BY NavigateTurn
<1>3. BoundLast'
  BY <1>1, <1>2 DEF BoundLast, IsLoading, Shown, Idle
<1>4. Start \/ IsOpen
  <2>1. Loading = {}
    BY DEF Navigate, Calm
  <2>2. visited > 0 => stage[visited] \notin {"loading", "made"}
    BY <2>1, CurrentVisit DEF Loading, Typed
  <2> QED
    BY <2>2 DEF InTurn, IsLoading, IsMade, Shown
<1>5. \A v \in Visits : v # visited + 1 => stage'[v] = stage[v] /\ page'[v] = page[v]
  BY <1>1, NavType DEF Typed
<1>6. \A v \in Visits : tabs'[v] = tabs[v] \/ (v = visited /\ tabs'[v] = <<>> /\ IsOpen)
  <2>1. CASE tabs' = tabs
    BY <2>1
  <2>2. CASE tabs' # tabs
    <3>1. current # 0 /\ tabs' = [tabs EXCEPT ![current] = <<>>]
      BY <1>1, <2>2 DEF CloseCurrent
    <3>2. IsOpen /\ current = visited
      BY <1>4, <3>1 DEF Start, IsOpen
    <3> QED
      BY <3>1, <3>2, DocType DEF Typed
  <2> QED
    BY <2>1, <2>2
<1>7. Fresh'
  <2> SUFFICES ASSUME NEW v \in Visits, stage'[v] # "open" \/ page'[v] \notin TabPages PROVE Bare(v)'
    BY DEF Fresh
  <2>1. stage[v] # "open" \/ page[v] \notin TabPages
    <3>1. CASE v = visited + 1
      <4>1. stage[v] = "unused"
        BY <1>1, <3>1 DEF Order, InOrder
      <4> QED
        BY <4>1
    <3>2. CASE v # visited + 1
      BY <1>5, <3>2
    <3> QED
      BY <3>1, <3>2
  <2>2. Bare(v)
    BY <2>1 DEF Ready, Fresh
  <2> QED
    BY <1>1, <1>6, <2>2 DEF Bare
<1>8. subs' = <<>>
  <2>1. CASE Start
    <3>1. subs' = subs
      BY <1>1, <2>1 DEF CloseCurrent, Start
    <3>2. \A n \in ToSet(subs) : FALSE
      BY <1>1, <2>1 DEF Listening, Start, Shown
    <3> QED
      BY <3>1, <3>2, InToSet, DocType DEF Typed
  <2>2. CASE IsOpen /\ tabs[visited] = <<>>
    <3>1. subs' = subs \/ subs' = <<>>
      BY <1>1 DEF CloseCurrent
    <3>2. \A n \in ToSet(subs) : FALSE
      BY <1>1, <2>2, ToSetOne DEF Listening
    <3> QED
      BY <3>1, <3>2, InToSet, DocType DEF Typed
  <2>3. CASE IsOpen /\ tabs[visited] # <<>>
    <3>1. visited \in Visits /\ visited > 0 /\ current = visited
      BY <2>3, CurrentVisit DEF IsOpen, Shown, Typed
    <3>2. page[visited] \in TabPages
      BY <2>3, <3>1 DEF Ready, Fresh, Bare
    <3> QED
      BY <1>1, <2>3, <3>1, <3>2 DEF CloseCurrent
  <2> QED
    BY <1>4, <2>1, <2>2, <2>3
<1>9. Listening'
  BY <1>8, ToSetOne DEF Listening
<1> QED
  BY <1>2, <1>3, <1>7, <1>9 DEF Ready

LEMMA ArriveReady ==
  ASSUME Typed, Order, InTurn, Ready, Listening, NEW v \in Visits, Arrive(v)
  PROVE  Ready' /\ Listening'
<1>1. /\ v = visited /\ IsLoading /\ IsMade' /\ visited' = visited
      /\ stage' = [stage EXCEPT ![v] = "made"] /\ Idle
      /\ UNCHANGED <<page, doc, subs, firing>>
  BY ArriveTurn DEF Arrive
<1>2. Fresh'
  <2> SUFFICES ASSUME NEW w \in Visits, stage'[w] # "open" \/ page[w] \notin TabPages PROVE Bare(w)'
    BY <1>1 DEF Fresh
  <2>1. stage[w] # "open" \/ page[w] \notin TabPages
    BY <1>1, NavType DEF Typed, IsLoading, Shown
  <2> QED
    BY <1>1, <2>1 DEF Ready, Fresh, Bare, doc
<1>3. page[visited] \in TabPages => EndsHere(newTab)' /\ EndsHere(detail)'
  <2> SUFFICES ASSUME page[visited] \in TabPages PROVE EndsHere(newTab)' /\ EndsHere(detail)'
    OBVIOUS
  <2>1. newTab' = Append(newTab, v) /\ detail' = Append(detail, v)
    BY <1>1 DEF Arrive
  <2>2. newTab \in Seq(Visits) /\ detail \in Seq(Visits)
    BY NavType DEF Typed
  <2>3. newTab' # <<>> /\ newTab'[Len(newTab')] = v
    BY <2>1, <2>2, AppendEnds
  <2>4. detail' # <<>> /\ detail'[Len(detail')] = v
    BY <2>1, <2>2, AppendEnds
  <2> QED
    BY <1>1, <2>3, <2>4 DEF EndsHere
<1>4. BoundLast'
  BY <1>1, <1>3 DEF BoundLast, Idle
<1>5. Listening'
  <2>1. \A n \in ToSet(subs) : FALSE
    BY <1>1 DEF Listening, IsLoading, Shown
  <2> QED
    BY <1>1, <2>1 DEF Listening
<1> QED
  BY <1>2, <1>4, <1>5 DEF Ready

LEMMA RenderReady ==
  ASSUME Typed, Order, InTurn, Ready, Listening, NEW v \in Visits, Render(v)
  PROVE  Ready' /\ Listening'
<1>1. /\ v = visited /\ IsMade /\ IsOpen' /\ visited' = visited
      /\ stage' = [stage EXCEPT ![v] = "open"] /\ Idle
      /\ UNCHANGED <<page, openers, firing>>
  BY RenderTurn DEF Render
<1>2. BoundLast'
  BY <1>1 DEF Ready, BoundLast, Idle, IsMade, openers, EndsHere
<1>3. CASE page[v] \in TabPages
  <2> DEFINE two == <<born + 1, born + 2>>
  <2>1. /\ tabs' = [tabs EXCEPT ![v] = two] /\ subs' = two
        /\ active' = [active EXCEPT ![v] = 1] /\ pane' = [pane EXCEPT ![v] = 1]
    BY <1>3, RenderMakes
  <2> HIDE DEF two
  <2>2. Fresh'
    <3> SUFFICES ASSUME NEW w \in Visits, stage'[w] # "open" \/ page[w] \notin TabPages PROVE Bare(w)'
      BY <1>1 DEF Fresh
    <3>1. w # v
      BY <1>1, <1>3, NavType DEF Typed
    <3>2. stage[w] # "open" \/ page[w] \notin TabPages
      BY <1>1, <3>1, NavType DEF Typed
    <3>3. Bare(w)
      BY <3>2 DEF Ready, Fresh
    <3> QED
      BY <2>1, <3>1, <3>3, DocType DEF Bare, Typed
  <2>3. Listening'
    BY <1>1, <2>1, DocType DEF Listening, IsOpen, Typed
  <2> QED
    BY <1>2, <2>2, <2>3 DEF Ready
<1>4. CASE page[v] \notin TabPages
  <2>1. UNCHANGED <<doc, subs>>
    BY <1>4 DEF Render
  <2>2. Fresh'
    <3> SUFFICES ASSUME NEW w \in Visits, stage'[w] # "open" \/ page[w] \notin TabPages PROVE Bare(w)'
      BY <1>1 DEF Fresh
    <3>1. stage[w] # "open" \/ page[w] \notin TabPages
      BY <1>1, <1>4, NavType DEF Typed
    <3> QED
      BY <2>1, <3>1 DEF Ready, Fresh, Bare, doc
  <2>3. \A n \in ToSet(subs) : FALSE
    BY <1>1 DEF Listening, IsMade, Shown
  <2> QED
    BY <1>2, <2>1, <2>2, <2>3 DEF Ready, Listening
<1> QED
  BY <1>3, <1>4

LEMMA TabReady ==
  ASSUME Typed, Order, InTurn, Ready, TabStep PROVE Ready'
<1>1. UNCHANGED <<nav, openers, firing>> /\ Idle
  BY DEF TabStep, Search, RefusedSearch, ShowTab, RemoveTab, OnScreen
<1>2. BoundLast'
  BY <1>1 DEF Ready, BoundLast, Idle, nav, openers, Shown, EndsHere
<1>3. PICK v \in Visits : OnScreen(v) /\ \A w \in Visits : w # v =>
        tabs'[w] = tabs[w] /\ active'[w] = active[w] /\ pane'[w] = pane[w]
  <2>1. ASSUME NEW v \in Visits, Search(v) \/ RefusedSearch(v)
        PROVE  OnScreen(v) /\ \A w \in Visits : w # v =>
                 tabs'[w] = tabs[w] /\ active'[w] = active[w] /\ pane'[w] = pane[w]
    <3>1. OnScreen(v) /\ InitTab(v, tabs[v])
      BY <2>1 DEF Search, RefusedSearch
    <3> QED
      BY <3>1, InitTabShape, DocType DEF Typed
  <2>2. ASSUME NEW v \in Visits, NEW i \in 1 .. MaxExtra + 2, ShowTab(v, i)
        PROVE  OnScreen(v) /\ \A w \in Visits : w # v =>
                 tabs'[w] = tabs[w] /\ active'[w] = active[w] /\ pane'[w] = pane[w]
    <3> DEFINE shown == [pane EXCEPT ![v] = i]
    <3>1. /\ OnScreen(v) /\ tabs' = tabs /\ active' = [active EXCEPT ![v] = i]
          /\ pane' = IF i <= Range_ THEN shown ELSE PanesAfter(tabs, shown, num[tabs[v][i]])
      BY <2>2, ShowTabShape
    <3>2. v = visited /\ content = <<v>>
      BY <3>1, ScreenIsLast DEF IsOpen
    <3>3. i \in Nat
      BY VisitsAreNumbers
    <3>4. shown \in [Visits -> Nat] /\ \A w \in Visits : w # v => shown[w] = pane[w]
      BY <3>3, DocType DEF Typed
    <3> HIDE DEF shown
    <3>5. \A w \in Visits : w # v => PanesAfter(tabs, shown, num[tabs[v][i]])[w] = shown[w]
      <4> DEFINE k == num[tabs[v][i]]
      <4> HIDE DEF k
      <4>2. ASSUME NEW w \in Visits, w # v PROVE PanesAfter(tabs, shown, k)[w] = shown[w]
        BY <3>2, <3>4, <4>2, PanesOther
      <4> QED
        BY <4>2 DEF k
    <3>6. \A w \in Visits : w # v => pane'[w] = pane[w]
      BY <3>1, <3>4, <3>5
    <3> QED
      BY <3>1, <3>6, DocType DEF Typed
  <2>3. ASSUME NEW v \in Visits, NEW i \in 1 .. MaxExtra + 2, RemoveTab(v, i)
        PROVE  OnScreen(v) /\ \A w \in Visits : w # v =>
                 tabs'[w] = tabs[w] /\ active'[w] = active[w] /\ pane'[w] = pane[w]
    <3> DEFINE left == RemoveAt(tabs[v], i)
               next == NextTab(active[v], i, Len(tabs[v]))
               kept == IF pane[v] = i THEN 0 ELSE IF pane[v] > i THEN pane[v] - 1 ELSE pane[v]
               mark == ShownIndex(left, next)
               gone == [tabs EXCEPT ![v] = left]
               panes == [pane EXCEPT ![v] = IF next = 0 THEN kept ELSE mark]
    <3>1. /\ OnScreen(v) /\ tabs' = gone /\ gone \in [Visits -> Seq(1 .. born)]
          /\ active' = [active EXCEPT ![v] = mark]
          /\ pane' = PanesAfter(gone, panes, num[tabs[v][i]])
          /\ left \in Seq(1 .. born) /\ next \in Int /\ kept \in Nat
      BY <2>3, RemoveTabShape
    <3> HIDE DEF left, next, kept
    <3>2. v = visited /\ content = <<v>>
      BY <3>1, ScreenIsLast DEF IsOpen
    <3>3. mark \in Nat
      BY <3>1, ShownIndexType
    <3> HIDE DEF mark
    <3>4. panes \in [Visits -> Nat] /\ \A w \in Visits : w # v => panes[w] = pane[w]
      BY <3>1, <3>3, DocType DEF Typed
    <3>5. \A w \in Visits : w # v => gone[w] = tabs[w]
      BY DocType DEF Typed
    <3> HIDE DEF panes, gone
    <3>6. \A w \in Visits : w # v => pane'[w] = panes[w]
      <4> DEFINE k == num[tabs[v][i]]
      <4>1. pane' = PanesAfter(gone, panes, k)
        BY <3>1
      <4> HIDE DEF k
      <4>2. ASSUME NEW w \in Visits, w # v PROVE PanesAfter(gone, panes, k)[w] = panes[w]
        BY <3>2, <3>4, <4>2, PanesOther
      <4> QED
        BY <4>1, <4>2
    <3> QED
      BY <3>1, <3>4, <3>5, <3>6, DocType DEF Typed
  <2> QED
    BY <2>1, <2>2, <2>3 DEF TabStep
<1>4. Fresh'
  BY <1>1, <1>3, FreshOnce DEF OnScreen, Ready
<1> QED
  BY <1>2, <1>4 DEF Ready

LEMMA RenderTabReady ==
  ASSUME Typed, Order, InTurn, Ready, RenderTab PROVE Ready' /\ Listening'
<1> DEFINE v == Head(firing)
           n == born + 1
           others == HideTab(v, subs)
<1>1. /\ v \in Visits /\ stage[v] = "open" /\ page[v] \in TabPages
      /\ IsOpen /\ Tabbed(visited) /\ visited \in Visits
      /\ Idle' => v = visited
      /\ ~ Idle' => EndsHere(firing')
  BY RenderTabWhere DEF Ready
<1>2. /\ subs' = Append(others, n)
      /\ tabs' = [tabs EXCEPT ![v] = Append(tabs[v], n)]
      /\ active' = [active EXCEPT ![v] = Len(tabs[v]) + 1]
      /\ pane' = [pane EXCEPT ![v] = Len(tabs[v]) + 1]
      /\ UNCHANGED <<nav, openers>>
  BY RenderTabShape
<1>3. Fresh'
  <2>1. \A w \in Visits : w # v => tabs'[w] = tabs[w] /\ active'[w] = active[w] /\ pane'[w] = pane[w]
    BY <1>2, DocType DEF Typed
  <2> HIDE DEF v, others
  <2> QED
    BY <1>1, <1>2, <2>1, FreshOnce DEF Ready
<1>4. BoundLast'
  BY <1>1, <1>2 DEF BoundLast, Ready, IsOpen, Shown, Tabbed, nav, openers, EndsHere
<1>5. Listening'
  <2> SUFFICES ASSUME Idle', NEW m \in ToSet(subs') PROVE Shown("open")' /\ m \in ToSet(tabs'[visited'])
    BY DEF Listening
  <2>1. v = visited /\ visited' = visited /\ Shown("open")'
    BY <1>1, <1>2 DEF IsOpen, Shown, nav
  <2>2. tabs[v] \in Seq(1 .. born) /\ Len(tabs[v]) >= 2
    BY <1>1, <2>1, DocType DEF Typed, TwoTabs
  <2>3. others = <<>>
    BY <2>2 DEF HideTab
  <2>4. subs' = <<n>>
    <3>1. Append(<<>>, n) = <<n>>
      BY DocType DEF Typed
    <3> QED
      BY <1>2, <2>3, <3>1
  <2>5. m = n
    BY <2>4, ToSetOne
  <2>6. tabs'[v] = Append(tabs[v], n)
    BY <1>1, <1>2, DocType DEF Typed
  <2>7. n \in ToSet(Append(tabs[v], n))
    <3>1. tabs[v] \in Seq(1 .. n) /\ n \in 1 .. n
      BY <2>2, SeqGrows, DocType DEF Typed
    <3>2. ToSet(Append(tabs[v], n)) = ToSet(tabs[v]) \cup {n}
      BY <3>1, ToSetAppend
    <3> QED
      BY <3>2
  <2> QED
    BY <2>1, <2>5, <2>6, <2>7
<1> QED
  BY <1>3, <1>4, <1>5 DEF Ready

\* The marked tab of the page that is shown, and who listens beside it.
MarkThere == active[visited] \in 0 .. Len(tabs[visited])
MarkKept == (tabs[visited] # <<>> /\ "drop" \notin habits) => active[visited] # 0
MarkListens == active[visited] # 0 => tabs[visited][active[visited]] \in ToSet(subs)
OnlyMarked == \A i \in 1 .. Len(tabs[visited]) :
                tabs[visited][i] \in ToSet(subs) => i \in {active[visited], Range_}
Marked == visited > 0 => MarkThere /\ MarkKept /\ (Idle => MarkListens /\ OnlyMarked)

LEMMA ToSetPair == ASSUME NEW x, NEW y PROVE ToSet(<<x, y>>) = {x, y}
BY DEF ToSet

LEMMA PlaceApart ==
  ASSUME NEW S, NEW s \in Seq(S), IsInjective(s), NEW i \in 1 .. Len(s), NEW j \in 1 .. Len(s),
         s[i] = s[j]
  PROVE  i = j
BY ApartAt

LEMMA InitTabMarked ==
  ASSUME Typed, Apart, Order, InTurn, NEW v \in Visits, OnScreen(v), InitTab(v, tabs[v]),
         UNCHANGED <<habits, nav, firing>>
  PROVE  Listening' /\ Marked'
<1>1. v = visited /\ IsOpen /\ Len(tabs[v]) >= 2 /\ tabs[v] \in Seq(1 .. born)
  BY ScreenIsLast, TwoOf
<1> DEFINE x == tabs[v][1]
           y == tabs[v][2]
<1>2. /\ tabs'[v] = <<x, y>> /\ subs' = <<x, y>> /\ active'[v] = 1
  BY InitTabShape, DocType DEF Typed
<1>3. x # y
  <2>1. 1 \in 1 .. Len(tabs[v]) /\ 2 \in 1 .. Len(tabs[v]) /\ IsInjective(tabs[v])
    BY <1>1 DEF Apart, TabsApart
  <2>2. x = y => 1 = 2
    BY <1>1, <2>1, PlaceApart
  <2> QED
    BY <2>2
<1> HIDE DEF x, y
<1>4. visited' = visited /\ Shown("open")' /\ habits' = habits
  BY <1>1 DEF nav, IsOpen, Shown
<1>5. ToSet(subs') = {x, y} /\ ToSet(tabs'[v]) = {x, y}
  BY <1>2, ToSetPair
<1>6. Listening'
  BY <1>1, <1>4, <1>5 DEF Listening
<1>7. MarkThere' /\ MarkKept'
  <2>1. Len(tabs'[v]) = 2
    BY <1>2
  <2> QED
    <3>1. active'[visited'] = 1 /\ Len(tabs'[visited']) = 2
      BY <1>1, <1>2, <1>4, <2>1
    <3>2. active'[visited'] \in 0 .. Len(tabs'[visited']) /\ active'[visited'] # 0
      BY <3>1
    <3> QED
      BY <3>2 DEF MarkThere, MarkKept
<1>8. MarkListens'
  <2>1. tabs'[v][active'[v]] = x
    BY <1>2
  <2> QED
    BY <1>1, <1>4, <1>5, <2>1 DEF MarkListens
<1>9. OnlyMarked'
  <2> SUFFICES ASSUME NEW i \in 1 .. Len(tabs'[v]) PROVE i \in {1, 2}
    BY <1>1, <1>2, <1>4 DEF OnlyMarked, Range_
  <2>1. Len(tabs'[v]) = 2
    BY <1>2
  <2> QED
    BY <2>1
<1> QED
  BY <1>6, <1>7, <1>8, <1>9 DEF Marked

LEMMA ShowTabMarked ==
  ASSUME Typed, Apart, Order, InTurn, NEW v \in Visits, NEW i \in 1 .. MaxExtra + 2, ShowTab(v, i)
  PROVE  Listening' /\ Marked'
<1>1. /\ OnScreen(v) /\ i \in 1 .. Len(tabs[v]) /\ tabs[v] \in Seq(1 .. born)
      /\ subs' = <<tabs[v][i]>> /\ active' = [active EXCEPT ![v] = i]
      /\ tabs' = tabs /\ UNCHANGED <<habits, nav, firing>>
  BY ShowTabShape
<1>2. v = visited /\ IsOpen /\ IsInjective(tabs[v])
  BY <1>1, ScreenIsLast DEF Apart, TabsApart
<1>3. visited' = visited /\ Shown("open")' /\ active'[v] = i /\ i # 0 /\ i \in 0 .. Len(tabs[v])
  BY <1>1, <1>2, DocType DEF nav, IsOpen, Shown, Typed
<1>4. ToSet(subs') = {tabs[v][i]} /\ tabs[v][i] \in ToSet(tabs[v])
  BY <1>1, ToSetOne, InToSet
<1>5. Listening'
  BY <1>1, <1>2, <1>3, <1>4 DEF Listening
<1>6. MarkThere' /\ MarkKept'
  BY <1>1, <1>2, <1>3 DEF MarkThere, MarkKept
<1>7. MarkListens'
  BY <1>1, <1>2, <1>3, <1>4 DEF MarkListens
<1>8. OnlyMarked'
  <2> SUFFICES ASSUME NEW j \in 1 .. Len(tabs[v]), tabs[v][j] = tabs[v][i] PROVE j = i
    BY <1>1, <1>2, <1>3, <1>4 DEF OnlyMarked
  <2> QED
    BY <1>1, <1>2, PlaceApart
<1> QED
  BY <1>5, <1>6, <1>7, <1>8 DEF Marked

\* Unless the one looked at is closed before the last, one of those left is shown next.
LEMMA NextTabThere ==
  ASSUME NEW last \in Nat, NEW del \in 3 .. last, NEW show \in 1 .. last, ~ (show = del /\ del # last)
  PROVE  NextTab(show, del, last) \in 1 .. last - 1
BY DEF NextTab

LEMMA RemoveTabMarked ==
  ASSUME Typed, Apart, Order, InTurn, Marked, Apart', NEW v \in Visits, NEW i \in 1 .. MaxExtra + 2,
         RemoveTab(v, i)
  PROVE  Listening' /\ Marked'
<1> DEFINE left == RemoveAt(tabs[v], i)
           next == NextTab(active[v], i, Len(tabs[v]))
           mark == ShownIndex(left, next)
<1>1. /\ OnScreen(v) /\ i \in 3 .. Len(tabs[v]) /\ tabs[v] \in Seq(1 .. born)
      /\ (i # Len(tabs[v]) /\ i = active[v]) => "drop" \in habits
      /\ left \in Seq(1 .. born) /\ Len(left) = Len(tabs[v]) - 1 /\ next \in Int
      /\ tabs' = [tabs EXCEPT ![v] = left] /\ active' = [active EXCEPT ![v] = mark]
      /\ subs' = ShownListener(left, next)
      /\ UNCHANGED <<habits, nav, firing>>
  BY RemoveTabShape
<1>2. v = visited /\ IsOpen /\ visited > 0 /\ tabs[v] # <<>> /\ Len(tabs[v]) \in Nat
  BY <1>1, ScreenIsLast, TwoOf
<1>3. "drop" \notin habits => next \in 1 .. Len(left)
  <2> SUFFICES ASSUME "drop" \notin habits PROVE next \in 1 .. Len(tabs[v]) - 1
    BY <1>1
  <2>1. active[v] \in 1 .. Len(tabs[v])
    BY <1>2 DEF Marked, MarkThere, MarkKept
  <2>2. ~ (active[v] = i /\ i # Len(tabs[v]))
    BY <1>1
  <2> QED
    BY <1>1, <1>2, <2>1, <2>2, NextTabThere
<1>4. visited' = visited /\ Shown("open")' /\ habits' = habits
  BY <1>1, <1>2 DEF nav, IsOpen, Shown
<1>5. tabs'[v] = left /\ active'[v] = mark /\ IsInjective(left)
  <2>1. tabs'[v] = left /\ active'[v] = mark
    BY <1>1, DocType DEF Typed
  <2> QED
    BY <2>1 DEF Apart, TabsApart
<1> HIDE DEF left, next
<1>6. Len(left) \in Nat /\ (next \in 1 .. Len(left) \/ next \notin 1 .. Len(left))
  BY <1>1
<1>7. CASE next \in 1 .. Len(left)
  <2>1. mark = next /\ subs' = <<left[next]>> /\ next # 0
    BY <1>1, <1>7 DEF ShownIndex, ShownListener
  <2>2. ToSet(subs') = {left[next]} /\ left[next] \in ToSet(left)
    BY <1>1, <1>7, <2>1, ToSetOne, InToSet
  <2>3. Listening'
    BY <1>2, <1>4, <1>5, <2>2 DEF Listening
  <2>4. MarkThere' /\ MarkKept'
    BY <1>2, <1>4, <1>5, <1>6, <1>7, <2>1 DEF MarkThere, MarkKept
  <2>5. MarkListens'
    BY <1>2, <1>4, <1>5, <2>1, <2>2 DEF MarkListens
  <2>6. OnlyMarked'
    <3> SUFFICES ASSUME NEW j \in 1 .. Len(left), left[j] = left[next] PROVE j = next
      BY <1>2, <1>4, <1>5, <2>1, <2>2 DEF OnlyMarked
    <3> QED
      BY <1>1, <1>5, <1>7, PlaceApart
  <2> QED
    BY <2>3, <2>4, <2>5, <2>6 DEF Marked
<1>8. CASE next \notin 1 .. Len(left)
  <2>1. mark = 0 /\ subs' = <<>>
    BY <1>1, <1>8 DEF ShownIndex, ShownListener
  <2>2. ToSet(subs') = {}
    BY <2>1, ToSetOne
  <2>3. Listening'
    BY <2>2 DEF Listening
  <2>4. MarkThere' /\ MarkKept'
    BY <1>2, <1>3, <1>4, <1>5, <1>6, <1>8, <2>1 DEF MarkThere, MarkKept
  <2>5. MarkListens' /\ OnlyMarked'
    BY <1>2, <1>4, <1>5, <2>1, <2>2 DEF MarkListens, OnlyMarked
  <2> QED
    BY <2>3, <2>4, <2>5 DEF Marked
<1> QED
  BY <1>7, <1>8

\* A page that is coming up has no tabs yet.
LEMMA BareMarked ==
  ASSUME Fresh', visited' > 0, visited' \in Visits,
         stage'[visited'] # "open" \/ page'[visited'] \notin TabPages
  PROVE  Marked'
<1>1. Bare(visited)'
  BY DEF Fresh
<1>2. tabs'[visited'] = <<>> /\ active'[visited'] = 0
  BY <1>1 DEF Bare
<1>3. MarkThere' /\ MarkKept' /\ MarkListens' /\ OnlyMarked'
  BY <1>2 DEF MarkThere, MarkKept, MarkListens, OnlyMarked
<1> QED
  BY <1>3 DEF Marked

LEMMA RenderMarked ==
  ASSUME Typed, Typed', Order, InTurn, Ready', NEW v \in Visits, Render(v)
  PROVE  Marked'
<1>1. v = visited /\ IsOpen' /\ visited' = visited
  BY RenderTurn
<1>2. CASE page[v] \in TabPages
  <2> DEFINE x == born + 1
             y == born + 2
  <2>1. tabs'[v] = <<x, y>> /\ subs' = <<x, y>> /\ active'[v] = 1
    BY <1>2, RenderMakes, DocType DEF Typed
  <2> HIDE DEF x, y
  <2>2. ToSet(subs') = {x, y} /\ Len(tabs'[v]) = 2
    BY <2>1, ToSetPair
  <2>3. MarkThere' /\ MarkKept' /\ MarkListens'
    BY <1>1, <2>1, <2>2 DEF MarkThere, MarkKept, MarkListens
  <2>4. OnlyMarked'
    <3>1. \A i \in 1 .. 2 : i \in {1, 2}
      OBVIOUS
    <3> QED
      BY <1>1, <2>1, <2>2, <3>1 DEF OnlyMarked, Range_
  <2> QED
    BY <2>3, <2>4 DEF Marked
<1>3. CASE page[v] \notin TabPages
  <2>1. page' = page
    BY DEF Render
  <2> QED
    BY <1>1, <1>3, <2>1, BareMarked DEF Ready, IsOpen, Shown
<1> QED
  BY <1>2, <1>3

LEMMA RenderTabMarked ==
  ASSUME Typed, Typed', Apart', Order, InTurn, Ready, Marked, RenderTab PROVE Marked'
<1> DEFINE v == Head(firing)
           n == born + 1
           others == HideTab(v, subs)
           longer == Append(tabs[v], n)
<1>1. /\ v \in Visits /\ IsOpen /\ Tabbed(visited) /\ visited \in Visits
      /\ Idle' => v = visited
  BY RenderTabWhere DEF Ready
<1>2. /\ subs' = Append(others, n)
      /\ tabs' = [tabs EXCEPT ![v] = longer]
      /\ active' = [active EXCEPT ![v] = Len(tabs[v]) + 1]
      /\ UNCHANGED <<habits, nav>>
  BY RenderTabShape
<1>3. visited' = visited /\ visited > 0 /\ habits' = habits
  BY <1>1, <1>2 DEF nav, IsOpen, Shown
<1>4. CASE v # visited
  <2>1. ~ Idle' /\ tabs'[visited] = tabs[visited] /\ active'[visited] = active[visited]
    BY <1>1, <1>2, <1>4, DocType DEF Typed
  <2> QED
    BY <1>3, <2>1 DEF Marked, MarkThere, MarkKept
<1>5. CASE v = visited
  <2>1. tabs[v] \in Seq(1 .. born) /\ Len(tabs[v]) >= 2 /\ Len(tabs[v]) \in Nat
    <3>1. tabs[v] \in Seq(1 .. born)
      BY <1>1, DocType DEF Typed
    <3> QED
      BY <1>1, <1>5, <3>1 DEF Typed, TwoTabs
  <2>2. longer \in Seq(1 .. n) /\ Len(longer) = Len(tabs[v]) + 1 /\ longer[Len(tabs[v]) + 1] = n
    <3>1. tabs[v] \in Seq(1 .. n) /\ n \in 1 .. n
      BY <2>1, SeqGrows, DocType DEF Typed
    <3> QED
      BY <2>1, <3>1
  <2>3. others = <<>>
    BY <2>1 DEF HideTab
  <2>4. subs' = <<n>>
    <3>1. Append(<<>>, n) = <<n>>
      BY DocType DEF Typed
    <3> QED
      BY <1>2, <2>3, <3>1
  <2>5. tabs'[v] = longer /\ active'[v] = Len(longer) /\ IsInjective(longer)
    <3>1. tabs'[v] = longer /\ active'[v] = Len(longer)
      BY <1>1, <1>2, <2>2, DocType DEF Typed
    <3> QED
      BY <1>1, <3>1 DEF Apart, TabsApart
  <2> HIDE DEF longer, n, v
  <2>6. ToSet(subs') = {n} /\ longer[Len(longer)] = n
    BY <2>2, <2>4, ToSetOne
  <2>7. Len(longer) \in 1 .. Len(longer) /\ Len(longer) # 0
    BY <2>1, <2>2
  <2>8. MarkThere' /\ MarkKept' /\ MarkListens'
    BY <1>3, <1>5, <2>5, <2>6, <2>7 DEF MarkThere, MarkKept, MarkListens
  <2>9. OnlyMarked'
    <3> SUFFICES ASSUME NEW j \in 1 .. Len(longer), longer[j] = longer[Len(longer)] PROVE j = Len(longer)
      BY <1>3, <1>5, <2>5, <2>6 DEF OnlyMarked
    <3> QED
      BY <2>2, <2>5, <2>7, PlaceApart
  <2> QED
    BY <2>8, <2>9 DEF Marked
<1> QED
  BY <1>4, <1>5

LEMMA MarkedInit == PagesInit => Marked
BY DEF PagesInit, Marked

\* The steps of the pages and their tabs, one by one.
LEMMA CalmStep ==
  ASSUME Typed, Typed', Apart, Apart', Order, InTurn, Calm, Ready, Listening, Marked, [PagesNext]_pageVars
  PROVE  Ready' /\ Listening' /\ Marked'
<1>1. ASSUME NEW p \in Pages, Navigate(p) PROVE Ready' /\ Listening' /\ Marked'
  <2>1. Ready' /\ Listening' /\ IsLoading'
    BY <1>1, NavigateReady
  <2>2. visited' \in Visits
    BY <1>1, CurrentVisit, VisitsAreNumbers DEF Navigate, Typed
  <2>3. Marked'
    BY <2>1, <2>2, BareMarked DEF Ready, IsLoading, Shown
  <2> QED
    BY <2>1, <2>3
<1>2. ASSUME NEW v \in Visits, Arrive(v) PROVE Ready' /\ Listening' /\ Marked'
  <2>1. Ready' /\ Listening' /\ IsMade'
    BY <1>2, ArriveReady, ArriveTurn
  <2>2. visited' \in Visits
    BY <1>2, ArriveTurn
  <2>3. Marked'
    BY <2>1, <2>2, BareMarked DEF Ready, IsMade, Shown
  <2> QED
    BY <2>1, <2>3
<1>3. ASSUME NEW v \in Visits, Render(v) PROVE Ready' /\ Listening' /\ Marked'
  BY <1>3, RenderReady, RenderMarked
<1>4. CASE TabStep
  <2>1. Ready'
    BY <1>4, TabReady
  <2>2. ASSUME NEW v \in Visits, Search(v) \/ RefusedSearch(v) PROVE Listening' /\ Marked'
    <3>1. OnScreen(v) /\ InitTab(v, tabs[v]) /\ UNCHANGED <<habits, nav, firing>>
      BY <2>2 DEF Search, RefusedSearch
    <3> QED
      BY <3>1, InitTabMarked
  <2> QED
    BY <1>4, <2>1, <2>2, ShowTabMarked, RemoveTabMarked DEF TabStep
<1>5. CASE PressStep
  <2>1. PICK v \in Visits : PressRange(v) \/ PressDetail(v)
    BY <1>5 DEF PressStep
  <2>2. OnScreen(v) /\ (firing' = newTab \/ firing' = detail) /\ UNCHANGED <<habits, nav, doc, subs, openers>>
    BY <2>1 DEF PressRange, PressDetail
  <2>3. v = visited /\ IsOpen /\ Tabbed(visited)
    BY <2>2, ScreenIsLast
  <2>4. EndsHere(newTab) /\ EndsHere(detail)
    BY <2>3 DEF Ready, BoundLast, IsOpen, Tabbed
  <2>5. BoundLast'
    BY <2>2, <2>3, <2>4 DEF BoundLast, IsOpen, Tabbed, nav, openers, EndsHere, Shown
  <2>6. Fresh'
    BY <2>2 DEF Ready, Fresh, Bare, nav, doc
  <2>7. ~ Idle'
    BY <2>2, <2>4 DEF EndsHere, Idle
  <2>8. Listening' /\ Marked'
    BY <2>2, <2>7 DEF Listening, Marked, MarkThere, MarkKept, nav, doc
  <2> QED
    BY <2>5, <2>6, <2>8 DEF Ready
<1>6. CASE RenderTab
  BY <1>6, RenderTabReady, RenderTabMarked
<1>7. CASE UNCHANGED pageVars
  BY <1>7 DEF pageVars, nav, doc, openers, Ready, Fresh, Bare, BoundLast, EndsHere, Shown, Idle,
              Listening, Marked, MarkThere, MarkKept, MarkListens, OnlyMarked
<1> QED
  BY <1>1, <1>2, <1>3, <1>4, <1>5, <1>6, <1>7, StepsAre DEF NavStep

Attended == Calm => Ready /\ Listening /\ Marked

LEMMA AttendedAlways == PagesSpec => []Attended
<1>1. PagesInit => Attended
  BY FreshInit, MarkedInit DEF Attended, Ready
<1>2. ASSUME Typed, Typed', Apart, Apart', Order, CalmInTurn, Attended, [PagesNext]_pageVars
      PROVE  Attended'
  <2> SUFFICES ASSUME Calm' PROVE Ready' /\ Listening' /\ Marked'
    BY DEF Attended
  <2>1. Calm
    BY <1>2, HabitsStay DEF Calm
  <2> QED
    BY <1>2, <2>1, CalmStep DEF CalmInTurn, Attended
<1> QED
  BY <1>1, <1>2, TypedAlways, ApartAlways, OrderAlways, TurnAlways, PTL DEF PagesSpec

LEMMA ContentIsLast ==
  ASSUME Typed, InTurn, NEW v \in ToSet(content)
  PROVE  v = visited /\ visited > 0 /\ visited \in Visits /\ tabs[v] \in Seq(1 .. born)
<1>1. content # <<>>
  BY ToSetOne
<1>2. content = <<visited>> /\ visited > 0
  BY <1>1 DEF InTurn, Start, IsLoading, IsMade, IsOpen, Shown
<1>3. v = visited
  BY <1>2, ToSetOne
<1> QED
  BY <1>2, <1>3, CurrentVisit, DocType DEF Typed

(* ClosedTabsSilent: as long as the user waits for a page to come up, only *)
(* tabs of the page in the document listen, though a closed ip page's      *)
(* handler of "detailTab" makes tabs for it even then: the page shown was  *)
(* bound last, and the tab it makes takes every other handler away.        *)
THEOREM ClosedTabsStaySilent == PagesSpec => []ClosedTabsSilent
<1>1. Typed /\ CalmInTurn /\ Attended => ClosedTabsSilent
  <2> SUFFICES ASSUME Typed, InTurn, Listening, Idle, NEW n \in ToSet(subs)
               PROVE  \E v \in ToSet(content) : Contains(tabs[v], n)
    BY DEF CalmInTurn, Attended, Calm, ClosedTabsSilent
  <2>1. Shown("open") /\ n \in ToSet(tabs[visited])
    BY DEF Listening
  <2>2. IsOpen
    BY <2>1 DEF InTurn, Start, IsLoading, IsMade, Shown
  <2>3. visited \in ToSet(content)
    BY <2>2, ToSetOne DEF IsOpen
  <2>4. tabs[visited] \in Seq(1 .. born)
    BY <2>3, ContentIsLast
  <2> QED
    BY <2>1, <2>3, <2>4, InToSet
<1> QED
  BY <1>1, TypedAlways, TurnAlways, AttendedAlways, PTL

(* MarkedTabListens: of the tabs of the page shown one is marked, unless   *)
(* the one looked at was closed before the last; the marked one listens,   *)
(* and nothing else but the tab of the ranges.                             *)
THEOREM MarkedTabIsAsked == PagesSpec => []MarkedTabListens
<1>1. Typed /\ CalmInTurn /\ Attended => MarkedTabListens
  <2> SUFFICES ASSUME Typed, InTurn, Marked, Idle, NEW v \in ToSet(content)
               PROVE  /\ (tabs[v] # <<>> /\ "drop" \notin habits) => active[v] # 0
                      /\ active[v] # 0 => Contains(subs, tabs[v][active[v]])
                      /\ \A i \in 1 .. Len(tabs[v]) :
                           Contains(subs, tabs[v][i]) => i \in {active[v], Range_}
    BY DEF CalmInTurn, Attended, Calm, MarkedTabListens
  <2>1. v = visited /\ visited > 0
    BY ContentIsLast
  <2>2. MarkKept /\ MarkListens /\ OnlyMarked
    BY <2>1 DEF Marked
  <2>3. \A x : Contains(subs, x) <=> x \in ToSet(subs)
    BY InToSet, DocType DEF Typed
  <2> QED
    BY <2>1, <2>2, <2>3 DEF MarkKept, MarkListens, OnlyMarked
<1> QED
  BY <1>1, TypedAlways, TurnAlways, AttendedAlways, PTL

-----------------------------------------------------------------------------
(* The names of the panes, when no tab in the middle is closed: each tab of *)
(* a range has its own. *)

InOrderHere == Calm /\ "middle" \notin habits
SamePane == pane[visited] = active[visited]
NumbersFollow == \A j \in 3 .. Len(tabs[visited]) : num[tabs[visited][j]] = j - 3
Numbered == visited > 0 => SamePane /\ NumbersFollow
CalmNumbered == InOrderHere => Numbered

LEMMA BareNumbered ==
  ASSUME Fresh', visited' > 0, visited' \in Visits,
         stage'[visited'] # "open" \/ page'[visited'] \notin TabPages
  PROVE  Numbered'
<1>1. Bare(visited)'
  BY DEF Fresh
<1>2. tabs'[visited'] = <<>> /\ active'[visited'] = 0 /\ pane'[visited'] = 0
  BY <1>1 DEF Bare
<1>3. SamePane' /\ NumbersFollow'
  BY <1>2 DEF SamePane, NumbersFollow
<1> QED
  BY <1>3 DEF Numbered

\* Two tabs have no names.
LEMMA TwoNumbered ==
  ASSUME Len(tabs'[visited']) = 2, pane'[visited'] = active'[visited'] PROVE Numbered'
BY DEF Numbered, SamePane, NumbersFollow

LEMMA RenderNumbered ==
  ASSUME Typed, Order, InTurn, Ready', NEW v \in Visits, Render(v) PROVE Numbered'
<1>1. v = visited /\ IsOpen' /\ visited' = visited /\ page' = page
  BY RenderTurn DEF Render
<1>2. CASE page[v] \in TabPages
  <2> DEFINE two == <<born + 1, born + 2>>
  <2>1. tabs'[v] = two /\ active'[v] = 1 /\ pane'[v] = 1
    BY <1>2, RenderMakes, DocType DEF Typed
  <2>2. Len(two) = 2
    OBVIOUS
  <2> HIDE DEF two
  <2> QED
    BY <1>1, <2>1, <2>2, TwoNumbered
<1>3. CASE page[v] \notin TabPages
  BY <1>1, <1>3, BareNumbered DEF Ready, IsOpen, Shown
<1> QED
  BY <1>2, <1>3

LEMMA InitTabNumbered ==
  ASSUME Typed, Order, InTurn, NEW v \in Visits, OnScreen(v), InitTab(v, tabs[v]), UNCHANGED nav
  PROVE  Numbered'
<1> DEFINE two == <<tabs[v][1], tabs[v][2]>>
<1>1. v = visited /\ visited' = visited
  BY ScreenIsLast DEF nav
<1>2. tabs'[v] = two /\ active'[v] = 1 /\ pane'[v] = 1
  BY InitTabShape, DocType DEF Typed
<1>3. Len(two) = 2
  OBVIOUS
<1> HIDE DEF two
<1> QED
  BY <1>1, <1>2, <1>3, TwoNumbered

LEMMA ShowTabNumbered ==
  ASSUME Typed, Order, InTurn, Numbered, NEW v \in Visits, NEW i \in 1 .. MaxExtra + 2, ShowTab(v, i)
  PROVE  Numbered'
<1> DEFINE shown == [pane EXCEPT ![v] = i]
           k == num[tabs[v][i]]
<1>1. /\ OnScreen(v) /\ i \in 1 .. Len(tabs[v]) /\ tabs[v] \in Seq(1 .. born)
      /\ active' = [active EXCEPT ![v] = i]
      /\ pane' = IF i <= Range_ THEN shown ELSE PanesAfter(tabs, shown, k)
      /\ tabs' = tabs /\ num' = num /\ visited' = visited
  BY ShowTabShape DEF nav
<1>2. v = visited /\ visited > 0 /\ content = <<v>>
  BY <1>1, ScreenIsLast DEF IsOpen
<1>3. NumbersFollow'
  BY <1>1, <1>2 DEF Numbered, NumbersFollow
<1>4. i \in Nat /\ shown \in [Visits -> Nat] /\ shown[v] = i /\ active'[v] = i
  <2>1. i \in Nat
    BY VisitsAreNumbers
  <2> QED
    BY <1>1, <2>1, DocType DEF Typed
<1>5. pane'[v] = i
  <2>1. CASE i <= Range_
    BY <1>1, <1>4, <2>1
  <2>2. CASE ~ (i <= Range_)
    <3>1. i \in 3 .. Len(tabs[v])
      BY <1>1, <1>4, <2>2 DEF Range_
    <3>2. k = i - 3
      BY <1>2, <3>1 DEF Numbered, NumbersFollow
    <3>3. OnlyNamed(v, tabs, k, i)
      <4> SUFFICES ASSUME NEW j \in 3 .. Len(tabs[v]) PROVE num[tabs[v][j]] = k <=> j = i
        BY DEF OnlyNamed
      <4>1. num[tabs[v][j]] = j - 3
        BY <1>2 DEF Numbered, NumbersFollow
      <4> HIDE DEF k
      <4> QED
        BY <1>4, <3>2, <4>1
    <3> HIDE DEF shown, k
    <3>4. PanesAfter(tabs, shown, k) = [shown EXCEPT ![v] = i]
      BY <1>1, <1>2, <3>1, <3>3, PanesWith
    <3>5. pane' = [shown EXCEPT ![v] = i]
      BY <1>1, <2>2, <3>4
    <3> QED
      BY <1>4, <3>5
  <2> QED
    BY <2>1, <2>2
<1>6. SamePane'
  BY <1>1, <1>2, <1>4, <1>5 DEF SamePane
<1> QED
  BY <1>3, <1>6 DEF Numbered

LEMMA RemoveTabNumbered ==
  ASSUME Typed, Order, InTurn, Numbered, "middle" \notin habits, NEW v \in Visits,
         NEW i \in 1 .. MaxExtra + 2, RemoveTab(v, i), Marked
  PROVE  Numbered'
<1> DEFINE left == RemoveAt(tabs[v], i)
           next == NextTab(active[v], i, Len(tabs[v]))
           mark == ShownIndex(left, next)
           kept == IF pane[v] = i THEN 0 ELSE IF pane[v] > i THEN pane[v] - 1 ELSE pane[v]
           gone == [tabs EXCEPT ![v] = left]
           panes == [pane EXCEPT ![v] = IF next = 0 THEN kept ELSE mark]
           k == num[tabs[v][i]]
<1>1. /\ OnScreen(v) /\ i = Len(tabs[v]) /\ i \in 3 .. Len(tabs[v]) /\ tabs[v] \in Seq(1 .. born)
      /\ left \in Seq(1 .. born) /\ Len(left) = Len(tabs[v]) - 1 /\ next \in Int /\ kept \in Nat
      /\ \A j \in 1 .. Len(left) : left[j] = IF j < i THEN tabs[v][j] ELSE tabs[v][j + 1]
      /\ tabs' = gone /\ gone \in [Visits -> Seq(1 .. born)]
      /\ active' = [active EXCEPT ![v] = mark]
      /\ pane' = PanesAfter(gone, panes, k)
      /\ num' = num /\ visited' = visited
  BY RemoveTabShape DEF nav
<1>2. v = visited /\ visited > 0 /\ content = <<v>>
  BY <1>1, ScreenIsLast DEF IsOpen
<1>3. i \in Nat /\ i >= 3 /\ Len(left) = i - 1
  BY <1>1
<1>4. (kept = 0 /\ mark = 0) \/ next # 0
  <2> SUFFICES ASSUME next = 0 PROVE kept = 0 /\ mark = 0
    OBVIOUS
  <2>1. pane[v] = active[v] /\ active[v] \in Nat /\ active[v] <= i
    BY <1>1, <1>2, <1>3 DEF Numbered, SamePane, Marked, MarkThere
  <2>2. active[v] = 0
    BY <1>1, <1>3, <2>1 DEF NextTab
  <2>3. mark = 0
    BY <1>1, <1>3 DEF ShownIndex
  <2> QED
    BY <1>3, <2>1, <2>2, <2>3
<1>5. mark \in Nat
  <2> HIDE DEF left, next
  <2> QED
    BY <1>1, ShownIndexType
<1>6. \A j \in 1 .. Len(left) : left[j] = tabs[v][j]
  BY <1>1, <1>3
<1>7. tabs'[v] = left /\ gone[v] = left /\ active'[v] = mark
  BY <1>1, DocType DEF Typed
<1> HIDE DEF next, kept, mark, left
<1>8. panes \in [Visits -> Nat] /\ panes[v] = mark
  BY <1>1, <1>4, <1>5, DocType DEF Typed
<1>9. \A j \in 3 .. Len(left) : num[left[j]] = j - 3 /\ num[left[j]] # k
  <2> SUFFICES ASSUME NEW j \in 3 .. Len(left) PROVE num[left[j]] = j - 3 /\ num[left[j]] # k
    OBVIOUS
  <2>1. j \in 1 .. Len(left) /\ j \in 3 .. Len(tabs[v]) /\ j # i
    BY <1>1, <1>3
  <2>2. num[tabs[v][j]] = j - 3 /\ k = i - 3
    BY <1>1, <1>2, <2>1 DEF Numbered, NumbersFollow
  <2>3. left[j] = tabs[v][j]
    BY <1>6, <2>1
  <2> HIDE DEF k
  <2> QED
    BY <1>3, <2>1, <2>2, <2>3
<1> HIDE DEF panes, gone, k
<1>10. PanesAfter(gone, panes, k) = panes
  <2>1. NoneNamed(v, gone, k)
    BY <1>7, <1>9 DEF NoneNamed
  <2> QED
    BY <1>2, <2>1, PanesWithout
<1>11. SamePane'
  BY <1>1, <1>2, <1>7, <1>8, <1>10 DEF SamePane
<1>12. NumbersFollow'
  BY <1>1, <1>2, <1>7, <1>9 DEF NumbersFollow
<1> QED
  BY <1>11, <1>12 DEF Numbered

LEMMA RenderTabNumbered ==
  ASSUME Typed, Order, InTurn, Ready, Numbered, RenderTab PROVE Numbered'
<1> DEFINE v == Head(firing)
           n == born + 1
           longer == Append(tabs[v], n)
<1>1. /\ v \in Visits /\ IsOpen /\ Tabbed(visited) /\ visited \in Visits
  BY RenderTabWhere DEF Ready
<1>2. /\ tabs' = [tabs EXCEPT ![v] = longer]
      /\ active' = [active EXCEPT ![v] = Len(tabs[v]) + 1]
      /\ pane' = [pane EXCEPT ![v] = Len(tabs[v]) + 1]
      /\ num' = Append(num, HeadersShown - 2)
      /\ UNCHANGED nav
  BY RenderTabShape
<1>3. visited' = visited /\ visited > 0 /\ content = <<visited>>
  BY <1>1, <1>2 DEF nav, IsOpen, Shown
<1> DEFINE c == visited
           m == Len(tabs[c])
<1>4. tabs[c] \in Seq(1 .. born) /\ m >= 2 /\ m \in Nat /\ born \in Nat
  <2>1. tabs[c] \in Seq(1 .. born)
    BY <1>1, DocType DEF Typed
  <2> QED
    BY <1>1, <2>1, DocType DEF Typed, TwoTabs
<1>5. HeadersShown = m
  BY <1>1, <1>3, HeadersOfOne DEF Typed
<1>6. \A x \in 1 .. born : num'[x] = num[x]
  BY <1>2, <1>4, <1>5, DocType DEF Typed
<1>7. num'[n] = m - 2
  BY <1>2, <1>4, <1>5, DocType DEF Typed
<1>8. \A j \in 3 .. m : num'[tabs[c][j]] = j - 3
  <2> SUFFICES ASSUME NEW j \in 3 .. m PROVE num'[tabs[c][j]] = j - 3
    OBVIOUS
  <2>1. j \in 1 .. m
    BY <1>4
  <2>2. tabs[c][j] \in 1 .. born
    BY <1>4, <2>1, SeqIn
  <2>3. num[tabs[c][j]] = j - 3
    BY <1>3 DEF Numbered, NumbersFollow
  <2> QED
    BY <1>6, <2>2, <2>3
<1>9. CASE v # c
  <2>1. tabs'[c] = tabs[c] /\ active'[c] = active[c] /\ pane'[c] = pane[c]
    BY <1>1, <1>2, <1>9, DocType DEF Typed
  <2>2. SamePane'
    BY <1>3, <2>1 DEF SamePane, Numbered
  <2>3. NumbersFollow'
    BY <1>3, <1>8, <2>1 DEF NumbersFollow
  <2> QED
    BY <2>2, <2>3 DEF Numbered
<1>10. CASE v = c
  <2>1. tabs'[c] = longer /\ active'[c] = m + 1 /\ pane'[c] = m + 1
    BY <1>1, <1>2, <1>10, DocType DEF Typed
  <2>2. /\ Len(longer) = m + 1 /\ longer[m + 1] = n
        /\ \A j \in 1 .. m : longer[j] = tabs[c][j]
    <3>1. tabs[c] \in Seq(1 .. n) /\ n \in 1 .. n
      BY <1>4, SeqGrows
    <3> QED
      BY <1>4, <1>10, <3>1
  <2> HIDE DEF longer, n, m
  <2>3. SamePane'
    BY <1>3, <2>1 DEF SamePane
  <2>4. ASSUME NEW j \in 3 .. Len(longer) PROVE num'[longer[j]] = j - 3
    <3>1. CASE j = m + 1
      BY <1>4, <1>7, <2>2, <3>1
    <3>2. CASE j # m + 1
      <4>1. j \in 3 .. m /\ j \in 1 .. m
        BY <1>4, <2>2, <3>2
      <4> QED
        BY <1>8, <2>2, <4>1
    <3> QED
      BY <3>1, <3>2
  <2>5. NumbersFollow'
    BY <1>3, <2>1, <2>4 DEF NumbersFollow
  <2> QED
    BY <2>3, <2>5 DEF Numbered
<1> QED
  BY <1>9, <1>10

LEMMA NumberedStep ==
  ASSUME Typed, Apart, Order, InTurn, Calm, Ready, Ready', Listening, Marked, Numbered,
         "middle" \notin habits, [PagesNext]_pageVars
  PROVE  Numbered'
<1>1. ASSUME NEW p \in Pages, Navigate(p) PROVE Numbered'
  <2>1. IsLoading' /\ visited' \in Visits
    <3>1. visited' \in Visits
      BY <1>1, CurrentVisit, VisitsAreNumbers DEF Navigate, Typed
    <3> QED
      BY <1>1, <3>1, NavigateTurn
  <2> QED
    BY <2>1, BareNumbered DEF Ready, IsLoading, Shown
<1>2. ASSUME NEW v \in Visits, Arrive(v) PROVE Numbered'
  <2>1. IsMade' /\ visited' \in Visits
    BY <1>2, ArriveTurn
  <2> QED
    BY <2>1, BareNumbered DEF Ready, IsMade, Shown
<1>3. ASSUME NEW v \in Visits, Render(v) PROVE Numbered'
  BY <1>3, RenderNumbered
<1>4. ASSUME NEW v \in Visits, Search(v) \/ RefusedSearch(v) PROVE Numbered'
  <2>1. OnScreen(v) /\ InitTab(v, tabs[v]) /\ UNCHANGED nav
    BY <1>4 DEF Search, RefusedSearch
  <2> QED
    BY <2>1, InitTabNumbered
<1>5. ASSUME NEW v \in Visits, NEW i \in 1 .. MaxExtra + 2, ShowTab(v, i) \/ RemoveTab(v, i)
      PROVE  Numbered'
  BY <1>5, ShowTabNumbered, RemoveTabNumbered
<1>6. CASE PressStep \/ UNCHANGED pageVars
  <2>1. UNCHANGED <<nav, doc>>
    BY <1>6 DEF PressStep, PressRange, PressDetail, pageVars
  <2> QED
    BY <2>1 DEF nav, doc, Numbered, SamePane, NumbersFollow
<1>7. CASE RenderTab
  BY <1>7, RenderTabNumbered
<1> QED
  BY <1>1, <1>2, <1>3, <1>4, <1>5, <1>6, <1>7, StepsAre DEF NavStep, TabStep

LEMMA NumberedAlways == PagesSpec => []CalmNumbered
<1>1. PagesInit => CalmNumbered
  BY DEF PagesInit, CalmNumbered, Numbered
<1>2. ASSUME Typed, Apart, Order, CalmInTurn, Attended, Attended', CalmNumbered, [PagesNext]_pageVars
      PROVE  CalmNumbered'
  <2> SUFFICES ASSUME InOrderHere' PROVE Numbered'
    BY DEF CalmNumbered
  <2>1. InOrderHere
    BY <1>2, HabitsStay DEF InOrderHere, Calm
  <2> QED
    BY <1>2, <2>1, NumberedStep DEF CalmInTurn, Attended, CalmNumbered, InOrderHere
<1> QED
  BY <1>1, <1>2, TypedAlways, ApartAlways, OrderAlways, TurnAlways, AttendedAlways, PTL DEF PagesSpec

(* PaneIsTheTabs: the pane that is seen belongs to the header that is      *)
(* marked, as long as only the last tab is closed: the names of the panes, *)
(* counted from the headers in the document, are then all different, so    *)
(* that Bootstrap's own handler shows the pane showTab has shown.          *)
THEOREM PaneFollowsTab == PagesSpec => []PaneIsTheTabs
<1>1. Typed /\ CalmInTurn /\ CalmNumbered => PaneIsTheTabs
  <2> SUFFICES ASSUME Typed, CalmInTurn, CalmNumbered, habits \cap {"rush", "middle"} = {},
                      NEW v \in ToSet(content)
               PROVE  pane[v] = active[v]
    BY DEF PaneIsTheTabs
  <2>1. Calm /\ InOrderHere
    BY DEF Calm, InOrderHere
  <2>2. v = visited /\ visited > 0
    BY <2>1, ContentIsLast DEF CalmInTurn
  <2> QED
    BY <2>1, <2>2 DEF CalmNumbered, Numbered, SamePane
<1> QED
  BY <1>1, TypedAlways, TurnAlways, NumberedAlways, PTL
=============================================================================
