----------------------------- MODULE LogCalendar -----------------------------
(***************************************************************************)
(* What the log store promises to those who write to it and search it, in  *)
(* terms of dates alone.  Days go by one at a time.  Tables appear for a   *)
(* day around today only (a start that runs over midnight may still create *)
(* yesterday's), one at a time and empty.  Tables disappear only once      *)
(* their day is over.  Nothing is said of who creates or drops a table,    *)
(* when, or which of the old tables go.                                    *)
(***************************************************************************)
EXTENDS Integers

CONSTANTS Kinds, FirstDay

VARIABLES today, tables

AroundToday == Kinds \X ((today - 1)..(today + 1))
Past == {t \in tables : t[2] < today}

Init ==
    /\ today = FirstDay
    /\ tables \subseteq Kinds \X (0..(FirstDay - 1))

NextDay ==
    /\ today' = today + 1
    /\ UNCHANGED tables

Appear ==
    /\ \E t \in AroundToday : tables' = tables \cup {t}
    /\ UNCHANGED today

Disappear ==
    /\ tables' \subseteq tables
    /\ tables \ tables' \subseteq Past
    /\ UNCHANGED today

Next == NextDay \/ Appear \/ Disappear

Spec == Init /\ [][Next]_<<today, tables>>
=============================================================================
