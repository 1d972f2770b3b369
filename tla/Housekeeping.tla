---------------------------- MODULE Housekeeping ----------------------------
(***************************************************************************)
(* The two jobs that delete old log tables: OracleService.deleteDaysTable  *)
(* (every day at 02:00, by the retention periods) and                      *)
(* ManagerService.dbCheckDelete (every 30 minutes, when the log disk is    *)
(* too full, oldest day first).  Quartz runs them on threads of their own, *)
(* next to each other, to the backups and to the creation of tables.       *)
(*                                                                         *)
(* A step that lists tables and then drops them is one action: every name  *)
(* it lists is of a day before today, and no other thread creates such a   *)
(* table in between, so the list cannot go stale, except by tables that    *)
(* somebody else dropped, which DROP TABLE IF EXISTS passes over.          *)
(***************************************************************************)
EXTENDS LogTables

CONSTANTS
    RetentionOrder,  \* the LIKE patterns of deleteDaysTable, in its order,
                     \* each as the set of the kinds it matches
    AuditFrom,       \* the pattern from which tableDate is auditStartDay
    Periods          \* retention periods, in days, the form lets one store

ASSUME RetentionAssumption ==
    /\ RetentionOrder \in Seq(SUBSET Kinds)
    /\ Len(RetentionOrder) > 0
    /\ AuditFrom \in Nat
    /\ \A i \in DOMAIN RetentionOrder : i < AuditFrom => AuditKind \notin RetentionOrder[i]
    /\ Periods \subseteq Nat \ {0}   \* dbManagement.js: rangeFrom1To999
    /\ Periods # {}

VARIABLES
    ret,   \* deleteDaysTable: the pattern it is at (0: idle), its two dates
    cap    \* dbCheckDelete: the dates of its list it has still to look at

keepVars == <<ret, cap>>

RetentionIdle == [pos |-> 0, rawDay |-> 0, auditDay |-> 0]

KeepTypeOK ==
    /\ ret \in [pos : 0..Len(RetentionOrder), rawDay : Int, auditDay : Int]
    /\ cap \in SUBSET Nat

KeepInit == ret = RetentionIdle /\ cap = {}

(***************************************************************************)
(* Retention                                                               *)
(***************************************************************************)

\* 02:00: the DropTableScheduler trigger of a running console starts
\* deleteDaysTable, which reads both periods and today's date once.  (Bound:
\* yesterday's run is over, so that there is one at a time.)
RetentionTrigger ==
    IF status = "up"
    THEN /\ ret.pos = 0
         /\ \E raw, audit \in Periods :
               ret' = [pos |-> 1, rawDay |-> today - raw,
                       auditDay |-> today - audit]
    ELSE UNCHANGED ret

\* (mutant of TableDate: the audit date is never put in the map)
TableDateRaw == ret.rawDay

\* The date bound in the map when deleteDaysTable reaches a pattern.  It is
\* replaced once, before the audit patterns, and never put back.
TableDate == IF ret.pos < AuditFrom THEN ret.rawDay ELSE ret.auditDay

\* (mutant of Expired: the day of the period itself is left out)
ExpiredBefore ==
    {t \in tables : Kind(t) \in RetentionOrder[ret.pos] /\ Day(t) < TableDate}

Expired ==
    {t \in tables : Kind(t) \in RetentionOrder[ret.pos] /\ Day(t) <= TableDate}

\* One pattern: selectTableNames, then dropTables.
RetentionStep ==
    /\ ret.pos > 0
    /\ tables' = Dropped(Expired)
    /\ ret' = IF DropReturns(Expired) /\ ret.pos < Len(RetentionOrder)
              THEN [ret EXCEPT !.pos = @ + 1]
              ELSE RetentionIdle
    /\ UNCHANGED <<today, hour, status, bootDay, todo, cap>>

\* The DROP fails after some of its tables; the exception leaves
\* deleteDaysTable, and the patterns still to come wait for tomorrow.
RetentionFails ==
    /\ "drop" \in Faults
    /\ ret.pos > 0
    /\ \E part \in SUBSET Expired : tables' = Dropped(part)
    /\ ret' = RetentionIdle
    /\ UNCHANGED <<today, hour, status, bootDay, todo, cap>>

(***************************************************************************)
(* Disk capacity                                                           *)
(***************************************************************************)

\* The disk is at its limit: an audit row comes first (and without today's
\* AUDIT table its exception ends the job), then selectTableDateList.
CapacityStart ==
    /\ status = "up"
    /\ cap = {}
    /\ <<AuditKind, today>> \in tables
    /\ cap' = {Day(t) : t \in {u \in tables : Day(u) < today}}
    /\ UNCHANGED <<logVars, ret>>

\* (mutant of AtDate: ORDER BY NAMEDATE DESC)
AtDateNewest == {d \in cap : \A e \in cap : d >= e}

\* The date the loop is at: the list is sorted by date.
AtDate == {d \in cap : \A e \in cap : d <= e}
OfDay(d) == {t \in tables : Day(t) = d}

\* All tables of that date are dropped, and df is asked whether there is room
\* now.  The disk is not modelled: it may say either.
CapacityStep ==
    \E d \in AtDate, enough \in BOOLEAN :
        /\ tables' = Dropped(OfDay(d))
        /\ cap' = IF enough \/ ~DropReturns(OfDay(d)) THEN {} ELSE cap \ {d}
        /\ UNCHANGED <<today, hour, status, bootDay, todo, ret>>

\* The DROP fails after some of its tables and the loop is left.
CapacityFails ==
    /\ "drop" \in Faults
    /\ \E d \in AtDate : \E part \in SUBSET OfDay(d) : tables' = Dropped(part)
    /\ cap' = {}
    /\ UNCHANGED <<today, hour, status, bootDay, todo, ret>>

KeepNext ==
    \/ RetentionStep \/ RetentionFails
    \/ CapacityStart \/ CapacityStep \/ CapacityFails
=============================================================================
