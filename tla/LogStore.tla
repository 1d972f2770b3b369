------------------------------ MODULE LogStore ------------------------------
(***************************************************************************)
(* The log tables with everything that works on them at once: creation at  *)
(* startup and at 01:00, retention at 02:00, the disk check, the scheduled *)
(* and the operator's backups, the writers, midnight, and a console that   *)
(* may be stopped and started at any moment.                               *)
(***************************************************************************)
EXTENDS Housekeeping, DbBackup

vars == <<logVars, keepVars, backupVars>>

TypeOK == LogTypeOK /\ KeepTypeOK /\ BackupTypeOK

Init == LogInit /\ KeepInit /\ BackupInit

Creation ==
    /\ Boot \/ ReadNextDay \/ CreateTable \/ CreateFails \/ BootDone
    /\ UNCHANGED <<keepVars, backupVars>>

\* The clock; a row named before midnight may be inserted after it ("late").
Clock ==
    \/ OneOClock /\ UNCHANGED <<keepVars, backupVars>>
    \/ TwoOClock /\ RetentionTrigger /\ UNCHANGED <<cap, backupVars>>
    \/ /\ Midnight
       /\ inserts # {} => "late" \in Faults
       /\ UNCHANGED <<keepVars, backupVars>>

\* The console stops, and with it every job and every request.
Stop ==
    /\ LogStop
    /\ ret' = RetentionIdle
    /\ cap' = {}
    /\ BackupStop

Next ==
    \/ Creation
    \/ Clock
    \/ KeepNext /\ UNCHANGED backupVars
    \/ BackupNext /\ UNCHANGED keepVars
    \/ Stop

Spec == Init /\ [][Next]_vars

(***************************************************************************)
(* Fairness: time passes, and Quartz and the HTTP pool keep running a job  *)
(* once they have started it.  Nothing obliges an operator to ask for a    *)
(* backup, a row to be written or the console to stop, and a failure need  *)
(* never happen.                                                           *)
(***************************************************************************)
BackupStep(b) ==
    /\ BackupSelect(b) \/ BackupDump(b) \/ BackupList(b) \/ BackupDrop(b) \/ BackupZip(b)
    /\ UNCHANGED keepVars

Fairness ==
    /\ WF_vars(Creation)
    /\ WF_vars(Clock)
    /\ WF_vars(RetentionStep /\ UNCHANGED backupVars)
    /\ WF_vars(CapacityStep /\ UNCHANGED backupVars)
    /\ \A b \in Backups : WF_vars(BackupStep(b))
    /\ WF_vars(\E t \in inserts : InsertDone(t) /\ UNCHANGED keepVars)

FairSpec == Spec /\ Fairness

-----------------------------------------------------------------------------
(***************************************************************************)
(* Properties                                                              *)
(***************************************************************************)

\* Whatever the jobs do next to each other, and across midnight, only tables
\* of days before today are ever dropped: the ones being written, and those
\* created ahead for tomorrow, stay.
CurrentTablesKept ==
    [][\A t \in tables \ tables' : Day(t) < today]_vars

\* The disk check frees space from the oldest day upwards: when it drops a
\* table of some day, no table of an earlier day is left behind.
OldestDroppedFirst ==
    [][CapacityStep =>
          \A t \in tables \ tables', u \in tables' : Day(u) >= Day(t)]_vars

\* Retention drops an audit table only when it is older than the audit period,
\* and any other table only when it is older than the event period: what the
\* settings page and its audit message ("event log: {0} days, audit log: {1}
\* days") say of the two periods.  Kinds whose pattern comes after the audit
\* ones are the exception: deleteDaysTable has its other date by then.
Misplaced ==
    UNION {RetentionOrder[i] \ {AuditKind} : i \in AuditFrom..Len(RetentionOrder)}

RetentionHonoursPeriods ==
    [][RetentionStep \/ RetentionFails =>
          \A t \in tables \ tables' : Kind(t) \in Misplaced
              \/ Day(t) <= IF Kind(t) = AuditKind THEN ret.auditDay ELSE ret.rawDay]_vars

\* While the console is up every kind has its table of today, and once the job
\* of 01:00 is through also that of tomorrow, so that midnight finds it there:
\* nothing that happens goes unlogged.
LogTablesReady ==
    status = "up" => \A k \in Kinds :
        /\ <<k, today>> \in tables
        /\ hour > 0 /\ todo = <<>> => <<k, today + 1>> \in tables

\* A table deleted by a backup left all of its rows in a file: the backup's
\* folder, or the zip made of it.
BackupKeepsRows ==
    deleted \subseteq saved \cup UNION {full[b] : b \in Backups}

\* A table that is past every retention period when 02:00 comes is dropped,
\* provided the console stays up: no other job that runs next to retention,
\* and no table it meets, makes it stop short.
Outlived(t) == \A p \in Periods : Day(t) + p <= today

ExpiredTablesGo ==
    \A t \in Kinds \X (0..MaxDay) :
        (t \in tables /\ Outlived(t) /\ hour = 1 /\ status = "up")
            ~> (t \notin tables \/ status # "up")

\* A backup or a disk check that was started comes to an end.
JobsEnd ==
    /\ \A b \in Backups : bk[b].pc # "idle" ~> bk[b].pc = "idle"
    /\ cap # {} ~> cap = {}

\* The store implements the calendar.
Calendar == INSTANCE LogCalendar
CalendarSpec == Calendar!Spec
=============================================================================
