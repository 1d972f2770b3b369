------------------------------ MODULE DbBackup ------------------------------
(***************************************************************************)
(* The database backups of ManagerService: execDbBackup, the scheduled one *)
(* (yesterday and some days before it), and execNowDbBackup, run by the    *)
(* HTTP thread of an operator, over a range of days the operator chose.    *)
(* A backup goes through the groups of kinds that were ticked.  In each it *)
(* lists the tables of the range, has mysqldump write each to a file of    *)
(* the backup's own folder, and, if tables are to be deleted, asks for the *)
(* names of the range again and drops them.  The folder is zipped and      *)
(* removed at the very end.                                                *)
(*                                                                         *)
(* What matters of a dump is whether it holds every row its table has: a   *)
(* row written later makes the dump stale.                                 *)
(***************************************************************************)
EXTENDS LogTables

CONSTANTS
    Manual,        \* the operator's backups
    Scheduled,     \* the cron job's backup
    Groups,        \* what can be ticked: session, audit, traffic, detection
    BackupOrder,   \* the LIKE patterns in the order they are backed up, each
                   \* the set of the kinds it matches
    GroupAt,       \* the group of each pattern of BackupOrder
    SoloGroups,    \* groups of one pattern: session and audit
    Spans,         \* how many days back a backup starts
    MaxInserts     \* bound: rows whose table has been named, not inserted yet

Backups == Manual \cup Scheduled

ASSUME BackupAssumption ==
    /\ Manual \cap Scheduled = {}
    /\ BackupOrder \in Seq(SUBSET Kinds)
    /\ Len(BackupOrder) > 0
    /\ GroupAt \in [DOMAIN BackupOrder -> Groups]
    /\ SoloGroups \subseteq Groups
    /\ Spans \subseteq Nat \ {0}
    /\ MaxInserts \in Nat

VARIABLES
    bk,        \* the progress of each backup
    full,      \* the tables each backup's folder holds all the rows of
    saved,     \* the tables a zip (or an abandoned folder) holds all rows of
    deleted,   \* history: the tables a backup has dropped
    inserts    \* rows on their way: the table each was named for

backupVars == <<bk, full, saved, deleted, inserts>>

BackupIdle ==
    [pc |-> "idle", pos |-> 0, from |-> 0, to |-> 0, delete |-> FALSE,
     ticked |-> {}, names |-> {}, drops |-> {}]

Progress ==
    [pc : {"idle", "select", "dump", "list", "drop", "zip"},
     pos : 0..Len(BackupOrder),          \* the pattern it is at
     from : Int, to : Int,               \* the range of days
     delete : BOOLEAN, ticked : SUBSET Groups,  \* what was asked for
     names : SUBSET Table,               \* tables left to dump
     drops : SUBSET Table]               \* tables to drop with the group

BackupTypeOK ==
    /\ bk \in [Backups -> Progress]
    /\ full \in [Backups -> SUBSET Table]
    /\ saved \in SUBSET Table
    /\ deleted \in SUBSET Table
    /\ inserts \in SUBSET Table

BackupInit ==
    /\ bk = [b \in Backups |-> BackupIdle]
    /\ full = [b \in Backups |-> {}]
    /\ saved = {}
    /\ deleted = {}
    /\ inserts = {}

\* The tables of the range that the pattern at b's position matches.
InRange(b) ==
    {t \in tables : /\ Kind(t) \in BackupOrder[bk[b].pos]
                    /\ Day(t) \in bk[b].from..bk[b].to}

\* Whether the pattern at b's position is the last one of its group.
EndsGroup(b) ==
    \/ bk[b].pos = Len(BackupOrder)
    \/ GroupAt[bk[b].pos + 1] # GroupAt[bk[b].pos]

\* (mutant of NextPattern: never past a pattern)
NextPatternStuck(r) == [r EXCEPT !.pc = "select"]

\* Where b goes when it has done with the pattern at its position.
NextPattern(r) ==
    IF r.pos = Len(BackupOrder)
    THEN [r EXCEPT !.pc = "zip"]
    ELSE [r EXCEPT !.pc = "select", !.pos = @ + 1]

\* After a dump comes the next table of the list, or what follows the list.
AfterDump(r, t) ==
    [r EXCEPT !.names = r.names \ {t},
              !.pc = IF r.names = {t} THEN "list" ELSE "dump"]

\* An exception leaves the backup: its folder stays behind as it is.
Abandon(b) ==
    /\ bk' = [bk EXCEPT ![b] = BackupIdle]
    /\ full' = [full EXCEPT ![b] = {}]
    /\ saved' = saved \cup full[b]

\* A scheduled backup covers the days before today; the operator's range may
\* end today ("today" in Faults) or before.
BackupStart(b) ==
    /\ status = "up"
    /\ bk[b].pc = "idle"
    /\ \E span \in Spans, delete \in BOOLEAN, ticked \in SUBSET Groups \ {{}},
          to \in {today - 1}
                   \cup IF b \in Manual /\ "today" \in Faults THEN {today} ELSE {} :
          bk' = [bk EXCEPT ![b] =
                   [pc |-> "select", pos |-> 1, from |-> today - span, to |-> to,
                    delete |-> delete, ticked |-> ticked,
                    names |-> {}, drops |-> {}]]
    /\ UNCHANGED <<full, saved, deleted, inserts, logVars>>

\* selectTableNames.  A pattern of a group that is not ticked is passed over;
\* one without tables has nothing to list, except that session and audit go
\* on to ask for the names to delete all the same.
BackupSelect(b) ==
    /\ bk[b].pc = "select"
    /\ LET group == GroupAt[bk[b].pos]
           to(pc) == [bk[b] EXCEPT !.pc = pc, !.names = InRange(b)]
       IN \/ /\ group \notin bk[b].ticked
             /\ bk' = [bk EXCEPT ![b] = NextPattern(@)]
          \/ /\ group \in bk[b].ticked
             /\ InRange(b) # {}
             /\ bk' = [bk EXCEPT ![b] = to("dump")]
          \/ /\ group \in bk[b].ticked
             /\ InRange(b) = {}
             /\ bk' = [bk EXCEPT ![b] = IF group \in SoloGroups THEN to("list")
                                        ELSE IF EndsGroup(b) THEN to("drop")
                                        ELSE NextPattern(@)]
    /\ UNCHANGED <<full, saved, deleted, inserts, logVars>>

\* mysqldump of one table.  Nobody looks at its exit status or its stderr: a
\* dump that fails, or whose table is gone, passes for one that worked.
BackupDump(b) ==
    /\ bk[b].pc = "dump"
    /\ \E t \in bk[b].names :
          /\ \/ full' = [full EXCEPT ![b] = @ \cup ({t} \cap tables)]
             \/ "dump" \in Faults /\ UNCHANGED full
          /\ bk' = [bk EXCEPT ![b] = AfterDump(@, t)]
    /\ UNCHANGED <<saved, deleted, inserts, logVars>>

\* (mutant of BackupList: selectTableNames once more, which has no limit)
BackupListAll(b) ==
    /\ bk[b].pc = "list"
    /\ LET more == IF bk[b].delete THEN InRange(b) ELSE {}
           listed == [bk[b] EXCEPT !.drops = @ \cup more]
       IN bk' = [bk EXCEPT ![b] = IF EndsGroup(b)
                                  THEN [listed EXCEPT !.pc = "drop"]
                                  ELSE NextPattern(listed)]
    /\ UNCHANGED <<full, saved, deleted, inserts, logVars>>

\* selectTableDeleteNames: the same range once more, less today and later.
BackupList(b) ==
    /\ bk[b].pc = "list"
    /\ LET more == IF bk[b].delete THEN {t \in InRange(b) : Day(t) < today} ELSE {}
           listed == [bk[b] EXCEPT !.drops = @ \cup more]
       IN bk' = [bk EXCEPT ![b] = IF EndsGroup(b)
                                  THEN [listed EXCEPT !.pc = "drop"]
                                  ELSE NextPattern(listed)]
    /\ UNCHANGED <<full, saved, deleted, inserts, logVars>>

\* The end of a group: what it listed is dropped; when the audit row of the
\* drop cannot be written the exception ends the whole backup.
BackupDrop(b) ==
    /\ bk[b].pc = "drop"
    /\ tables' = Dropped(bk[b].drops)
    /\ deleted' = deleted \cup (bk[b].drops \cap tables)
    /\ IF DropReturns(bk[b].drops)
       THEN /\ bk' = [bk EXCEPT ![b] = NextPattern([@ EXCEPT !.drops = {}])]
            /\ UNCHANGED <<full, saved>>
       ELSE Abandon(b)
    /\ UNCHANGED <<inserts, today, hour, status, bootDay, todo>>

\* The DROP fails after some of its tables.
BackupDropFails(b) ==
    /\ "drop" \in Faults
    /\ bk[b].pc = "drop"
    /\ \E part \in SUBSET bk[b].drops :
          /\ tables' = Dropped(part)
          /\ deleted' = deleted \cup (part \cap tables)
    /\ Abandon(b)
    /\ UNCHANGED <<inserts, today, hour, status, bootDay, todo>>

\* (mutant of BackupZip: one folder a day, shared by the backups of the day)
BackupZipShared(b) ==
    /\ bk[b].pc = "zip"
    /\ bk' = [bk EXCEPT ![b] = BackupIdle]
    /\ full' = [c \in Backups |-> {}]
    /\ saved' = saved \cup full[b]
    /\ UNCHANGED <<deleted, inserts, logVars>>

\* zipDirectory, deleteDirectory, the audit row and the history record.
\* zipDirectory keeps an IOException to itself, so the folder is removed,
\* and success reported, whether or not there is a zip.
BackupZip(b) ==
    /\ bk[b].pc = "zip"
    /\ bk' = [bk EXCEPT ![b] = BackupIdle]
    /\ full' = [full EXCEPT ![b] = {}]
    /\ \/ saved' = saved \cup full[b]
       \/ "zip" \in Faults /\ UNCHANGED saved
    /\ UNCHANGED <<deleted, inserts, logVars>>

\* A writer has worked out the name of the table of today for a row ...
InsertNamed(k) ==
    /\ status = "up"
    /\ Cardinality(inserts) < MaxInserts
    /\ inserts' = inserts \cup {<<k, today>>}
    /\ UNCHANGED <<bk, full, saved, deleted, logVars>>

\* ... and inserts it (if there is such a table): dumps made are stale now.
InsertDone(t) ==
    /\ t \in inserts
    /\ inserts' = inserts \ {t}
    /\ IF t \in tables
       THEN /\ full' = [b \in Backups |-> full[b] \ {t}]
            /\ saved' = saved \ {t}
       ELSE UNCHANGED <<full, saved>>
    /\ UNCHANGED <<bk, deleted, logVars>>

\* The console stops: the folders of unfinished backups stay on the disk.
BackupStop ==
    /\ bk' = [b \in Backups |-> BackupIdle]
    /\ full' = [b \in Backups |-> {}]
    /\ saved' = saved \cup UNION {full[b] : b \in Backups}
    /\ deleted' = deleted
    /\ inserts' = {}

BackupNext ==
    \/ \E b \in Backups :
          \/ BackupStart(b) \/ BackupSelect(b) \/ BackupDump(b) \/ BackupList(b)
          \/ BackupDrop(b) \/ BackupDropFails(b) \/ BackupZip(b)
    \/ \E k \in Kinds : InsertNamed(k)
    \/ \E t \in inserts : InsertDone(t)
=============================================================================
