------------------------------ MODULE LogTables ------------------------------
(***************************************************************************)
(* The daily log tables of the web console: one table per kind of log and  *)
(* per day, named <KIND>_yy_MM_dd, held here as the pair <<kind, day>>.    *)
(* CreateTableService creates the tables of today and tomorrow when the    *)
(* console starts and those of tomorrow at 01:00 every day.  The writers   *)
(* (the console's audit log, the sensor) only ever insert in today's.      *)
(*                                                                         *)
(* Days are numbers.  The wall clock is today, cut in three parts by the   *)
(* two cron triggers of ScheduleUtil: hour = 0 before 01:00 (creation),    *)
(* 1 before 02:00 (retention), 2 for the rest of the day.                  *)
(***************************************************************************)
EXTENDS Integers, Sequences, FiniteSets

CONSTANTS
    Kinds,       \* kinds of log table (LOG, RAWDATA, AUDIT, ...)
    AuditKind,   \* the kind the console writes its own audit log to
    KindOrder,   \* the order in which CreateTableService creates the kinds
    FirstDay,    \* the day a behaviour starts, ...
    MaxDay,      \* ... and the one it ends (a bound of the model)
    Faults       \* the failures and races this instance lets happen

FaultNames == {"create", "straddle", "drop", "dump", "zip", "today", "late"}

ASSUME KindsAssumption ==
    /\ AuditKind \in Kinds                     \* AUDIT is a kind of its own
    /\ KindOrder \in Seq(Kinds)
    /\ \A k \in Kinds : \E i \in DOMAIN KindOrder : KindOrder[i] = k

ASSUME BoundsAssumption ==
    /\ FirstDay \in Nat
    /\ MaxDay \in Nat
    /\ Faults \subseteq FaultNames

VARIABLES
    today,     \* the date of the wall clock (JVM and database share the host)
    hour,      \* the part of the day: 0, 1 or 2
    tables,    \* the log tables in the database
    status,    \* the console: "down", "booting", "creating" or "up"
    bootDay,   \* initCreateLogTable's nowTableDate
    todo       \* CREATE TABLE statements the creation in progress has left

logVars == <<today, hour, tables, status, bootDay, todo>>

Table == Kinds \X Nat
Kind(t) == t[1]
Day(t) == t[2]

LogTypeOK ==
    /\ today \in Nat
    /\ hour \in 0..2
    /\ tables \in SUBSET Table
    /\ status \in {"down", "booting", "creating", "up"}
    /\ bootDay \in Nat
    /\ todo \in Seq(Table)

(***************************************************************************)
(* Creation                                                                *)
(***************************************************************************)

\* (mutant of StartupPlan: the second date is two days ahead)
StartupPlanAhead(now, next) ==
    [i \in 1..(2 * Len(KindOrder)) |->
        <<KindOrder[(i + 1) \div 2], IF i % 2 = 1 THEN now ELSE next + 1>>]

\* initCreateLogTable goes through the kinds and creates, for each, the table
\* of its nowTableDate and then that of its nextDayTableDate.
StartupPlan(now, next) ==
    [i \in 1..(2 * Len(KindOrder)) |->
        <<KindOrder[(i + 1) \div 2], IF i % 2 = 1 THEN now ELSE next>>]

\* (mutant of DailyPlan: the table of today instead of tomorrow's)
DailyPlanToday(next) == [i \in 1..Len(KindOrder) |-> <<KindOrder[i], next - 1>>]

\* nextDayCreateLogTable creates tomorrow's table of every kind.
DailyPlan(next) == [i \in 1..Len(KindOrder) |-> <<KindOrder[i], next>>]

\* The servlet starts: initCreateLogTable reads the date of today ...
Boot ==
    /\ status = "down"
    /\ status' = "booting"
    /\ bootDay' = today
    /\ UNCHANGED <<today, hour, tables, todo>>

\* ... and then asks the clock a second time, for the date of tomorrow.
ReadNextDay ==
    /\ status = "booting"
    /\ status' = "creating"
    /\ todo' = StartupPlan(bootDay, today + 1)
    /\ UNCHANGED <<today, hour, tables, bootDay>>

\* One createXTable call: a table that exists already is left alone.
CreateTable ==
    /\ todo # <<>>
    /\ tables' = tables \cup {Head(todo)}
    /\ todo' = Tail(todo)
    /\ UNCHANGED <<today, hour, status, bootDay>>

\* A createXTable call throws: the catch around the whole list only logs it,
\* and the kinds that were still to come get no table.
CreateFails ==
    /\ "create" \in Faults
    /\ todo # <<>>
    /\ todo' = <<>>
    /\ UNCHANGED <<today, hour, tables, status, bootDay>>

\* InitServlet has gone on to start the scheduler and every job.
BootDone ==
    /\ status = "creating"
    /\ todo = <<>>
    /\ status' = "up"
    /\ UNCHANGED <<today, hour, tables, bootDay, todo>>

(***************************************************************************)
(* The clock                                                               *)
(***************************************************************************)

\* 01:00, the CreateLogTableScheduler trigger.  A console that is not up has
\* no scheduler: the day's job is missed, not caught up with.  (Bound: a start
\* that began before midnight is over by 01:00.)
OneOClock ==
    /\ hour = 0
    /\ status \in {"booting", "creating"} => bootDay = today
    /\ hour' = 1
    /\ todo' = IF status = "up" THEN DailyPlan(today + 1) ELSE todo
    /\ UNCHANGED <<today, tables, status, bootDay>>

\* 02:00; Housekeeping says what the DropTableScheduler trigger starts.
TwoOClock ==
    /\ hour = 1
    /\ hour' = 2
    /\ UNCHANGED <<today, tables, status, bootDay, todo>>

\* Midnight.  (Bound: the 01:00 job, a few CREATEs, is done 23 hours later.)
\* Without "straddle" no midnight falls between the two dates a start reads.
Midnight ==
    /\ hour = 2
    /\ today < MaxDay
    /\ status = "up" => todo = <<>>
    /\ status = "booting" => "straddle" \in Faults
    /\ today' = today + 1
    /\ hour' = 0
    /\ UNCHANGED <<tables, status, bootDay, todo>>

\* The console stops or is killed; what its threads had in hand is gone.
LogStop ==
    /\ status # "down"
    /\ status' = "down"
    /\ todo' = <<>>
    /\ UNCHANGED <<today, hour, tables, bootDay>>

(***************************************************************************)
(* Dropping                                                                *)
(***************************************************************************)

\* OracleService.dropTables: one DROP TABLE IF EXISTS for the list.
Dropped(list) == tables \ list

\* dropTables then writes an audit row in the AUDIT table of today; when that
\* table is missing the insert throws, out of dropTables and of its caller.
DropReturns(list) == list = {} \/ <<AuditKind, today>> \in tables \ list

\* The console is down, in the small hours of no job; what tables there are is
\* what earlier runs left.
LogInit ==
    /\ today = FirstDay
    /\ hour = 2
    /\ \E days \in SUBSET (0..(FirstDay - 1)) : tables = Kinds \X days
    /\ status = "down"
    /\ bootDay = 0
    /\ todo = <<>>
=============================================================================
