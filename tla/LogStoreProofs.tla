--------------------------- MODULE LogStoreProofs ---------------------------
(***************************************************************************)
(* Theorems about LogStore, for any kinds, any number of days, any backups *)
(* and any retention periods.                                              *)
(***************************************************************************)
EXTENDS LogStore, TLAPS

USE DEF Table, Day, Kind

(***************************************************************************)
(* Type correctness, one lemma for the variables of each module            *)
(***************************************************************************)

\* Both creation plans are lists of tables.
LEMMA PlanTypes ==
    ASSUME NEW now \in Nat, NEW next \in Nat
    PROVE  /\ StartupPlan(now, next) \in Seq(Table)
           /\ DailyPlan(next) \in Seq(Table)
<1>1. /\ KindOrder \in Seq(Kinds)
      /\ Len(KindOrder) \in Nat
  BY KindsAssumption
<1>2. ASSUME NEW i \in 1..(2 * Len(KindOrder))
      PROVE  (i + 1) \div 2 \in 1..Len(KindOrder)
  BY <1>1
<1>3. \A i \in 1..Len(KindOrder) : KindOrder[i] \in Kinds
  BY <1>1
<1>4. StartupPlan(now, next) \in [1..(2 * Len(KindOrder)) -> Table]
  BY <1>2, <1>3 DEF StartupPlan
<1>5. DailyPlan(next) \in [1..Len(KindOrder) -> Table]
  BY <1>3 DEF DailyPlan
<1>6. 2 * Len(KindOrder) \in Nat
  BY <1>1
<1>7. \A n \in Nat : \A f \in [1..n -> Table] : f \in Seq(Table)
  OBVIOUS
<1> QED
  BY <1>1, <1>4, <1>5, <1>6, <1>7 DEF DailyPlan

\* The log tables, the clock and the creation in progress keep their types.
LEMMA LogTypes ==
    ASSUME LogTypeOK, KeepTypeOK, BackupTypeOK, [Next]_vars
    PROVE  LogTypeOK'
<1> USE DEF LogTypeOK
<1>1. ASSUME Creation PROVE LogTypeOK'
  <2>1. CASE Boot
    BY <2>1 DEF Boot
  <2>2. CASE ReadNextDay
    <3>1. StartupPlan(bootDay, today + 1) \in Seq(Table)
      BY PlanTypes
    <3> QED
      BY <2>2, <3>1 DEF ReadNextDay
  <2>3. CASE CreateTable
    <3>1. Head(todo) \in Table /\ Tail(todo) \in Seq(Table)
      BY <2>3 DEF CreateTable
    <3> QED
      BY <2>3, <3>1 DEF CreateTable
  <2>4. CASE CreateFails
    BY <2>4 DEF CreateFails
  <2>5. CASE BootDone
    BY <2>5 DEF BootDone
  <2> QED
    BY <1>1, <2>1, <2>2, <2>3, <2>4, <2>5 DEF Creation
<1>2. ASSUME Clock PROVE LogTypeOK'
  <2>1. CASE OneOClock
    <3>1. DailyPlan(today + 1) \in Seq(Table)
      BY PlanTypes
    <3> QED
      BY <2>1, <3>1 DEF OneOClock
  <2>2. CASE TwoOClock
    BY <2>2 DEF TwoOClock
  <2>3. CASE Midnight
    BY <2>3 DEF Midnight
  <2> QED
    BY <1>2, <2>1, <2>2, <2>3 DEF Clock
<1>3. ASSUME KeepNext PROVE LogTypeOK'
  BY <1>3 DEF KeepNext, RetentionStep, RetentionFails, CapacityStart,
              CapacityStep, CapacityFails, Dropped, logVars
<1>4. ASSUME BackupNext PROVE LogTypeOK'
  BY <1>4 DEF BackupNext, BackupStart, BackupSelect, BackupDump, BackupList,
              BackupDrop, BackupDropFails, BackupZip, InsertNamed, InsertDone,
              Dropped, logVars
<1>5. ASSUME Stop PROVE LogTypeOK'
  BY <1>5 DEF Stop, LogStop
<1>6. CASE UNCHANGED vars
  BY <1>6 DEF vars, logVars
<1> QED
  BY <1>1, <1>2, <1>3, <1>4, <1>5, <1>6 DEF Next

\* Retention and the disk check keep their types.
LEMMA KeepTypes ==
    ASSUME LogTypeOK, KeepTypeOK, BackupTypeOK, [Next]_vars
    PROVE  KeepTypeOK'
<1> USE DEF KeepTypeOK, RetentionIdle
<1>1. /\ Len(RetentionOrder) \in Nat \ {0}
      /\ Periods \subseteq Nat
      /\ today \in Nat
  BY RetentionAssumption DEF LogTypeOK
<1>2. CASE Creation
  BY <1>2 DEF Creation, keepVars
<1>3. CASE Clock
  <2>1. CASE UNCHANGED keepVars
    BY <2>1 DEF keepVars
  <2>2. CASE RetentionTrigger /\ UNCHANGED cap
    <3>1. CASE UNCHANGED ret
      BY <2>2, <3>1
    <3>2. ASSUME NEW raw \in Periods, NEW audit \in Periods,
                 ret' = [pos |-> 1, rawDay |-> today - raw,
                         auditDay |-> today - audit]
          PROVE  KeepTypeOK'
      <4>1. raw \in Nat /\ audit \in Nat
        BY <1>1
      <4> QED
        BY <1>1, <2>2, <3>2, <4>1
    <3> QED
      BY <2>2, <3>1, <3>2 DEF RetentionTrigger
  <2> QED
    BY <1>3, <2>1, <2>2 DEF Clock, keepVars
<1>4. CASE KeepNext
  <2>1. CASE RetentionStep
    BY <1>1, <2>1 DEF RetentionStep
  <2>2. CASE RetentionFails
    BY <1>1, <2>2 DEF RetentionFails
  <2>3. CASE CapacityStart
    BY <2>3 DEF CapacityStart, LogTypeOK
  <2>4. CASE CapacityStep
    BY <2>4 DEF CapacityStep
  <2>5. CASE CapacityFails
    BY <2>5 DEF CapacityFails
  <2> QED
    BY <1>4, <2>1, <2>2, <2>3, <2>4, <2>5 DEF KeepNext
<1>5. CASE BackupNext /\ UNCHANGED keepVars
  BY <1>5 DEF keepVars
<1>6. CASE Stop
  BY <1>1, <1>6 DEF Stop
<1>7. CASE UNCHANGED vars
  BY <1>7 DEF vars, keepVars
<1> QED
  BY <1>2, <1>3, <1>4, <1>5, <1>6, <1>7 DEF Next

\* What a backup's step does to its own record stays a record of progress.
LEMMA NextPatternType ==
    ASSUME NEW r \in Progress
    PROVE  NextPattern(r) \in Progress
<1>1. Len(BackupOrder) \in Nat
  BY BackupAssumption
<1>2. CASE r.pos = Len(BackupOrder)
  <2>1. [r EXCEPT !.pc = "zip"] \in Progress
    BY DEF Progress
  <2> QED
    BY <1>2, <2>1 DEF NextPattern
<1>3. CASE r.pos # Len(BackupOrder)
  <2>1. r.pos + 1 \in 0..Len(BackupOrder)
    BY <1>1, <1>3 DEF Progress
  <2>2. [r EXCEPT !.pc = "select", !.pos = @ + 1] \in Progress
    BY <2>1 DEF Progress
  <2> QED
    BY <1>3, <2>2 DEF NextPattern
<1> QED
  BY <1>2, <1>3

\* The backups and the writers keep their types.
LEMMA BackupTypes ==
    ASSUME LogTypeOK, KeepTypeOK, BackupTypeOK, [Next]_vars
    PROVE  BackupTypeOK'
<1> USE DEF BackupTypeOK
<1>1. /\ Len(BackupOrder) \in Nat \ {0}
      /\ today \in Nat
      /\ tables \subseteq Table
      /\ BackupIdle \in Progress
  BY BackupAssumption DEF LogTypeOK, BackupIdle, Progress
<1>2. ASSUME NEW b \in Backups
      PROVE  bk[b] \in Progress /\ InRange(b) \in SUBSET Table
  BY <1>1 DEF InRange
<1>3. ASSUME NEW b \in Backups, Abandon(b), UNCHANGED inserts,
             deleted' \subseteq deleted \cup tables
      PROVE  BackupTypeOK'
  BY <1>1, <1>3 DEF Abandon
<1>4. CASE Creation \/ Clock \/ (KeepNext /\ UNCHANGED backupVars) \/ UNCHANGED vars
  BY <1>4 DEF Creation, Clock, vars, backupVars
<1>5. CASE Stop
  BY <1>1, <1>5 DEF Stop, BackupStop
<1>6. ASSUME NEW b \in Backups, BackupStart(b)
      PROVE  BackupTypeOK'
  <2>1. PICK span \in Spans, delete \in BOOLEAN, ticked \in SUBSET Groups,
             to \in {today - 1, today} :
          bk' = [bk EXCEPT ![b] =
                   [pc |-> "select", pos |-> 1, from |-> today - span, to |-> to,
                    delete |-> delete, ticked |-> ticked,
                    names |-> {}, drops |-> {}]]
    BY <1>6 DEF BackupStart
  <2>2. today - span \in Int /\ to \in Int /\ 1 \in 0..Len(BackupOrder)
    BY <1>1, BackupAssumption
  <2>3. [pc |-> "select", pos |-> 1, from |-> today - span, to |-> to,
         delete |-> delete, ticked |-> ticked,
         names |-> {}, drops |-> {}] \in Progress
    BY <2>2 DEF Progress
  <2> QED
    BY <1>6, <2>1, <2>3 DEF BackupStart
<1>7. ASSUME NEW b \in Backups, BackupSelect(b)
      PROVE  BackupTypeOK'
  <2>1. \A pc \in {"dump", "list", "drop"} :
           [bk[b] EXCEPT !.pc = pc, !.names = InRange(b)] \in Progress
    BY <1>2, <1>7 DEF Progress
  <2>2. NextPattern(bk[b]) \in Progress
    BY <1>2, <1>7, NextPatternType
  <2> QED
    BY <1>7, <2>1, <2>2 DEF BackupSelect
<1>8. ASSUME NEW b \in Backups, BackupDump(b)
      PROVE  BackupTypeOK'
  <2>1. PICK t \in bk[b].names :
          /\ full' \in {full, [full EXCEPT ![b] = @ \cup ({t} \cap tables)]}
          /\ bk' = [bk EXCEPT ![b] = AfterDump(@, t)]
    BY <1>8 DEF BackupDump
  <2>2. AfterDump(bk[b], t) \in Progress
    BY <1>2 DEF AfterDump, Progress
  <2>3. bk' \in [Backups -> Progress]
    BY <2>1, <2>2
  <2>4. full' \in [Backups -> SUBSET Table]
    BY <1>1, <2>1
  <2> QED
    BY <1>8, <2>3, <2>4 DEF BackupDump
<1>9. ASSUME NEW b \in Backups, BackupList(b)
      PROVE  BackupTypeOK'
  <2> DEFINE more == IF bk[b].delete THEN {t \in InRange(b) : Day(t) < today} ELSE {}
             listed == [bk[b] EXCEPT !.drops = @ \cup more]
  <2>1. listed \in Progress
    BY <1>2, <1>9 DEF Progress
  <2>2. [listed EXCEPT !.pc = "drop"] \in Progress
    BY <2>1 DEF Progress
  <2>3. NextPattern(listed) \in Progress
    BY <2>1, NextPatternType
  <2>4. bk' = [bk EXCEPT ![b] = IF EndsGroup(b)
                                THEN [listed EXCEPT !.pc = "drop"]
                                ELSE NextPattern(listed)]
    BY <1>9 DEF BackupList
  <2> HIDE DEF listed
  <2> QED
    BY <1>9, <2>2, <2>3, <2>4 DEF BackupList
<1>10. ASSUME NEW b \in Backups, BackupDrop(b)
       PROVE  BackupTypeOK'
  <2>1. deleted' \subseteq deleted \cup tables
    BY <1>10 DEF BackupDrop
  <2>2. NextPattern([bk[b] EXCEPT !.drops = {}]) \in Progress
    <3>1. [bk[b] EXCEPT !.drops = {}] \in Progress
      BY <1>2 DEF Progress
    <3> QED
      BY <3>1, NextPatternType
  <2> QED
    BY <1>1, <1>3, <1>10, <2>1, <2>2 DEF BackupDrop
<1>11. ASSUME NEW b \in Backups, BackupDropFails(b)
       PROVE  BackupTypeOK'
  <2>1. deleted' \subseteq deleted \cup tables
    BY <1>11 DEF BackupDropFails
  <2> QED
    BY <1>3, <1>11, <2>1 DEF BackupDropFails
<1>12. ASSUME NEW b \in Backups, BackupZip(b)
       PROVE  BackupTypeOK'
  BY <1>1, <1>12 DEF BackupZip
<1>13. ASSUME NEW k \in Kinds, InsertNamed(k)
       PROVE  BackupTypeOK'
  BY <1>1, <1>13 DEF InsertNamed
<1>14. ASSUME NEW t \in inserts, InsertDone(t)
       PROVE  BackupTypeOK'
  BY <1>14 DEF InsertDone
<1>15. ASSUME BackupNext PROVE BackupTypeOK'
  BY <1>6, <1>7, <1>8, <1>9, <1>10, <1>11, <1>12, <1>13, <1>14, <1>15
     DEF BackupNext
<1> QED
  BY <1>4, <1>5, <1>15 DEF Next

\* Every variable keeps its type, whatever the constants are.
THEOREM TypeCorrect == Spec => []TypeOK
<1>1. Init => TypeOK
  <2>1. ASSUME Init PROVE LogTypeOK
    <3>1. FirstDay \in Nat
      BY BoundsAssumption
    <3>2. PICK days \in SUBSET (0..(FirstDay - 1)) : tables = Kinds \X days
      BY <2>1 DEF Init, LogInit
    <3>3. tables \subseteq Table
      <4>1. \A d \in days : d \in Nat
        BY <3>1, <3>2
      <4>2. Kinds \X days \subseteq Kinds \X Nat
        BY <4>1
      <4> QED
        BY <3>2, <4>2
    <3> QED
      BY <2>1, <3>1, <3>3 DEF Init, LogInit, LogTypeOK
  <2>2. ASSUME Init PROVE KeepTypeOK
    BY <2>2, RetentionAssumption DEF Init, KeepInit, KeepTypeOK, RetentionIdle
  <2>3. ASSUME Init PROVE BackupTypeOK
    BY <2>3, BackupAssumption
       DEF Init, BackupInit, BackupTypeOK, BackupIdle, Progress
  <2> QED
    BY <2>1, <2>2, <2>3 DEF TypeOK
<1>2. TypeOK /\ [Next]_vars => TypeOK'
  BY LogTypes, KeepTypes, BackupTypes DEF TypeOK
<1> QED
  BY <1>1, <1>2, PTL DEF Spec
(***************************************************************************)
(* Only tables of past days are dropped                                    *)
(***************************************************************************)

\* What the jobs have read and will act on later is about past days: the two
\* dates of retention, the dates of the disk check, the names a backup has
\* gathered.  CurrentTablesKept is not inductive without it, because a job
\* reads these in one step and drops tables in another.
DropsArePast ==
    /\ ret.pos > 0 => ret.rawDay < today /\ ret.auditDay < today
    /\ \A d \in cap : d < today
    /\ \A b \in Backups : \A t \in bk[b].drops : Day(t) < today

\* The dates deleteDaysTable works with are at least one day back.
LEMMA RetentionPast ==
    ASSUME TypeOK, DropsArePast, RetentionTrigger
    PROVE  ret'.pos > 0 => ret'.rawDay < today /\ ret'.auditDay < today
<1>1. /\ \A p \in Periods : p \in Nat /\ p > 0
      /\ today \in Nat
  BY RetentionAssumption DEF TypeOK, LogTypeOK
<1> QED
  BY <1>1 DEF RetentionTrigger, DropsArePast

\* NextPattern leaves the gathered names alone.
LEMMA NextPatternDrops ==
    ASSUME NEW r \in Progress
    PROVE  NextPattern(r).drops = r.drops
BY DEF NextPattern, Progress

\* A backup's step changes only its own names to drop, and only by names of
\* past days.
LEMMA BackupDropsPast ==
    ASSUME TypeOK, DropsArePast, BackupNext
    PROVE  \A b \in Backups : \A t \in bk'[b].drops : Day(t) < today
<1>1. /\ bk \in [Backups -> Progress]
      /\ BackupIdle.drops = {}
      /\ \A b \in Backups : \A t \in bk[b].drops : Day(t) < today
  BY DEF TypeOK, BackupTypeOK, DropsArePast, BackupIdle
<1>2. SUFFICES ASSUME NEW b \in Backups, NEW r,
                      bk' = [bk EXCEPT ![b] = r],
                      \A t \in r.drops : Day(t) < today
               PROVE  \A c \in Backups : \A t \in bk'[c].drops : Day(t) < today
  <2>1. CASE UNCHANGED bk
    BY <1>1, <2>1
  <2>2. ASSUME NEW b \in Backups,
               \/ BackupStart(b) \/ BackupSelect(b) \/ BackupDump(b)
               \/ BackupList(b) \/ BackupDrop(b) \/ BackupDropFails(b)
               \/ BackupZip(b)
        PROVE  \E r : /\ bk' = [bk EXCEPT ![b] = r]
                      /\ \A t \in r.drops : Day(t) < today
    <3>1. CASE BackupStart(b)
      <4>1. PICK span \in Spans, delete \in BOOLEAN, ticked \in SUBSET Groups,
                 to \in {today - 1, today} :
              bk' = [bk EXCEPT ![b] =
                      [pc |-> "select", pos |-> 1, from |-> today - span,
                       to |-> to, delete |-> delete, ticked |-> ticked,
                       names |-> {}, drops |-> {}]]
        BY <3>1 DEF BackupStart
      <4> DEFINE r == [pc |-> "select", pos |-> 1, from |-> today - span,
                       to |-> to, delete |-> delete, ticked |-> ticked,
                       names |-> {}, drops |-> {}]
      <4>2. bk' = [bk EXCEPT ![b] = r] /\ r.drops = {}
        BY <4>1
      <4> HIDE DEF r
      <4> QED
        BY <4>2
    <3>2. CASE BackupSelect(b)
      <4>1. NextPattern(bk[b]).drops = bk[b].drops
        BY <1>1, NextPatternDrops
      <4>2. \A pc \in {"dump", "list", "drop"} :
              [bk[b] EXCEPT !.pc = pc, !.names = InRange(b)].drops = bk[b].drops
        BY <1>1 DEF Progress
      <4> QED
        BY <1>1, <3>2, <4>1, <4>2 DEF BackupSelect
    <3>3. CASE BackupDump(b)
      <4>1. PICK t \in bk[b].names : bk' = [bk EXCEPT ![b] = AfterDump(bk[b], t)]
        BY <3>3 DEF BackupDump
      <4>2. AfterDump(bk[b], t).drops = bk[b].drops
        BY <1>1 DEF AfterDump, Progress
      <4> QED
        BY <1>1, <4>1, <4>2
    <3>4. CASE BackupList(b)
      <4> DEFINE more == IF bk[b].delete THEN {t \in InRange(b) : Day(t) < today} ELSE {}
                 listed == [bk[b] EXCEPT !.drops = @ \cup more]
      <4>1. /\ listed \in Progress
            /\ \A t \in listed.drops : Day(t) < today
        <5>1. InRange(b) \subseteq Table
          BY DEF InRange, TypeOK, LogTypeOK
        <5> QED
          BY <1>1, <5>1 DEF Progress
      <4>2. [listed EXCEPT !.pc = "drop"].drops = listed.drops
        BY <4>1 DEF Progress
      <4>3. NextPattern(listed).drops = listed.drops
        BY <4>1, NextPatternDrops
      <4>4. bk' = [bk EXCEPT ![b] = IF EndsGroup(b)
                                    THEN [listed EXCEPT !.pc = "drop"]
                                    ELSE NextPattern(listed)]
        BY <3>4 DEF BackupList
      <4> HIDE DEF listed
      <4> QED
        BY <4>1, <4>2, <4>3, <4>4
    <3>5. CASE BackupDrop(b)
      <4>1. NextPattern([bk[b] EXCEPT !.drops = {}]).drops = {}
        <5>1. [bk[b] EXCEPT !.drops = {}] \in Progress
          BY <1>1 DEF Progress
        <5> QED
          BY <1>1, <5>1, NextPatternDrops DEF Progress
      <4> QED
        BY <1>1, <3>5, <4>1 DEF BackupDrop, Abandon
    <3>6. CASE BackupDropFails(b) \/ BackupZip(b)
      BY <1>1, <3>6 DEF BackupDropFails, BackupZip, Abandon
    <3> QED
      BY <2>2, <3>1, <3>2, <3>3, <3>4, <3>5, <3>6
  <2> QED
    BY <2>1, <2>2 DEF BackupNext, InsertNamed, InsertDone
<1> QED
  BY <1>1, <1>2
\* DropsArePast is kept by every step.
LEMMA DropsStayPast ==
    ASSUME TypeOK, DropsArePast, [Next]_vars
    PROVE  DropsArePast'
<1> USE DEF DropsArePast
<1>1. /\ today \in Nat /\ cap \subseteq Nat
      /\ ret.rawDay \in Int /\ ret.auditDay \in Int
      /\ \A b \in Backups : bk[b].drops \subseteq Table
  BY DEF TypeOK, LogTypeOK, KeepTypeOK, BackupTypeOK, Progress
<1>2. CASE Creation
  BY <1>2 DEF Creation, Boot, ReadNextDay, CreateTable, CreateFails, BootDone,
              keepVars, backupVars
<1>3. CASE Clock
  <2>1. CASE OneOClock /\ UNCHANGED <<keepVars, backupVars>>
    BY <2>1 DEF OneOClock, keepVars, backupVars
  <2>2. CASE TwoOClock /\ RetentionTrigger /\ UNCHANGED <<cap, backupVars>>
    BY <2>2, RetentionPast DEF TwoOClock, backupVars
  <2>3. CASE Midnight /\ UNCHANGED <<keepVars, backupVars>>
    BY <1>1, <2>3 DEF Midnight, keepVars, backupVars
  <2> QED
    BY <1>3, <2>1, <2>2, <2>3 DEF Clock
<1>4. CASE KeepNext /\ UNCHANGED backupVars
  <2>1. CASE RetentionStep
    <3>1. ret' = RetentionIdle \/ ret' = [ret EXCEPT !.pos = @ + 1]
      BY <2>1 DEF RetentionStep
    <3>2. ret \in [pos : 0..Len(RetentionOrder), rawDay : Int, auditDay : Int]
      BY DEF TypeOK, KeepTypeOK
    <3> QED
      BY <1>4, <2>1, <3>1, <3>2 DEF RetentionStep, RetentionIdle, backupVars
  <2>2. CASE RetentionFails
    BY <1>4, <2>2 DEF RetentionFails, RetentionIdle, backupVars
  <2>3. CASE CapacityStart
    BY <1>4, <2>3 DEF CapacityStart, logVars, backupVars
  <2>4. CASE CapacityStep
    BY <1>4, <2>4 DEF CapacityStep, backupVars
  <2>5. CASE CapacityFails
    BY <1>4, <2>5 DEF CapacityFails, backupVars
  <2> QED
    BY <1>4, <2>1, <2>2, <2>3, <2>4, <2>5 DEF KeepNext
<1>5. CASE BackupNext /\ UNCHANGED keepVars
  <2>1. UNCHANGED today
    BY <1>5 DEF BackupNext, BackupStart, BackupSelect, BackupDump, BackupList,
                BackupDrop, BackupDropFails, BackupZip, InsertNamed, InsertDone,
                logVars
  <2> QED
    BY <1>5, <2>1, BackupDropsPast DEF keepVars
<1>6. CASE Stop
  BY <1>6 DEF Stop, LogStop, BackupStop, RetentionIdle, BackupIdle
<1>7. CASE UNCHANGED vars
  BY <1>7 DEF vars, logVars, keepVars, backupVars
<1> QED
  BY <1>2, <1>3, <1>4, <1>5, <1>6, <1>7 DEF Next

\* A step drops tables of past days only.
LEMMA OnlyPastDropped ==
    ASSUME TypeOK, DropsArePast, [Next]_vars
    PROVE  \A t \in tables \ tables' : Day(t) < today
<1> USE DEF Dropped
<1>1. /\ tables \subseteq Table
      /\ today \in Nat
      /\ \A b \in Backups : \A t \in bk[b].drops : Day(t) < today
  BY DEF TypeOK, LogTypeOK, DropsArePast
<1>2. CASE Creation \/ Clock \/ Stop \/ UNCHANGED vars
  BY <1>2 DEF Creation, Boot, ReadNextDay, CreateTable, CreateFails, BootDone,
              Clock, OneOClock, TwoOClock, Midnight, Stop, LogStop, vars, logVars
<1>3. CASE KeepNext
  <2>1. CASE RetentionStep \/ RetentionFails
    <3>1. tables \ tables' \subseteq Expired
      BY <2>1 DEF RetentionStep, RetentionFails
    <3>2. TableDate < today
      BY <2>1 DEF RetentionStep, RetentionFails, TableDate, DropsArePast
    <3>3. TableDate \in Int
      BY DEF TableDate, TypeOK, KeepTypeOK
    <3> QED
      BY <1>1, <3>1, <3>2, <3>3 DEF Expired
  <2>2. CASE CapacityStart
    BY <2>2 DEF CapacityStart, logVars
  <2>3. CASE CapacityStep \/ CapacityFails
    <3>1. PICK d \in AtDate : tables \ tables' \subseteq OfDay(d)
      BY <2>3 DEF CapacityStep, CapacityFails
    <3> QED
      BY <3>1 DEF AtDate, OfDay, DropsArePast
  <2> QED
    BY <1>3, <2>1, <2>2, <2>3 DEF KeepNext
<1>4. CASE BackupNext
  BY <1>1, <1>4 DEF BackupNext, BackupStart, BackupSelect, BackupDump,
     BackupList, BackupDrop, BackupDropFails, BackupZip, InsertNamed,
     InsertDone, logVars
<1> QED
  BY <1>2, <1>3, <1>4 DEF Next

\* DropsArePast holds throughout.
THEOREM DropsPast == Spec => []DropsArePast
<1>1. Init => DropsArePast
  BY DEF Init, KeepInit, RetentionIdle, BackupInit, BackupIdle, DropsArePast
<1>2. TypeOK /\ DropsArePast /\ [Next]_vars => DropsArePast'
  BY DropsStayPast
<1> QED
  BY <1>1, <1>2, TypeCorrect, PTL DEF Spec

\* Whatever fails and however the jobs interleave, no job ever drops a table
\* of today or of tomorrow.
THEOREM OnlyPastTablesDropped == Spec => CurrentTablesKept
<1>1. TypeOK /\ DropsArePast /\ [Next]_vars
        => [\A t \in tables \ tables' : Day(t) < today]_vars
  BY OnlyPastDropped
<1> QED
  BY <1>1, TypeCorrect, DropsPast, PTL DEF Spec, CurrentTablesKept
(***************************************************************************)
(* The store implements LogCalendar                                        *)
(***************************************************************************)

\* The days of the tables a creation has still to make.  A start reads two
\* dates, a midnight may come before, between or after them, and no further
\* one: at 01:00 the start is over.
CreationIsTimely ==
    /\ status \in {"down", "booting"} => todo = <<>>
    /\ status = "up" => \A i \in 1..Len(todo) : Day(todo[i]) = today + 1
    /\ status \in {"booting", "creating"} =>
          bootDay = today \/ (bootDay = today - 1 /\ hour = 0)
    /\ status = "creating" =>
          \A i \in 1..Len(todo) : Day(todo[i]) \in bootDay..(today + 1)

\* The days in the two creation plans.
LEMMA PlanDays ==
    ASSUME NEW now \in Nat, NEW next \in Nat
    PROVE  /\ \A i \in 1..Len(StartupPlan(now, next)) :
                 Day(StartupPlan(now, next)[i]) \in {now, next}
           /\ \A i \in 1..Len(DailyPlan(next)) : Day(DailyPlan(next)[i]) = next
<1>1. Len(KindOrder) \in Nat
  BY KindsAssumption
<1>2. Len(StartupPlan(now, next)) = 2 * Len(KindOrder)
  BY <1>1 DEF StartupPlan
<1>3. Len(DailyPlan(next)) = Len(KindOrder)
  BY <1>1 DEF DailyPlan
<1> QED
  BY <1>1, <1>2, <1>3 DEF StartupPlan, DailyPlan

\* What is left of a list after its first element was in the list before.
LEMMA TailItems ==
    ASSUME NEW list \in Seq(Table), list # <<>>
    PROVE  /\ Head(list) = list[1] /\ 1 \in 1..Len(list)
           /\ \A i \in 1..Len(Tail(list)) :
                 i + 1 \in 1..Len(list) /\ Tail(list)[i] = list[i + 1]
OBVIOUS

LEMMA CreationStaysTimely ==
    ASSUME TypeOK, CreationIsTimely, [Next]_vars
    PROVE  CreationIsTimely'
<1> USE DEF CreationIsTimely
<1>1. /\ today \in Nat /\ bootDay \in Nat /\ hour \in 0..2
      /\ todo \in Seq(Table)
      /\ status \in {"down", "booting", "creating", "up"}
  BY DEF TypeOK, LogTypeOK
<1>2. CASE Creation
  <2>1. CASE Boot
    BY <1>1, <2>1 DEF Boot
  <2>2. CASE ReadNextDay
    <3>1. \A i \in 1..Len(todo') : Day(todo'[i]) \in {bootDay, today + 1}
      BY <1>1, <2>2, PlanDays DEF ReadNextDay
    <3>2. bootDay \in (today - 1)..today
      BY <1>1, <2>2 DEF ReadNextDay
    <3> QED
      BY <1>1, <2>2, <3>1, <3>2 DEF ReadNextDay
  <2>3. CASE CreateTable
    BY <1>1, <2>3, TailItems DEF CreateTable
  <2>4. CASE CreateFails
    BY <1>1, <2>4 DEF CreateFails
  <2>5. CASE BootDone
    BY <1>1, <2>5 DEF BootDone
  <2> QED
    BY <1>2, <2>1, <2>2, <2>3, <2>4, <2>5 DEF Creation
<1>3. CASE Clock
  <2>1. CASE OneOClock
    <3>1. CASE status = "up"
      BY <1>1, <2>1, <3>1, PlanDays DEF OneOClock
    <3>2. CASE status # "up"
      BY <1>1, <2>1, <3>2 DEF OneOClock
    <3> QED
      BY <3>1, <3>2
  <2>2. CASE TwoOClock
    BY <1>1, <2>2 DEF TwoOClock
  <2>3. CASE Midnight
    BY <1>1, <2>3 DEF Midnight
  <2> QED
    BY <1>3, <2>1, <2>2, <2>3 DEF Clock
<1>4. ASSUME UNCHANGED <<today, hour, status, bootDay, todo>>
      PROVE  CreationIsTimely'
  BY <1>4
<1>5. CASE KeepNext
  BY <1>4, <1>5 DEF KeepNext, RetentionStep, RetentionFails, CapacityStart,
                    CapacityStep, CapacityFails, logVars
<1>6. CASE BackupNext
  BY <1>4, <1>6 DEF BackupNext, BackupStart, BackupSelect, BackupDump,
     BackupList, BackupDrop, BackupDropFails, BackupZip, InsertNamed,
     InsertDone, logVars
<1>7. CASE Stop
  BY <1>1, <1>7 DEF Stop, LogStop
<1>8. CASE UNCHANGED vars
  BY <1>4, <1>8 DEF vars, logVars
<1> QED
  BY <1>2, <1>3, <1>5, <1>6, <1>7, <1>8 DEF Next

THEOREM CreationTimely == Spec => []CreationIsTimely
<1>1. Init => CreationIsTimely
  BY DEF Init, LogInit, CreationIsTimely
<1>2. TypeOK /\ CreationIsTimely /\ [Next]_vars => CreationIsTimely'
  BY CreationStaysTimely
<1> QED
  BY <1>1, <1>2, TypeCorrect, PTL DEF Spec

\* Every step of the store is a step of the calendar, or none at all.
LEMMA StepOfCalendar ==
    ASSUME TypeOK, DropsArePast, CreationIsTimely, [Next]_vars
    PROVE  [Calendar!Next]_<<today, tables>>
<1>1. /\ today \in Nat /\ bootDay \in Nat /\ todo \in Seq(Table)
      /\ status \in {"down", "booting", "creating", "up"}
  BY DEF TypeOK, LogTypeOK
<1>2. CASE CreateTable
  <2>1. Day(todo[1]) \in (today - 1)..(today + 1)
    BY <1>1, <1>2, TailItems DEF CreateTable, CreationIsTimely
  <2>2. Head(todo) \in Kinds \X ((today - 1)..(today + 1))
    BY <1>1, <1>2, <2>1, TailItems DEF CreateTable
  <2> QED
    BY <1>2, <2>2 DEF CreateTable, Calendar!Next, Calendar!Appear,
                      Calendar!AroundToday
<1>3. CASE Midnight
  BY <1>3 DEF Midnight, Calendar!Next, Calendar!NextDay
<1>4. ASSUME tables' \subseteq tables, UNCHANGED today
      PROVE  Calendar!Next
  BY <1>4, OnlyPastDropped DEF Calendar!Next, Calendar!Disappear, Calendar!Past
<1>5. CASE Creation
  BY <1>2, <1>5 DEF Creation, Boot, ReadNextDay, CreateFails, BootDone
<1>6. CASE Clock
  BY <1>3, <1>6 DEF Clock, OneOClock, TwoOClock
<1>7. CASE KeepNext
  BY <1>4, <1>7 DEF KeepNext, RetentionStep, RetentionFails, CapacityStart,
                    CapacityStep, CapacityFails, Dropped, logVars
<1>8. CASE BackupNext
  BY <1>4, <1>8 DEF BackupNext, BackupStart, BackupSelect, BackupDump,
     BackupList, BackupDrop, BackupDropFails, BackupZip, InsertNamed,
     InsertDone, Dropped, logVars
<1>9. CASE Stop \/ UNCHANGED vars
  BY <1>9 DEF Stop, LogStop, vars, logVars
<1> QED
  BY <1>5, <1>6, <1>7, <1>8, <1>9 DEF Next

\* The store implements the calendar: tables appear around today only, and
\* disappear only when their day is over, whatever fails.
THEOREM ImplementsCalendar == Spec => CalendarSpec
<1>1. Init => Calendar!Init
  <2> SUFFICES ASSUME Init PROVE Calendar!Init
    OBVIOUS
  <2>1. PICK days \in SUBSET (0..(FirstDay - 1)) : tables = Kinds \X days
    BY DEF Init, LogInit
  <2> QED
    BY <2>1 DEF Init, LogInit, Calendar!Init
<1>2. TypeOK /\ DropsArePast /\ CreationIsTimely /\ [Next]_vars
        => [Calendar!Next]_<<today, tables>>
  BY StepOfCalendar
<1> QED
  BY <1>1, <1>2, TypeCorrect, DropsPast, CreationTimely, PTL
     DEF Spec, CalendarSpec, Calendar!Spec

(***************************************************************************)
(* The tables of today and tomorrow are there in time                      *)
(***************************************************************************)

\* A table is there, or is one of those the creation under way has left.
Due(t) == t \in tables \/ \E i \in 1..Len(todo) : todo[i] = t

\* What a start has seen to, and what the day's job has: a midnight may come
\* while a start creates its tables, and then those of its second date are
\* today's.
CreationIsReady ==
    /\ status = "booting" => bootDay = today
    /\ status = "creating" =>
          \/ bootDay = today
             /\ \A k \in Kinds : Due(<<k, today>>) /\ Due(<<k, today + 1>>)
          \/ bootDay = today - 1 /\ hour = 0 /\ \A k \in Kinds : Due(<<k, today>>)
    /\ status = "up" => \A k \in Kinds :
          /\ <<k, today>> \in tables
          /\ hour > 0 => Due(<<k, today + 1>>)

\* Every kind is in both creation plans, for each of their dates.
LEMMA StartupCovers ==
    ASSUME NEW now \in Nat, NEW next \in Nat, NEW k \in Kinds, NEW d \in {now, next}
    PROVE  \E i \in 1..Len(StartupPlan(now, next)) : StartupPlan(now, next)[i] = <<k, d>>
<1>1. Len(KindOrder) \in Nat
  BY KindsAssumption
<1>2. PICK i \in 1..Len(KindOrder) : KindOrder[i] = k
  BY KindsAssumption
<1>3. Len(StartupPlan(now, next)) = 2 * Len(KindOrder)
  BY <1>1 DEF StartupPlan
<1>4. /\ 2 * i - 1 \in 1..(2 * Len(KindOrder)) /\ 2 * i \in 1..(2 * Len(KindOrder))
      /\ (2 * i - 1 + 1) \div 2 = i /\ (2 * i - 1) % 2 = 1
      /\ (2 * i + 1) \div 2 = i /\ (2 * i) % 2 = 0
  BY <1>1
<1>5. StartupPlan(now, next)[2 * i - 1] = <<k, now>>
  BY <1>2, <1>4 DEF StartupPlan
<1>6. StartupPlan(now, next)[2 * i] = <<k, next>>
  BY <1>2, <1>4 DEF StartupPlan
<1> QED
  BY <1>3, <1>4, <1>5, <1>6

LEMMA DailyCovers ==
    ASSUME NEW next \in Nat, NEW k \in Kinds
    PROVE  \E i \in 1..Len(DailyPlan(next)) : DailyPlan(next)[i] = <<k, next>>
<1>1. Len(KindOrder) \in Nat
  BY KindsAssumption
<1>2. PICK i \in 1..Len(KindOrder) : KindOrder[i] = k
  BY KindsAssumption
<1> QED
  BY <1>1, <1>2 DEF DailyPlan

\* A table that is due stays so, as long as its day is not over.
LEMMA DueStays ==
    ASSUME TypeOK, DropsArePast, [Next]_vars, NEW t \in Table, Day(t) >= today, Due(t),
           todo' = todo \/ CreateTable
    PROVE  Due(t)' /\ (t \in tables => t \in tables')
<1>0. todo \in Seq(Table) /\ today \in Nat
  BY DEF TypeOK, LogTypeOK
<1>1. t \in tables => t \in tables'
  <2> SUFFICES ASSUME t \in tables, t \notin tables' PROVE FALSE
    OBVIOUS
  <2>1. Day(t) < today
    BY OnlyPastDropped
  <2> QED
    BY <1>0, <2>1
<1>2. ASSUME t \in tables PROVE Due(t)'
  BY <1>1, <1>2 DEF Due
<1>3. ASSUME t \notin tables PROVE Due(t)'
  <2>1. PICK i \in 1..Len(todo) : todo[i] = t
    BY <1>3 DEF Due
  <2>2. CASE todo' = todo
    BY <2>1, <2>2 DEF Due
  <2>3. CASE CreateTable /\ i = 1
    BY <1>0, <2>1, <2>3, TailItems DEF CreateTable, Due
  <2>4. CASE CreateTable /\ i # 1
    <3>1. i - 1 \in 1..Len(Tail(todo)) /\ Tail(todo)[i - 1] = todo[i]
      BY <1>0, <2>1, <2>4 DEF CreateTable
    <3> QED
      BY <2>1, <2>4, <3>1 DEF CreateTable, Due
  <2> QED
    BY <2>2, <2>3, <2>4
<1> QED
  BY <1>1, <1>2, <1>3

\* Neither a CREATE that fails nor a midnight between a start's two dates.
InTime == Faults \cap {"create", "straddle"} = {}

LEMMA CreationStaysReady ==
    ASSUME InTime, TypeOK, DropsArePast, CreationIsReady, [Next]_vars
    PROVE  CreationIsReady'
<1>1. /\ today \in Nat /\ bootDay \in Nat /\ hour \in 0..2
      /\ todo \in Seq(Table)
      /\ status \in {"down", "booting", "creating", "up"}
      /\ \A k \in Kinds : <<k, today>> \in Table /\ <<k, today + 1>> \in Table
  BY DEF TypeOK, LogTypeOK
<1>2. ASSUME UNCHANGED <<today, hour, status, bootDay>>, todo' = todo \/ CreateTable
      PROVE  CreationIsReady'
  <2>1. ASSUME NEW k \in Kinds, NEW d \in {today, today + 1}
        PROVE  /\ Due(<<k, d>>) => Due(<<k, d>>)'
               /\ <<k, d>> \in tables => <<k, d>> \in tables'
    <3>1. <<k, d>> \in Table /\ Day(<<k, d>>) >= today
      BY <1>1
    <3>2. <<k, d>> \in tables => Due(<<k, d>>)
      BY DEF Due
    <3> QED
      BY <1>2, <3>1, <3>2, DueStays
  <2> QED
    BY <1>2, <2>1 DEF CreationIsReady, Due
<1>3. CASE Creation
  <2>1. CASE Boot
    BY <2>1 DEF Boot, CreationIsReady
  <2>2. CASE ReadNextDay
    <3>1. bootDay = today /\ status' = "creating" /\ UNCHANGED <<today, tables, bootDay>>
          /\ todo' = StartupPlan(today, today + 1)
      BY <2>2 DEF ReadNextDay, CreationIsReady
    <3>2. ASSUME NEW k \in Kinds, NEW d \in {today, today + 1} PROVE Due(<<k, d>>)'
      <4>1. PICK i \in 1..Len(StartupPlan(today, today + 1)) :
              StartupPlan(today, today + 1)[i] = <<k, d>>
        <5>1. today \in Nat /\ today + 1 \in Nat
          BY <1>1
        <5>2. \A now \in Nat, next \in Nat : \A e \in {now, next} :
                \E i \in 1..Len(StartupPlan(now, next)) : StartupPlan(now, next)[i] = <<k, e>>
          BY StartupCovers
        <5> QED
          BY <5>1, <5>2, Zenon
      <4> QED
        BY <3>1, <4>1 DEF Due
    <3> QED
      BY <3>1, <3>2 DEF CreationIsReady, Due
  <2>3. CASE CreateTable
    BY <1>2, <2>3 DEF CreateTable
  <2>4. CASE CreateFails
    BY <2>4 DEF CreateFails, InTime
  <2>5. CASE BootDone
    <3>1. \A t \in Table : Due(t) => t \in tables
      BY <2>5 DEF BootDone, Due
    <3> QED
      BY <1>1, <2>5, <3>1 DEF BootDone, CreationIsReady, Due
  <2> QED
    BY <1>3, <2>1, <2>2, <2>3, <2>4, <2>5 DEF Creation
<1>4. CASE Clock
  <2>1. CASE OneOClock
    <3>1. CASE status = "up"
      <4>1. ASSUME NEW k \in Kinds, NEW d, d = today + 1 PROVE Due(<<k, d>>)'
        <5>1. PICK i \in 1..Len(DailyPlan(d)) : DailyPlan(d)[i] = <<k, d>>
          BY <1>1, <4>1, DailyCovers
        <5> QED
          BY <2>1, <3>1, <4>1, <5>1 DEF OneOClock, Due
      <4> QED
        BY <2>1, <3>1, <4>1 DEF OneOClock, CreationIsReady, Due
    <3>2. CASE status # "up"
      <4>1. hour = 0 /\ UNCHANGED <<today, tables, status, bootDay, todo>>
            /\ (status \in {"booting", "creating"} => bootDay = today)
        BY <2>1, <3>2 DEF OneOClock
      <4>2. bootDay = today => bootDay # today - 1
        BY <1>1
      <4> QED
        BY <1>1, <3>2, <4>1, <4>2 DEF CreationIsReady, Due
    <3> QED
      BY <3>1, <3>2
  <2>2. CASE TwoOClock
    <3>1. hour # 0 /\ hour > 0 /\ UNCHANGED <<today, tables, status, bootDay, todo>>
      BY <2>2 DEF TwoOClock
    <3>2. status \in {"booting", "creating"} => bootDay = today
      BY <3>1, Zenon DEF CreationIsReady
    <3>3. \A k \in Kinds : status \in {"creating", "up"} =>
            Due(<<k, today>>) /\ Due(<<k, today + 1>>)
      BY <3>1, Zenon DEF CreationIsReady, Due
    <3> QED
      BY <3>1, <3>2, <3>3 DEF CreationIsReady, Due
  <2>3. CASE Midnight
    <3>1. today' = today + 1 /\ hour' = 0 /\ UNCHANGED <<tables, status, bootDay, todo>>
      BY <2>3 DEF Midnight
    <3>2. status # "booting" /\ hour # 0 /\ hour > 0
      BY <2>3 DEF Midnight, InTime
    <3>3. CASE status = "creating"
      <4>1. bootDay = today /\ \A k \in Kinds : Due(<<k, today + 1>>)
        BY <3>2, <3>3, Zenon DEF CreationIsReady
      <4>2. bootDay' = today' - 1 /\ status' = "creating"
        BY <1>1, <3>1, <3>3, <4>1
      <4>3. \A k \in Kinds : Due(<<k, today>>)'
        BY <3>1, <4>1 DEF Due
      <4> QED
        BY <3>1, <4>2, <4>3 DEF CreationIsReady
    <3>4. CASE status = "up"
      <4>1. \A i \in 1..Len(todo) : FALSE
        BY <2>3, <3>4 DEF Midnight
      <4>2. \A k \in Kinds : Due(<<k, today + 1>>)
        BY <3>2, <3>4, Zenon DEF CreationIsReady
      <4>3. \A k \in Kinds : <<k, today + 1>> \in tables
        BY <4>1, <4>2 DEF Due
      <4> QED
        BY <3>1, <3>4, <4>3 DEF CreationIsReady
    <3> QED
      BY <1>1, <3>1, <3>2, <3>3, <3>4 DEF CreationIsReady
  <2> QED
    BY <1>4, <2>1, <2>2, <2>3 DEF Clock
<1>5. CASE KeepNext
  BY <1>2, <1>5 DEF KeepNext, RetentionStep, RetentionFails, CapacityStart,
                    CapacityStep, CapacityFails, logVars
<1>6. CASE BackupNext
  BY <1>2, <1>6 DEF BackupNext, BackupStart, BackupSelect, BackupDump,
     BackupList, BackupDrop, BackupDropFails, BackupZip, InsertNamed,
     InsertDone, logVars
<1>7. CASE Stop
  BY <1>7 DEF Stop, LogStop, CreationIsReady
<1>8. CASE UNCHANGED vars
  BY <1>2, <1>8 DEF vars, logVars
<1> QED
  BY <1>3, <1>4, <1>5, <1>6, <1>7, <1>8 DEF Next

\* If no CREATE fails and no start reads its dates around a midnight, what is
\* logged always finds its table, over any number of days, starts and stops.
THEOREM TablesAreReady ==
    ASSUME InTime
    PROVE  Spec => []LogTablesReady
<1>1. Init => CreationIsReady
  BY DEF Init, LogInit, CreationIsReady
<1>2. TypeOK /\ DropsArePast /\ CreationIsReady /\ [Next]_vars => CreationIsReady'
  BY CreationStaysReady
<1>3. CreationIsReady => LogTablesReady
  BY DEF CreationIsReady, LogTablesReady, Due
<1> QED
  BY <1>1, <1>2, <1>3, TypeCorrect, DropsPast, PTL DEF Spec

(***************************************************************************)
(* What goes first, and what goes when                                     *)
(***************************************************************************)

\* The list of a disk check has every day before the last of it that still
\* has a table.
ListIsWhole == \A t \in tables : \A d \in cap : Day(t) < d => Day(t) \in cap

LEMMA ListStaysWhole ==
    ASSUME TypeOK, DropsArePast, CreationIsTimely, ListIsWhole, [Next]_vars
    PROVE  ListIsWhole'
<1>1. /\ today \in Nat /\ bootDay \in Nat /\ todo \in Seq(Table) /\ tables \subseteq Table
      /\ status \in {"down", "booting", "creating", "up"}
      /\ cap \subseteq Nat /\ \A d \in cap : d < today
  BY DEF TypeOK, LogTypeOK, KeepTypeOK, DropsArePast
<1>2. ASSUME tables' \subseteq tables, cap' = cap \/ cap' = {} PROVE ListIsWhole'
  BY <1>2 DEF ListIsWhole
<1>3. CASE CreateTable /\ cap' = cap
  <2>1. Day(todo[1]) \in (today - 1)..(today + 1)
    BY <1>1, <1>3, TailItems DEF CreateTable, CreationIsTimely
  <2>2. \A d \in cap : ~ (Day(Head(todo)) < d)
    BY <1>1, <1>3, <2>1, TailItems DEF CreateTable
  <2> QED
    BY <1>3, <2>2 DEF CreateTable, ListIsWhole
<1>4. CASE Creation \/ Clock
  BY <1>2, <1>3, <1>4 DEF Creation, Boot, ReadNextDay, CreateFails, BootDone, CreateTable,
     Clock, OneOClock, TwoOClock, Midnight, keepVars
<1>5. CASE KeepNext
  <2>1. CASE RetentionStep \/ RetentionFails \/ CapacityFails
    BY <1>2, <2>1 DEF RetentionStep, RetentionFails, CapacityFails, Dropped
  <2>2. CASE CapacityStart
    BY <1>1, <2>2 DEF CapacityStart, ListIsWhole, logVars
  <2>3. CASE CapacityStep
    <3>1. PICK d \in AtDate : tables' = Dropped(OfDay(d)) /\ cap' \in {{}, cap \ {d}}
      BY <2>3 DEF CapacityStep
    <3>2. \A t \in tables' : t \in tables /\ Day(t) # d
      BY <3>1 DEF Dropped, OfDay
    <3> QED
      BY <3>1, <3>2 DEF ListIsWhole
  <2> QED
    BY <1>5, <2>1, <2>2, <2>3 DEF KeepNext
<1>6. CASE BackupNext /\ UNCHANGED keepVars
  BY <1>2, <1>6 DEF BackupNext, BackupStart, BackupSelect, BackupDump,
     BackupList, BackupDrop, BackupDropFails, BackupZip, InsertNamed,
     InsertDone, Dropped, logVars, keepVars
<1>7. CASE Stop \/ UNCHANGED vars
  BY <1>2, <1>7 DEF Stop, LogStop, vars, logVars, keepVars
<1> QED
  BY <1>4, <1>5, <1>6, <1>7 DEF Next

LEMMA OldestFirst ==
    ASSUME TypeOK, ListIsWhole, CapacityStep
    PROVE  \A t \in tables \ tables', u \in tables' : Day(u) >= Day(t)
<1>1. PICK d \in AtDate : tables' = Dropped(OfDay(d))
  BY DEF CapacityStep
<1>2. \A t \in tables \ tables' : Day(t) = d
  BY <1>1 DEF Dropped, OfDay
<1>3. d \in cap /\ \A e \in cap : d <= e
  BY <1>1 DEF AtDate
<1>4. cap \subseteq Nat /\ tables \subseteq Table
  BY DEF TypeOK, KeepTypeOK, LogTypeOK
<1>5. ASSUME NEW u \in tables' PROVE Day(u) >= d
  <2>1. u \in tables /\ Day(u) \in Nat
    BY <1>1, <1>4, <1>5 DEF Dropped
  <2>2. CASE Day(u) < d
    BY <1>3, <1>4, <2>1, <2>2 DEF ListIsWhole
  <2> QED
    BY <1>3, <1>4, <2>1, <2>2
<1> QED
  BY <1>2, <1>5

\* The disk check goes from the oldest day up, whatever is created and dropped
\* next to it.
THEOREM OldestGoFirst == Spec => OldestDroppedFirst
<1>1. Init => ListIsWhole
  BY DEF Init, KeepInit, ListIsWhole
<1>2. TypeOK /\ DropsArePast /\ CreationIsTimely /\ ListIsWhole /\ [Next]_vars => ListIsWhole'
  BY ListStaysWhole
<1>3. TypeOK /\ ListIsWhole /\ [Next]_vars
        => [CapacityStep => \A t \in tables \ tables', u \in tables' : Day(u) >= Day(t)]_vars
  BY OldestFirst
<1> QED
  BY <1>1, <1>2, <1>3, TypeCorrect, DropsPast, CreationTimely, PTL DEF Spec, OldestDroppedFirst

\* Retention goes by the period of each kind, whatever periods are set while
\* it runs, but for the kinds whose pattern comes after those of the audit log.
THEOREM PeriodsAreHonoured == Spec => RetentionHonoursPeriods
<1>1. ASSUME TypeOK, RetentionStep \/ RetentionFails, NEW t \in tables \ tables',
             Kind(t) \notin Misplaced
      PROVE  Day(t) <= IF Kind(t) = AuditKind THEN ret.auditDay ELSE ret.rawDay
  <2>1. t \in Expired /\ ret.pos > 0
    BY <1>1 DEF RetentionStep, RetentionFails, Dropped
  <2>2. ret.pos \in 1..Len(RetentionOrder) /\ AuditFrom \in Nat /\ Len(RetentionOrder) \in Nat
    <3>1. ret.pos \in 0..Len(RetentionOrder)
      BY <1>1 DEF TypeOK, KeepTypeOK
    <3>2. Len(RetentionOrder) \in Nat
      BY RetentionAssumption
    <3> QED
      BY <2>1, <3>1, <3>2, RetentionAssumption
  <2>3. Kind(t) \in RetentionOrder[ret.pos]
    BY <2>1 DEF Expired
  <2>4. CASE ret.pos < AuditFrom
    <3>1. ret.pos \in DOMAIN RetentionOrder
      BY <2>2, RetentionAssumption
    <3>2. Kind(t) # AuditKind
      BY <2>3, <2>4, <3>1, RetentionAssumption
    <3> QED
      BY <2>1, <2>4, <3>2 DEF Expired, TableDate
  <2>5. CASE ~ (ret.pos < AuditFrom)
    <3>1. ret.pos \in AuditFrom..Len(RetentionOrder)
      BY <2>2, <2>5
    <3>2. Kind(t) = AuditKind
      BY <1>1, <2>3, <3>1 DEF Misplaced
    <3> QED
      BY <2>1, <2>5, <3>2 DEF Expired, TableDate
  <2> QED
    BY <2>4, <2>5
<1>2. TypeOK => [RetentionStep \/ RetentionFails =>
        \A t \in tables \ tables' : Kind(t) \in Misplaced
          \/ Day(t) <= IF Kind(t) = AuditKind THEN ret.auditDay ELSE ret.rawDay]_vars
  BY <1>1
<1> QED
  BY <1>2, TypeCorrect, PTL DEF Spec, RetentionHonoursPeriods

-----------------------------------------------------------------------------
(***************************************************************************)
(* What the backups delete they have kept a copy of, for any number of     *)
(* backups next to each other and next to retention, the disk check and    *)
(* the creation of tables: provided every dump and every zip works, no     *)
(* backup's range reaches today, and no row is inserted the day after its  *)
(* table was named.  The run FailedDump shows that the first of these is   *)
(* needed.                                                                 *)
(***************************************************************************)

NoLoss == Faults \cap {"dump", "zip", "today", "late"} = {}

\* The strengthening of BackupKeepsRows.  A backup's range is over, and rows
\* only ever go to today's tables, so no dump it has made becomes stale.  While
\* it dumps, every table of the pattern is dumped or still listed; when it asks
\* for the names once more, every table is dumped; so what it is about to drop
\* is, if it is still there, in its folder.
RangeIsPast == \A b \in Backups : bk[b].pc # "idle" => bk[b].to < today
OnlyUpRuns == status # "up" => \A b \in Backups : bk[b].pc = "idle"
IdleDropsNothing == \A b \in Backups : bk[b].pc = "idle" => bk[b].drops = {}
WritesToday == \A t \in inserts : Day(t) = today
DeletedPast == \A t \in deleted : Day(t) < today
DumpsComplete ==
    \A b \in Backups :
        /\ bk[b].pc = "dump" => InRange(b) \subseteq full[b] \cup bk[b].names
        /\ bk[b].pc = "list" => InRange(b) \subseteq full[b]
DropsDumped == \A b \in Backups : bk[b].drops \cap tables \subseteq full[b]

NothingLost ==
    /\ RangeIsPast /\ OnlyUpRuns /\ IdleDropsNothing
    /\ WritesToday /\ DeletedPast
    /\ DumpsComplete /\ DropsDumped
    /\ BackupKeepsRows

Known == TypeOK /\ DropsArePast /\ CreationIsTimely

\* The facts about types the lemmas below need.
LEMMA BackupFacts ==
    ASSUME Known
    PROVE  /\ today \in Nat /\ tables \subseteq Table
           /\ bk \in [Backups -> Progress]
           /\ full \in [Backups -> SUBSET Table]
           /\ saved \subseteq Table /\ deleted \subseteq Table
           /\ inserts \subseteq Table
           /\ todo \in Seq(Table)
           /\ BackupIdle \in Progress
           /\ BackupIdle.pc = "idle" /\ BackupIdle.drops = {}
BY BackupAssumption DEF Known, TypeOK, LogTypeOK, BackupTypeOK, BackupIdle, Progress

\* The fields NextPattern leaves alone, and where it goes.
LEMMA NextPatternFields ==
    ASSUME NEW r \in Progress
    PROVE  /\ NextPattern(r) \in Progress
           /\ NextPattern(r).to = r.to
           /\ NextPattern(r).drops = r.drops
           /\ NextPattern(r).pc \in {"select", "zip"}
BY NextPatternType DEF NextPattern, Progress

\* The tables a backup has in its range can only become fewer when the tables
\* that are created are of today or later.
LEMMA RangeShrinks ==
    ASSUME Known, NothingLost, NEW b \in Backups, bk[b].pc # "idle",
           bk'[b] = bk[b],
           \A t \in tables' \ tables : Day(t) >= today
    PROVE  InRange(b)' \subseteq InRange(b)
<1>1. /\ bk[b].to < today /\ bk[b].to \in Int /\ bk[b].from \in Int
      /\ today \in Nat
  BY BackupFacts DEF NothingLost, RangeIsPast, Progress
<1> SUFFICES ASSUME NEW t \in InRange(b)' PROVE t \in InRange(b)
  OBVIOUS
<1>2. t \in tables' /\ Kind(t) \in BackupOrder[bk[b].pos]
         /\ Day(t) \in bk[b].from..bk[b].to
  BY DEF InRange
<1>3. t \in tables
  BY <1>1, <1>2
<1> QED
  BY <1>2, <1>3 DEF InRange

\* Steps of the other jobs: they touch no backup, no row and no record of a
\* backup, and create no table of a past day while a backup runs.
LEMMA OthersLoseNothing ==
    ASSUME Known, NothingLost, UNCHANGED backupVars, today' >= today,
           today' \in Nat,
           WritesToday', OnlyUpRuns',
           (\E b \in Backups : bk[b].pc # "idle") =>
               \A t \in tables' \ tables : Day(t) >= today
    PROVE  NothingLost'
<1>1. /\ RangeIsPast' /\ IdleDropsNothing'
      /\ DeletedPast' /\ BackupKeepsRows'
  BY BackupFacts DEF NothingLost, RangeIsPast, IdleDropsNothing, DeletedPast,
                     BackupKeepsRows, backupVars, Progress
<1>2. DumpsComplete'
  BY RangeShrinks DEF NothingLost, DumpsComplete, backupVars
<1>3. DropsDumped'
  <2> SUFFICES ASSUME NEW b \in Backups, NEW t \in bk[b].drops, t \in tables'
               PROVE  t \in full[b]
    BY DEF DropsDumped, backupVars
  <2>1. Day(t) < today /\ t \in Table
    BY BackupFacts DEF Known, DropsArePast, Progress
  <2>2. bk[b].pc # "idle"
    BY DEF NothingLost, IdleDropsNothing
  <2>3. t \in tables
    BY <2>1, <2>2, BackupFacts
  <2> QED
    BY <2>3 DEF NothingLost, DropsDumped
<1> QED
  BY <1>1, <1>2, <1>3 DEF NothingLost

\* A step of one backup, which is at work or starting: what it has to respect.
LEMMA OneBackupStep ==
    ASSUME Known, NothingLost, status = "up",
           UNCHANGED <<today, status, inserts>>,
           tables' \subseteq tables,
           NEW b \in Backups, NEW r \in Progress,
           bk' = [bk EXCEPT ![b] = r],
           \A c \in Backups \ {b} : full'[c] = full[c],
           r.pc # "idle" => r.to < today,
           r.pc = "idle" => r.drops = {},
           r.pc = "dump" => InRange(b)' \subseteq full'[b] \cup r.names,
           r.pc = "list" => InRange(b)' \subseteq full'[b],
           r.drops \cap tables' \subseteq full'[b],
           DeletedPast', BackupKeepsRows'
    PROVE  NothingLost'
<1>1. bk'[b] = r /\ \A c \in Backups \ {b} : bk'[c] = bk[c]
  BY BackupFacts
<1>2. RangeIsPast' /\ OnlyUpRuns' /\ IdleDropsNothing' /\ WritesToday'
  BY <1>1 DEF NothingLost, RangeIsPast, OnlyUpRuns, IdleDropsNothing, WritesToday
<1>3. DumpsComplete'
  <2>1. ASSUME NEW c \in Backups \ {b}
        PROVE  InRange(c)' \subseteq InRange(c)
    BY <1>1, <2>1 DEF InRange
  <2> QED
    BY <1>1, <2>1 DEF NothingLost, DumpsComplete
<1>4. DropsDumped'
  BY <1>1 DEF NothingLost, DropsDumped
<1> QED
  BY <1>2, <1>3, <1>4 DEF NothingLost

\* Starting: the range ends yesterday.
LEMMA StartLosesNothing ==
    ASSUME Known, NothingLost, NoLoss, NEW b \in Backups, BackupStart(b),
           BackupTypeOK'
    PROVE  NothingLost'
<1>1. PICK span \in Spans, delete \in BOOLEAN, ticked \in SUBSET Groups :
         bk' = [bk EXCEPT ![b] =
                  [pc |-> "select", pos |-> 1, from |-> today - span,
                   to |-> today - 1, delete |-> delete, ticked |-> ticked,
                   names |-> {}, drops |-> {}]]
  BY DEF BackupStart, NoLoss
<1> DEFINE r == [pc |-> "select", pos |-> 1, from |-> today - span,
                 to |-> today - 1, delete |-> delete, ticked |-> ticked,
                 names |-> {}, drops |-> {}]
<1>2. bk'[b] = r
  BY <1>1, BackupFacts
<1>3. r.to < today /\ r.pc = "select" /\ r.drops = {}
  BY BackupFacts
<1>4. r \in Progress
  BY <1>2 DEF BackupTypeOK
<1>5. DeletedPast' /\ BackupKeepsRows'
  BY DEF BackupStart, logVars, NothingLost, DeletedPast, BackupKeepsRows
<1> HIDE DEF r
<1> QED
  BY <1>1, <1>3, <1>4, <1>5, OneBackupStep DEF BackupStart, logVars, r

\* Only a running console has a backup at work.
LEMMA WorkingIsUp ==
    ASSUME Known, NothingLost, NEW b \in Backups, bk[b].pc # "idle"
    PROVE  status = "up" /\ bk[b].to < today /\ bk[b] \in Progress
BY BackupFacts DEF NothingLost, OnlyUpRuns, RangeIsPast

\* Listing: all the tables of the pattern are in the list.
LEMMA SelectLosesNothing ==
    ASSUME Known, NothingLost, NEW b \in Backups, BackupSelect(b)
    PROVE  NothingLost'
<1>1. status = "up" /\ bk[b].to < today /\ bk[b] \in Progress
  BY WorkingIsUp DEF BackupSelect
<1>2. /\ DeletedPast' /\ BackupKeepsRows'
      /\ UNCHANGED <<today, status, inserts, tables, full>>
  BY DEF BackupSelect, logVars, NothingLost, DeletedPast, BackupKeepsRows
<1>3. bk[b].drops \cap tables \subseteq full[b]
  BY DEF NothingLost, DropsDumped
<1> DEFINE listing(pc) == [bk[b] EXCEPT !.pc = pc, !.names = InRange(b)]
<1>4. ASSUME NEW pc \in {"dump", "list", "drop"},
             bk' = [bk EXCEPT ![b] = listing(pc)],
             pc = "list" => InRange(b) = {}
      PROVE  NothingLost'
  <2>1. InRange(b) \subseteq Table
    BY BackupFacts DEF InRange
  <2>2. /\ listing(pc) \in Progress
        /\ listing(pc).pc = pc /\ listing(pc).names = InRange(b)
        /\ listing(pc).to = bk[b].to /\ listing(pc).from = bk[b].from
        /\ listing(pc).pos = bk[b].pos /\ listing(pc).drops = bk[b].drops
    BY <1>1, <2>1 DEF Progress
  <2>3. bk'[b] = listing(pc)
    BY <1>4, BackupFacts
  <2> HIDE DEF listing
  <2>4. InRange(b)' = InRange(b)
    BY <1>2, <2>2, <2>3 DEF InRange
  <2> QED
    BY <1>1, <1>2, <1>3, <1>4, <2>2, <2>4, OneBackupStep
<1>5. ASSUME bk' = [bk EXCEPT ![b] = NextPattern(bk[b])]
      PROVE  NothingLost'
  BY <1>1, <1>2, <1>3, <1>5, NextPatternFields, OneBackupStep
<1> QED
  <2>1. \/ bk' = [bk EXCEPT ![b] = NextPattern(bk[b])]
        \/ bk' = [bk EXCEPT ![b] = listing("dump")]
        \/ bk' = [bk EXCEPT ![b] = listing("list")] /\ InRange(b) = {}
        \/ bk' = [bk EXCEPT ![b] = listing("drop")]
    BY DEF BackupSelect
  <2> QED
    BY <1>4, <1>5, <2>1

\* Dumping: the table leaves the list and enters the folder, unless somebody
\* has dropped it since.
LEMMA DumpLosesNothing ==
    ASSUME Known, NothingLost, NoLoss, NEW b \in Backups, BackupDump(b),
           BackupTypeOK'
    PROVE  NothingLost'
<1>1. status = "up" /\ bk[b].to < today /\ bk[b] \in Progress
  BY WorkingIsUp DEF BackupDump
<1>2. UNCHANGED <<today, status, inserts, tables, saved, deleted>>
  BY DEF BackupDump, logVars
<1>3. PICK t \in bk[b].names :
         /\ full' = [full EXCEPT ![b] = @ \cup ({t} \cap tables)]
         /\ bk' = [bk EXCEPT ![b] = AfterDump(bk[b], t)]
  BY DEF BackupDump, NoLoss
<1> DEFINE r == AfterDump(bk[b], t)
<1>4. /\ r.pc = IF bk[b].names = {t} THEN "list" ELSE "dump"
      /\ r.names = bk[b].names \ {t} /\ r.to = bk[b].to
      /\ r.from = bk[b].from /\ r.pos = bk[b].pos /\ r.drops = bk[b].drops
      /\ r \in Progress
  BY <1>1 DEF AfterDump, Progress
<1>5. bk'[b] = r
  BY <1>3, BackupFacts
<1> HIDE DEF r
<1>6. InRange(b)' = InRange(b)
  BY <1>2, <1>4, <1>5 DEF InRange
<1>7. /\ full'[b] = full[b] \cup ({t} \cap tables)
      /\ \A c \in Backups \ {b} : full'[c] = full[c]
  BY <1>3, BackupFacts
<1>8. InRange(b) \subseteq full'[b] \cup r.names
  <2>1. InRange(b) \subseteq full[b] \cup bk[b].names /\ InRange(b) \subseteq tables
    BY DEF BackupDump, NothingLost, DumpsComplete, InRange
  <2> QED
    BY <1>4, <1>7, <2>1
<1>9. r.pc = "list" => r.names = {}
  BY <1>4
<1>10. r.drops \cap tables \subseteq full'[b]
  BY <1>4, <1>7 DEF NothingLost, DropsDumped
<1>11. DeletedPast' /\ BackupKeepsRows'
  <2>1. UNION {full[c] : c \in Backups} \subseteq UNION {full'[c] : c \in Backups}
    BY <1>7
  <2> QED
    BY <1>2, <2>1 DEF NothingLost, DeletedPast, BackupKeepsRows
<1> QED
  BY <1>1, <1>2, <1>3, <1>4, <1>6, <1>7, <1>8, <1>9, <1>10, <1>11, OneBackupStep
     DEF r

\* Asking for the names again: every table it can name is in the folder.
LEMMA ListLosesNothing ==
    ASSUME Known, NothingLost, NEW b \in Backups, BackupList(b)
    PROVE  NothingLost'
<1>1. /\ status = "up" /\ bk[b].to < today /\ bk[b] \in Progress
      /\ bk[b].pc = "list"
  BY WorkingIsUp DEF BackupList
<1>2. UNCHANGED <<today, status, inserts, tables, saved, deleted, full>>
  BY DEF BackupList, logVars
<1> DEFINE more == IF bk[b].delete THEN {t \in InRange(b) : Day(t) < today} ELSE {}
           listed == [bk[b] EXCEPT !.drops = @ \cup more]
           last == [listed EXCEPT !.pc = "drop"]
<1>3. /\ listed \in Progress /\ listed.to = bk[b].to
      /\ listed.drops = bk[b].drops \cup more
  <2>1. more \subseteq Table
    BY BackupFacts DEF InRange
  <2> QED
    BY <1>1, <2>1 DEF Progress
<1>4. listed.drops \cap tables \subseteq full[b]
  <2>1. more \subseteq InRange(b) /\ InRange(b) \subseteq full[b]
    BY <1>1 DEF NothingLost, DumpsComplete
  <2> QED
    BY <1>3, <2>1 DEF NothingLost, DropsDumped
<1>5. DeletedPast' /\ BackupKeepsRows'
  BY <1>2 DEF NothingLost, DeletedPast, BackupKeepsRows
<1>6. bk' = [bk EXCEPT ![b] = last] \/ bk' = [bk EXCEPT ![b] = NextPattern(listed)]
  BY DEF BackupList
<1> HIDE DEF listed
<1>7. /\ last \in Progress /\ last.to = listed.to
      /\ last.drops = listed.drops /\ last.pc = "drop"
  BY <1>3 DEF Progress
<1> HIDE DEF last
<1>8. CASE bk' = [bk EXCEPT ![b] = last]
  BY <1>1, <1>2, <1>3, <1>4, <1>5, <1>7, <1>8, OneBackupStep
<1>9. CASE bk' = [bk EXCEPT ![b] = NextPattern(listed)]
  BY <1>1, <1>2, <1>3, <1>4, <1>5, <1>9, NextPatternFields, OneBackupStep
<1> QED
  BY <1>6, <1>8, <1>9

\* Dropping: what is still there of the names gathered is in the folder.
LEMMA DeletedIsKept ==
    ASSUME Known, NothingLost, NEW b \in Backups, NEW part \in SUBSET bk[b].drops,
           deleted' = deleted \cup (part \cap tables), UNCHANGED today
    PROVE  DeletedPast' /\ deleted' \subseteq deleted \cup full[b]
<1>1. part \cap tables \subseteq full[b]
  BY DEF NothingLost, DropsDumped
<1>2. \A t \in part : Day(t) < today
  BY DEF Known, DropsArePast
<1> QED
  BY <1>1, <1>2 DEF NothingLost, DeletedPast

\* An exception: the folder it leaves behind has all that was in it.
LEMMA AbandonLosesNothing ==
    ASSUME Known, NothingLost, NEW b \in Backups, status = "up", Abandon(b),
           UNCHANGED <<today, status, inserts>>, tables' \subseteq tables,
           DeletedPast', deleted' \subseteq deleted \cup full[b]
    PROVE  NothingLost'
<1>1. /\ bk' = [bk EXCEPT ![b] = BackupIdle]
      /\ saved' = saved \cup full[b]
      /\ \A c \in Backups \ {b} : full'[c] = full[c]
  BY BackupFacts DEF Abandon
<1>2. BackupKeepsRows'
  <2>1. UNION {full[c] : c \in Backups}
          \subseteq full[b] \cup UNION {full'[c] : c \in Backups}
    BY <1>1
  <2> QED
    BY <1>1, <2>1 DEF NothingLost, BackupKeepsRows
<1> QED
  BY <1>1, <1>2, BackupFacts, OneBackupStep

LEMMA DropLosesNothing ==
    ASSUME Known, NothingLost, NEW b \in Backups,
           BackupDrop(b) \/ BackupDropFails(b)
    PROVE  NothingLost'
<1>1. /\ status = "up" /\ bk[b].to < today /\ bk[b] \in Progress
  BY WorkingIsUp DEF BackupDrop, BackupDropFails
<1>2. PICK part \in SUBSET bk[b].drops :
         tables' = tables \ part /\ deleted' = deleted \cup (part \cap tables)
  BY DEF BackupDrop, BackupDropFails, Dropped
<1>3. UNCHANGED <<today, status, inserts>>
  BY DEF BackupDrop, BackupDropFails
<1>4. DeletedPast' /\ deleted' \subseteq deleted \cup full[b]
  BY <1>2, <1>3, DeletedIsKept
<1>5. CASE Abandon(b)
  BY <1>1, <1>2, <1>3, <1>4, <1>5, AbandonLosesNothing
<1> DEFINE done == [bk[b] EXCEPT !.drops = {}]
<1>6. CASE bk' = [bk EXCEPT ![b] = NextPattern(done)] /\ UNCHANGED <<full, saved>>
  <2>1. done \in Progress /\ done.to = bk[b].to /\ done.drops = {}
    BY <1>1 DEF Progress
  <2>2. BackupKeepsRows'
    BY <1>4, <1>6 DEF NothingLost, BackupKeepsRows
  <2> HIDE DEF done
  <2> QED
    BY <1>1, <1>2, <1>3, <1>4, <1>6, <2>1, <2>2, NextPatternFields, OneBackupStep
<1> QED
  BY <1>5, <1>6 DEF BackupDrop, BackupDropFails

\* Zipping: the zip has what the folder had.
LEMMA ZipLosesNothing ==
    ASSUME Known, NothingLost, NoLoss, NEW b \in Backups, BackupZip(b)
    PROVE  NothingLost'
<1>1. status = "up"
  BY WorkingIsUp DEF BackupZip
<1>2. Abandon(b)
  BY DEF BackupZip, Abandon, NoLoss
<1>3. UNCHANGED <<today, status, inserts, tables, deleted>>
  BY DEF BackupZip, logVars
<1>4. DeletedPast'
  BY <1>3 DEF NothingLost, DeletedPast
<1> QED
  BY <1>1, <1>2, <1>3, <1>4, AbandonLosesNothing

\* The writers: only dumps of today's tables become stale.
LEMMA InsertLosesNothing ==
    ASSUME Known, NothingLost,
           (\E k \in Kinds : InsertNamed(k)) \/ (\E t \in inserts : InsertDone(t))
    PROVE  NothingLost'
<1>1. UNCHANGED <<bk, deleted, today, status, tables>>
  BY DEF InsertNamed, InsertDone, logVars
<1>2. PICK t \in Table :
         /\ Day(t) = today
         /\ saved \ {t} \subseteq saved'
         /\ \A b \in Backups : full[b] \ {t} \subseteq full'[b]
         /\ inserts' \subseteq inserts \cup {t}
  <2>1. ASSUME NEW k \in Kinds, InsertNamed(k)
        PROVE  /\ <<k, today>> \in Table /\ Day(<<k, today>>) = today
               /\ UNCHANGED <<saved, full>>
               /\ inserts' \subseteq inserts \cup {<<k, today>>}
    BY <2>1, BackupFacts DEF InsertNamed
  <2>2. ASSUME NEW u \in inserts, InsertDone(u)
        PROVE  /\ u \in Table /\ Day(u) = today
               /\ saved \ {u} \subseteq saved'
               /\ \A b \in Backups : full[b] \ {u} \subseteq full'[b]
               /\ inserts' \subseteq inserts \cup {u}
    BY <2>2, BackupFacts DEF InsertDone, NothingLost, WritesToday
  <2> QED
    BY <2>1, <2>2
<1>3. /\ RangeIsPast' /\ OnlyUpRuns' /\ IdleDropsNothing' /\ DeletedPast'
      /\ WritesToday'
  BY <1>1, <1>2 DEF NothingLost, RangeIsPast, OnlyUpRuns, IdleDropsNothing,
                    DeletedPast, WritesToday
<1>4. ASSUME NEW b \in Backups, bk[b].pc # "idle"
      PROVE  InRange(b)' = InRange(b) /\ t \notin InRange(b)
  <2>1. bk[b].to < today /\ bk[b].to \in Int /\ bk[b].from \in Int
    BY <1>4, WorkingIsUp DEF Progress
  <2> QED
    BY <1>1, <1>2, <2>1, BackupFacts DEF InRange
<1>5. DumpsComplete'
  BY <1>1, <1>2, <1>4 DEF NothingLost, DumpsComplete
<1>6. DropsDumped'
  <2>1. \A b \in Backups : t \notin bk[b].drops
    BY <1>2, BackupFacts DEF Known, DropsArePast
  <2> QED
    BY <1>1, <1>2, <2>1 DEF NothingLost, DropsDumped
<1>7. BackupKeepsRows'
  <2>1. t \notin deleted
    BY <1>2, BackupFacts DEF NothingLost, DeletedPast
  <2> QED
    BY <1>1, <1>2, <2>1 DEF NothingLost, BackupKeepsRows
<1> QED
  BY <1>3, <1>5, <1>6, <1>7 DEF NothingLost

LEMMA StopLosesNothing ==
    ASSUME Known, NothingLost, Stop
    PROVE  NothingLost'
<1>1. /\ bk' = [b \in Backups |-> BackupIdle]
      /\ saved' = saved \cup UNION {full[b] : b \in Backups}
      /\ inserts' = {}
      /\ UNCHANGED <<today, deleted>>
  BY DEF Stop, BackupStop, LogStop
<1>2. RangeIsPast' /\ OnlyUpRuns' /\ IdleDropsNothing' /\ DumpsComplete' /\ DropsDumped'
  BY <1>1, BackupFacts DEF RangeIsPast, OnlyUpRuns, IdleDropsNothing,
                           DumpsComplete, DropsDumped
<1>3. DeletedPast' /\ WritesToday' /\ BackupKeepsRows'
  BY <1>1 DEF NothingLost, DeletedPast, WritesToday, BackupKeepsRows
<1> QED
  BY <1>2, <1>3 DEF NothingLost

\* A step of a backup or of a writer.
LEMMA BackupsLoseNothing ==
    ASSUME Known, NothingLost, NoLoss, BackupNext, BackupTypeOK'
    PROVE  NothingLost'
BY StartLosesNothing, SelectLosesNothing, DumpLosesNothing, ListLosesNothing,
   DropLosesNothing, ZipLosesNothing, InsertLosesNothing DEF BackupNext

\* While a backup runs the console is up, and what is being created then are
\* the tables of tomorrow.
LEMMA CreatedForLater ==
    ASSUME Known, NothingLost, Creation, NEW b \in Backups, bk[b].pc # "idle"
    PROVE  \A t \in tables' \ tables : Day(t) >= today
<1>1. status = "up" /\ todo \in Seq(Table) /\ today \in Nat
  BY WorkingIsUp, BackupFacts
<1>2. CASE CreateTable
  <2>1. Day(Head(todo)) = today + 1
    BY <1>1, <1>2, TailItems DEF CreateTable, Known, CreationIsTimely
  <2> QED
    BY <1>1, <1>2, <2>1 DEF CreateTable
<1>3. CASE ~CreateTable
  BY <1>3 DEF Creation, Boot, ReadNextDay, CreateFails, BootDone
<1> QED
  BY <1>2, <1>3

LEMMA NothingGetsLost ==
    ASSUME Known, NothingLost, NoLoss, [Next]_vars, BackupTypeOK'
    PROVE  NothingLost'
<1>1. today \in Nat
  BY BackupFacts
<1>2. ASSUME UNCHANGED backupVars, UNCHANGED <<today, status>>,
             tables' \subseteq tables
      PROVE  NothingLost'
  <2>1. WritesToday' /\ OnlyUpRuns'
    BY <1>2 DEF NothingLost, WritesToday, OnlyUpRuns, backupVars
  <2> QED
    BY <1>1, <1>2, <2>1, OthersLoseNothing
<1>3. CASE Creation
  <2>1. /\ UNCHANGED backupVars /\ UNCHANGED today
        /\ status = "up" => status' = "up"
    BY <1>3 DEF Creation, Boot, ReadNextDay, CreateTable, CreateFails, BootDone
  <2>2. WritesToday' /\ OnlyUpRuns'
    BY <2>1 DEF NothingLost, WritesToday, OnlyUpRuns, backupVars
  <2> QED
    BY <1>1, <1>3, <2>1, <2>2, CreatedForLater, OthersLoseNothing
<1>4. CASE Clock
  <2>1. CASE ~Midnight
    BY <1>2, <1>4, <2>1 DEF Clock, OneOClock, TwoOClock, backupVars
  <2>2. CASE Midnight /\ inserts = {} /\ UNCHANGED backupVars
    <3>1. today' = today + 1 /\ UNCHANGED <<tables, status>>
      BY <2>2 DEF Midnight
    <3>2. WritesToday' /\ OnlyUpRuns'
      BY <2>2, <3>1 DEF NothingLost, WritesToday, OnlyUpRuns, backupVars
    <3> QED
      BY <1>1, <2>2, <3>1, <3>2, OthersLoseNothing
  <2> QED
    BY <1>4, <2>1, <2>2 DEF Clock, NoLoss, OneOClock, TwoOClock, Midnight
<1>5. CASE KeepNext /\ UNCHANGED backupVars
  BY <1>2, <1>5 DEF KeepNext, RetentionStep, RetentionFails, CapacityStart,
                    CapacityStep, CapacityFails, Dropped, logVars
<1>6. CASE BackupNext
  BY <1>6, BackupsLoseNothing
<1>7. CASE Stop
  BY <1>7, StopLosesNothing
<1>8. CASE UNCHANGED vars
  BY <1>2, <1>8 DEF vars, logVars
<1> QED
  BY <1>3, <1>4, <1>5, <1>6, <1>7, <1>8 DEF Next

\* What a backup deletes it keeps: every table a backup has dropped is there
\* with all its rows, in the backup's folder or in its zip.
THEOREM BackupsKeepRows ==
    ASSUME NoLoss
    PROVE  Spec => []BackupKeepsRows
<1>1. Init => NothingLost
  BY DEF Init, LogInit, BackupInit, BackupIdle, NothingLost, RangeIsPast,
         OnlyUpRuns, IdleDropsNothing, WritesToday, DeletedPast, DumpsComplete,
         DropsDumped, BackupKeepsRows
<1>2. TypeOK /\ DropsArePast /\ CreationIsTimely /\ NothingLost /\ [Next]_vars /\ TypeOK'
        => NothingLost'
  BY NoLoss, NothingGetsLost DEF Known, TypeOK
<1>3. NothingLost => BackupKeepsRows
  BY DEF NothingLost
<1> QED
  BY <1>1, <1>2, <1>3, TypeCorrect, DropsPast, CreationTimely, PTL DEF Spec
=============================================================================
