---------------------- MODULE PolicyPublicationProofs ----------------------
(***************************************************************************)
(* Publication for any number of requests, saves, rules and crashes, as    *)
(* long as the requests come one after the other: what the sensor is told  *)
(* to read is what the database holds.  The argument: the one request at   *)
(* work carries the rules it has read through all steps that follow, and   *)
(* nothing else changes rows or files meanwhile.                           *)
(***************************************************************************)
EXTENDS PolicyPublication, TLAPS

USE DEF table, console, sensing

LEMMA FaultsStay == ASSUME [Next]_vars PROVE faults' = faults
BY DEF Next, vars, Comes, UpdateRule, DeployRule, InsertRule, DeleteRule, Begin, Step,
       SaveUpdate, SaveDeploy, SaveInsert, SaveDelete, Saved, SaveHelp, InsertAuditLog,
       SelectWritePolicy, OpenFile, WriteFile, ExecPolicyCommand, StepFails, Crash,
       Restart, Sensing, SensorStarts, SensorWakes, SensorLoads, SensorDies

-----------------------------------------------------------------------------
(* Types                                                                   *)

Rule == [code : Nat, text : Nat]

LEMMA WithTextType ==
    ASSUME TypeOK, NEW k \in Kinds, NEW c \in Nat PROVE WithText(k, c) \in RuleSets
<1>1. rules[k] \subseteq Rule
  BY DEF TypeOK, RuleSets, Rule
<1>2. [code |-> c, text |-> saves] \in Rule
  BY DEF TypeOK, Rule
<1> QED
  BY <1>1, <1>2 DEF WithText, RuleSets, Rule

LEMMA CodesType == ASSUME TypeOK, NEW k \in Kinds PROVE Codes(k) \subseteq Nat
BY DEF TypeOK, RuleSets, Codes

Job == [op : {"update", "deploy", "insert", "delete", "startup"},
        kind : Kinds, code : Nat]

LEMMA StartupJobType == ASSUME NEW k \in Kinds PROVE StartupJob(k) \in Job
BY DEF StartupJob, Job

LEMMA BeginType ==
    ASSUME TypeOK, NEW r \in Requests, NEW k \in Kinds, NEW c \in Nat,
           NEW o \in {"update", "deploy", "insert", "delete"}, Begin(r, o, k, c)
    PROVE  TypeOK'
BY DEF TypeOK, Begin, Actors, Contents

LEMMA ComesType == ASSUME TypeOK, NEW r \in Requests, Comes(r) PROVE TypeOK'
<1>1. CASE UpdateRule(r)
  BY <1>1, BeginType, CodesType DEF UpdateRule
<1>2. CASE DeployRule(r)
  BY <1>2, BeginType, CodesType DEF DeployRule
<1>3. CASE InsertRule(r)
  BY <1>3, BeginType DEF InsertRule, Kinds
<1>4. CASE DeleteRule(r)
  BY <1>4, BeginType, CodesType DEF DeleteRule, Kinds
<1> QED
  BY <1>1, <1>2, <1>3, <1>4 DEF Comes

LEMMA SaveType ==
    ASSUME TypeOK, NEW r \in Actors,
           SaveUpdate(r) \/ SaveDeploy(r) \/ SaveInsert(r) \/ SaveDelete(r)
    PROVE  TypeOK'
<1> DEFINE k == job[r].kind
<1>0. k \in Kinds /\ "user" \in Kinds /\ job[r].code \in Nat
  BY DEF TypeOK, Kinds
<1>1. CASE SaveUpdate(r)
  <2>1. rules' = rules \/ rules' = [rules EXCEPT ![k] = WithText(k, job[r].code)]
    BY <1>1 DEF SaveUpdate
  <2>2. rules' \in [Kinds -> RuleSets]
    <3>1. rules \in [Kinds -> RuleSets] /\ WithText(k, job[r].code) \in RuleSets
      BY <1>0, WithTextType DEF TypeOK
    <3> QED
      BY <1>0, <2>1, <3>1
  <2> QED
    BY <1>1, <2>2 DEF SaveUpdate, Saved, TypeOK, Contents
<1>2. CASE SaveDeploy(r)
  <2>1. rules' \in [Kinds -> RuleSets]
    BY <1>0, <1>2, WithTextType DEF SaveDeploy, TypeOK
  <2> QED
    BY <1>2, <2>1 DEF SaveDeploy, Saved, TypeOK, Contents
<1>3. CASE SaveInsert(r)
  <2>1. [code |-> job[r].code, text |-> saves] \in Rule
    BY <1>0 DEF TypeOK, Rule
  <2>2. rules["user"] \cup {[code |-> job[r].code, text |-> saves]} \in RuleSets
    BY <1>0, <2>1 DEF TypeOK, RuleSets, Rule
  <2>3. rules' \in [Kinds -> RuleSets] /\ used' \subseteq Nat
    BY <1>0, <1>3, <2>2 DEF SaveInsert, TypeOK
  <2> QED
    BY <1>3, <2>3 DEF SaveInsert, Saved, TypeOK, Contents
<1>4. CASE SaveDelete(r)
  <2>1. {x \in rules["user"] : x.code # job[r].code} \in RuleSets
    BY <1>0 DEF TypeOK, RuleSets
  <2>2. rules' \in [Kinds -> RuleSets]
    BY <1>0, <1>4, <2>1 DEF SaveDelete, TypeOK
  <2> QED
    BY <1>4, <2>2 DEF SaveDelete, Saved, TypeOK, Contents
<1> QED
  BY <1>1, <1>2, <1>3, <1>4

LEMMA FileType ==
    ASSUME TypeOK, NEW r \in Actors, NEW i \in 1 .. 2, OpenFile(r, i) \/ WriteFile(r, i)
    PROVE  TypeOK'
<1> DEFINE f == <<job[r].kind, i>>
<1>1. f \in Files /\ snap[r] \in RuleSets
  BY DEF TypeOK, Files
<1>2. /\ Cut \in Contents /\ Whole(snap[r]) \in Contents
      /\ [state |-> "mixed", rules |-> snap[r]] \in Contents
  BY <1>1 DEF Cut, Whole, Contents, RuleSets
<1>3. <<"write1", "write2">>[i] \in {"write1", "write2"}
      /\ <<"open2", "signal">>[i] \in {"open2", "signal"}
  OBVIOUS
<1>4. files' \in [Files -> Contents]
  BY <1>1, <1>2 DEF OpenFile, WriteFile, TypeOK
<1> QED
  BY <1>3, <1>4 DEF OpenFile, WriteFile, TypeOK

LEMMA StepType == ASSUME TypeOK, NEW r \in Actors, Step(r) PROVE TypeOK'
<1>1. CASE InsertAuditLog(r) \/ SaveHelp(r)
  BY <1>1 DEF InsertAuditLog, SaveHelp, TypeOK, Contents
<1>2. CASE SelectWritePolicy(r)
  BY <1>2 DEF SelectWritePolicy, TypeOK, Contents
<1>3. CASE ExecPolicyCommand(r)
  <2>1. pc' \in [Actors -> {"idle", "save", "help", "audit", "read", "open1", "write1",
                            "open2", "write2", "signal"}]
    BY <1>3 DEF ExecPolicyCommand, TypeOK
  <2>2. job' \in [Actors -> Job]
    BY <1>3, StartupJobType DEF ExecPolicyCommand, TypeOK, Job, Kinds
  <2>3. signal' \in BOOLEAN /\ started' \in BOOLEAN
    BY <1>3 DEF ExecPolicyCommand, TypeOK
  <2> QED
    BY <1>3, <2>1, <2>2, <2>3 DEF ExecPolicyCommand, TypeOK, Contents, Job
<1>4. CASE StepFails(r)
  BY <1>4 DEF StepFails, TypeOK, Contents
<1> QED
  BY <1>1, <1>2, <1>3, <1>4, SaveType, FileType DEF Step

LEMMA DeathType == ASSUME TypeOK, Crash \/ Restart PROVE TypeOK'
<1>1. CASE Crash
  <2>1. pc' \in [Actors -> {"idle", "save", "help", "audit", "read", "open1", "write1",
                            "open2", "write2", "signal"}]
    BY <1>1 DEF Crash
  <2>2. deaths' \in [Programs -> Nat]
    BY <1>1 DEF Crash, TypeOK, Programs
  <2> QED
    BY <1>1, <2>1, <2>2 DEF Crash, TypeOK
<1>2. CASE Restart
  <2>1. job' \in [Actors -> Job]
    BY <1>2, StartupJobType DEF Restart, TypeOK, Job, Kinds
  <2>2. pc' \in [Actors -> {"idle", "save", "help", "audit", "read", "open1", "write1",
                            "open2", "write2", "signal"}]
    BY <1>2 DEF Restart, TypeOK
  <2> QED
    BY <1>2, <2>1, <2>2 DEF Restart, TypeOK, Contents, Job
<1> QED
  BY <1>1, <1>2

LEMMA SensorType == ASSUME TypeOK, Sensing \/ SensorDies PROVE TypeOK'
<1>0. FileOrder \in Seq(Files)
  BY DEF FileOrder, Files, Kinds
<1>1. CASE SensorStarts
  BY <1>0, <1>1 DEF SensorStarts, TypeOK, Contents
<1>2. CASE SensorWakes
  BY <1>0, <1>2 DEF SensorWakes, TypeOK, Contents
<1>3. CASE SensorLoads
  <2>1. Head(toLoad) \in Files /\ Tail(toLoad) \in Seq(Files)
    BY <1>3 DEF SensorLoads, TypeOK
  <2>2. loaded' \in [Files -> Contents]
    BY <1>3, <2>1 DEF SensorLoads, TypeOK
  <2> QED
    BY <1>3, <2>1, <2>2 DEF SensorLoads, TypeOK
<1>4. CASE SensorDies
  <2>1. Cut \in Contents
    BY DEF Cut, Contents, RuleSets
  <2>2. deaths' \in [Programs -> Nat] /\ loaded' \in [Files -> Contents]
    BY <1>4, <2>1 DEF SensorDies, TypeOK, Programs
  <2>3. toLoad' \in Seq(Files)
    BY <1>4 DEF SensorDies
  <2> QED
    BY <1>4, <2>2, <2>3 DEF SensorDies, TypeOK
<1> QED
  BY <1>1, <1>2, <1>3, <1>4 DEF Sensing

LEMMA TypeStep == TypeOK /\ [Next]_vars => TypeOK'
<1> SUFFICES ASSUME TypeOK, [Next]_vars PROVE TypeOK'
  OBVIOUS
<1>1. CASE UNCHANGED vars
  BY <1>1 DEF vars, TypeOK, Contents
<1> QED
  BY <1>1, ComesType, StepType, DeathType, SensorType DEF Next

\* The variables have their types.
THEOREM PublicationTypeCorrect == Spec => []TypeOK
<1>1. Init => TypeOK
  <2> SUFFICES ASSUME Init PROVE TypeOK
    OBVIOUS
  <2>1. Cut \in Contents /\ {[code |-> 1, text |-> 0]} \in RuleSets
    BY DEF Cut, Contents, RuleSets
  <2>2. {} \in RuleSets /\ toLoad \in Seq(Files)
    BY DEF RuleSets, Init
  <2>3. QED
    <3>1. pc \in [Actors -> {"idle", "save", "help", "audit", "read", "open1", "write1",
                             "open2", "write2", "signal"}]
      BY DEF Init
    <3>2. job \in [Actors -> Job]
      BY StartupJobType DEF Init, Kinds
    <3>3. /\ rules \in [Kinds -> RuleSets] /\ snap \in [Actors -> RuleSets]
          /\ files \in [Files -> Contents] /\ loaded \in [Files -> Contents]
      BY <2>1, <2>2 DEF Init
    <3>4. faults \subseteq Faults /\ deaths \in [Programs -> Nat]
      BY FaultSetsAssumption DEF Init
    <3> QED
      BY <2>2, <3>1, <3>2, <3>3, <3>4, used \subseteq Nat DEF Init, TypeOK, Job
<1> QED
  BY <1>1, TypeStep, PTL DEF Spec

-----------------------------------------------------------------------------
(* The console and its requests                                            *)

Saves(r) == SaveUpdate(r) \/ SaveDeploy(r) \/ SaveInsert(r) \/ SaveDelete(r)

\* Requests are served while the console is up and has started, and the start
\* is under way while it is up and has not.
Serving ==
  /\ started => up
  /\ \A r \in Requests : ~ Idle(r) => started
  /\ ~ Idle(Startup) <=> (up /\ ~ started)

\* What a request is about fits what it is.
JobFits ==
  /\ job[Startup].op = "startup" /\ pc[Startup] \notin {"save", "help", "audit"}
  /\ \A r \in Requests : ~ Idle(r) => job[r].op # "startup"
  /\ \A r \in Actors : job[r].op \in {"insert", "delete"} => job[r].kind = "user"

Ready == Serving /\ JobFits

LEMMA StartupIsNoRequest == Startup \notin Requests /\ Startup \in Actors
BY RequestsAssumption DEF Startup, Actors

LEMMA BeginReady ==
    ASSUME TypeOK, Ready, NEW r \in Requests, NEW k \in Kinds, NEW c,
           NEW o \in {"update", "deploy", "insert", "delete"}, Begin(r, o, k, c),
           o \in {"insert", "delete"} => k = "user"
    PROVE  Ready'
<1>1. \A q \in Actors : q # r => pc'[q] = pc[q] /\ job'[q] = job[q]
  BY DEF TypeOK, Begin
<1>2. r \in Actors /\ pc'[r] = "save"
  BY DEF TypeOK, Begin, Actors
<1>3. job'[r] = [op |-> o, kind |-> k, code |-> c]
  BY <1>2 DEF TypeOK, Begin
<1>4. up /\ started /\ up' /\ started'
  BY DEF Begin
<1> QED
  BY <1>1, <1>2, <1>3, <1>4, StartupIsNoRequest
     DEF Ready, Serving, JobFits, Idle, Actors

LEMMA ReadyStep == TypeOK /\ Ready /\ [Next]_vars => Ready'
<1> SUFFICES ASSUME TypeOK, Ready, [Next]_vars PROVE Ready'
  OBVIOUS
<1> USE StartupIsNoRequest DEF Ready, Serving, JobFits, Idle
<1>1. CASE UNCHANGED vars
  BY <1>1 DEF vars
<1>2. ASSUME NEW r \in Requests, Comes(r) PROVE Ready'
  <2>1. "user" \in Kinds
    BY DEF Kinds
  <2> QED
    BY <1>2, <2>1, BeginReady DEF Comes, UpdateRule, DeployRule, InsertRule, DeleteRule
<1>3. ASSUME NEW r \in Actors, Saves(r) PROVE Ready'
  <2>1. r \in Requests /\ r # Startup
    BY <1>3 DEF Saves, SaveUpdate, SaveDeploy, SaveInsert, SaveDelete, Actors, Startup
  <2>2. started /\ UNCHANGED <<up, started, job>>
    BY <1>3, <2>1 DEF Saves, SaveUpdate, SaveDeploy, SaveInsert, SaveDelete, Saved
  <2>3. \A q \in Actors : q # r => pc'[q] = pc[q]
    BY <1>3 DEF Saves, SaveUpdate, SaveDeploy, SaveInsert, SaveDelete, Saved, TypeOK
  <2>4. pc[r] # "idle"
    BY <1>3 DEF Saves, SaveUpdate, SaveDeploy, SaveInsert, SaveDelete, Saved
  <2> QED
    BY <2>1, <2>2, <2>3, <2>4 DEF Actors
<1>4. ASSUME NEW r \in Actors, InsertAuditLog(r) \/ SaveHelp(r) PROVE Ready'
  BY <1>4 DEF InsertAuditLog, SaveHelp, TypeOK, Actors
<1>5. ASSUME NEW r \in Actors, SelectWritePolicy(r) PROVE Ready'
  BY <1>5 DEF SelectWritePolicy, TypeOK, Actors
<1>6. ASSUME NEW r \in Actors, NEW i \in 1 .. 2, OpenFile(r, i) \/ WriteFile(r, i)
      PROVE  Ready'
  <2>1. pc[r] # "idle" /\ UNCHANGED <<up, started, job>>
    BY <1>6 DEF OpenFile, WriteFile
  <2>2. pc'[r] \in {"write1", "write2", "open2", "signal"}
    BY <1>6 DEF OpenFile, WriteFile, TypeOK
  <2>3. \A q \in Actors : q # r => pc'[q] = pc[q]
    BY <1>6 DEF OpenFile, WriteFile, TypeOK
  <2> QED
    BY <2>1, <2>2, <2>3 DEF Actors
<1>7. ASSUME NEW r \in Actors, ExecPolicyCommand(r) PROVE Ready'
  <2>1. CASE r = Startup /\ job[r].kind = "vendor"
    BY <1>7, <2>1 DEF ExecPolicyCommand, TypeOK, StartupJob, Actors
  <2>2. CASE ~ (r = Startup /\ job[r].kind = "vendor")
    BY <1>7, <2>2 DEF ExecPolicyCommand, TypeOK, Actors
  <2> QED
    BY <2>1, <2>2
<1>8. ASSUME NEW r \in Actors, StepFails(r) PROVE Ready'
  <2>1. pc[r] # "idle"
    BY <1>8 DEF StepFails, StepOf, TypeOK, Faults
  <2> QED
    BY <1>8, <2>1 DEF StepFails, TypeOK, Actors
<1>9. CASE Crash
  BY <1>9 DEF Crash, TypeOK, Actors
<1>10. CASE Restart
  BY <1>10 DEF Restart, TypeOK, StartupJob, Actors
<1>11. CASE Sensing \/ SensorDies
  BY <1>11 DEF Sensing, SensorStarts, SensorWakes, SensorLoads, SensorDies
<1> QED
  BY <1>1, <1>2, <1>3, <1>4, <1>5, <1>6, <1>7, <1>8, <1>9, <1>10, <1>11
     DEF Next, Step, Saves

-----------------------------------------------------------------------------
(* One request at a time                                                   *)

\* While one is at work, a request or the start, every other is idle.
OneAtWork == \A r, s \in Actors : r # s => Idle(r) \/ Idle(s)

\* What the one at work does to the others, and to those it leaves idle.
LEMMA StepLocal ==
    ASSUME TypeOK, NEW r \in Actors, Step(r)
    PROVE  ~ Idle(r) /\ \A q \in Actors : q # r => pc'[q] = pc[q] /\ job'[q] = job[q]
<1> USE DEF TypeOK, Idle
<1>1. CASE Saves(r)
  BY <1>1 DEF Saves, SaveUpdate, SaveDeploy, SaveInsert, SaveDelete, Saved
<1>2. CASE SaveHelp(r) \/ InsertAuditLog(r) \/ SelectWritePolicy(r)
  BY <1>2 DEF SaveHelp, InsertAuditLog, SelectWritePolicy
<1>3. ASSUME NEW i \in 1 .. 2, OpenFile(r, i) \/ WriteFile(r, i)
      PROVE  ~ Idle(r) /\ \A q \in Actors : q # r => pc'[q] = pc[q] /\ job'[q] = job[q]
  BY <1>3 DEF OpenFile, WriteFile
<1>4. CASE ExecPolicyCommand(r)
  BY <1>4 DEF ExecPolicyCommand
<1>5. CASE StepFails(r)
  <2>1. pc[r] # "idle"
    BY <1>5 DEF StepFails, StepOf, Faults
  <2> QED
    BY <1>5, <2>1 DEF StepFails
<1> QED
  BY <1>1, <1>2, <1>3, <1>4, <1>5 DEF Step, Saves

LEMMA BeginQuiet ==
    ASSUME TypeOK, Ready, "overlap" \notin faults, NEW r \in Requests, Comes(r)
    PROVE  /\ \A q \in Actors : Idle(q)
           /\ pc' = [pc EXCEPT ![r] = "save"]
           /\ \E o, k, c : job' = [job EXCEPT ![r] = [op |-> o, kind |-> k, code |-> c]]
<1>1. PICK o, k, c : Begin(r, o, k, c)
  BY DEF Comes, UpdateRule, DeployRule, InsertRule, DeleteRule
<1>2. (\A q \in Requests : Idle(q)) /\ up /\ started
  BY <1>1 DEF Begin
<1> QED
  BY <1>1, <1>2 DEF Begin, Ready, Serving, Actors

LEMMA OneAtWorkStep ==
    ASSUME TypeOK, Ready, OneAtWork, "overlap" \notin faults, [Next]_vars
    PROVE  OneAtWork'
<1> USE DEF OneAtWork, Idle
<1>1. CASE UNCHANGED vars
  BY <1>1 DEF vars
<1>2. ASSUME NEW r \in Requests, Comes(r) PROVE OneAtWork'
  BY <1>2, BeginQuiet DEF TypeOK
<1>3. ASSUME NEW r \in Actors, Step(r) PROVE OneAtWork'
  BY <1>3, StepLocal
<1>4. CASE Crash
  BY <1>4 DEF Crash
<1>5. CASE Restart
  <2>1. \A q \in Actors : Idle(q)
    BY <1>5 DEF Restart, Ready, Serving, Actors
  <2> QED
    BY <1>5, <2>1 DEF Restart, TypeOK
<1>6. CASE Sensing \/ SensorDies
  BY <1>6 DEF Sensing, SensorStarts, SensorWakes, SensorLoads, SensorDies
<1> QED
  BY <1>1, <1>2, <1>3, <1>4, <1>5, <1>6 DEF Next

-----------------------------------------------------------------------------
(* The files follow the rows                                               *)

\* How far the files of a request's kind are, by the step it has come to.
FilesOf(r) ==
  LET k == job[r].kind
  IN /\ pc[r] \in {"open1", "write1", "open2", "write2"} => snap[r] = rules[k]
     /\ pc[r] = "write1" => files[<<k, 1>>] = Cut
     /\ pc[r] \in {"open2", "write2", "signal"} => files[<<k, 1>>] = Whole(rules[k])
     /\ pc[r] = "write2" => files[<<k, 2>>] = Cut
     /\ pc[r] = "signal" => files[<<k, 2>>] = Whole(rules[k])

FilesFollow == \A r \in Actors : FilesOf(r)

LEMMA IdleFollows == ASSUME NEW r \in Actors, Idle(r) PROVE FilesOf(r)
BY DEF Idle, FilesOf

\* Enough for the files to follow: the one at work does, and the others are idle.
LEMMA OneFollows ==
    ASSUME TypeOK, OneAtWork, NEW r \in Actors, Step(r), FilesOf(r)'
    PROVE  FilesFollow'
<1>1. \A q \in Actors : q # r => Idle(q)'
  BY StepLocal DEF OneAtWork, Idle
<1>2. \A q \in Actors : Idle(q)' => FilesOf(q)'
  BY DEF Idle, FilesOf
<1> QED
  BY <1>1, <1>2 DEF FilesFollow

LEMMA FollowStep ==
    ASSUME TypeOK, Ready, OneAtWork, FilesFollow, "overlap" \notin faults, [Next]_vars
    PROVE  FilesFollow'
<1>1. CASE UNCHANGED vars
  BY <1>1 DEF vars, FilesFollow, FilesOf
<1>2. ASSUME NEW r \in Requests, Comes(r) PROVE FilesFollow'
  <2>1. \A q \in Actors : pc'[q] \in {"idle", "save"}
    BY <1>2, BeginQuiet DEF TypeOK, Idle
  <2> QED
    BY <2>1 DEF FilesFollow, FilesOf
<1>3. ASSUME NEW r \in Actors, Saves(r) PROVE FilesOf(r)'
  <2>1. pc'[r] \in {"idle", "help", "audit", "read"}
    BY <1>3 DEF Saves, SaveUpdate, SaveDeploy, SaveInsert, SaveDelete, Saved, TypeOK
  <2> QED
    BY <2>1 DEF FilesOf
<1>4. ASSUME NEW r \in Actors, InsertAuditLog(r) \/ SaveHelp(r) PROVE FilesOf(r)'
  BY <1>4 DEF InsertAuditLog, SaveHelp, FilesOf, TypeOK
<1>5. ASSUME NEW r \in Actors, SelectWritePolicy(r) PROVE FilesOf(r)'
  BY <1>5 DEF SelectWritePolicy, FilesOf, TypeOK
<1>6. ASSUME NEW r \in Actors, NEW i \in 1 .. 2, OpenFile(r, i) PROVE FilesOf(r)'
  <2> DEFINE f == <<job[r].kind, i>>
  <2>1. f \in Files /\ FilesOf(r)
    BY DEF TypeOK, Files, FilesFollow
  <2>2. files' = [files EXCEPT ![f] = Cut] /\ UNCHANGED <<rules, job, snap>>
    BY <1>6 DEF OpenFile
  <2>3. CASE i = 1
    BY <1>6, <2>1, <2>2, <2>3 DEF OpenFile, FilesOf, TypeOK
  <2>4. CASE i = 2
    <3>1. pc[r] = "open2" /\ pc'[r] = "write2"
      BY <1>6, <2>4 DEF OpenFile, TypeOK
    <3>2. files'[f] = Cut /\ files'[<<job[r].kind, 1>>] = files[<<job[r].kind, 1>>]
      BY <2>1, <2>2, <2>4 DEF TypeOK, Files
    <3> QED
      BY <2>1, <2>2, <2>4, <3>1, <3>2 DEF FilesOf
  <2> QED
    BY <2>3, <2>4
<1>7. ASSUME NEW r \in Actors, NEW i \in 1 .. 2, WriteFile(r, i) PROVE FilesOf(r)'
  <2> DEFINE f == <<job[r].kind, i>>
  <2>1. f \in Files /\ FilesOf(r)
    BY DEF TypeOK, Files, FilesFollow
  <2>2. pc[r] = <<"write1", "write2">>[i] /\ pc'[r] = <<"open2", "signal">>[i]
    BY <1>7 DEF WriteFile, TypeOK
  <2>3. files[f] = Cut /\ snap[r] = rules[job[r].kind]
    BY <2>1, <2>2 DEF FilesOf
  <2>4. files' = [files EXCEPT ![f] = Whole(snap[r])] /\ UNCHANGED <<rules, job>>
    BY <1>7, <2>3 DEF WriteFile, Cut
  <2>5. files'[f] = Whole(rules[job[r].kind])
    BY <2>1, <2>3, <2>4 DEF TypeOK
  <2>6. CASE i = 1
    <3>1. pc'[r] = "open2" /\ snap'[r] = snap[r]
      BY <1>7, <2>2, <2>6 DEF WriteFile
    <3> QED
      BY <2>3, <2>4, <2>5, <2>6, <3>1 DEF FilesOf
  <2>7. CASE i = 2
    <3>1. pc[r] = "write2" /\ pc'[r] = "signal"
      BY <2>2, <2>7
    <3>2. files'[<<job[r].kind, 1>>] = files[<<job[r].kind, 1>>]
      BY <2>4, <2>7 DEF TypeOK, Files
    <3> QED
      BY <2>1, <2>4, <2>5, <2>7, <3>1, <3>2 DEF FilesOf
  <2> QED
    BY <2>6, <2>7
<1>8. ASSUME NEW r \in Actors, ExecPolicyCommand(r) PROVE FilesOf(r)'
  <2>1. pc'[r] \in {"idle", "audit", "read"}
    BY <1>8 DEF ExecPolicyCommand, TypeOK
  <2> QED
    BY <2>1 DEF FilesOf
<1>9. ASSUME NEW r \in Actors, StepFails(r) PROVE FilesOf(r)'
  BY <1>9 DEF StepFails, FilesOf, TypeOK
<1>10. CASE Crash
  BY <1>10 DEF Crash, FilesFollow, FilesOf
<1>11. CASE Restart
  <2>1. \A q \in Actors : pc'[q] \in {"idle", "read"}
    BY <1>11 DEF Restart, Ready, Serving, Actors, Idle, TypeOK
  <2> QED
    BY <2>1 DEF FilesFollow, FilesOf
<1>12. CASE Sensing \/ SensorDies
  BY <1>12
     DEF Sensing, SensorStarts, SensorWakes, SensorLoads, SensorDies, FilesFollow, FilesOf
<1> QED
  BY <1>1, <1>2, <1>3, <1>4, <1>5, <1>6, <1>7, <1>8, <1>9, <1>10, <1>11, <1>12, OneFollows
     DEF Next, Step, Saves

InTurn == Ready /\ (Without({"overlap"}) => OneAtWork /\ FilesFollow)

LEMMA InTurnHolds == Spec => [](TypeOK /\ InTurn)
<1>1. Init => InTurn
  BY StartupIsNoRequest
     DEF Init, InTurn, Ready, Serving, JobFits, OneAtWork, FilesFollow, FilesOf, Idle,
         Actors, Startup, StartupJob
<1>2. TypeOK /\ InTurn /\ [Next]_vars => InTurn'
  BY ReadyStep, OneAtWorkStep, FollowStep, FaultsStay DEF InTurn, Without
<1> QED
  BY <1>1, <1>2, PublicationTypeCorrect, PTL DEF Spec

\* The sensor is told of files that hold what the database holds.
THEOREM SignalNeverEarly == Spec => []SignalAfterFiles
<1>1. InTurn => SignalAfterFiles
  <2> SUFFICES ASSUME InTurn, Without({"overlap"}), NEW r \in Actors, pc[r] = "signal",
                      NEW i \in 1 .. 2
               PROVE  files[<<job[r].kind, i>>] = Whole(rules[job[r].kind])
    BY DEF SignalAfterFiles, Current
  <2>1. FilesOf(r)
    BY DEF InTurn, FilesFollow
  <2>2. i = 1 \/ i = 2
    OBVIOUS
  <2> QED
    BY <2>1, <2>2 DEF FilesOf
<1> QED
  BY <1>1, InTurnHolds, PTL

-----------------------------------------------------------------------------
(* What is saved is published                                              *)

\* The files of the kind are those of the database, or its last publication threw.
Settled(k) == Current(k) \/ k \in unpublished

\* Every kind is settled, or a request, or the start, is still to publish it.
Published ==
  /\ started => \A k \in Kinds : Settled(k) \/ \E r \in Requests : Publishing(r, k)
  /\ (~ Idle(Startup) /\ job[Startup].kind = "user") => Settled("vendor")

\* The request at work is the only one that may have to publish.
LEMMA OthersPublishNothing ==
    ASSUME TypeOK, Ready, OneAtWork, Published, NEW r \in Requests, ~ Idle(r),
           NEW k \in Kinds
    PROVE  /\ started /\ Idle(Startup)
           /\ Settled(k) \/ Publishing(r, k)
<1>1. r \in Actors /\ r # Startup /\ started /\ Idle(Startup)
  BY StartupIsNoRequest DEF Ready, Serving, Actors
<1>2. \A q \in Requests : q # r => Idle(q)
  BY <1>1 DEF OneAtWork, Actors
<1> QED
  BY <1>1, <1>2 DEF Published, Publishing

\* A request has to publish its own kind only.
LEMMA PublishesItsKind ==
    ASSUME NEW r \in Requests, NEW k, Publishing(r, k) PROVE job[r].kind = k
BY StartupIsNoRequest DEF Publishing

LEMMA SavesPublished ==
    ASSUME TypeOK, Ready, OneAtWork, Published, NEW r \in Requests, Saves(r)
    PROVE  Published'
<1> DEFINE k == job[r].kind
<1>0. r \in Actors /\ r # Startup /\ pc[r] = "save" /\ ~ Idle(r)
  BY StartupIsNoRequest
     DEF Actors, Idle, Saves, SaveUpdate, SaveDeploy, SaveInsert, SaveDelete, Saved
<1>1. \A h \in Kinds : Settled(h)
  BY <1>0, OthersPublishNothing DEF Publishing
<1>2. UNCHANGED <<started, job, files, unpublished>> /\ Idle(Startup) /\ Idle(Startup)'
  <2>1. Idle(Startup) /\ "user" \in Kinds
    BY <1>0, OthersPublishNothing DEF Kinds
  <2> QED
    BY <1>0, <2>1, StartupIsNoRequest
       DEF Saves, SaveUpdate, SaveDeploy, SaveInsert, SaveDelete, Saved, Idle, TypeOK
<1>3. /\ \A h \in Kinds : h # k => rules'[h] = rules[h]
      /\ \/ rules' = rules \/ pc'[r] \in {"help", "read"}
         \/ pc'[r] = "audit" /\ job[r].op = "deploy"
  <2>1. CASE SaveUpdate(r)
    BY <1>0, <2>1 DEF SaveUpdate, Saved, TypeOK
  <2>2. CASE SaveDeploy(r)
    BY <1>0, <2>2 DEF SaveDeploy, Saved, TypeOK
  <2>3. CASE SaveInsert(r)
    BY <1>0, <2>3 DEF SaveInsert, Saved, TypeOK, Ready, JobFits
  <2>4. CASE SaveDelete(r)
    BY <1>0, <2>4 DEF SaveDelete, Saved, TypeOK, Ready, JobFits
  <2> QED
    BY <2>1, <2>2, <2>3, <2>4 DEF Saves
<1>4. \A h \in Kinds : Settled(h)' \/ Publishing(r, h)'
  <2>1. ASSUME NEW h \in Kinds, rules'[h] = rules[h] PROVE Settled(h)'
    BY <1>1, <1>2, <2>1 DEF Settled, Current
  <2>2. ASSUME NEW h \in Kinds, h = k, rules' # rules PROVE Publishing(r, h)'
    BY <1>2, <1>3, <2>2 DEF Publishing, Idle
  <2>3. CASE rules' = rules
    BY <2>1, <2>3
  <2>4. CASE rules' # rules
    <3> TAKE h \in Kinds
    <3>1. CASE h = k
      BY <2>2, <2>4, <3>1
    <3>2. CASE h # k
      BY <1>3, <2>1, <3>2
    <3> QED
      BY <3>1, <3>2
  <2> QED
    BY <2>3, <2>4
<1> QED
  BY <1>2, <1>4 DEF Published

LEMMA FilesPublished ==
    ASSUME TypeOK, Ready, OneAtWork, Published, NEW r \in Actors, FilesOf(r)',
           NEW i \in 1 .. 2, OpenFile(r, i) \/ WriteFile(r, i)
    PROVE  Published'
<1> DEFINE k == job[r].kind
<1>1. ~ Idle(r) /\ k \in Kinds /\ UNCHANGED <<started, job, rules>>
  BY DEF OpenFile, WriteFile, Idle, TypeOK
<1>2. \A h \in Kinds : h # k => Settled(h)' = Settled(h)
  <2>1. \A h \in Kinds, j \in 1 .. 2 : h # k => files'[<<h, j>>] = files[<<h, j>>]
    BY DEF OpenFile, WriteFile, TypeOK, Files
  <2>2. \A h \in Kinds : h # k => (h \in unpublished' <=> h \in unpublished)
    BY DEF OpenFile, WriteFile
  <2> QED
    BY <1>1, <2>1, <2>2 DEF Settled, Current
<1>3. pc'[r] \in {"write1", "open2", "write2", "signal"}
  BY DEF OpenFile, WriteFile, TypeOK
<1>4. pc'[r] = "signal" => Settled(k)'
  <2>1. \A j \in 1 .. 2 : j = 1 \/ j = 2
    OBVIOUS
  <2> QED
    BY <1>1, <2>1 DEF FilesOf, Current, Settled
<1>5. CASE r = Startup
  <2>1. ~ started
    BY <1>1, <1>5 DEF Ready, Serving
  <2>2. k = "user" => Settled("vendor")'
    BY <1>1, <1>2, <1>5 DEF Published, Kinds
  <2> QED
    BY <1>1, <1>5, <2>1, <2>2 DEF Published
<1>6. CASE r # Startup
  <2>1. r \in Requests
    BY <1>6 DEF Actors
  <2>2. Idle(Startup) /\ \A h \in Kinds : h # k => Settled(h)
    BY <1>1, <2>1, OthersPublishNothing, PublishesItsKind
  <2>3. Idle(Startup)'
    BY <1>6, <2>2, StartupIsNoRequest DEF Idle, OpenFile, WriteFile, TypeOK
  <2>4. \A h \in Kinds : Settled(h)' \/ Publishing(r, h)'
    BY <1>1, <1>2, <1>3, <1>4, <2>2 DEF Publishing, Idle
  <2> QED
    BY <2>1, <2>3, <2>4 DEF Published
<1> QED
  BY <1>5, <1>6

LEMMA SignalPublished ==
    ASSUME TypeOK, Ready, OneAtWork, Published, NEW r \in Actors, FilesOf(r),
           ExecPolicyCommand(r)
    PROVE  Published'
<1> DEFINE k == job[r].kind
<1>1. /\ pc[r] = "signal" /\ k \in Kinds /\ UNCHANGED <<rules, files, unpublished>>
      /\ \A h \in Kinds : Settled(h)' = Settled(h)
  BY DEF ExecPolicyCommand, TypeOK, Settled, Current
<1>2. Settled(k)
  <2>1. \A j \in 1 .. 2 : j = 1 \/ j = 2
    OBVIOUS
  <2> QED
    BY <1>1, <2>1 DEF FilesOf, Current, Settled
<1>3. CASE r = Startup /\ k = "vendor"
  <2>1. ~ started /\ ~ started'
    BY <1>1, <1>3 DEF Ready, Serving, Idle, ExecPolicyCommand
  <2> QED
    BY <1>1, <1>2, <1>3, <2>1 DEF Published
<1>4. CASE r = Startup /\ k # "vendor"
  <2>1. k = "user" /\ Settled("vendor")
    BY <1>1, <1>4 DEF Published, Idle, Kinds
  <2>2. \A h \in Kinds : Settled(h)'
    BY <1>1, <1>2, <2>1 DEF Kinds
  <2> QED
    BY <2>2 DEF Published, Kinds
<1>5. CASE r # Startup
  <2>1. r \in Requests /\ ~ Idle(r)
    BY <1>1, <1>5 DEF Actors, Idle
  <2>2. \A h \in Kinds : Settled(h)
    BY <1>1, <1>2, <2>1, OthersPublishNothing, PublishesItsKind
  <2> QED
    BY <1>1, <2>2 DEF Published, Kinds
<1> QED
  BY <1>3, <1>4, <1>5

\* A step that throws leaves its kind, and the start also the next, unpublished.
LEMMA FailurePublished ==
    ASSUME TypeOK, Ready, OneAtWork, Published, NEW r \in Actors, FilesOf(r), StepFails(r)
    PROVE  Published'
<1> DEFINE k == job[r].kind
<1>1. /\ ~ Idle(r) /\ k \in Kinds /\ UNCHANGED <<rules, files, job>>
      /\ \A h \in Kinds : Settled(h) => Settled(h)'
      /\ \A h \in Kinds : Publishing(r, h) => Settled(h)'
  <2>1. pc[r] # "idle"
    BY DEF StepFails, StepOf, TypeOK, Faults
  <2>2. unpublished' = unpublished \cup {h \in Kinds : Publishing(r, h)}
        /\ UNCHANGED <<rules, files, job>>
    BY DEF StepFails
  <2> QED
    BY <2>1, <2>2 DEF Settled, Current, Idle, TypeOK
<1>2. CASE r = Startup
  <2>1. pc[r] \in {"read", "open1", "write1", "open2", "write2", "signal"}
    BY <1>1, <1>2 DEF Ready, JobFits, TypeOK, Idle
  <2>2. Settled(k)'
    <3>1. CASE pc[r] = "signal"
      <4>1. \A j \in 1 .. 2 : j = 1 \/ j = 2
        OBVIOUS
      <4>2. Settled(k)
        BY <3>1, <4>1 DEF FilesOf, Current, Settled
      <4> QED
        BY <1>1, <4>2
    <3>2. CASE pc[r] # "signal"
      BY <1>1, <2>1, <3>2 DEF Publishing
    <3> QED
      BY <3>1, <3>2
  <2>3. k = "vendor" => Settled("user")'
    BY <1>1, <1>2 DEF Publishing, Kinds
  <2>4. k = "user" => Settled("vendor")'
    BY <1>1, <1>2 DEF Published, Kinds
  <2>5. \A h \in Kinds : Settled(h)'
    BY <1>1, <2>2, <2>3, <2>4 DEF Kinds
  <2> QED
    BY <2>5 DEF Published, Kinds
<1>3. CASE r # Startup
  <2>1. r \in Requests
    BY <1>3 DEF Actors
  <2>2. \A h \in Kinds : Settled(h)'
    BY <1>1, <2>1, OthersPublishNothing
  <2> QED
    BY <2>2 DEF Published, Kinds
<1> QED
  BY <1>2, <1>3

LEMMA PublishedStep ==
    ASSUME TypeOK, Ready, OneAtWork, FilesFollow, Published, Without({"overlap"}),
           [Next]_vars, FilesFollow'
    PROVE  Published'
<1>1. CASE UNCHANGED vars
  BY <1>1 DEF vars, Published, Settled, Current, Publishing, Idle
<1>2. ASSUME NEW r \in Requests, Comes(r) PROVE Published'
  <2>1. PICK o, k, c : Begin(r, o, k, c)
    BY <1>2 DEF Comes, UpdateRule, DeployRule, InsertRule, DeleteRule
  <2>2. \A q \in Actors : Idle(q)
    BY <1>2, BeginQuiet DEF Without
  <2>3. \A h \in Kinds : Settled(h)
    BY <2>1, <2>2 DEF Begin, Published, Publishing, Actors
  <2>4. \A h \in Kinds : Settled(h)'
    BY <2>1, <2>3 DEF Begin, Settled, Current
  <2> QED
    BY <2>4 DEF Published, Kinds
<1>3. ASSUME NEW r \in Actors, Saves(r) PROVE Published'
  <2>1. r \in Requests
    BY <1>3 DEF Saves, SaveUpdate, SaveDeploy, SaveInsert, SaveDelete, Actors,
                Ready, JobFits, Saved
  <2> QED
    BY <1>3, <2>1, SavesPublished
<1>4. ASSUME NEW r \in Actors, SaveHelp(r) \/ InsertAuditLog(r) \/ SelectWritePolicy(r)
      PROVE  Published'
  <2>1. /\ UNCHANGED <<rules, files, unpublished, job, started>>
        /\ \A h \in Kinds : Settled(h)' = Settled(h)
    BY <1>4 DEF SaveHelp, InsertAuditLog, SelectWritePolicy, Settled, Current
  <2>2. \A q \in Actors : Idle(q) => Idle(q)'
    BY <1>4 DEF SaveHelp, InsertAuditLog, SelectWritePolicy, Idle, TypeOK
  <2>3. \A q \in Actors, h \in Kinds : Publishing(q, h) => Publishing(q, h)'
    <3>1. \A q \in Actors : q # r => pc'[q] = pc[q]
      BY <1>4 DEF SaveHelp, InsertAuditLog, SelectWritePolicy, TypeOK
    <3>2. \/ pc'[r] \in {"read", "open1"}
          \/ pc[r] = "audit" /\ job[r].op # "deploy"
      BY <1>4 DEF SaveHelp, InsertAuditLog, SelectWritePolicy, TypeOK
    <3>3. r = Startup => pc[r] # "audit"
      BY DEF Ready, JobFits
    <3>4. \A h \in Kinds : Publishing(r, h) => Publishing(r, h)'
      BY <2>1, <3>2, <3>3 DEF Publishing, Idle
    <3>5. \A q \in Actors, h \in Kinds :
            q # r => (Publishing(q, h) => Publishing(q, h)')
      BY <2>1, <3>1 DEF Publishing, Idle
    <3> QED
      BY <3>4, <3>5
  <2> QED
    BY <2>1, <2>2, <2>3, StartupIsNoRequest DEF Published, Actors, Kinds
<1>5. ASSUME NEW r \in Actors, NEW i \in 1 .. 2, OpenFile(r, i) \/ WriteFile(r, i)
      PROVE  Published'
  BY <1>5, FilesPublished DEF FilesFollow
<1>6. ASSUME NEW r \in Actors, ExecPolicyCommand(r) PROVE Published'
  BY <1>6, SignalPublished DEF FilesFollow
<1>7. ASSUME NEW r \in Actors, StepFails(r) PROVE Published'
  BY <1>7, FailurePublished DEF FilesFollow
<1>8. CASE Crash
  BY <1>8, StartupIsNoRequest DEF Crash, Published, Idle
<1>9. CASE Restart
  BY <1>9, StartupIsNoRequest DEF Restart, Published, StartupJob, Ready, Serving, TypeOK
<1>10. CASE Sensing \/ SensorDies
  BY <1>10 DEF Sensing, SensorStarts, SensorWakes, SensorLoads, SensorDies,
               Published, Settled, Current, Publishing, Idle
<1> QED
  BY <1>1, <1>2, <1>3, <1>4, <1>5, <1>6, <1>7, <1>8, <1>9, <1>10 DEF Next, Step, Saves

\* When nothing is under way the files of a kind are those of the database, also
\* after crashes and failures, unless the last publication of the kind threw.
THEOREM SavedIsPublished == Spec => []QuietFilesCurrent
<1> DEFINE Inv == Without({"overlap"}) => Published
<1>1. Init => Inv
  BY StartupIsNoRequest DEF Init, Published, StartupJob
<1>2. TypeOK /\ InTurn /\ InTurn' /\ Inv /\ [Next]_vars => Inv'
  <2> SUFFICES ASSUME TypeOK, InTurn, InTurn', Without({"overlap"}), Published,
                      [Next]_vars
               PROVE  Published'
    BY FaultsStay DEF Without
  <2>1. Without({"overlap"})'
    BY FaultsStay DEF Without
  <2> QED
    BY <2>1, PublishedStep DEF InTurn
<1>3. Inv => QuietFilesCurrent
  BY DEF Published, Publishing, Settled, QuietFilesCurrent, Actors
<1> QED
  BY <1>1, <1>2, <1>3, InTurnHolds, PTL DEF Spec

-----------------------------------------------------------------------------
(* Codes of new rules                                                      *)

\* Every code that was ever used is covered by one in the table.
UsedCovered == \A u \in used : u <= UserBase \/ \E c \in Codes("user") : u <= c

CodeAhead(r) ==
  job[r].op = "insert" =>
    job[r].code > UserBase /\ \A c \in Codes("user") : c < job[r].code

NotTheNewest(r) ==
  job[r].op = "delete" =>
    job[r].code <= UserBase \/ \E c \in Codes("user") : c > job[r].code

CodesHold ==
  UsedCovered /\ \A r \in Requests : pc[r] = "save" => CodeAhead(r) /\ NotTheNewest(r)

LEMMA CodesKept ==
    ASSUME TypeOK, NEW k \in Kinds, NEW c,
           rules' = [rules EXCEPT ![k] = WithText(k, c)]
    PROVE  Codes("user")' = Codes("user")
<1>1. {x.code : x \in WithText(k, c)} = {x.code : x \in rules[k]}
  <2>1. ASSUME NEW x \in WithText(k, c) PROVE \E y \in rules[k] : y.code = x.code
    <3>1. PICK y \in rules[k] : x = IF y.code = c THEN [code |-> c, text |-> saves] ELSE y
      BY DEF WithText
    <3> QED
      BY <3>1
  <2>2. ASSUME NEW y \in rules[k] PROVE \E x \in WithText(k, c) : x.code = y.code
    <3> DEFINE x == IF y.code = c THEN [code |-> c, text |-> saves] ELSE y
    <3>1. x \in WithText(k, c)
      BY DEF WithText
    <3>2. x.code = y.code
      OBVIOUS
    <3> QED
      BY <3>1, <3>2
  <2> QED
    BY <2>1, <2>2
<1>2. \A h \in Kinds : rules'[h] = IF h = k THEN WithText(k, c) ELSE rules[h]
  BY DEF TypeOK
<1> QED
  BY <1>1, <1>2 DEF Codes, Kinds

LEMMA SavesCover ==
    ASSUME TypeOK, CodesHold, NEW r \in Requests, Saves(r) PROVE UsedCovered'
<1> DEFINE c == job[r].code
<1>0. "user" \in Kinds /\ r \in Actors /\ c \in Nat /\ job[r].kind \in Kinds
  BY DEF Kinds, Actors, TypeOK
<1>1. Codes("user") \subseteq Nat /\ used \subseteq Nat
  BY <1>0, CodesType DEF TypeOK
<1>2. CodeAhead(r) /\ NotTheNewest(r)
  BY DEF CodesHold, Saves, SaveUpdate, SaveDeploy, SaveInsert, SaveDelete, Saved
<1>3. CASE SaveUpdate(r) \/ SaveDeploy(r)
  <2>1. used' = used
    BY <1>3 DEF SaveUpdate, SaveDeploy
  <2>2. rules' = rules \/ rules' = [rules EXCEPT ![job[r].kind] = WithText(job[r].kind, c)]
    BY <1>3 DEF SaveUpdate, SaveDeploy
  <2>3. Codes("user")' = Codes("user")
    BY <1>0, <2>2, CodesKept DEF Codes
  <2> QED
    BY <2>1, <2>3 DEF CodesHold, UsedCovered
<1>4. CASE SaveInsert(r)
  <2>1. CASE UNCHANGED <<rules, used>>
    BY <2>1 DEF CodesHold, UsedCovered, Codes
  <2>2. CASE ~ UNCHANGED <<rules, used>>
    <3>1. used' = used \cup {c}
      BY <1>4, <2>2 DEF SaveInsert
    <3>2. rules'["user"] = rules["user"] \cup {[code |-> c, text |-> saves]}
      BY <1>0, <1>4, <2>2 DEF SaveInsert, TypeOK
    <3>3. Codes("user")' = Codes("user") \cup {c}
      <4>1. [code |-> c, text |-> saves].code = c
        OBVIOUS
      <4> QED
        BY <3>2, <4>1 DEF Codes
    <3> QED
      BY <1>0, <1>1, <3>1, <3>3 DEF CodesHold, UsedCovered
  <2> QED
    BY <2>1, <2>2
<1>5. CASE SaveDelete(r)
  <2>1. used' = used /\ job[r].op = "delete"
    BY <1>5 DEF SaveDelete
  <2>2. rules'["user"] = {x \in rules["user"] : x.code # c}
    BY <1>0, <1>5 DEF SaveDelete, TypeOK
  <2>3. Codes("user")' = Codes("user") \ {c}
    BY <2>2 DEF Codes
  <2>4. SUFFICES ASSUME NEW u \in used, u > UserBase
                 PROVE  \E d \in Codes("user") \ {c} : u <= d
    <3>1. \A u \in used : ~ (u <= UserBase) => u > UserBase
      BY <1>1 DEF UserBase
    <3> QED
      BY <2>1, <2>3, <3>1 DEF UsedCovered
  <2>5. PICK d \in Codes("user") : u <= d
    BY <1>1, <2>4 DEF CodesHold, UsedCovered, UserBase
  <2>6. CASE d # c
    BY <2>5, <2>6
  <2>7. CASE d = c
    BY <1>0, <1>1, <1>2, <2>1, <2>4, <2>5, <2>7 DEF NotTheNewest, UserBase
  <2> QED
    BY <2>6, <2>7
<1> QED
  BY <1>3, <1>4, <1>5 DEF Saves

LEMMA BeginsWell ==
    ASSUME TypeOK, Without({"newest", "overlap"}), NEW r \in Requests, Comes(r)
    PROVE  CodeAhead(r)' /\ NotTheNewest(r)'
<1>0. r \in Actors /\ "user" \in Kinds /\ Codes("user") \subseteq Nat
  BY CodesType DEF Actors, Kinds
<1>1. CASE UpdateRule(r) \/ DeployRule(r)
  <2>1. job'[r].op \in {"update", "deploy"}
    BY <1>0, <1>1 DEF UpdateRule, DeployRule, Begin, TypeOK
  <2> QED
    BY <2>1 DEF CodeAhead, NotTheNewest
<1>2. CASE InsertRule(r)
  <2>1. PICK n \in 1 .. UserBase + MaxSaves + 1 :
          UserSignatureIndex(n) /\ Begin(r, "insert", "user", n)
    BY <1>2 DEF InsertRule
  <2>2. job'[r] = [op |-> "insert", kind |-> "user", code |-> n] /\ rules' = rules
    BY <1>0, <2>1 DEF Begin, TypeOK
  <2> QED
    BY <2>1, <2>2 DEF CodeAhead, NotTheNewest, UserSignatureIndex, Codes
<1>3. CASE DeleteRule(r)
  <2>1. PICK c \in Codes("user") :
          /\ (c > UserBase /\ UserSignatureIndex(c + 1)) => "newest" \in faults
          /\ Begin(r, "delete", "user", c)
    BY <1>3 DEF DeleteRule
  <2>2. job'[r] = [op |-> "delete", kind |-> "user", code |-> c] /\ rules' = rules
    BY <1>0, <2>1 DEF Begin, TypeOK
  <2>3. c <= UserBase \/ \E d \in Codes("user") : d > c
    <3>1. c \in Nat
      BY <1>0
    <3>2. c > UserBase => ~ UserSignatureIndex(c + 1)
      BY <2>1 DEF Without
    <3> QED
      BY <1>0, <3>1, <3>2 DEF UserSignatureIndex, UserBase
  <2> QED
    BY <2>2, <2>3 DEF CodeAhead, NotTheNewest, Codes
<1> QED
  BY <1>1, <1>2, <1>3 DEF Comes

LEMMA CodesStep ==
    ASSUME TypeOK, Ready, OneAtWork, CodesHold, Without({"newest", "overlap"}), [Next]_vars
    PROVE  CodesHold'
<1>1. ASSUME UNCHANGED <<rules, used>>,
             \A q \in Requests : pc'[q] = "save" => pc[q] = "save" /\ job'[q] = job[q]
      PROVE  CodesHold'
  BY <1>1 DEF CodesHold, UsedCovered, CodeAhead, NotTheNewest, Codes
<1>2. CASE UNCHANGED vars
  BY <1>1, <1>2 DEF vars
<1>3. ASSUME NEW r \in Requests, Comes(r) PROVE CodesHold'
  <2>1. \A q \in Requests : q # r => pc'[q] # "save"
    BY <1>3, BeginQuiet DEF Without, TypeOK, Idle, Actors
  <2>2. UNCHANGED <<rules, used>>
    BY <1>3 DEF Comes, UpdateRule, DeployRule, InsertRule, DeleteRule, Begin
  <2> QED
    BY <1>3, <2>1, <2>2, BeginsWell DEF CodesHold, UsedCovered, Codes
<1>4. ASSUME NEW r \in Actors, Saves(r) PROVE CodesHold'
  <2>1. r \in Requests
    BY <1>4 DEF Saves, SaveUpdate, SaveDeploy, SaveInsert, SaveDelete, Actors,
                Ready, JobFits, Saved
  <2>2. pc'[r] # "save"
    BY <1>4 DEF Saves, SaveUpdate, SaveDeploy, SaveInsert, SaveDelete, Saved, TypeOK
  <2>3. \A q \in Requests : q # r => pc'[q] # "save"
    BY <1>4, StepLocal DEF Step, Saves, OneAtWork, Idle, Actors
  <2> QED
    BY <1>4, <2>1, <2>2, <2>3, SavesCover DEF CodesHold
<1>5. ASSUME NEW r \in Actors, Step(r), ~ Saves(r) PROVE CodesHold'
  <2>1. pc'[r] # "save" /\ UNCHANGED <<rules, used>>
    <3>1. CASE SaveHelp(r) \/ InsertAuditLog(r) \/ SelectWritePolicy(r)
               \/ ExecPolicyCommand(r) \/ StepFails(r)
      BY <3>1 DEF SaveHelp, InsertAuditLog, SelectWritePolicy, ExecPolicyCommand,
                  StepFails, TypeOK
    <3>2. ASSUME NEW i \in 1 .. 2, OpenFile(r, i) \/ WriteFile(r, i)
          PROVE  pc'[r] # "save" /\ UNCHANGED <<rules, used>>
      BY <3>2 DEF OpenFile, WriteFile, TypeOK
    <3> QED
      BY <1>5, <3>1, <3>2 DEF Step, Saves
  <2> QED
    BY <1>1, <1>5, <2>1, StepLocal DEF Actors
<1>6. CASE Crash \/ Restart
  <2>1. \A q \in Requests : q # Startup
    BY StartupIsNoRequest
  <2> QED
    BY <1>1, <1>6, <2>1 DEF Crash, Restart, TypeOK, Actors
<1>7. CASE Sensing \/ SensorDies
  BY <1>1, <1>7 DEF Sensing, SensorStarts, SensorWakes, SensorLoads, SensorDies
<1> QED
  BY <1>2, <1>3, <1>4, <1>5, <1>6, <1>7 DEF Next

\* A rule that is put in has a code that no rule has or ever had.
THEOREM NewRuleNewCode == Spec => []NewCodeIsNew
<1> DEFINE Inv == Without({"newest", "overlap"}) => CodesHold
<1>1. Init => Inv
  BY StartupIsNoRequest DEF Init, CodesHold, UsedCovered, UserBase, Actors
<1>2. TypeOK /\ InTurn /\ Inv /\ [Next]_vars => Inv'
  BY CodesStep, FaultsStay DEF InTurn, Without
<1>3. TypeOK /\ Inv => NewCodeIsNew
  <2> SUFFICES ASSUME TypeOK, CodesHold, NEW r \in Requests, pc[r] = "save",
                      job[r].op = "insert"
               PROVE  job[r].code \notin used \cup Codes("user")
    BY DEF NewCodeIsNew
  <2>1. /\ job[r].code \in Nat /\ used \subseteq Nat
        /\ "user" \in Kinds /\ Codes("user") \subseteq Nat
    BY CodesType DEF TypeOK, Actors, Kinds
  <2> QED
    BY <2>1 DEF CodesHold, UsedCovered, CodeAhead, UserBase
<1> QED
  BY <1>1, <1>2, <1>3, InTurnHolds, PTL DEF Spec
=============================================================================
