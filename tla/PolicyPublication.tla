------------------------- MODULE PolicyPublication -------------------------
(***************************************************************************)
(* How a detection rule an administrator saves reaches the sensor:         *)
(* DetectionPolicyController and DetectionPolicyService change the row,    *)
(* read all rules of its kind, decrypt them and write them to two policy   *)
(* files (FileUtil.writePolicy), and execPolicyCommand sends the sensor a  *)
(* SIGUSR1.  No step of this is in a transaction or under a lock, and      *)
(* InitServlet does it once for all kinds when the console starts.         *)
(*                                                                         *)
(* The rules of Yara, the exceptions and the networks go the same way with *)
(* one file each; they are left out.  A rule's text is the number of the   *)
(* save that wrote it.  The sensor, a program of its own, reads its files  *)
(* when it starts and when it gets the signal.                             *)
(***************************************************************************)
EXTENDS Integers, FiniteSets, SequencesExt

CONSTANTS
  Requests,   \* the requests that may be under way at once
  MaxSaves,   \* how many requests are made in a run
  MaxCrashes, \* how often the console, and how often the sensor, may die
  FaultSets   \* what may go wrong, run by run: sets of Faults

(***************************************************************************)
(* "overlap": two requests at a time.  "newest": the rule with the highest *)
(* code is deleted.  "cipher": a rule cannot be decrypted, as another      *)
(* request decrypts (SharedCipher.tla).  "statement": the row is not        *)
(* written, or the class of a rule is gone or its help row fails after it. *)
(* "audit", "disk", "signal": the audit row, a file or the command fails.  *)
(* "crash": the console dies.  "sensor": the sensor dies.  "asleep": the   *)
(* sensor is never started.                                                *)
(***************************************************************************)
Faults == {"overlap", "newest", "cipher", "statement", "audit", "disk", "signal",
           "crash", "sensor", "asleep"}

ASSUME SavesAssumption == MaxSaves \in Nat /\ MaxCrashes \in Nat
ASSUME FaultSetsAssumption == FaultSets \subseteq SUBSET Faults
ASSUME RequestsAssumption == "startup" \notin Requests

Kinds   == {"vendor", "user"}
Programs == {"console", "sensor"}
Startup == "startup"               \* InitServlet, which publishes as well
Actors  == Requests \cup {Startup}
Files   == Kinds \X (1 .. 2)       \* signatures and responses of each kind
UserBase == 1                      \* 1000000: the codes above are made here
Cut == [state |-> "cut", rules |-> {}]  \* a file that was just opened

VARIABLES
  faults,   \* what may go wrong in this run: rigid
  rules,    \* the rows of POLICY_SIGNATURE and POLICY_USERSIG
  used,     \* history: the codes user rules have had
  unpublished, \* history: the kinds the last try to publish has failed for
  saves,    \* the requests made so far, the last text
  up,       \* is the console up?
  started,  \* has InitServlet come past the policy files?
  pc,       \* the next step of each request
  job,      \* what the request is about: its operation, kind and code
  snap,     \* the rules it has read
  files,    \* the policy files
  sensor,   \* "up" or "down"
  signal,   \* is a SIGUSR1 pending?
  toLoad,   \* the files the sensor still has to read
  loaded,   \* what it has read
  deaths    \* of the console and the sensor: bounded

vars == <<faults, rules, used, unpublished, saves, up, started, pc, job, snap, files,
          sensor, signal, toLoad, loaded, deaths>>
table    == <<rules, used, unpublished>>
console  == <<up, started>>
sensing  == <<sensor, signal, toLoad, loaded>>

StartupJob(k) == [op |-> "startup", kind |-> k, code |-> 0]
Codes(k) == {x.code : x \in rules[k]}
Idle(r)  == pc[r] = "idle"

(* The request r has still to publish the rules of kind k. *)
Publishing(r, k) ==
  /\ ~ Idle(r)
  /\ \/ /\ job[r].kind = k
        /\ \/ pc[r] \in {"help", "read", "open1", "write1", "open2", "write2"}
           \/ pc[r] = "audit" /\ job[r].op = "deploy"
     \/ r = Startup /\ job[r].kind = "vendor" /\ k = "user"

Whole(rs) == [state |-> "whole", rules |-> rs]

FileOrder == << <<"vendor", 1>>, <<"vendor", 2>>, <<"user", 1>>, <<"user", 2>> >>

----------------------------------------------------------------------------
Init ==
  /\ faults \in FaultSets
  /\ rules = [k \in Kinds |-> {[code |-> 1, text |-> 0]}]
  /\ used = {1} /\ unpublished = {} /\ saves = 0
  /\ up = TRUE /\ started = FALSE
  /\ pc = [r \in Actors |-> IF r = Startup THEN "read" ELSE "idle"]
  /\ job = [r \in Actors |-> StartupJob("vendor")]
  /\ snap = [r \in Actors |-> {}]
  /\ files = [f \in Files |-> Cut]
  /\ sensor = "down" /\ signal = FALSE /\ toLoad = <<>>
  /\ loaded = [f \in Files |-> Cut]
  /\ deaths = [program \in Programs |-> 0]

(* selectUserSignatureIndex: one above the highest code, and above the     *)
(* codes of the vendor's user rules. *)
UserSignatureIndexCount(n) == n = Cardinality(rules["user"]) + 1  \* (mutant: counts)
UserSignatureIndex(n) ==
  /\ n > UserBase /\ \A c \in Codes("user") : c < n
  /\ n = UserBase + 1 \/ n - 1 \in Codes("user")

(***************************************************************************)
(* A request comes in, to any thread that is idle.  An insert takes its    *)
(* code first; the others name a rule of the list in the browser.          *)
(***************************************************************************)
Begin(r, o, k, c) ==
  /\ up /\ started /\ saves < MaxSaves
  /\ Idle(r) /\ r = CHOOSE q \in Requests : Idle(q)
  /\ (\E q \in Requests : ~ Idle(q)) => "overlap" \in faults
  /\ saves' = saves + 1
  /\ job' = [job EXCEPT ![r] = [op |-> o, kind |-> k, code |-> c]]
  /\ pc' = [pc EXCEPT ![r] = "save"]
  /\ UNCHANGED <<faults, table, console, snap, files, sensing, deaths>>

UpdateRule(r) == \E k \in Kinds : \E c \in Codes(k) : Begin(r, "update", k, c)
DeployRule(r) == \E k \in Kinds : \E c \in Codes(k) : Begin(r, "deploy", k, c)
InsertRule(r) ==
  \E n \in 1 .. UserBase + MaxSaves + 1 :
    UserSignatureIndex(n) /\ Begin(r, "insert", "user", n)
DeleteRule(r) ==
  \E c \in Codes("user") :
    /\ (c > UserBase /\ UserSignatureIndex(c + 1)) => "newest" \in faults
    /\ Begin(r, "delete", "user", c)

(* The row of the job with the text of this save, if there is one. *)
WithText(k, c) == {IF x.code = c THEN [code |-> c, text |-> saves] ELSE x : x \in rules[k]}

Saved(r, next) ==
  /\ pc[r] = "save"
  /\ pc' = [pc EXCEPT ![r] = next]
  /\ UNCHANGED <<faults, unpublished, saves, console, job, snap, files, sensing,
                 deaths>>

(* updateDetectionPolicy, updateUserSignatureDetail: a form that says what  *)
(* the row says is not written and not published; without a row it fails.   *)
SaveUpdate(r) ==
  LET j == job[r]
  IN /\ j.op = "update"
     /\ \/ /\ j.code \in Codes(j.kind)
           /\ Saved(r, IF j.kind = "user" THEN "help" ELSE "read")
           /\ rules' = [rules EXCEPT ![j.kind] = WithText(j.kind, j.code)]
        \/ Saved(r, "idle") /\ UNCHANGED rules
     /\ UNCHANGED used

(* updateIntrusionDetectionResponse writes the row whatever it says. *)
SaveDeploy(r) ==
  LET j == job[r]
  IN /\ j.op = "deploy" /\ Saved(r, "audit")
     /\ rules' = [rules EXCEPT ![j.kind] = WithText(j.kind, j.code)]
     /\ UNCHANGED used

(* insertUserSignature: the code is the key of the table. *)
SaveInsert(r) ==
  LET c == job[r].code
  IN /\ job[r].op = "insert"
     /\ IF c \in Codes("user") THEN Saved(r, "idle") /\ UNCHANGED table
        ELSE /\ Saved(r, "help")
             /\ rules' = [rules EXCEPT !["user"] = @ \cup {[code |-> c, text |-> saves]}]
             /\ used' = used \cup {c}

SaveDelete(r) ==
  /\ job[r].op = "delete" /\ Saved(r, "help")
  /\ rules' = [rules EXCEPT !["user"] = {x \in @ : x.code # job[r].code}]
  /\ UNCHANGED used

(* The row of SYSTEM_SIGHELP a rule of the user has, under the name of its  *)
(* class, which selectSclassTypeName reads. *)
SaveHelp(r) ==
  /\ pc[r] = "help"
  /\ pc' = [pc EXCEPT ![r] = "read"]
  /\ UNCHANGED <<faults, table, saves, console, job, snap, files, sensing, deaths>>

(* The audit row: for a deployment between the row and the files. *)
InsertAuditLog(r) ==
  /\ pc[r] = "audit"
  /\ pc' = [pc EXCEPT ![r] = IF job[r].op = "deploy" THEN "read" ELSE "idle"]
  /\ UNCHANGED <<faults, table, saves, console, job, snap, files, sensing, deaths>>

(* writeVendorSignature, writeUserSignature: all rows of the kind, and     *)
(* ruleDescript decrypts them. *)
SelectWritePolicy(r) ==
  /\ pc[r] = "read"
  /\ snap' = [snap EXCEPT ![r] = rules[job[r].kind]]
  /\ pc' = [pc EXCEPT ![r] = "open1"]
  /\ UNCHANGED <<faults, table, saves, console, job, files, sensing, deaths>>

(* fileWrite: the stream cuts the file, then the text is written at once.  *)
OpenFile(r, i) ==
  /\ pc[r] = <<"open1", "open2">>[i]
  /\ files' = [files EXCEPT ![<<job[r].kind, i>>] = Cut]
  /\ pc' = [pc EXCEPT ![r] = <<"write1", "write2">>[i]]
  /\ UNCHANGED <<faults, table, saves, console, job, snap, sensing, deaths>>

(* Over a text that another request has written meanwhile a shorter one    *)
(* leaves the end of the longer. *)
WriteFileLast(r, i) ==  \* (mutant: the responses are not written)
  LET f == <<job[r].kind, i>>
  IN /\ pc[r] = <<"write1", "write2">>[i]
     /\ files' = [files EXCEPT ![f] = Whole(snap[r])]
     /\ pc' = [pc EXCEPT ![r] = "signal"]
     /\ unpublished' = unpublished \ {job[r].kind}
     /\ UNCHANGED <<faults, rules, used, saves, console, job, snap, sensing, deaths>>
WriteFile(r, i) ==
  LET f == <<job[r].kind, i>>
  IN /\ pc[r] = <<"write1", "write2">>[i]
     /\ \/ files' = [files EXCEPT ![f] = Whole(snap[r])]
        \/ /\ files[f].state # "cut"
           /\ files' = [files EXCEPT ![f] = [state |-> "mixed", rules |-> snap[r]]]
     /\ pc' = [pc EXCEPT ![r] = <<"open2", "signal">>[i]]
     /\ unpublished' = IF i = 2 THEN unpublished \ {job[r].kind} ELSE unpublished
     /\ UNCHANGED <<faults, rules, used, saves, console, job, snap, sensing, deaths>>

(***************************************************************************)
(* execPolicyCommand: pidof and kill.  InitServlet goes on with the user's *)
(* rules, and then with the rest of the start.                             *)
(***************************************************************************)
ExecPolicyCommandMute(r) ==  \* (mutant: kill is not reached)
  /\ pc[r] = "signal"
  /\ IF r = Startup /\ job[r].kind = "vendor"
     THEN /\ pc' = [pc EXCEPT ![r] = "read"]
          /\ job' = [job EXCEPT ![r] = StartupJob("user")] /\ UNCHANGED started
     ELSE /\ pc' = [pc EXCEPT ![r] =
               IF job[r].op \in {"deploy", "startup"} THEN "idle" ELSE "audit"]
          /\ started' = (started \/ r = Startup) /\ UNCHANGED job
  /\ UNCHANGED <<faults, table, saves, up, snap, files, sensing, deaths>>
ExecPolicyCommand(r) ==
  /\ pc[r] = "signal"
  /\ signal' = (signal \/ sensor = "up")
  /\ IF r = Startup /\ job[r].kind = "vendor"
     THEN /\ pc' = [pc EXCEPT ![r] = "read"]
          /\ job' = [job EXCEPT ![r] = StartupJob("user")]
          /\ UNCHANGED started
     ELSE /\ pc' = [pc EXCEPT ![r] =
               IF job[r].op \in {"deploy", "startup"} THEN "idle" ELSE "audit"]
          /\ started' = (started \/ r = Startup)
          /\ UNCHANGED job
  /\ UNCHANGED <<faults, table, saves, up, snap, files, sensor, toLoad, loaded, deaths>>

(***************************************************************************)
(* A step throws: the controllers log it and answer as always, InitServlet *)
(* leaves out the rest of the start, after which requests are served.      *)
(***************************************************************************)
StepOf(r) ==
  CASE pc[r] \in {"save", "help"} -> "statement"
    [] pc[r] = "audit" -> "audit"
    [] pc[r] = "open1" -> "cipher"
    [] pc[r] \in {"write1", "write2"} -> "disk"
    [] pc[r] = "signal" -> "signal"
    [] OTHER -> "none"

StepFails(r) ==
  /\ StepOf(r) \in faults
  /\ pc' = [pc EXCEPT ![r] = "idle"]
  /\ started' = TRUE
  /\ unpublished' = unpublished \cup {k \in Kinds : Publishing(r, k)}
  /\ UNCHANGED <<faults, rules, used, saves, up, job, snap, files, sensing, deaths>>

Crash ==
  /\ "crash" \in faults /\ up /\ deaths["console"] < MaxCrashes
  /\ up' = FALSE /\ started' = FALSE
  /\ pc' = [r \in Actors |-> "idle"]
  /\ deaths' = [deaths EXCEPT !["console"] = @ + 1]
  /\ UNCHANGED <<faults, table, saves, job, snap, files, sensing>>

RestartUserOnly ==  \* (mutant of Restart: starts with the user's rules)
  /\ ~ up /\ up' = TRUE
  /\ pc' = [pc EXCEPT ![Startup] = "read"]
  /\ job' = [job EXCEPT ![Startup] = StartupJob("user")]
  /\ UNCHANGED <<faults, table, saves, started, snap, files, sensing, deaths>>
Restart ==
  /\ ~ up /\ up' = TRUE
  /\ pc' = [pc EXCEPT ![Startup] = "read"]
  /\ job' = [job EXCEPT ![Startup] = StartupJob("vendor")]
  /\ UNCHANGED <<faults, table, saves, started, snap, files, sensing, deaths>>

----------------------------------------------------------------------------
(* The sensor, as the console counts on it. *)

SensorStarts ==
  /\ sensor = "down" /\ "asleep" \notin faults /\ sensor' = "up"
  /\ signal' = FALSE /\ toLoad' = FileOrder
  /\ UNCHANGED <<faults, table, saves, console, pc, job, snap, files, loaded, deaths>>

SensorWakes ==
  /\ sensor = "up" /\ signal /\ toLoad = <<>>
  /\ signal' = FALSE /\ toLoad' = FileOrder
  /\ UNCHANGED <<faults, table, saves, console, pc, job, snap, files, sensor, loaded,
                 deaths>>

SensorLoads ==
  /\ toLoad # <<>>
  /\ loaded' = [loaded EXCEPT ![Head(toLoad)] = files[Head(toLoad)]]
  /\ toLoad' = Tail(toLoad)
  /\ UNCHANGED <<faults, table, saves, console, pc, job, snap, files, sensor, signal,
                 deaths>>

SensorDies ==
  /\ "sensor" \in faults /\ sensor = "up" /\ deaths["sensor"] < MaxCrashes
  /\ sensor' = "down" /\ signal' = FALSE /\ toLoad' = <<>>
  /\ loaded' = [f \in Files |-> Cut]
  /\ deaths' = [deaths EXCEPT !["sensor"] = @ + 1]
  /\ UNCHANGED <<faults, table, saves, console, pc, job, snap, files>>

----------------------------------------------------------------------------
Comes(r) == UpdateRule(r) \/ DeployRule(r) \/ InsertRule(r) \/ DeleteRule(r)

Step(r) ==
  \/ SaveUpdate(r) \/ SaveDeploy(r) \/ SaveInsert(r) \/ SaveDelete(r)
  \/ SaveHelp(r) \/ InsertAuditLog(r) \/ SelectWritePolicy(r)
  \/ \E i \in 1 .. 2 : OpenFile(r, i) \/ WriteFile(r, i)
  \/ ExecPolicyCommand(r) \/ StepFails(r)

Sensing == SensorStarts \/ SensorWakes \/ SensorLoads

Next ==
  \/ \E r \in Requests : Comes(r)
  \/ \E r \in Actors : Step(r)
  \/ Crash \/ Restart
  \/ Sensing \/ SensorDies

(* Requests run to their end; the console and the sensor are started again. *)
Spec ==
  /\ Init /\ [][Next]_vars
  /\ \A r \in Actors : WF_vars(Step(r))
  /\ WF_vars(Restart) /\ WF_vars(Sensing)

----------------------------------------------------------------------------
RuleSets == SUBSET [code : Nat, text : Nat]
Contents == [state : {"cut", "whole", "mixed"}, rules : RuleSets]

(* Type invariant. *)
TypeOK ==
  /\ faults \subseteq Faults
  /\ rules \in [Kinds -> RuleSets]
  /\ used \subseteq Nat /\ unpublished \subseteq Kinds /\ saves \in Nat
  /\ up \in BOOLEAN /\ started \in BOOLEAN
  /\ pc \in [Actors -> {"idle", "save", "help", "audit", "read", "open1", "write1",
                        "open2", "write2", "signal"}]
  /\ job \in [Actors -> [op : {"update", "deploy", "insert", "delete", "startup"},
                         kind : Kinds, code : Nat]]
  /\ snap \in [Actors -> RuleSets]
  /\ files \in [Files -> Contents]
  /\ sensor \in {"up", "down"} /\ signal \in BOOLEAN
  /\ toLoad \in Seq(Files)
  /\ loaded \in [Files -> Contents]
  /\ deaths \in [Programs -> Nat]

Without(fs) == faults \cap fs = {}
Current(k)  == \A i \in 1 .. 2 : files[<<k, i>>] = Whole(rules[k])

(***************************************************************************)
(* Whenever the sensor is told to read its files, both files of the kind   *)
(* hold exactly the rules of the database, whatever failed before, a crash *)
(* in the middle of a file included: a signal never comes early.  Two      *)
(* saves at a time break it: the one that read first may write last        *)
(* (writePolicy 630-657 under no lock).                                    *)
(***************************************************************************)
SignalAfterFiles ==
  Without({"overlap"}) =>
    \A r \in Actors : pc[r] = "signal" => Current(job[r].kind)

(***************************************************************************)
(* When no request is under way the files of each kind are those of the    *)
(* database, after any failures and crashes, except for a kind whose last  *)
(* publication threw: its files stay as they were or cut until a request   *)
(* that changes a row of the kind, or a start, comes through.  Saving the  *)
(* same form again does not (DetectionPolicyService 139-147).              *)
(***************************************************************************)
QuietFilesCurrent ==
  (Without({"overlap"}) /\ up /\ started /\ \A r \in Actors : Idle(r))
    => \A k \in Kinds \ unpublished : Current(k)

(***************************************************************************)
(* A new rule of the user is put in under a code no rule has or ever had,  *)
(* so it is not refused, and the log rows that carry a code keep their     *)
(* meaning; unless the rule with the highest code was deleted              *)
(* (DetectionPolicyMapper.xml 503-508), or another insert was in between.  *)
(***************************************************************************)
NewCodeIsNew ==
  Without({"newest", "overlap"}) =>
    \A r \in Requests : pc[r] = "save" /\ job[r].op = "insert"
      => job[r].code \notin used \cup Codes("user")

(***************************************************************************)
(* The sensor ends up with the rules of the database in both files of each *)
(* kind, however often it or the console dies, except for a kind whose     *)
(* last publication threw; pending signals melt into one, and it may read  *)
(* one file before and the other after a save.                             *)
(***************************************************************************)
SensorCurrent ==
  Without({"overlap", "signal", "asleep"}) =>
    <>[] (\A k \in Kinds \ unpublished, i \in 1 .. 2 :
             loaded[<<k, i>>] = Whole(rules[k]))
=============================================================================
