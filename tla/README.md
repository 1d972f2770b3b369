# k-tms: a verification project for the TMS web console

k-tms is a threat management system: sensors inspect traffic, a MariaDB holds
policies and logs, and a web console (`webconsole/`: Spring, MyBatis and Quartz
on Tomcat, with a Backbone front end) manages sensors, policies, users, log
tables and backups. The sensor and the database come as binaries and images;
what the repository holds in source form is the console, and the console is
what is modelled here, with the sensor as far as the console counts on it.

Everything in it that is hard to test comes from one fact: its state is shared,
and nothing protects it. HTTP requests run on Tomcat's threads, jobs on
Quartz's; they meet in static fields, in the database, in files and on the
disk, without locks and, for most statements, without transactions. In the
browser one event bus outlives the pages that use it, and answers come when
they come. The modules make the steps between which others can change over
actions, let them interleave, and ask what still holds.

Java paths are relative to `src/webconsole/src/main/java/com/kglory/tms/web/`,
those of the front end to `src/webconsole/src/main/webapp/js/`.

## Components

| Component | State | Operations | Who it meets | Modules |
|---|---|---|---|---|
| **Daily log tables** `services/common/CreateTableService`, `batch/ScheduleUtil`, `servlet/InitServlet` | one table per kind of log and day | create today's and tomorrow's at startup, tomorrow's at 01:00 | writers, every job that drops | `LogTables`, `LogStore`, `LogCalendar` |
| **Retention, disk check** `services/OracleService`, `ManagerService.dbCheckDelete` | position and dates of a run, list of days | drop by retention period at 02:00, drop oldest days while the disk is full | creation, backups, each other | `Housekeeping` |
| **Database backup** `services/systemSettings/ManagerService` | progress, folder, zip | dump tables of a range, drop them, zip the folder; scheduled or by an operator | the same, and a second backup | `DbBackup` |
| **Sessions and control** `servlet/SessionListener`, `services/AuthenticationService`, `filter/*`, `controller/AuthenticationController` | session attributes, `loginSessionMonitor`, `loginObject`, `controller` | login, check for duplicates, eviction, logout, time-out, taking and giving back the control | logins of other sessions, Tomcat ending a session | `LoginSessions` |
| **Lock of an account** `AuthenticationService.login0/loginFail` | the account's row, static copies of the settings | right and wrong passwords, lock, suspension, saving an account | other logins, administrators | `LoginLockout` |
| **Page keys and ciphers** `util/security/AesUtil` | a static pass phrase, a static `Cipher` | give out a key, read a password, empty the field when a session ends; encrypt and decrypt | every page, every rule | `PageKeys`, `KeyPromise`, `SharedCipher` |
| **System settings, allowed addresses** `services/systemSettings/SystemConfService`, `services/preferences/AccountService` | a static map and a static list over two tables, the file of the SFTP server | fill, read, save | logins, other saves, every request (the list) | `SystemSettings` |
| **Policy publication** `services/securityPolicy/DetectionPolicyService`, `controller/DetectionPolicyController`, `util/SystemUtil`, `util/file/FileUtil` | rules, policy files, what the sensor has read | save, deploy, insert and delete rules, write the files, signal | operators next to each other, the start, the sensor | `PolicyPublication` |
| **Traffic analysis pages** `routers/trafficAnalysisRouter.js`, `views/frame.js`, `views/trafficAnalysis/*` | containers, tabs, one event bus | open a page, search, open, show and close tabs | each other through the bus | `AnalysisPages` |
| **Lists that are read on** `views/common/pagination.js` and its lists | window of rows, answers under way, the mark of an export | search, more, rows per page, export | a table that grows, two queries with bounds of their own | `ReadMore` |
| **Session countdown** `app.js` | a clock per tab, the session's clock | count, start again, end the session | other tabs, the server | `SessionCountdown` |
| **Audit log and its policy** `services/systemStatus/AuditLogService` | audit tables, policy map | write a row; change what is written | everything | `DbBackup` (the row) |
| **Startup and scheduler** `servlet/InitServlet`, `batch/ScheduleUtil` | what has started, triggers | start in order, replace triggers | jobs at work | within the others |
| Integrity check; sensors, networks, objects; time synchronisation; dashboards and reports; presence and tools; other views; sensor and packaging | – | – | – | not modelled |

`PROJECT.json` lists all of them with their status and the reason. Each module
names the code of its operations in comments; `PROJECT.json` maps every
definition to its lines.

### What makes each of them correct

* Log tables: the tables of today and tomorrow exist when somebody writes; no
  job drops a table that is in use; old tables go, oldest first, when their
  period is over and not before; a backup deletes only what it has a copy of.
* Sessions: in the security mode one login per ID and one administrator; the
  registry that this check reads lists everybody logged in and nobody else;
  the control has one holder and is not taken from him.
* Lock: so many failures lock the account; only an administrator lifts a
  suspension; an administrator's own lock lasts its time.
* Keys: what a page encrypts with the key it got the server reads, until a
  session ends, and no page is ever understood by another key. Each text is
  encrypted with its own key.
* Settings, addresses: the copies are what the tables say; a login finds its
  setting; whoever is allowed before and after a save is allowed meanwhile.
* Policies: the sensor is told to load when both files are those of the
  database, and ends up with them; codes of rules are never used again.
* Pages: one page in the document, one tab that listens, no request twice.
* Lists: no row twice, none left out, all of them in the end.
* Countdown: a tab does not end a session whose requests have counted, and
  leaves one that ended.

## How the models are made

A module per component; where components work on the same state they are
composed (`LogStore` is the whole of creation, retention, disk check and
backups). Components without common state are checked side by side in one run,
where a variable that never changes picks the one a behaviour is of: `part` in
`MCLogin` and `MCBrowser`, `field` in `MCStaticFields`.

What may go wrong is a set, constant (`Faults`) or a variable that never
changes (`faults`, `cases`, `races`, `trouble`, `troubles`, `habits`), from a
list of sets that a run tries. A property names the ones it excludes, with the
place in the code that breaks it then; everything it does not exclude is tried.

### The log store

A table is a pair of a kind and a day; the day is a number and the clock is
`today` with an `hour` of 0, 1 or 2 for the parts of a day that the 01:00 and
02:00 triggers make.

| Module | Definition | Code |
|---|---|---|
| `LogTables` | `Boot`, `ReadNextDay`, `CreateTable`, `CreateFails`, `BootDone` | `initCreateLogTable`: the two dates it reads, the list of CREATEs, the catch around all of them; then the scheduler |
| | `OneOClock`, `DailyPlan` | `createLogTableStart`, `nextDayCreateLogTable` |
| | `DropReturns` | `dropTables` writes an audit row afterwards and throws when it cannot |
| `Housekeeping` | `RetentionTrigger`, `TableDate`, `RetentionStep` | `deleteDaysTable`, one step per LIKE pattern, with the dates in the one map it reuses |
| | `CapacityStart`, `CapacityStep` | `dbCheckDelete`, one step per day of its list |
| `DbBackup` | `BackupStart` … `BackupZip` | `execDbBackup` and `execNowDbBackup`; per group and pattern: list, dump each, list again, drop; zip last |
| | `InsertNamed`, `InsertDone` | `insertAuditLogMsg`: the name from the clock, then the INSERT |
| `LogStore` | `Clock`, `Stop` | midnight and the triggers; Tomcat stopping |

Faults: `create` (a CREATE throws, the rest of its list is skipped),
`straddle` (midnight falls between the two dates a start reads), `drop` (a DROP
fails after some of its tables), `dump` and `zip` (mysqldump or the zip fails;
the code goes on regardless), `today` (an operator's range ends today), `late`
(a row named before midnight is inserted after it).

`LogCalendar` is the abstract specification: days go by, tables appear around
today and disappear when their day is over. `CalendarSpec` is the refinement.

### Sessions and the lock of an account

A session is `new`, `live` or `dead`; its attributes and the two collections of
`SessionListener` are functions of it. A login is the steps between which
another thread can come: `LoginSuccess` (attributes, before the database),
`AddLoginSession` (after `updateLoginSuccess`; `UpdateLoginFails` is its
exception), `CheckFinds` / `CheckFindsNone` / `CheckMeetsDead`
(`checkDuplicationLogin`, whose `getAttribute` throws for a session that has
ended), `Evict` / `EvictFails` (after, or instead of, the audit row). `Logout`
and `Expire` end with `SessionDestroyed`; where the audit row of the end throws
more than a `BaseException`, the session ends and nothing is forgotten
(`SessionDestroyedThrows`; a logout writes none). `unlogged` is a history
variable: the sessions this has happened to. `ReadController` and
`SetController` are the two halves of `requireController`, `ReleaseController`
is a request of its own. Faults: `overlap` (requests at the same time), `gone`
(a session ends during its own login), `db` (the account's row cannot be
written), `audit` (the audit row of an eviction or of an end cannot).

`LoginLockout` has one row of `SYSTEM_USER`, the limit as stored and as the
static `loginCountLimit` copies it, and requests at work. `LoginRight` and
`LoginWrong` are `login` up to the decision of `login0`; `FailRead` and
`FailWrite` the SELECT and the UPDATE of `loginFail`, with `FailPlan` in
between. `wrong` is a history variable: the failures the limit is about.
Cases: `overlap`, `conf` (the limit is changed), `neverIn` (an account is
locked before its first login, so that it has no date).

| Property | Holds unless | Otherwise the model reaches |
|---|---|---|
| `LoginsRegistered` | `db` | a login that is in no registry: no check finds it |
| `RegistryIsLive` | `gone`, and for sessions in `unlogged` | a dead session registered for ever, at which every later check throws |
| `SingleLoginInTurn` | any fault | two rival logins that both remain, or put each other out |
| `ControlNotTaken` | `overlap` | two users who are told they have the control |
| `LimitEnforcedInTurn` | `overlap`, `conf` | two failures that are counted once |
| `SuspensionLastsInTurn` | `overlap`, `neverIn` | a lock that is not looked at, and cleared |
| `AdminLockLastsInTurn` | `overlap`, `conf` | a raised limit, below which a wrong password unlocks |

### Static fields

`PageKeys`: a page asks for the key in the steps of `getAesKey`, each one
access to the static field or to the session (`GetPassPhrase`, `InitAesPass`,
`KeepPass`, `GivePass`); `SessionDestroyed` and `PutOut` empty the session's
key and, in a step of its own, the field (`DestroyedPassPhrase`);
`SessionDestroyedThrows` is the end whose audit row throws: the field stays.
`SendPassword` is one password through the page's key and the field's. The
abstract specification is `KeyPromise`: one key is alive for all, every page is
given it, it lives until a session ends, and a new one only comes where there
is none. `KeysKeepPromise` is the refinement, with the field as the live key.
Races: `first` (two pages ask while there is no key), `end` (a session ends
while a page asks).

`SharedCipher`: `doFinal` sets the static cipher, reads it to give it its key
and reads it again to use it; `Outcomes` says what a text becomes with the key
of another call.

`SystemSettings`: `ClearMap`, `SelectRows`, `PutRow` are `init` of the map, row
by row; a save is `CompareSettings`, the addresses (`CompareHosts` …
`AssignAdmitted`), the audit row that names the settings, `UpdateSftpId`,
`UpdateSftpPwd` and `WriteSftpInfo`, the file, or `WriteSftpFails`, its catch,
which writes one without a name; `Throws` is a getter that meets a map without
its key, `StatementFails` any statement. Strings are values;
encryption is a pair of the text and the name it is encrypted with, which is
what `decryptString` depends on. Faults: `overlap`, `fail` (one statement or
write throws), `restart`.

### Policy publication

A request is `Begin`, the row (`SaveUpdate`, `SaveDeploy`, `SaveInsert`,
`SaveDelete`), for a user's rule the name of its class and its help row
(`SaveHelp`), the rules of its kind read and decrypted (`SelectWritePolicy`),
two files, each cut when it is opened and written after (`OpenFile`,
`WriteFile`), the signal (`ExecPolicyCommand`) and the audit row, which a
deployment writes before the files. `InitServlet` does the same for all kinds.
The sensor (`SensorStarts`, `SensorWakes`, `SensorLoads`) is external: it reads
its files when it starts and when the signal wakes it; signals melt into one.
`StepFails` is an exception at any step, before or after the row (a class that
was deleted meanwhile has no name, and the statements for the help row may
fail); nothing is rolled back, and `unpublished`, a history variable, names the
kinds whose last try to publish ended like this. `Crash` and `Restart` are the
console's, `SensorDies` is the sensor's end. Faults: `overlap`, `newest`,
`cipher`, `statement`, `audit`, `disk`, `signal`, `crash`, `sensor`, `asleep`.

### The front end

`AnalysisPages`: a click (`Navigate`) closes the container that `frame.js`
knows and asks for the code of the next; `Arrive` and `Render` are the callback
of `require` and the time-out of `render`; `Search`, `PressRange`,
`PressDetail`, `ShowTab` and `RemoveTab` are what a user does with tabs. The
handlers that `newTab` and `detailTab` reach are steps (`RenderTab`). The bus
is three lists of handlers; `unbind(name)` takes everybody's away, as Backbone
does. Habits: `rush` (a click before the page is up), `middle` (a tab that is
not the last is closed), `drop` (it is the one looked at).

`ReadMore`: the window of `pagination.js` moves when rows are asked for, not
when they come; answers and failures come in any order; the server counts from
the first row of its order. Rows have numbers from the last of that order up: a
new audit row (`kind` is "audit") is the first, a new original log ("log") gets
any number and moves the others, as it is chosen by its end and ordered by its
start (`Grow`, `Moved`; `late` are the rows that came so). `counts` is what the
query for the rows finds and `told` what the one for the total says: with
`edge` they differ, as the audit list's queries have different bounds. `ExportAll`
marks the model (`download`) and `ExportEnds` unmarks it; `ExportFails` does
not, because `Backbone.sync` in `app.js` replaces the error handler that would.
`whole` is a history variable: was a page asked for with the mark? Troubles:
`rush`, `double`, `fail`, `grow`, `export`, `exportFails`, `edge`.

`SessionCountdown`: one `Tick` is a tick of the session's clock and of those of
all tabs; `SendRequest` and `GetSessionTime` are `ajaxSend` and its answer;
`SendUncounted` is a request to `api/common/` or `requireLogin`, or one that
jQuery does not send: it renews the session and not the countdown (`uncounted`
is how long no request has counted); `InvalidateSession` is what a tab does
at 0. Troubles: `tabs`, `slow`, `lost`, `setting`, `quiet` (such requests).

## Runs

| Run | Checks | Bounds |
|---|---|---|
| `Housekeeping` | `OldestDroppedFirst`, `RetentionHonoursPeriods`, `CalendarSpec` | three kinds, days 2–4 with any old days before them, periods 1 and 2, faults `create`, `straddle`, `drop` |
| `Fair` | `LogTablesReady`, `ExpiredTablesGo`, `JobsEnd` under `FairSpec` | two kinds, one midnight, one operator's backup with a group of two patterns, no faults |
| `Backups` | `BackupKeepsRows` | three kinds in two groups, a scheduled and an operator's backup, one day, fault `drop` |
| `BackupFaults` | `CurrentTablesKept` | one kind, one midnight, ranges of two days, a row on its way, faults `drop`, `dump`, `zip`, `today`, `late` |
| `Logins` | the seven properties of the table above | three sessions of one user and two administrators, two requests at work; limits 2 and 3, lock time 2, six units of time, counts up to 5 |
| `StaticFields` | `KeyHasOneOwner`, `KeysKeepPromise`, `OwnKeyInTurn`, `SaveAloneSettles`, `LoginFindsSettings`, `SensorFileCurrent`, `AddressesInForce` | two sessions, three pages, two ends; three threads, four texts; two threads, three requests, four forms |
| `Policies` | `SignalAfterFiles`, `QuietFilesCurrent`, `NewCodeIsNew`, `SensorCurrent` | two threads, two requests, one death each; four groups of faults |
| `Browser` | `OneContainer`, `NobodyAskedTwice`, `ClosedTabsSilent`, `StaticKeepsSearch`, `PaneIsTheTabs`, `MarkedTabListens`, `PageComesUp`; `NoRowTwice`, `NothingSkipped`, `ShowsWindow`, `ReadingOnEnds`; `CountWithinSession`, `InUseNotEnded`, `EndedTabLeaves` | three visits of three kinds of page, two extra tabs; both lists, two searches, four rows, two answers under way, pages of 1 to 3, any total up to 4, eight groups of troubles; two tabs, session times 1 to 3 |
| `FailedDump` (violated) | `BackupKeepsRows` with `dump` | |
| `SharedCipher` (violated) | `EncryptedWithItsKey` with calls that overlap | |
| `LoggedOutBySave` (violated) | `KeptAddressAdmitted` | |
| `TabAfterRemoval` (violated) | `SomeTabMarked` with `middle` and `drop` | |

Why the bounds are enough:

* Log store. Jobs treat kinds alike except for the audit kind (its own period,
  its own group, the row `dropTables` writes), an event kind, and the one whose
  pattern comes last, after the audit ones: the three of `MCLogStore`. What can
  go wrong goes wrong around one midnight; two give a restart on either side,
  and periods of one and two days with any set of older days give every order
  of expiry. Two backups are all that run at once.
* Sessions. Every race here is between two requests; three sessions are two
  rivals and the older one both find. Sessions and administrators are
  symmetric. Six units of time let an account fail, be locked, wait, fail again
  and be locked again. The form offers limits of 3 to 5; the proofs cover every
  limit from 2.
* Static fields. Two threads are enough to meet in a field, the third page and
  the third thread come after them; three requests leave a state behind, save
  over it and read it. The forms differ from the first in each of its parts.
* Policies. Two saves are an overlap, or a failure and a save after it; one
  death of each program may come at every step.
* Browser. Two pages leave something behind on the bus, the third meets it;
  "protocol" and "ip" differ in what they unbind, and "other" has no tabs. Pages
  to three rows meet a total of four on and off their edge, with a limit of
  three rows in between. Two tabs are a tab in use and one in the background.
  The troubles of a list are taken a few at a time; the proofs take them all.

**Fairness.** Log store: time passes (`Clock`), a start goes on (`Creation`),
and Quartz and the HTTP pool keep running a job once it is started; an
operator's request, a new row, a failure and a stop are not fair. Policies: a
request runs to its end (`Step`), the console and the sensor are started again
by what supervises them (`Restart`, `Sensing`). Browser: the loop runs what is
in its queue (`Arrive`, `Render`, `RenderTab`), requests are answered, the
interval ticks. All of these are weak: each step stays enabled until it is
taken. Only `More` is strongly fair, in `ReadMore`: the button goes and comes
with every answer, and the property is about a user who presses it again and
again. Nothing else obliges a user to act.

`CHECK_DEADLOCK FALSE` is set where a behaviour may end: at a bound, or when
all sessions have ended.

## Findings

Each is a run that TLC finds violated, under a property that a comment of the
repository states; `PROJECT.json` quotes them.

1. `FailedDump`: a failed mysqldump is not noticed; the table is dropped.
2. `SharedCipher`: two calls of `AesUtil.doFinal` at a time, and a text comes
   out encrypted with the key of the other one, never to be decrypted.
3. `LoggedOutBySave`: while the settings page is saved, the list of allowed
   addresses is empty for a moment, and `WebAuthFilter` ends the session of a
   user whose address is allowed before and after.
4. `TabAfterRemoval`: closing the tab that is looked at skips the tab after it;
   before the last one, no tab is marked and none listens.

The properties exclude more that the model reaches, beyond the table of the
logins: `deleteDaysTable` drops `TRAFFIC_DETECTION_` tables by the period of
the audit log (`Misplaced`); with `today`, a backup that dumps today's table
before midnight and asks for the deletable names after it drops the rows
written in between; two first pages draw two keys, and one of them keeps a key
nobody reads (`first`); a save that meets a map another request is filling
ends half way (`overlap`); a rule that was saved but not published because
something failed after its row stays so when the same form is saved again
(`statement`, `audit`, `disk`); the code of a
deleted newest rule comes again (`newest`); clicks in a rush leave a container
nobody closes; a page of rows that failed is never asked for again; the audit
list finds rows of the second its period ends at that its total does not count,
and "more" goes before they are read (`edge`); an export
that failed makes every later page bring all rows (`exportFails`); an original
log that is written late is not shown (`grow`); a tab in the background ends the
session another one works in (`tabs`), and a page whose requests do not count
the one it has just used (`quiet`).

## Proofs

For every value of the constants, from the `ASSUME`s of the modules, each of
which TLC evaluates in a run:

| Module | Theorem | States | The invariant it rests on |
|---|---|---|---|
| `LogStoreProofs` | `TypeCorrect` | `TypeOK` | itself |
| | `OnlyPastTablesDropped` | `CurrentTablesKept` | `DropsArePast`: all that the jobs hold (dates of a retention run, list of the disk check, names a backup has gathered) is past; inductive as it is bounded by `today` when read and `today` only grows |
| | `ImplementsCalendar` | `CalendarSpec` | `CreationIsTimely`: which days the CREATEs still to come are for, in each phase of a start |
| | `TablesAreReady` | `LogTablesReady`, without `create` and `straddle` | `CreationIsReady`: a table that must be there is there or `Due`, among the CREATEs left; a midnight during a start makes its second date today's |
| | `OldestGoFirst` | `OldestDroppedFirst` | `ListIsWhole`: every day with a table before a day of the list is in the list; needs `CreationIsTimely`, as a table of yesterday may still appear |
| | `PeriodsAreHonoured` | `RetentionHonoursPeriods` | types only |
| | `BackupsKeepRows` | `BackupKeepsRows`, without `dump`, `zip`, `today`, `late` | `NothingLost`: ranges are past, rows go to today's tables, what a backup dumps is dumped or listed, what it will drop is in its folder |
| `LoginProofs` | `LoginsAreRegistered`, `RegistryStaysLive` | `LoginsRegistered`, `RegistryIsLive` | `Registering`; `LoginsLive` and `OnlyLive`: who is registered is live or in `unlogged` |
| | `OneLoginRemains` | `SingleLoginInTurn` | `OneLeft`: being rivals is transitive among those logged in, so there is never more than one rival, and stopping at the first is right |
| | `ControlIsKept` | `ControlNotTaken` | `OneAsks`, `TakesFree` |
| | `FailuresAreLimited` | `LimitEnforcedInTurn` | `Counting`: the row's count is at least `wrong`, and a plan leaves the account open only below the limit |
| | `OnlyAdministratorsLift`, `AdminLocksLastTheirTime` | `SuspensionLastsInTurn`, `AdminLockLastsInTurn` | `Suspended`; `TimedLock` and `LockingPlan`; all need `OneAtATime` |
| `AesUtilProofs` | `OneOwnerWhenQuiet` | `KeyHasOneOwner` | `InQuiet`, while no two requests raced: whoever fills the field found it empty, keys are new when they are drawn, one request keeps its key at a time |
| | `FieldKeepsPromise` | `KeysKeepPromise`, the refinement of `KeyPromise` | `InQuiet` and the step of each action |
| | `OwnKeyWhenInTurn` | `OwnKeyInTurn` | `InTurn`: the field holds the object of the one call at work |
| `SystemSettingsProofs` | `LoginsFindSettings` | `LoginFindsSettings` | `OneRequest`, `LimitFirst`: a map that is not empty and not being filled has the limit |
| | `StoredAddressesInForce` | `AddressesInForce` | between a save's statements the list lags behind only while that save is at work |
| | `SavesSettle` | `SaveAloneSettles` | `AloneFills`, over `FilledSoFar`: while nobody else is at work the map holds the rows put so far |
| | `FileIsCurrent` | `SensorFileCurrent` | `FileFollows`: at which points map, rows and file may differ, and in what |
| `SessionCountdownProofs` | `CountdownWithinSession`, `InUseLivesOn` | `CountWithinSession`, `InUseNotEnded` | `Within`: no count is above the time it was set to, and whoever waits for an answer has just been heard; `Alone`: with one tab the countdown and `uncounted` make up the time of the session, also where requests do not count |
| `PolicyPublicationProofs` | `SignalNeverEarly`, `SavedIsPublished` | `SignalAfterFiles`, `QuietFilesCurrent` | `InTurn`: one request at work, the files follow its progress; `Published` between requests, over crashes and failures, for the kinds not in `unpublished` |
| | `NewRuleNewCode` | `NewCodeIsNew` | the codes used are at most the highest there is |
| `AnalysisPagesProofs` | `NobodyIsAskedTwice` | `NobodyAskedTwice`, whatever the user does | `Apart`: no container has a tab twice, so a tab that is bound has been unbound before |
| | `StaticTabKeepsSearch` | `StaticKeepsSearch`, also in a rush | `Kept`, over `Order`: whoever is bound to "newTab" or "detailTab" has tabs or is still to be rendered; otherwise the tab a range makes would be its first |
| | `OneContainerAtATime` | `OneContainer`, without `rush` | `InTurn`: of the visits, numbered in the order of the clicks, only the last can still be loading, made or in the document |
| | `ClosedTabsStaySilent`, `MarkedTabIsAsked` | `ClosedTabsSilent`, `MarkedTabListens`, without `rush` | `Attended`, see below |
| | `PaneFollowsTab` | `PaneIsTheTabs`, without `rush` and `middle` | `Numbered`: the third tab has the name 0, the next 1, and so on, so a name is that of one pane |
| `ReadMoreProofs` | `NoRowShownTwice` | `NoRowTwice`, without `rush`, `double`, `grow`, until a page is asked for with the mark (`whole`) | `Downwards`: rows go down, and all of them are above every place the next page may start at (`Reached`) |
| | `NoRowSkipped` | `NothingSkipped`, without `rush`, `double`, `fail` | `Gapless`: between two rows there are only late ones, and the last row is not above the place where the next page starts, also when the table has grown since, anywhere |
| | `TableShowsWindow` | `ShowsWindow`, without `rush`, `double`, `fail`, `grow`, until `whole`; with any total | `Showing`: the rows are those of the window (`Exactly`, to the row where the total is right), the page under way ends at the window's end, and without a button as many are shown as the total says (`NoneLeft`) |

Each of these modules also proves the type invariant of its component.

**The pages.** A closed `ip` page stays bound to "detailTab", so an event may
make tabs for pages that are gone, each of which unbinds the others. What holds
between two events does not hold during one; it does again afterwards because
the page shown was bound last (`BoundLast`), so its tab is the last one made.
For this the invariant must also know that pages which never came up have no
tabs (`Fresh`), that an open page keeps its two fixed tabs (`TwoTabs`, as
`hideTab` of a page without tabs unbinds nobody), and that the bus names only
pages that have come up (`BusKnows`). Each stage is a theorem of its own that uses those before it:
`Typed`, `Apart`, `Order`, `Kept`, `CalmInTurn`, `Attended`, `CalmNumbered`.

**The lists.** The three properties except different troubles, so there are
three invariants over a common one: `Window` says that one request is under way
at a time, what it asks for, and how it fits the counters (`OneUnderWay`,
`Asks`, `WindowFits`); it holds unless requests overlap. Two more are shared:
the numbers of all rows shown are those of a row of their search (in `Typed`),
and no page asks for all rows unless one was asked for with the mark
(`NoneOfAll`). A row written in the middle moves those before it, so `Downwards`
excludes it and `Gapless` has to say which rows came late. Where the total is
counted with the bounds of the rows the two agree (`TotalsAgree`); elsewhere
nothing is known of it, and what is left of `Showing` follows from the window
alone. The limit of the audit list starts the window anew; that is why `Exactly`
counts the rows only up to it.

Only model-checked: the liveness properties (`ExpiredTablesGo`, `JobsEnd`,
`SensorCurrent`, `PageComesUp`, `ReadingOnEnds`, `EndedTabLeaves`), as the
prover handles neither fairness nor ENABLED. Every safety property of a passing
run is the subject of a theorem.

## What the models leave out

* Log store: the `POLICY_` tables of the operator's backup (they are never
  deleted), mail, the history records, two backups started in the same second
  (they would share a folder), how full the disk is (left open), tables for
  IPv6 (created and dropped with the others).
* Sessions: counters that are only logged, `SessionObject.sessionMap` and
  `TokenObject`, the administrator's very first login, two login requests on
  one session at once; session ids are not reused. The control that whoever
  timed out still holds is left to the next login.
* Lock: mail; other columns that a saved account overwrites; a login from an
  address that is not allowed counts as a wrong password; the lock time does
  not change.
* Static fields: the settings of mail, time synchronisation and backup, which
  start their jobs anew. The three fields do not meet in the model.
* Policies: Yara rules, exceptions and networks, with one file each that is
  written in the same way; what the text of a rule says.
* Front end: the two queries of an answer are one step, so no row comes between
  rows and total; what a chart or a list looks like; a page that is opened in two
  windows has two buses, so one is enough. Answers of the server in
  `AnalysisPages`, tabs in `ReadMore`.

### Not modelled

The integrity check compares hashes with a list that a job and an operator
renew; sensors, networks and objects are rows and trees with one statement per
request; time synchronisation is one command; dashboards, analysis and reports
are queries; presence and tools change no state; other views send a request
and show its answer; sensor, images and packaging are binaries and scripts.
`js/lib` and `bootstrap` are libraries: what is used of Backbone, RequireJS and
Bootstrap is in `AnalysisPages`, marked external.

## Plan

Done: the log store, its calendar and backups; sessions and the lock of an
account; keys and ciphers; settings and addresses; policy publication; the
pages, the lists and the countdown of the front end.

Left, the most shared state first:

1. Triggers that `ManagerService` replaces while their job runs, and the order
   of `InitServlet` as a whole, with `AuditLogPolicyService`'s map.
2. The list of the integrity check, renewed by a job and an operator.
3. `YaraPolicyService` and the exceptions in `PolicyPublication`, as kinds with
   one file.
4. Networks: trees that are changed and applied in two requests.

Each of these needs its own invariant and theorem when it comes.
