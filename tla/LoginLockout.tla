---------------------------- MODULE LoginLockout ----------------------------
(***************************************************************************)
(* Wrong passwords and the lock of an account: AuthenticationService.login *)
(* over one row of SYSTEM_USER.  A login reads the row to decide           *)
(* (login0), and one that fails reads it again, works out the new row and  *)
(* writes it (loginFail); nothing holds a lock on the row in between, so   *)
(* the steps of several requests, and the saving of the account by an      *)
(* administrator, interleave.  A login from an address that is not allowed *)
(* counts as one with a wrong password.                                    *)
(***************************************************************************)
EXTENDS Integers, FiniteSets

CONSTANTS
    Requests,   \* login requests at work at a time
    Limits,     \* values of the setting user.lock.fail.count
    FirstLimit, \* the one it begins with
    LockTime,   \* the setting user.lock.time
    Never,      \* a loginDate that is NULL
    MaxTime,    \* bound on the clock
    MaxFails,   \* bound on failCount
    CaseSets   \* the combinations of races and circumstances to look at

ASSUME LockoutAssumption ==
    /\ Limits \subseteq Nat \ {0, 1}
    /\ FirstLimit \in Limits
    /\ LockTime \in Nat /\ MaxTime \in Nat /\ MaxFails \in Nat
    /\ Never \notin Nat
    /\ CaseSets \subseteq SUBSET {"overlap", "conf", "neverIn"}

VARIABLES
    now,
    row,             \* the account: is its role 7, lockout, failCount, loginDate
    limit,           \* user.lock.fail.count as it is stored
    loginCountLimit, \* AuthenticationService.loginCountLimit, a static
    step,              \* where a request is
    plan,            \* lockout and failCount it is about to write
    wrong,           \* (history) failed logins since the last that succeeded,
                     \* an administrator's change, or the end of a lock
    cases           \* what may happen in this behaviour; it never changes

lockoutVars == <<now, row, limit, loginCountLimit, step, plan, wrong, cases>>

Row == [admin : BOOLEAN, lockout : {0, 1, 2}, failCount : Nat, loginDate : Nat \cup {Never}]
Plan == [lockout : {0, 1, 2}, failCount : Nat]

LockoutTypeOK ==
    /\ now \in Nat
    /\ row \in Row
    /\ limit \in Limits
    /\ loginCountLimit \in Nat
    /\ step \in [Requests -> {"idle", "success", "fail", "write"}]
    /\ plan \in [Requests -> Plan]
    /\ wrong \in Nat
    /\ cases \in CaseSets

NoPlan == [lockout |-> 0, failCount |-> 0]

\* The account as it was registered: an ordinary one may be locked at once.
LockoutInit ==
    /\ now = 0
    /\ cases \in CaseSets
    /\ row \in [admin : BOOLEAN, lockout : {0, 2}, failCount : {0}, loginDate : {Never}]
    /\ row.lockout = 2 => ~row.admin /\ "neverIn" \in cases
    /\ limit = FirstLimit
    /\ loginCountLimit = 5
    /\ step = [r \in Requests |-> "idle"]
    /\ plan = [r \in Requests |-> NoPlan]
    /\ wrong = 0

\* No request is half way: without "overlap" they come one after the other.
Quiet == \A r \in Requests : step[r] = "idle"
MayRequest == "overlap" \in cases \/ Quiet

\* lockTimeOver
LockTimeOver == now >= row.loginDate + LockTime

-----------------------------------------------------------------------------
(***************************************************************************)
(* login0                                                                  *)
(***************************************************************************)

\* (mutant of LetsIn: lock or no lock once the time is over)
LetsInAnybody ==
    \/ row.lockout = 0
    \/ row.loginDate = Never
    \/ LockTimeOver

\* The right password is let in unless the account is locked; a lock set by an
\* administrator before the first login is not looked at.
LetsIn ==
    \/ row.lockout = 0
    \/ row.loginDate = Never
    \/ row.lockout = 1 /\ LockTimeOver

\* login takes the settings into the static fields, and login0 decides.
LoginRight(r) ==
    /\ step[r] = "idle" /\ MayRequest
    /\ loginCountLimit' = limit
    /\ step' = IF LetsIn THEN [step EXCEPT ![r] = "success"] ELSE step
    /\ UNCHANGED <<now, row, limit, plan, wrong>>

\* A wrong password is handed to loginFail unless the account is suspended.
LoginWrong(r) ==
    /\ step[r] = "idle" /\ MayRequest
    /\ row.failCount < MaxFails
    /\ loginCountLimit' = limit
    /\ step' = IF row.lockout = 2 THEN step ELSE [step EXCEPT ![r] = "fail"]
    /\ UNCHANGED <<now, row, limit, plan, wrong>>

-----------------------------------------------------------------------------
(***************************************************************************)
(* loginSuccess and loginFail                                              *)
(***************************************************************************)

\* updateLoginSuccess
UpdateLoginSuccess(r) ==
    /\ step[r] = "success"
    /\ row' = [admin |-> row.admin, lockout |-> 0, failCount |-> 0, loginDate |-> now]
    /\ wrong' = 0
    /\ step' = [step EXCEPT ![r] = "idle"]
    /\ UNCHANGED <<now, limit, loginCountLimit, plan>>

\* (mutant of FailPlan: one more try than the setting says)
FailPlanOneMore ==
    IF row.failCount >= loginCountLimit
    THEN IF row.lockout = 1 /\ LockTimeOver
         THEN [lockout |-> 0, failCount |-> 1]
         ELSE [lockout |-> IF row.admin THEN 1 ELSE 2, failCount |-> row.failCount + 1]
    ELSE [lockout |-> 0, failCount |-> row.failCount + 1]

\* (mutant of FailPlan: the time of the lock is not looked at)
FailPlanNoTime ==
    IF row.failCount >= loginCountLimit - 1
    THEN IF row.lockout = 1
         THEN [lockout |-> 0, failCount |-> 1]
         ELSE [lockout |-> IF row.admin THEN 1 ELSE 2, failCount |-> row.failCount + 1]
    ELSE [lockout |-> 0, failCount |-> row.failCount + 1]

\* What loginFail makes of the row.  At the limit a lock whose time is over
\* gives way to a first failure, and anything else is locked: an administrator
\* for LockTime (1), another until an administrator changes it (2).
FailPlan ==
    IF row.failCount >= loginCountLimit - 1
    THEN IF row.lockout = 1 /\ LockTimeOver
         THEN [lockout |-> 0, failCount |-> 1]
         ELSE [lockout |-> IF row.admin THEN 1 ELSE 2, failCount |-> row.failCount + 1]
    ELSE [lockout |-> 0, failCount |-> row.failCount + 1]

FailRead(r) ==
    /\ step[r] = "fail"
    /\ IF row.lockout = 2
       THEN step' = [step EXCEPT ![r] = "idle"] /\ UNCHANGED plan
       ELSE step' = [step EXCEPT ![r] = "write"] /\ plan' = [plan EXCEPT ![r] = FailPlan]
    /\ UNCHANGED <<now, row, limit, loginCountLimit, wrong>>

\* updateLoginFail
FailWrite(r) ==
    /\ step[r] = "write"
    /\ row' = [admin |-> row.admin, lockout |-> plan[r].lockout,
                failCount |-> plan[r].failCount, loginDate |-> now]
    /\ wrong' = IF row.lockout = 1 /\ plan[r].lockout = 0 THEN 1 ELSE wrong + 1
    /\ step' = [step EXCEPT ![r] = "idle"]
    /\ plan' = [plan EXCEPT ![r] = NoPlan]
    /\ UNCHANGED <<now, limit, loginCountLimit>>

-----------------------------------------------------------------------------
(***************************************************************************)
(* Around the logins                                                       *)
(***************************************************************************)

\* An administrator saves an ordinary account: its lock is what his form says,
\* its count of failures is left as it is.
SaveAccount(l) ==
    /\ ~row.admin /\ MayRequest
    /\ row.loginDate = Never /\ l = 2 => "neverIn" \in cases
    /\ row' = [row EXCEPT !.lockout = l]
    /\ wrong' = IF l = row.lockout THEN wrong ELSE 0
    /\ UNCHANGED <<now, limit, loginCountLimit, step, plan>>

\* An administrator saves another limit.
SaveLimit(n) ==
    /\ "conf" \in cases
    /\ limit' = n
    /\ UNCHANGED <<now, row, loginCountLimit, step, plan, wrong>>

Tick ==
    /\ now < MaxTime
    /\ now' = now + 1
    /\ UNCHANGED <<row, limit, loginCountLimit, step, plan, wrong>>

Request(r) ==
    LoginRight(r) \/ LoginWrong(r) \/ UpdateLoginSuccess(r) \/ FailRead(r) \/ FailWrite(r)

LockoutNext ==
    /\ \/ \E r \in Requests : Request(r)
       \/ \E l \in {0, 2} : SaveAccount(l)
       \/ \E n \in Limits : SaveLimit(n)
       \/ Tick
    /\ UNCHANGED cases

LockoutSpec == LockoutInit /\ [][LockoutNext]_lockoutVars

-----------------------------------------------------------------------------
(***************************************************************************)
(* Properties                                                              *)
(***************************************************************************)

\* After as many failed logins in a row as user.lock.fail.count says, the
\* account is locked (SystemConfService: "the number of failed logins a user
\* is limited to").
LimitEnforced == wrong >= limit => row.lockout # 0

\* That is so when requests come one after the other and the limit stays.
LimitEnforcedInTurn == cases \cap {"overlap", "conf"} = {} => LimitEnforced

\* A suspended account stays so until an administrator changes it: no login,
\* right or wrong, lifts the suspension (AccountVO and the messages: status 2
\* is "account locked").
LiftedByLogin == row.lockout = 2 /\ row'.lockout # 2 /\ ~\E l \in {0, 2} : SaveAccount(l)

\* That is so when requests come one after the other and the account was in use
\* before it was suspended, whatever becomes of the limit.
SuspensionLastsInTurn == [][cases \cap {"overlap", "neverIn"} = {} => ~LiftedByLogin]_lockoutVars

\* An administrator's lock lasts for LockTime after the last failure: "login is
\* possible only after the lock timeout has passed" (login.fail.timeout).
UnlockedEarly == row.lockout = 1 /\ row'.lockout # 1 /\ now < row.loginDate + LockTime

\* That is so when requests come one after the other and the limit stays.
AdminLockLastsInTurn == [][cases \cap {"overlap", "conf"} = {} => ~UnlockedEarly]_lockoutVars
=============================================================================
