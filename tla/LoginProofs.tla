---------------------------- MODULE LoginProofs -----------------------------
(***************************************************************************)
(* What holds of the sessions for any number of users and sessions: nobody *)
(* logged in is missing from the registry (unless the database fails in    *)
(* the middle of a login), the registry names no ended session (unless it  *)
(* ended in the middle of its own login, or its end could not be written   *)
(* down), and when logins come one after the other the security mode       *)
(* leaves one login per ID and one administrator.  The last is lost as     *)
(* soon as two logins overlap, for both may then choose the same older     *)
(* session to put out.                                                     *)
(***************************************************************************)
EXTENDS LoginSessions, LoginLockout, TLAPS

USE DEF attrs, registry, request, control, vars

Steps(s) ==
    \/ SessionCreated(s) \/ LoginRefused(s)
    \/ \E u \in Users : LoginSuccess(s, u)
    \/ AddLoginSession(s) \/ UpdateLoginFails(s)
    \/ CheckFinds(s) \/ CheckMeetsDead(s) \/ CheckFindsNone(s)
    \/ Evict(s) \/ EvictFails(s)
    \/ Logout(s) \/ Expire(s)
    \/ ReadController(s) \/ SetController(s) \/ ReleaseController(s)

LEMMA NextIsSteps ==
    ASSUME Next
    PROVE  /\ \E s \in Sessions :
                 Steps(s) /\ (unlogged' = unlogged \/ Logout(s) \/ Expire(s))
           /\ faults' = faults
BY DEF Next, Login, Controls, Steps

LEMMA FaultsStay == ASSUME [Next]_vars PROVE faults' = faults
BY DEF Next

\* The history grows only, by sessions.
LEMMA UnloggedGrows ==
    ASSUME unlogged \in SUBSET Sessions, [Next]_vars
    PROVE  unlogged' \in SUBSET Sessions /\ unlogged \subseteq unlogged'
<1>1. CASE UNCHANGED vars
  BY <1>1
<1>2. ASSUME NEW s \in Sessions, Logout(s) \/ Expire(s)
      PROVE  unlogged' = unlogged \/ unlogged' = unlogged \cup {s}
  BY <1>2 DEF Logout, Expire, SessionDestroyed, SessionDestroyedThrows
<1> QED
  BY <1>1, <1>2, NextIsSteps

-----------------------------------------------------------------------------
LEMMA TypeInit == Init => TypeOK
BY DEF Init, TypeOK

LEMMA TypeStep == TypeOK /\ [Next]_vars => TypeOK'
<1> SUFFICES ASSUME TypeOK, [Next]_vars PROVE TypeOK'
  OBVIOUS
<1>0. faults' \in FaultSets /\ unlogged' \in SUBSET Sessions
  BY FaultsStay, UnloggedGrows DEF TypeOK
<1>1. CASE UNCHANGED vars
  BY <1>1 DEF TypeOK
<1>2. ASSUME NEW s \in Sessions, Steps(s) PROVE TypeOK'
  <2> USE <1>0, SessionsAssumption DEF TypeOK
  <2>1. CASE SessionCreated(s)
    BY <2>1 DEF SessionCreated
  <2>2. CASE LoginRefused(s)
    BY <2>2 DEF LoginRefused
  <2>3. ASSUME NEW u \in Users, LoginSuccess(s, u) PROVE TypeOK'
    BY <2>3 DEF LoginSuccess
  <2>4. CASE AddLoginSession(s)
    BY <2>4 DEF AddLoginSession, LoginEnds
  <2>5. CASE UpdateLoginFails(s) \/ CheckMeetsDead(s) \/ CheckFindsNone(s) \/ EvictFails(s)
    BY <2>5 DEF UpdateLoginFails, CheckMeetsDead, CheckFindsNone, EvictFails, LoginEnds
  <2>6. CASE CheckFinds(s)
    BY <2>6 DEF CheckFinds, Duplicates
  <2>7. CASE Evict(s)
    BY <2>7 DEF Evict, LoginEnds
  <2>8. CASE Logout(s)
    BY <2>8 DEF Logout, SessionDestroyed, Invalidated
  <2>9. CASE Expire(s)
    <3>1. CASE SessionDestroyed(s)
      BY <2>9, <3>1 DEF Expire, SessionDestroyed, Invalidated
    <3>2. CASE SessionDestroyedThrows(s)
      BY <2>9, <3>2 DEF Expire, SessionDestroyedThrows, Invalidated
    <3> QED
      BY <2>9, <3>1, <3>2 DEF Expire
  <2>10. CASE ReadController(s)
    BY <2>10 DEF ReadController
  <2>11. CASE SetController(s) \/ ReleaseController(s)
    BY <2>11 DEF SetController, ReleaseController
  <2> QED
    BY <1>2, <2>1, <2>2, <2>3, <2>4, <2>5, <2>6, <2>7, <2>8, <2>9, <2>10, <2>11 DEF Steps
<1> QED
  BY <1>1, <1>2, NextIsSteps

\* The variables have their types.
THEOREM SessionsTypeCorrect == Spec => []TypeOK
BY TypeInit, TypeStep, PTL DEF Spec

-----------------------------------------------------------------------------
\* A login that has set its attributes and not registered yet is the only way
\* to be logged in and not in the registry.
Registering ==
    \A s \in Sessions :
        LoggedIn(s) =>
            IF pc[s] = "named" THEN who[s] = loginObj[s]
                               ELSE s \in monitor /\ loginObject[s] = loginObj[s]

LEMMA RegisteringStep ==
    ASSUME "db" \notin faults, TypeOK, Registering, [Next]_vars
    PROVE  Registering'
<1> USE DEF TypeOK, Registering, LoggedIn
<1>1. CASE UNCHANGED vars
  BY <1>1
<1>2. ASSUME NEW s \in Sessions, Steps(s) PROVE Registering'
  <2> USE SessionsAssumption
  <2>1. CASE SessionCreated(s)
    BY <2>1 DEF SessionCreated
  <2>2. CASE LoginRefused(s)
    BY <2>2 DEF LoginRefused
  <2>3. ASSUME NEW u \in Users, LoginSuccess(s, u) PROVE Registering'
    BY <2>3 DEF LoginSuccess
  <2>4. CASE AddLoginSession(s)
    BY <2>4 DEF AddLoginSession, LoginEnds
  <2>5. CASE CheckMeetsDead(s) \/ CheckFindsNone(s) \/ EvictFails(s)
    BY <2>5 DEF CheckMeetsDead, CheckFindsNone, EvictFails, LoginEnds
  <2>6. CASE CheckFinds(s)
    BY <2>6 DEF CheckFinds
  <2>7. CASE Evict(s)
    BY <2>7 DEF Evict, LoginEnds
  <2>8. CASE Logout(s)
    BY <2>8 DEF Logout, SessionDestroyed, Invalidated
  <2>9. CASE Expire(s)
    BY <2>9 DEF Expire, SessionDestroyed, SessionDestroyedThrows, Invalidated
  <2>10. CASE ReadController(s)
    BY <2>10 DEF ReadController
  <2>11. CASE SetController(s) \/ ReleaseController(s)
    BY <2>11 DEF SetController, ReleaseController
  <2> QED
    BY <1>2, <2>1, <2>2, <2>3, <2>4, <2>5, <2>6, <2>7, <2>8, <2>9, <2>10, <2>11
       DEF Steps, UpdateLoginFails
<1> QED
  BY <1>1, <1>2, NextIsSteps

\* However logins, evictions and ends of sessions interleave, whoever is logged
\* in is registered under his name, as long as the account's row can be written.
THEOREM LoginsAreRegistered == Spec => []LoginsRegistered
<1> DEFINE Inv == "db" \notin faults => Registering
<1>1. Init => Inv
  BY DEF Init, Registering, LoggedIn
<1>2. TypeOK /\ Inv /\ [Next]_vars => Inv'
  BY RegisteringStep, FaultsStay
<1>3. TypeOK /\ Inv => LoginsRegistered
  BY DEF Registering, LoginsRegistered, LoggedIn, TypeOK
<1> QED
  BY <1>1, <1>2, <1>3, SessionsTypeCorrect, PTL DEF Spec

-----------------------------------------------------------------------------
\* A login at work has its session.
LoginsLive == \A s \in Sessions : pc[s] # "idle" => state[s] = "live"
OnlyLive ==
    \A s \in Sessions :
        s \in monitor \/ loginObject[s] # None => state[s] = "live" \/ s \in unlogged

LEMMA RegistryStep ==
    ASSUME "gone" \notin faults, TypeOK, LoginsLive, OnlyLive, [Next]_vars
    PROVE  LoginsLive' /\ OnlyLive'
<1> USE DEF TypeOK, LoginsLive, OnlyLive
<1>0. unlogged \subseteq unlogged'
  BY UnloggedGrows
<1>1. CASE UNCHANGED vars
  BY <1>1
<1>2. ASSUME NEW s \in Sessions, Steps(s) PROVE LoginsLive' /\ OnlyLive'
  <2> USE <1>0, SessionsAssumption
  <2>1. CASE SessionCreated(s)
    BY <2>1 DEF SessionCreated
  <2>2. CASE LoginRefused(s)
    BY <2>2 DEF LoginRefused
  <2>3. ASSUME NEW u \in Users, LoginSuccess(s, u) PROVE LoginsLive' /\ OnlyLive'
    BY <2>3 DEF LoginSuccess
  <2>4. CASE AddLoginSession(s)
    BY <2>4 DEF AddLoginSession, LoginEnds
  <2>5. CASE UpdateLoginFails(s) \/ CheckMeetsDead(s) \/ CheckFindsNone(s) \/ EvictFails(s)
    BY <2>5 DEF UpdateLoginFails, CheckMeetsDead, CheckFindsNone, EvictFails, LoginEnds
  <2>6. CASE CheckFinds(s)
    BY <2>6 DEF CheckFinds
  <2>7. CASE Evict(s)
    BY <2>7 DEF Evict, LoginEnds
  <2>8. CASE Logout(s)
    BY <2>8 DEF Logout, SessionDestroyed, Invalidated, MayEnd
  <2>9. CASE Expire(s)
    BY <2>9 DEF Expire, SessionDestroyed, SessionDestroyedThrows, Invalidated, MayEnd
  <2>10. CASE ReadController(s)
    BY <2>10 DEF ReadController
  <2>11. CASE SetController(s) \/ ReleaseController(s)
    BY <2>11 DEF SetController, ReleaseController
  <2> QED
    BY <1>2, <2>1, <2>2, <2>3, <2>4, <2>5, <2>6, <2>7, <2>8, <2>9, <2>10, <2>11 DEF Steps
<1> QED
  BY <1>1, <1>2, NextIsSteps

\* Where audit rows can be written every end is written down.
AllLogged == "audit" \notin faults => unlogged = {}

LEMMA AllLoggedStep == ASSUME AllLogged, [Next]_vars PROVE AllLogged'
<1>1. CASE UNCHANGED vars
  BY <1>1 DEF AllLogged
<1>2. ASSUME "audit" \notin faults, NEW s \in Sessions, Logout(s) \/ Expire(s)
      PROVE  unlogged' = unlogged
  BY <1>2 DEF Logout, Expire, SessionDestroyed, SessionDestroyedThrows
<1> QED
  BY <1>1, <1>2, NextIsSteps DEF AllLogged

\* The registry names live sessions, and ended ones whose end could not be
\* written down, as long as no session ends while a login on it is at work:
\* nothing else that overlaps or fails can spoil it.
THEOREM RegistryStaysLive == Spec => []RegistryIsLive
<1> DEFINE Inv == "gone" \notin faults => LoginsLive /\ OnlyLive
<1>1. Init => Inv
  BY DEF Init, LoginsLive, OnlyLive
<1>2. TypeOK /\ Inv /\ [Next]_vars => Inv'
  BY RegistryStep, FaultsStay
<1>3. Inv => RegistryIsLive
  BY DEF OnlyLive, RegistryIsLive
<1> QED
  BY <1>1, <1>2, <1>3, SessionsTypeCorrect, PTL DEF Spec

-----------------------------------------------------------------------------
(***************************************************************************)
(* One login after the other.  The login at work is the only exception to  *)
(* "no two logged-in sessions are rivals"; when it has found one to put    *)
(* out, that one is all that stands in the way, because Rivals is an       *)
(* equivalence and the others were no rivals of the one found.             *)
(***************************************************************************)
OneAtWork == \A s, t \in Sessions : pc[s] # "idle" /\ pc[t] # "idle" => s = t
AtWorkLoggedIn ==
    \A s \in Sessions : pc[s] # "idle" => LoggedIn(s) /\ who[s] = loginObj[s]
IdleNoRivals ==
    \A s, t \in Sessions :
        s # t /\ LoggedIn(s) /\ LoggedIn(t) /\ pc[s] = "idle" /\ pc[t] = "idle"
            => ~Rivals(loginObj[s], loginObj[t])
OneToEvict ==
    \A s, t \in Sessions :
        pc[s] = "evict" /\ t # s /\ t # victim[s] /\ LoggedIn(t)
            => ~Rivals(who[s], loginObj[t])
VictimIsOther ==
    \A s \in Sessions : pc[s] = "evict" => victim[s] \in Sessions /\ victim[s] # s

OneLeft == OneAtWork /\ AtWorkLoggedIn /\ IdleNoRivals /\ OneToEvict /\ VictimIsOther

Known == TypeOK /\ Registering /\ LoginsLive /\ OnlyLive /\ AllLogged /\ OneLeft
DeadLoggedOut == \A s \in Sessions : state[s] # "live" => ~LoggedIn(s)

LEMMA RivalsEquivalence ==
    /\ \A u, v : Rivals(u, v) => Rivals(v, u)
    /\ \A u, v, w : Rivals(u, v) /\ Rivals(u, w) => Rivals(v, w)
BY DEF Rivals

LEMMA DeadStep == TypeOK /\ LoginsLive /\ DeadLoggedOut /\ [Next]_vars => DeadLoggedOut'
<1> SUFFICES ASSUME TypeOK, LoginsLive, DeadLoggedOut, [Next]_vars PROVE DeadLoggedOut'
  OBVIOUS
<1> USE DEF TypeOK, LoginsLive, DeadLoggedOut, LoggedIn
<1>1. CASE UNCHANGED vars
  BY <1>1
<1>2. ASSUME NEW s \in Sessions, Steps(s) PROVE DeadLoggedOut'
  BY <1>2, SessionsAssumption
     DEF Steps, SessionCreated, LoginRefused, LoginSuccess, AddLoginSession, UpdateLoginFails,
         CheckFinds, CheckMeetsDead, CheckFindsNone, Evict, EvictFails, Logout, Expire,
         SessionDestroyed, SessionDestroyedThrows, Invalidated, ReadController,
         SetController, ReleaseController
<1> QED
  BY <1>1, <1>2, NextIsSteps

LEMMA OneLeftStep ==
    ASSUME faults = {}, Security, Known, DeadLoggedOut, [Next]_vars
    PROVE  OneLeft'
<1> USE DEF LoggedIn, TypeOK
<1> DEFINE Inv == OneAtWork /\ AtWorkLoggedIn /\ IdleNoRivals /\ OneToEvict /\ VictimIsOther
<1> SUFFICES Inv'
  BY DEF OneLeft
<1>0. TypeOK /\ Registering /\ LoginsLive /\ OnlyLive /\ unlogged = {} /\ Inv
  BY DEF Known, OneLeft, AllLogged
<1> USE DEF OneAtWork, AtWorkLoggedIn, IdleNoRivals, OneToEvict, VictimIsOther
<1>1. CASE UNCHANGED vars
  BY <1>0, <1>1
<1>2. ASSUME NEW s \in Sessions, Steps(s) PROVE Inv'
  <2>1. CASE SessionCreated(s)
    BY <1>0, <2>1 DEF SessionCreated
  <2>2. CASE LoginRefused(s)
    BY <1>0, <2>2 DEF LoginRefused
  <2>3. ASSUME NEW u \in Users, LoginSuccess(s, u) PROVE Inv'
    BY <1>0, <2>3, SessionsAssumption DEF LoginSuccess, MayStart, AtWork
  <2>4. CASE AddLoginSession(s)
    BY <1>0, <2>4 DEF AddLoginSession, LoginEnds
  <2>5. CASE CheckFinds(s)
    <3> PICK v \in Duplicates(s) : victim' = [victim EXCEPT ![s] = v]
      BY <2>5 DEF CheckFinds
    <3>1. \A t \in Sessions : t # s /\ t # v /\ LoggedIn(t) => ~Rivals(who[s], loginObj[t])
      BY <1>0, <2>5, RivalsEquivalence DEF CheckFinds, Duplicates
    <3> QED
      BY <1>0, <2>5, <3>1 DEF CheckFinds, Duplicates
  <2>6. CASE CheckFindsNone(s)
    <3>1. \A t \in Sessions : t # s /\ LoggedIn(t) => ~Rivals(who[s], loginObj[t])
      BY <1>0, <2>6 DEF CheckFindsNone, Duplicates, Registering
    <3> QED
      BY <1>0, <2>6, <3>1, RivalsEquivalence DEF CheckFindsNone, LoginEnds
  <2>7. CASE Evict(s)
    BY <1>0, <2>7, RivalsEquivalence DEF Evict, LoginEnds
  <2>8. CASE EvictFails(s)
    <3>1. ~LoggedIn(victim[s])
      BY <1>0, <2>8 DEF EvictFails, DeadLoggedOut
    <3> QED
      BY <1>0, <2>8, <3>1, RivalsEquivalence DEF EvictFails, LoginEnds
  <2>9. CASE Logout(s) \/ Expire(s)
    BY <1>0, <2>9
       DEF Logout, Expire, SessionDestroyed, SessionDestroyedThrows, Invalidated, MayEnd
  <2>10. CASE ReadController(s) \/ SetController(s) \/ ReleaseController(s)
    BY <1>0, <2>10 DEF ReadController, SetController, ReleaseController
  <2> QED
    BY <1>0, <1>2, <2>1, <2>2, <2>3, <2>4, <2>5, <2>6, <2>7, <2>8, <2>9, <2>10
       DEF Steps, UpdateLoginFails, CheckMeetsDead, OnlyLive
<1> QED
  BY <1>1, <1>2, NextIsSteps

\* Logins that come one after the other leave one login per ID and one
\* administrator, whatever sessions end or are put out in between.
THEOREM OneLoginRemains == Spec => []SingleLoginInTurn
<1> DEFINE Inv == faults = {} /\ Security => Known /\ DeadLoggedOut
<1>1. Init => Inv
  BY TypeInit
     DEF Init, Known, Registering, LoginsLive, OnlyLive, AllLogged, OneLeft, OneAtWork, AtWorkLoggedIn,
         IdleNoRivals, OneToEvict, VictimIsOther, DeadLoggedOut, LoggedIn
<1>2. Inv /\ [Next]_vars => Inv'
  <2> SUFFICES ASSUME faults = {}, Security, Known, DeadLoggedOut, [Next]_vars
               PROVE  Known' /\ DeadLoggedOut'
    BY FaultsStay
  <2>1. "db" \notin faults /\ "gone" \notin faults
    OBVIOUS
  <2>2. TypeOK /\ Registering /\ LoginsLive /\ OnlyLive /\ AllLogged
    BY DEF Known
  <2>3. /\ TypeOK' /\ Registering' /\ LoginsLive' /\ OnlyLive' /\ AllLogged'
        /\ DeadLoggedOut'
    BY <2>1, <2>2, TypeStep, RegisteringStep, RegistryStep, AllLoggedStep, DeadStep
  <2>4. OneLeft'
    BY OneLeftStep
  <2> QED
    BY <2>3, <2>4 DEF Known
<1>3. Inv => SingleLoginInTurn
  BY DEF Known, OneLeft, IdleNoRivals, SingleLoginInTurn, SingleLogin, LoggedIn, Rivals
<1> QED
  BY <1>1, <1>2, <1>3, PTL DEF Spec

-----------------------------------------------------------------------------
\* One request for the control is at work at a time, and the one that is about
\* to take it takes it from nobody.
OneAsks ==
    /\ \A s, t \in Sessions : ask[s] # "none" /\ ask[t] # "none" => s = t
    /\ \A s \in Sessions : ask[s] # "none" => pc[s] = "idle"
TakesFree == \A s \in Sessions : ask[s] = "take" => controller = None

LEMMA ControlStep ==
    ASSUME "overlap" \notin faults, TypeOK, OneAsks, TakesFree, [Next]_vars
    PROVE  /\ OneAsks' /\ TakesFree'
           /\ controller # None /\ controller' # None => controller' = controller
<1> USE DEF TypeOK, OneAsks, TakesFree
<1> DEFINE Kept == controller # None /\ controller' # None => controller' = controller
<1>1. CASE UNCHANGED vars
  BY <1>1
<1>2. ASSUME NEW s \in Sessions, Steps(s) PROVE OneAsks' /\ TakesFree' /\ Kept
  <2>1. CASE \E u \in Users : LoginSuccess(s, u)
    BY <2>1 DEF LoginSuccess, MayStart, AtWork
  <2>2. CASE ReadController(s)
    BY <2>2, SessionsAssumption DEF ReadController, MayStart, AtWork
  <2>3. CASE SetController(s) \/ ReleaseController(s)
    BY <2>3 DEF SetController, ReleaseController
  <2>4. CASE Logout(s)
    BY <2>4 DEF Logout, SessionDestroyed, Invalidated
  <2> QED
    BY <1>2, <2>1, <2>2, <2>3, <2>4
       DEF Steps, SessionCreated, LoginRefused, AddLoginSession, UpdateLoginFails, CheckFinds,
           CheckMeetsDead, CheckFindsNone, Evict, EvictFails, Expire, SessionDestroyed,
           SessionDestroyedThrows, Invalidated, LoginEnds
<1> QED
  BY <1>1, <1>2, NextIsSteps

\* Nobody is given the control while another user holds it, as long as requests
\* come one after the other.
THEOREM ControlIsKept == Spec => ControlNotTaken
<1> DEFINE Inv == "overlap" \notin faults => OneAsks /\ TakesFree
<1>1. Init => Inv
  BY DEF Init, OneAsks, TakesFree
<1>2. TypeOK /\ Inv /\ [Next]_vars => Inv'
  BY ControlStep, FaultsStay
<1>3. TypeOK /\ Inv /\ [Next]_vars
        => [/\ "overlap" \notin faults
            /\ controller # None /\ controller' # None
            => controller' = controller]_vars
  BY ControlStep
<1> QED
  BY <1>1, <1>2, <1>3, SessionsTypeCorrect, PTL DEF Spec, ControlNotTaken

-----------------------------------------------------------------------------
(***************************************************************************)
(* What the locks of an account are worth for any limit of failed logins,  *)
(* any time of a lock and any number of requests, as long as the requests  *)
(* come one after the other: two at a time lose count of the failures, for *)
(* both read the row before either writes it.                              *)
(***************************************************************************)

USE LockoutAssumption DEF lockoutVars

LEMMA CasesStay == ASSUME [LockoutNext]_lockoutVars PROVE cases' = cases
BY DEF LockoutNext

LEMMA FailPlanType ==
    ASSUME LockoutTypeOK PROVE FailPlan \in Plan
BY DEF LockoutTypeOK, FailPlan, Row, Plan

LEMMA LockoutTypeStep == LockoutTypeOK /\ [LockoutNext]_lockoutVars => LockoutTypeOK'
<1> SUFFICES ASSUME LockoutTypeOK, [LockoutNext]_lockoutVars PROVE LockoutTypeOK'
  OBVIOUS
<1> USE CasesStay DEF LockoutTypeOK, Row, Plan
<1>1. CASE UNCHANGED lockoutVars
  BY <1>1
<1>2. ASSUME NEW r \in Requests, Request(r) PROVE LockoutTypeOK'
  <2>1. CASE LoginRight(r)
    BY <2>1 DEF LoginRight
  <2>2. CASE LoginWrong(r)
    BY <2>2 DEF LoginWrong
  <2>3. CASE UpdateLoginSuccess(r)
    BY <2>3 DEF UpdateLoginSuccess
  <2>4. CASE FailRead(r)
    BY <2>4, FailPlanType DEF FailRead
  <2>5. CASE FailWrite(r)
    BY <2>5 DEF FailWrite, NoPlan
  <2> QED
    BY <1>2, <2>1, <2>2, <2>3, <2>4, <2>5 DEF Request
<1>3. ASSUME NEW l \in {0, 2}, SaveAccount(l) PROVE LockoutTypeOK'
  BY <1>3 DEF SaveAccount
<1>4. ASSUME NEW n \in Limits, SaveLimit(n) PROVE LockoutTypeOK'
  BY <1>4 DEF SaveLimit
<1>5. CASE Tick
  BY <1>5 DEF Tick
<1> QED
  BY <1>1, <1>2, <1>3, <1>4, <1>5 DEF LockoutNext

\* The variables have their types.
THEOREM LockoutTypeCorrect == LockoutSpec => []LockoutTypeOK
<1>1. LockoutInit => LockoutTypeOK
  BY DEF LockoutInit, LockoutTypeOK, Row, Plan, NoPlan
<1> QED
  BY <1>1, LockoutTypeStep, PTL DEF LockoutSpec

-----------------------------------------------------------------------------
(***************************************************************************)
(* One request at a time                                                   *)
(***************************************************************************)

\* While a request is at work every other is idle.
OneAtATime == \A r, s \in Requests : r # s => step[r] = "idle" \/ step[s] = "idle"

LEMMA OneAtATimeStep ==
    ASSUME "overlap" \notin cases, LockoutTypeOK, OneAtATime, [LockoutNext]_lockoutVars
    PROVE  OneAtATime'
<1> USE DEF LockoutTypeOK, OneAtATime
<1>1. CASE UNCHANGED lockoutVars
  BY <1>1
<1>2. ASSUME NEW r \in Requests, LoginRight(r) \/ LoginWrong(r) PROVE OneAtATime'
  BY <1>2 DEF LoginRight, LoginWrong, MayRequest, Quiet
<1>3. ASSUME NEW r \in Requests, UpdateLoginSuccess(r) \/ FailRead(r) \/ FailWrite(r)
      PROVE  OneAtATime'
  BY <1>3 DEF UpdateLoginSuccess, FailRead, FailWrite
<1>4. CASE (\E l \in {0, 2} : SaveAccount(l)) \/ (\E n \in Limits : SaveLimit(n)) \/ Tick
  BY <1>4 DEF SaveAccount, SaveLimit, Tick
<1> QED
  BY <1>1, <1>2, <1>3, <1>4 DEF LockoutNext, Request

LEMMA OneAtATimeInit == LockoutInit => OneAtATime
BY DEF LockoutInit, OneAtATime

-----------------------------------------------------------------------------
(***************************************************************************)
(* A suspension                                                            *)
(***************************************************************************)

\* A suspended account has been logged in to, or tried, before, and no request
\* that saw it otherwise is still at work.
Suspended == row.lockout = 2 => Quiet /\ row.loginDate # Never

LEMMA SuspendedStep ==
    ASSUME "overlap" \notin cases, "neverIn" \notin cases,
           LockoutTypeOK, OneAtATime, Suspended, [LockoutNext]_lockoutVars
    PROVE  Suspended'
<1> USE DEF LockoutTypeOK, Row, Plan, OneAtATime, Suspended, Quiet
<1>1. CASE UNCHANGED lockoutVars
  BY <1>1
<1>2. ASSUME NEW r \in Requests, Request(r) PROVE Suspended'
  <2>1. CASE LoginRight(r)
    BY <2>1 DEF LoginRight, LetsIn
  <2>2. CASE LoginWrong(r)
    BY <2>2 DEF LoginWrong
  <2>3. CASE UpdateLoginSuccess(r)
    BY <2>3 DEF UpdateLoginSuccess
  <2>4. CASE FailRead(r)
    BY <2>4 DEF FailRead
  <2>5. CASE FailWrite(r)
    BY <2>5 DEF FailWrite
  <2> QED
    BY <1>2, <2>1, <2>2, <2>3, <2>4, <2>5 DEF Request
<1>3. ASSUME NEW l \in {0, 2}, SaveAccount(l) PROVE Suspended'
  BY <1>3 DEF SaveAccount, MayRequest
<1>4. CASE (\E n \in Limits : SaveLimit(n)) \/ Tick
  BY <1>4 DEF SaveLimit, Tick
<1> QED
  BY <1>1, <1>2, <1>3, <1>4 DEF LockoutNext

\* Only an administrator lifts a suspension, whatever becomes of the limit.
THEOREM OnlyAdministratorsLift == LockoutSpec => SuspensionLastsInTurn
<1> DEFINE Inv == cases \cap {"overlap", "neverIn"} = {} => OneAtATime /\ Suspended
<1>1. LockoutInit => Inv
  BY OneAtATimeInit DEF LockoutInit, Suspended
<1>2. LockoutTypeOK /\ Inv /\ [LockoutNext]_lockoutVars => Inv'
  BY CasesStay, OneAtATimeStep, SuspendedStep
<1>3. LockoutTypeOK /\ Inv /\ [LockoutNext]_lockoutVars
        => [cases \cap {"overlap", "neverIn"} = {} => ~LiftedByLogin]_lockoutVars
  <2> SUFFICES ASSUME LockoutTypeOK, Suspended, LockoutNext, ~\E l \in {0, 2} : SaveAccount(l), row.lockout = 2
               PROVE  row' = row
    BY DEF LiftedByLogin
  <2>1. ASSUME NEW r \in Requests, Request(r) PROVE row' = row
    BY <2>1 DEF Request, LoginRight, LoginWrong, UpdateLoginSuccess, FailRead, FailWrite,
                Suspended, Quiet
  <2> QED
    BY <2>1 DEF LockoutNext, SaveLimit, Tick
<1> QED
  BY <1>1, <1>2, <1>3, LockoutTypeCorrect, PTL DEF LockoutSpec, SuspensionLastsInTurn

-----------------------------------------------------------------------------
(***************************************************************************)
(* The limit                                                               *)
(***************************************************************************)

\* The requests work with the limit there is; what one of them is about to
\* write counts its failure, and leaves the account open below the limit only.
Counting ==
    /\ \A r \in Requests : step[r] = "fail" => loginCountLimit = limit
    /\ \A r \in Requests : step[r] = "write" =>
        /\ plan[r].failCount >= 1
        /\ plan[r].lockout # 0 \/ row.lockout # 1 => plan[r].failCount = row.failCount + 1
        /\ plan[r].lockout = 0 /\ row.lockout # 1 => plan[r].failCount < limit
    /\ wrong <= row.failCount
    /\ LimitEnforced

LEMMA CountingStep ==
    ASSUME "overlap" \notin cases, "conf" \notin cases,
           LockoutTypeOK, OneAtATime, Counting, [LockoutNext]_lockoutVars
    PROVE  Counting'
<1> USE DEF LockoutTypeOK, Row, Plan, OneAtATime, Counting, LimitEnforced
<1>1. CASE UNCHANGED lockoutVars
  BY <1>1
<1>2. ASSUME NEW r \in Requests, Request(r) PROVE Counting'
  <2>1. CASE LoginRight(r)
    BY <2>1 DEF LoginRight
  <2>2. CASE LoginWrong(r)
    BY <2>2 DEF LoginWrong
  <2>3. CASE UpdateLoginSuccess(r)
    BY <2>3 DEF UpdateLoginSuccess
  <2>4. CASE FailRead(r)
    BY <2>4 DEF FailRead, FailPlan
  <2>5. CASE FailWrite(r)
    BY <2>5 DEF FailWrite
  <2> QED
    BY <1>2, <2>1, <2>2, <2>3, <2>4, <2>5 DEF Request
<1>3. ASSUME NEW l \in {0, 2}, SaveAccount(l) PROVE Counting'
  BY <1>3 DEF SaveAccount, MayRequest, Quiet
<1>4. CASE (\E n \in Limits : SaveLimit(n)) \/ Tick
  BY <1>4 DEF SaveLimit, Tick
<1> QED
  BY <1>1, <1>2, <1>3, <1>4 DEF LockoutNext

\* After as many failed logins as the limit says the account is locked, as long
\* as nobody changes the limit.
THEOREM FailuresAreLimited == LockoutSpec => []LimitEnforcedInTurn
<1> DEFINE Inv == cases \cap {"overlap", "conf"} = {} => OneAtATime /\ Counting
<1>1. LockoutInit => Inv
  BY OneAtATimeInit DEF LockoutInit, Counting, LimitEnforced
<1>2. LockoutTypeOK /\ Inv /\ [LockoutNext]_lockoutVars => Inv'
  BY CasesStay, OneAtATimeStep, CountingStep
<1>3. Inv => LimitEnforcedInTurn
  BY DEF Counting, LimitEnforcedInTurn
<1> QED
  BY <1>1, <1>2, <1>3, LockoutTypeCorrect, PTL DEF LockoutSpec

-----------------------------------------------------------------------------
(***************************************************************************)
(* An administrator's lock                                                 *)
(***************************************************************************)

\* Such a lock has a date and a count that reaches the limit, and a request at
\* work that would lift it does so because its time is over.
TimedLock ==
    row.lockout = 1 =>
        /\ row.admin
        /\ row.loginDate \in Nat
        /\ row.failCount >= limit
        /\ \A r \in Requests :
            /\ step[r] = "fail" => loginCountLimit = limit
            /\ step[r] = "success" => LockTimeOver
            /\ step[r] = "write" /\ plan[r].lockout # 1 => LockTimeOver

\* What it takes for a lock to be written with its count.
LockingPlan ==
    \A r \in Requests :
        /\ step[r] = "fail" => loginCountLimit = limit
        /\ step[r] = "write" /\ plan[r].lockout = 1 => row.admin /\ plan[r].failCount >= limit

LEMMA TimedLockStep ==
    ASSUME "overlap" \notin cases, "conf" \notin cases,
           LockoutTypeOK, OneAtATime, TimedLock, LockingPlan, [LockoutNext]_lockoutVars
    PROVE  TimedLock' /\ LockingPlan'
<1> USE DEF LockoutTypeOK, Row, Plan, OneAtATime, TimedLock, LockingPlan, LockTimeOver
<1>1. CASE UNCHANGED lockoutVars
  BY <1>1
<1>2. ASSUME NEW r \in Requests, Request(r) PROVE TimedLock' /\ LockingPlan'
  <2>1. CASE LoginRight(r)
    BY <2>1 DEF LoginRight, LetsIn
  <2>2. CASE LoginWrong(r)
    BY <2>2 DEF LoginWrong
  <2>3. CASE UpdateLoginSuccess(r)
    BY <2>3 DEF UpdateLoginSuccess
  <2>4. CASE FailRead(r)
    BY <2>4 DEF FailRead, FailPlan
  <2>5. CASE FailWrite(r)
    BY <2>5 DEF FailWrite
  <2> QED
    BY <1>2, <2>1, <2>2, <2>3, <2>4, <2>5 DEF Request
<1>3. ASSUME NEW l \in {0, 2}, SaveAccount(l) PROVE TimedLock' /\ LockingPlan'
  BY <1>3 DEF SaveAccount
<1>4. CASE (\E n \in Limits : SaveLimit(n)) \/ Tick
  BY <1>4 DEF SaveLimit, Tick
<1> QED
  BY <1>1, <1>2, <1>3, <1>4 DEF LockoutNext

\* An administrator's lock lasts its time, as long as nobody changes the limit.
THEOREM AdminLocksLastTheirTime == LockoutSpec => AdminLockLastsInTurn
<1> DEFINE Inv == cases \cap {"overlap", "conf"} = {} => OneAtATime /\ TimedLock /\ LockingPlan
<1>1. LockoutInit => Inv
  BY OneAtATimeInit DEF LockoutInit, TimedLock, LockingPlan
<1>2. LockoutTypeOK /\ Inv /\ [LockoutNext]_lockoutVars => Inv'
  BY CasesStay, OneAtATimeStep, TimedLockStep
<1>3. LockoutTypeOK /\ Inv /\ [LockoutNext]_lockoutVars
        => [cases \cap {"overlap", "conf"} = {} => ~UnlockedEarly]_lockoutVars
  <2> SUFFICES ASSUME LockoutTypeOK, TimedLock, "conf" \notin cases, LockoutNext, UnlockedEarly PROVE FALSE
    OBVIOUS
  <2>1. ASSUME NEW r \in Requests, Request(r) PROVE FALSE
    BY <2>1 DEF Request, LoginRight, LoginWrong, UpdateLoginSuccess, FailRead, FailWrite,
                TimedLock, LockTimeOver, UnlockedEarly, LockoutTypeOK, Row, Plan
  <2>2. ASSUME NEW l \in {0, 2}, SaveAccount(l) PROVE row.lockout # 1
    BY <2>2 DEF SaveAccount, TimedLock
  <2> QED
    BY <2>1, <2>2 DEF LockoutNext, SaveLimit, Tick, UnlockedEarly
<1> QED
  BY <1>1, <1>2, <1>3, LockoutTypeCorrect, PTL DEF LockoutSpec, AdminLockLastsInTurn
=============================================================================
