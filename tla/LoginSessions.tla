--------------------------- MODULE LoginSessions ---------------------------
(***************************************************************************)
(* The console's HTTP sessions: who is logged in on which of them, the     *)
(* registry SessionListener keeps of the logins, the check for duplicate   *)
(* logins of the security mode, and the control that one user at a time    *)
(* holds.  Tomcat runs each request on a thread of its own: the steps of a *)
(* login (AuthenticationService.loginSuccess) and of a request for control *)
(* are actions, so that those of different sessions interleave.  Whether a *)
(* name and a password are accepted is the subject of LoginLockout.        *)
(***************************************************************************)
EXTENDS Integers, FiniteSets

CONSTANTS
    Users,      \* account names
    Admins,     \* those whose role is 7
    Sessions,   \* HTTP sessions; one that has ended does not come back
    None,       \* no user, no session
    Security,   \* Constants.systemMode is SECURITY
    MaxAtWork,  \* bound on the requests at work at a time, if they may overlap
    FaultSets   \* the combinations of failures and races to look at

ASSUME SessionsAssumption ==
    /\ Admins \subseteq Users
    /\ None \notin Users \cup Sessions
    /\ Security \in BOOLEAN
    /\ MaxAtWork \in Nat
    /\ FaultSets \subseteq SUBSET {"overlap", "gone", "db", "audit"}

VARIABLES
    state,        \* session -> "new", "live" or "dead"
    username,     \* its attribute Username
    loginObj,     \* the user of its attribute SESSION_OBJ: set = logged in
    duble,        \* its attribute SESSION_DUBLE: another login put it out
    monitor,      \* SessionListener.loginSessionMonitor
    loginObject,  \* SessionListener.loginObject: session -> user listed for it
    controller,   \* SessionObject.controller
    pc,           \* the login request of a session: where it is ...
    who,          \* ... whom it logs in ...
    victim,       \* ... and the session it is about to put out
    ask,          \* requireController of a session: what it will do
    asker,        \* ... and for whom
    unlogged,     \* history: the sessions whose end could not be written down
    faults        \* what may go wrong in this behaviour; it never changes

attrs == <<username, loginObj, duble>>
registry == <<monitor, loginObject>>
request == <<pc, who, victim>>
control == <<controller, ask, asker>>
vars == <<state, attrs, registry, request, control, unlogged, faults>>

TypeOK ==
    /\ state \in [Sessions -> {"new", "live", "dead"}]
    /\ username \in [Sessions -> Users \cup {None}]
    /\ loginObj \in [Sessions -> Users \cup {None}]
    /\ duble \in [Sessions -> BOOLEAN]
    /\ monitor \in SUBSET Sessions
    /\ loginObject \in [Sessions -> Users \cup {None}]
    /\ controller \in Users \cup {None}
    /\ pc \in [Sessions -> {"idle", "named", "check", "evict"}]
    /\ who \in [Sessions -> Users \cup {None}]
    /\ victim \in [Sessions -> Sessions \cup {None}]
    /\ ask \in [Sessions -> {"none", "take", "release"}]
    /\ asker \in [Sessions -> Users \cup {None}]
    /\ unlogged \in SUBSET Sessions
    /\ faults \in FaultSets

Init ==
    /\ state = [s \in Sessions |-> "new"]
    /\ username = [s \in Sessions |-> None]
    /\ loginObj = [s \in Sessions |-> None]
    /\ duble = [s \in Sessions |-> FALSE]
    /\ monitor = {}
    /\ loginObject = [s \in Sessions |-> None]
    /\ controller = None
    /\ pc = [s \in Sessions |-> "idle"]
    /\ who = [s \in Sessions |-> None]
    /\ victim = [s \in Sessions |-> None]
    /\ ask = [s \in Sessions |-> "none"]
    /\ asker = [s \in Sessions |-> None]
    /\ unlogged = {}
    /\ faults \in FaultSets

\* No request is half way: without "overlap" they come one after the other.
AtWork == {s \in Sessions : pc[s] # "idle" \/ ask[s] # "none"}
MayStart == AtWork = {} \/ ("overlap" \in faults /\ Cardinality(AtWork) < MaxAtWork)

-----------------------------------------------------------------------------
(***************************************************************************)
(* Logging in                                                              *)
(***************************************************************************)

\* A browser comes for the first time.
SessionCreated(s) ==
    /\ state[s] = "new"
    /\ state' = [state EXCEPT ![s] = "live"]
    /\ UNCHANGED <<attrs, registry, request, control>>

\* A login that is turned down only clears the message of the last eviction.
LoginRefused(s) ==
    /\ state[s] = "live" /\ pc[s] = "idle"
    /\ MayStart
    /\ duble' = [duble EXCEPT ![s] = FALSE]
    /\ UNCHANGED <<state, username, loginObj, registry, request, control>>

\* login0 has accepted the user: the attributes that make the session a
\* logged-in one are set, and he loses the control he may have had.
LoginSuccess(s, u) ==
    /\ state[s] = "live" /\ pc[s] = "idle"
    /\ MayStart
    /\ username' = [username EXCEPT ![s] = u]
    /\ loginObj' = [loginObj EXCEPT ![s] = u]
    /\ duble' = [duble EXCEPT ![s] = FALSE]
    /\ controller' = IF controller = u THEN None ELSE controller
    /\ pc' = [pc EXCEPT ![s] = "named"]
    /\ who' = [who EXCEPT ![s] = u]
    /\ UNCHANGED <<state, registry, victim, ask, asker>>

\* What is left of a request that has returned or thrown.
LoginEnds(s) ==
    /\ pc' = [pc EXCEPT ![s] = "idle"]
    /\ who' = [who EXCEPT ![s] = None]
    /\ victim' = [victim EXCEPT ![s] = None]

\* (mutant of AddLoginSession: only a session that is new to it is added)
AddLoginSessionOnce(s) ==
    /\ pc[s] = "named"
    /\ monitor' = monitor \cup {s}
    /\ loginObject' = IF loginObject[s] = None THEN [loginObject EXCEPT ![s] = who[s]]
                                               ELSE loginObject
    /\ IF Security THEN pc' = [pc EXCEPT ![s] = "check"] /\ UNCHANGED <<who, victim>>
                   ELSE LoginEnds(s)
    /\ UNCHANGED <<state, attrs, control>>

\* updateLoginSuccess has written the account's row; addLoginSession registers
\* the session (whether or not it is still there).
AddLoginSession(s) ==
    /\ pc[s] = "named"
    /\ monitor' = monitor \cup {s}
    /\ loginObject' = [loginObject EXCEPT ![s] = who[s]]
    /\ IF Security THEN pc' = [pc EXCEPT ![s] = "check"] /\ UNCHANGED <<who, victim>>
                   ELSE LoginEnds(s)
    /\ UNCHANGED <<state, attrs, control>>

\* updateLoginSuccess throws: the login is answered with an error, and the
\* attributes stay as they are.
UpdateLoginFails(s) ==
    /\ "db" \in faults
    /\ pc[s] = "named"
    /\ LoginEnds(s)
    /\ UNCHANGED <<state, attrs, registry, control>>

-----------------------------------------------------------------------------
(***************************************************************************)
(* checkDuplicationLogin                                                   *)
(***************************************************************************)

\* (mutant of Rivals: two administrators may be logged in)
RivalsById(u, v) == u = v

\* One login per ID, and one administrator.
Rivals(u, v) == u = v \/ (u \in Admins /\ v \in Admins)

\* The sessions the login of s has to put out.
Duplicates(s) ==
    {v \in monitor \ {s} : loginObj[v] # None /\ Rivals(who[s], loginObj[v])}

\* The enumeration of loginSessionMonitor asks every session it meets for its
\* attribute, and stops at the first duplicate ...
CheckFinds(s) ==
    /\ pc[s] = "check"
    /\ \E v \in Duplicates(s) : victim' = [victim EXCEPT ![s] = v]
    /\ pc' = [pc EXCEPT ![s] = "evict"]
    /\ UNCHANGED <<state, attrs, registry, who, control>>

\* ... or at a session that is no more: getAttribute throws.
CheckMeetsDead(s) ==
    /\ pc[s] = "check"
    /\ \E v \in monitor : state[v] = "dead"
    /\ LoginEnds(s)
    /\ UNCHANGED <<state, attrs, registry, control>>

CheckFindsNone(s) ==
    /\ pc[s] = "check"
    /\ Duplicates(s) = {}
    /\ \A v \in monitor : state[v] # "dead"
    /\ LoginEnds(s)
    /\ UNCHANGED <<state, attrs, registry, control>>

\* After the audit row is written, the duplicate loses SESSION_OBJ; the session
\* itself lives on and stays registered.
Evict(s) ==
    LET v == victim[s] IN
    /\ pc[s] = "evict"
    /\ state[v] = "live"
    /\ loginObj' = [loginObj EXCEPT ![v] = None]
    /\ duble' = [duble EXCEPT ![v] = TRUE]
    /\ LoginEnds(s)
    /\ UNCHANGED <<state, username, registry, control>>

\* The audit row cannot be written, or the duplicate has ended by itself.
EvictFails(s) ==
    /\ pc[s] = "evict"
    /\ "audit" \in faults \/ state[victim[s]] = "dead"
    /\ LoginEnds(s)
    /\ UNCHANGED <<state, attrs, registry, control>>

-----------------------------------------------------------------------------
(***************************************************************************)
(* The end of a session                                                    *)
(***************************************************************************)

\* Tomcat ends a session: its attributes go.
Invalidated(s) ==
    /\ state' = [state EXCEPT ![s] = "dead"]
    /\ username' = [username EXCEPT ![s] = None]
    /\ loginObj' = [loginObj EXCEPT ![s] = None]
    /\ duble' = [duble EXCEPT ![s] = FALSE]

\* (mutant of SessionDestroyed: the registry is cleared of evicted sessions only)
SessionDestroyedKeeps(s) ==
    /\ Invalidated(s)
    /\ monitor' = IF loginObj[s] = None THEN monitor \ {s} ELSE monitor
    /\ loginObject' = [loginObject EXCEPT ![s] = None]
    /\ UNCHANGED unlogged

\* SessionListener forgets the session that ends.
SessionDestroyed(s) ==
    /\ Invalidated(s)
    /\ monitor' = monitor \ {s}
    /\ loginObject' = [loginObject EXCEPT ![s] = None]
    /\ UNCHANGED unlogged

\* The audit row of a logged-in session's end, which comes first, throws what the
\* listener does not catch: the session ends and stays registered.
SessionDestroyedThrows(s) ==
    /\ "audit" \in faults
    /\ username[s] # None /\ loginObj[s] # None
    /\ Invalidated(s)
    /\ unlogged' = unlogged \cup {s}
    /\ UNCHANGED registry

\* Without "gone" a session does not end while a login on it is at work.
MayEnd(s) == state[s] = "live" /\ (pc[s] = "idle" \/ "gone" \in faults)

\* A logged-in user logs out; WebAuthFilter lets nobody else through.  With the
\* session goes the control its user holds, in whatever session he took it.  The
\* attribute Username goes before the session, so that no audit row is written.
Logout(s) ==
    /\ MayEnd(s)
    /\ loginObj[s] # None
    /\ controller' = IF controller = username[s] THEN None ELSE controller
    /\ SessionDestroyed(s)
    /\ UNCHANGED <<request, ask, asker>>

\* The session times out, or WebAuthFilter or invalidateSession ends it: the
\* control stays with its user.
Expire(s) ==
    /\ MayEnd(s)
    /\ SessionDestroyed(s) \/ SessionDestroyedThrows(s)
    /\ UNCHANGED <<request, control>>

-----------------------------------------------------------------------------
(***************************************************************************)
(* Control                                                                 *)
(***************************************************************************)

\* (mutant of ReadController: nobody is refused)
ReadControllerAny(s) ==
    /\ state[s] = "live" /\ loginObj[s] # None /\ ask[s] = "none"
    /\ MayStart
    /\ ask' = [ask EXCEPT ![s] = IF controller = username[s] THEN "release" ELSE "take"]
    /\ asker' = [asker EXCEPT ![s] = username[s]]
    /\ UNCHANGED <<state, attrs, registry, request, controller>>

\* requireController reads who has the control: a free one will be taken, the
\* user's own given back, and another's refused.
ReadController(s) ==
    /\ state[s] = "live" /\ loginObj[s] # None /\ ask[s] = "none"
    /\ MayStart
    /\ \/ controller = None        /\ ask' = [ask EXCEPT ![s] = "take"]
       \/ controller = username[s] /\ ask' = [ask EXCEPT ![s] = "release"]
    /\ asker' = [asker EXCEPT ![s] = username[s]]
    /\ UNCHANGED <<state, attrs, registry, request, controller>>

\* releaseController is also an address of its own, and asks nothing.
ReleaseController(s) ==
    /\ state[s] = "live" /\ loginObj[s] # None /\ ask[s] = "none"
    /\ MayStart
    /\ controller' = None
    /\ UNCHANGED <<state, attrs, registry, request, ask, asker>>

\* requireController then sets what it has decided on.
SetController(s) ==
    /\ ask[s] # "none"
    /\ controller' = IF ask[s] = "take" THEN asker[s] ELSE None
    /\ ask' = [ask EXCEPT ![s] = "none"]
    /\ asker' = [asker EXCEPT ![s] = None]
    /\ UNCHANGED <<state, attrs, registry, request>>

-----------------------------------------------------------------------------
Login(s) ==
    \/ SessionCreated(s) \/ LoginRefused(s)
    \/ \E u \in Users : LoginSuccess(s, u)
    \/ AddLoginSession(s) \/ UpdateLoginFails(s)
    \/ CheckFinds(s) \/ CheckMeetsDead(s) \/ CheckFindsNone(s)
    \/ Evict(s) \/ EvictFails(s)

Controls(s) == ReadController(s) \/ SetController(s) \/ ReleaseController(s)

Next ==
    /\ \E s \in Sessions :
          \/ Login(s) /\ UNCHANGED unlogged
          \/ Logout(s) \/ Expire(s)
          \/ Controls(s) /\ UNCHANGED unlogged
    /\ UNCHANGED faults

Spec == Init /\ [][Next]_vars

-----------------------------------------------------------------------------
(***************************************************************************)
(* Properties                                                              *)
(***************************************************************************)

LoggedIn(s) == loginObj[s] # None

\* In the security mode, once every login has done its check, no ID is logged
\* in twice and no two administrators are: "only one ID or one administrator
\* account may be logged in" (the comment in checkDuplicationLogin).
SingleLogin ==
    Security =>
        \A s, t \in Sessions :
            s # t /\ LoggedIn(s) /\ LoggedIn(t) /\ pc[s] = "idle" /\ pc[t] = "idle"
                => loginObj[s] # loginObj[t] /\ ~{loginObj[s], loginObj[t]} \subseteq Admins

\* That is so as long as logins come one after the other and none is cut short.
SingleLoginInTurn == faults = {} => SingleLogin

\* Every session somebody is logged in on is registered, under his name: the
\* check for duplicates and the list of who is present miss nobody, whatever
\* logins and evictions on that session came before, and however they overlap,
\* as long as the account's row can be written.
LoginsRegistered ==
    "db" \notin faults =>
        \A s \in Sessions :
            LoggedIn(s) /\ pc[s] = "idle" => s \in monitor /\ loginObject[s] = loginObj[s]

\* Nothing is registered for a session that has ended (reading it throws, in
\* the check of every login to come), unless the audit row of its end failed or
\* it ended during its own login: overlapping logins, evictions and failing rows
\* of others leave nothing behind.
RegistryIsLive ==
    "gone" \notin faults =>
        \A s \in Sessions :
            s \in monitor \/ loginObject[s] # None => state[s] = "live" \/ s \in unlogged

\* With requests one after the other the control passes from one user to
\* another only through nobody: "{0} has the control" is the answer to whoever
\* asks for it meanwhile.
ControlNotTaken ==
    [][/\ "overlap" \notin faults
       /\ controller # None /\ controller' # None
       => controller' = controller]_vars
=============================================================================
