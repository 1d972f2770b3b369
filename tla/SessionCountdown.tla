-------------------------- MODULE SessionCountdown --------------------------
(***************************************************************************)
(* The two clocks of a session.  The server ends a session that was not    *)
(* accessed for a while; each tab of the browser counts the same time down *)
(* on its own (app.js 44-67), starts again with a request of its page, when *)
(* the answer with the time is there (ajaxSend, 106-146), and at the end   *)
(* asks the server to end the session, which all tabs share.               *)
(*                                                                         *)
(* Not every request counts: those to api/common/ and requireLogin (103),  *)
(* and what jQuery does not send, such as a download or a template, renew  *)
(* the session at the server and leave the countdown as it is.             *)
(*                                                                         *)
(* A tick is one step of both clocks; as the tabs count alike, they do so  *)
(* together.  Whether the page's own request or the one for the time comes *)
(* first makes no difference, so both are one.                             *)
(***************************************************************************)
EXTENDS Integers, FiniteSets

CONSTANTS
  Tabs,
  Times,       \* the values of the setting, in ticks
  FirstTime,   \* its value at the start
  TroubleSets  \* what may come in the way, run by run: sets of Troubles

(***************************************************************************)
(* "tabs": more than one tab is open.  "slow": time passes while a call is *)
(* under way.  "lost": a call is lost.  "setting": the time is changed.    *)
(* "quiet": pages send requests that do not count.                         *)
(***************************************************************************)
CountdownTroubles == {"tabs", "slow", "lost", "setting", "quiet"}

ASSUME TimesAssumption == Times \subseteq Nat \ {0} /\ FirstTime \in Times
ASSUME CountdownAssumption == TroubleSets \subseteq SUBSET CountdownTroubles

NoReply == -1  \* no call for the time is under way
Refused == 0   \* the answer of a session without a login: it is empty
Over    == -1  \* the countdown has gone past 0, which it never meets again

VARIABLES
  troubles,  \* rigid
  setting,   \* SESSION_TIMEOUT of the system's settings
  session,   \* "live" or "ended"
  limit,     \* its maxInactiveInterval
  idle,      \* for how long it was not accessed
  uncounted, \* for how long no request to it counted (history)
  tab,       \* is each tab "closed", "open" or at the "login" page?
  counter,   \* app.js: CRRUNT_TIME of each tab
  ticking,   \* has it started to count?
  reply,     \* the answer for the time that is under way to the tab
  ending     \* is its call to end the session under way?

countVars == <<troubles, setting, session, limit, idle, uncounted, tab, counter,
               ticking, reply, ending>>
atServer == <<troubles, setting, session, limit, idle, uncounted>>

Open == {t \in Tabs : tab[t] = "open"}
UnderWay == {t \in Open : reply[t] # NoReply \/ ending[t]}

Alive == session = "live" /\ idle < limit

(* What each request does to the session. *)
Access ==
  /\ session' = IF Alive THEN "live" ELSE "ended"
  /\ idle' = IF Alive THEN 0 ELSE idle

CountInit ==
  /\ troubles \in TroubleSets
  /\ setting = FirstTime /\ limit = FirstTime
  /\ session = "ended" /\ idle = 0 /\ uncounted = 0
  /\ tab = [t \in Tabs |-> "closed"]
  /\ counter = [t \in Tabs |-> 0] /\ ticking = [t \in Tabs |-> FALSE]
  /\ reply = [t \in Tabs |-> NoReply] /\ ending = [t \in Tabs |-> FALSE]

(* A page is loaded; its first requests ask for the time as all others do.  *)
Load(t) ==
  /\ tab[t] # "open" /\ (Open # {} => "tabs" \in troubles)
  /\ tab' = [tab EXCEPT ![t] = "open"]
  /\ reply' = [reply EXCEPT ![t] = setting]
  /\ ticking' = [ticking EXCEPT ![t] = FALSE]
  /\ counter' = [counter EXCEPT ![t] = 0]

(* loginSuccess: the session gets the time of the settings. *)
Login(t) ==
  /\ Load(t)
  /\ session' = "live" /\ idle' = 0 /\ uncounted' = 0 /\ limit' = setting
  /\ UNCHANGED <<troubles, setting, ending>>

OpenTab(t) ==
  /\ Load(t) /\ Alive
  /\ idle' = 0 /\ uncounted' = 0
  /\ UNCHANGED <<troubles, setting, session, limit, ending>>

(* A request that counts and the one for the time; an ended session makes  *)
(* WebAuthFilter answer with nothing. *)
SendRequest(t) ==
  /\ tab[t] = "open" /\ reply[t] = NoReply /\ ~ ending[t]
  /\ Access
  /\ uncounted' = IF Alive THEN 0 ELSE uncounted
  /\ reply' = [reply EXCEPT ![t] = IF Alive THEN setting ELSE Refused]
  /\ UNCHANGED <<troubles, setting, limit, tab, counter, ticking, ending>>

(* A request that does not count (103, 110-117), also of the login page. *)
SendUncounted(t) ==
  /\ "quiet" \in troubles /\ tab[t] # "closed"
  /\ Access
  /\ UNCHANGED <<troubles, setting, limit, uncounted, tab, counter, ticking, reply, ending>>

(* ajaxSend, success: to the login page, or startSessionTimeOutCheck. *)
GetSessionTimeAdds(t) ==  \* (mutant: what is left of the time is not cleared)
  /\ tab[t] = "open" /\ reply[t] # NoReply
  /\ reply' = [reply EXCEPT ![t] = NoReply]
  /\ counter' = [counter EXCEPT ![t] = IF @ > 0 THEN @ + reply[t] ELSE reply[t]]
  /\ ticking' = [ticking EXCEPT ![t] = TRUE]
  /\ UNCHANGED <<atServer, tab, ending>>
GetSessionTimeOnce(t) ==  \* (mutant: only the first answer starts the count)
  /\ tab[t] = "open" /\ reply[t] # NoReply
  /\ reply' = [reply EXCEPT ![t] = NoReply]
  /\ counter' = [counter EXCEPT ![t] = IF ticking[t] THEN @ ELSE reply[t]]
  /\ ticking' = [ticking EXCEPT ![t] = TRUE]
  /\ UNCHANGED <<atServer, tab, ending>>
GetSessionTime(t) ==
  /\ tab[t] = "open" /\ reply[t] # NoReply
  /\ reply' = [reply EXCEPT ![t] = NoReply]
  /\ IF reply[t] = Refused
     THEN tab' = [tab EXCEPT ![t] = "login"] /\ UNCHANGED <<counter, ticking>>
     ELSE /\ counter' = [counter EXCEPT ![t] = reply[t]]
          /\ ticking' = [ticking EXCEPT ![t] = TRUE]
          /\ UNCHANGED tab
  /\ UNCHANGED <<atServer, ending>>

(* The interval of 1 s: at 0 the call is sent, below 0 no more. *)
Tick ==
  /\ Open # {} /\ (UnderWay # {} => "slow" \in troubles)
  /\ ending' = [t \in Tabs |-> ending[t] \/
                  (t \in Open /\ ticking[t] /\ counter[t] = 0)]
  /\ counter' = [t \in Tabs |-> IF t \in Open /\ ticking[t] /\ counter[t] # Over
                                THEN counter[t] - 1 ELSE counter[t]]
  /\ idle' = IF Alive THEN idle + 1 ELSE idle
  /\ uncounted' = IF session = "live" /\ uncounted < limit THEN uncounted + 1 ELSE uncounted
  /\ UNCHANGED <<troubles, setting, session, limit, tab, ticking, reply>>

(* The server looks for sessions whose time is over, from time to time. *)
Expire ==
  /\ session = "live" /\ idle = limit /\ session' = "ended"
  /\ UNCHANGED <<troubles, setting, limit, idle, uncounted, tab, counter, ticking,
                 reply, ending>>

(* invalidateSession, and its success: back to the login page. *)
InvalidateSessionStays(t) ==  \* (mutant: the page stays where it is)
  /\ tab[t] = "open" /\ ending[t]
  /\ session' = "ended"
  /\ ending' = [ending EXCEPT ![t] = FALSE]
  /\ UNCHANGED <<troubles, setting, limit, idle, uncounted, tab, counter, ticking, reply>>
InvalidateSession(t) ==
  /\ tab[t] = "open" /\ ending[t]
  /\ session' = "ended"
  /\ ending' = [ending EXCEPT ![t] = FALSE]
  /\ tab' = [tab EXCEPT ![t] = "login"]
  /\ reply' = [reply EXCEPT ![t] = NoReply]
  /\ UNCHANGED <<troubles, setting, limit, idle, uncounted, counter, ticking>>

(* No success of a call, so nothing happens: the interval goes on below 0. *)
CallLost(t) ==
  /\ "lost" \in troubles /\ tab[t] = "open"
  /\ \/ reply[t] # NoReply /\ reply' = [reply EXCEPT ![t] = NoReply]
        /\ UNCHANGED ending
     \/ ending[t] /\ ending' = [ending EXCEPT ![t] = FALSE] /\ UNCHANGED reply
  /\ UNCHANGED <<atServer, tab, counter, ticking>>

(* updateSystemConfChange: only the session of whoever saves gets the time. *)
SaveSessionTime(own) ==
  /\ "setting" \in troubles
  /\ \E n \in Times \ {setting} :
       /\ setting' = n
       /\ IF own THEN Open # {} /\ Alive /\ limit' = n /\ idle' = 0 /\ uncounted' = 0
          ELSE UNCHANGED <<limit, idle, uncounted>>
  /\ UNCHANGED <<troubles, session, tab, counter, ticking, reply, ending>>

CountNext ==
  \/ \E t \in Tabs : \/ Login(t) \/ OpenTab(t) \/ SendRequest(t) \/ SendUncounted(t)
                     \/ GetSessionTime(t) \/ InvalidateSession(t) \/ CallLost(t)
  \/ Tick \/ Expire
  \/ \E own \in BOOLEAN : SaveSessionTime(own)

(* Time passes, and calls are answered. *)
CountFairness ==
  /\ WF_countVars(Tick)
  /\ \A t \in Tabs : WF_countVars(GetSessionTime(t)) /\ WF_countVars(InvalidateSession(t))
CountSpec == CountInit /\ [][CountNext]_countVars /\ CountFairness

----------------------------------------------------------------------------
(* Type invariant. *)
CountTypeOK ==
  /\ troubles \subseteq CountdownTroubles
  /\ setting \in Times /\ limit \in Times /\ idle \in 0 .. limit
  /\ uncounted \in 0 .. limit
  /\ session \in {"live", "ended"}
  /\ tab \in [Tabs -> {"closed", "open", "login"}]
  /\ counter \in [Tabs -> Int] /\ ticking \in [Tabs -> BOOLEAN]
  /\ reply \in [Tabs -> {NoReply, Refused} \cup Times] /\ ending \in [Tabs -> BOOLEAN]

Only(ts) == troubles \subseteq ts

(***************************************************************************)
(* A session that is in use is not ended: when it ends, none of its        *)
(* requests has counted for its whole time, and if all count, nobody has   *)
(* used it.  Requests that do not count are no use in this sense: a page   *)
(* that sends nothing else ends the session it has just used.  Each other  *)
(* trouble breaks it: a tab in the background ends the session another one *)
(* works in, an answer that is late or lost does not stop the countdown,   *)
(* and a shorter time counts for the page and not for the session.         *)
(***************************************************************************)
InUseNotEnded ==
  [][ (Only({"quiet"}) /\ session = "live" /\ session' = "ended")
        => uncounted = limit /\ (Only({}) => idle = limit) ]_countVars

(***************************************************************************)
(* No tab counts on more time than the server leaves the session, also     *)
(* with several tabs, lost calls, requests that do not count and another   *)
(* login in one of the tabs.  A late answer starts the count late; a       *)
(* longer time is told to pages whose session keeps the shorter one.       *)
(***************************************************************************)
CountWithinSession ==
  Only({"tabs", "lost", "quiet"}) =>
    \A t \in Open : (ticking[t] /\ session = "live" /\ reply[t] = NoReply)
      => counter[t] <= limit - idle

(***************************************************************************)
(* A tab whose session has ended comes to the login page on its own, or    *)
(* the session is live again by a login elsewhere.  A countdown whose last *)
(* call is lost asks no more (55-65: at 0 only).                           *)
(***************************************************************************)
EndedTabLeaves ==
  \A t \in Tabs :
    (Only({"tabs", "slow", "setting", "quiet"}) /\ tab[t] = "open" /\ session = "ended")
      ~> (tab[t] # "open" \/ session = "live")
=============================================================================
