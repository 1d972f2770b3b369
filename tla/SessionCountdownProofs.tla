----------------------- MODULE SessionCountdownProofs -----------------------
(***************************************************************************)
(* The countdown of the pages and the time of the session, for any number  *)
(* of tabs and any values of the setting.  Both results rest on one fact:  *)
(* while an answer is awaited the session has just been accessed, as no    *)
(* time passes on the way ("slow" is excluded).                            *)
(***************************************************************************)
EXTENDS SessionCountdown, TLAPS

LEMMA TimesArePositive == \A n \in Times : n \in Int /\ n > 0
BY TimesAssumption

USE TimesArePositive

(* Both load a page. *)
Loads(t) == Login(t) \/ OpenTab(t)

LEMMA TroublesStay == ASSUME [CountNext]_countVars PROVE troubles' = troubles
BY DEF CountNext, countVars, atServer, Login, OpenTab, SendRequest, SendUncounted, Access,
       GetSessionTime, InvalidateSession, CallLost, Tick, Expire, SaveSessionTime

LEMMA CountTypeStep == CountTypeOK /\ [CountNext]_countVars => CountTypeOK'
<1> SUFFICES ASSUME CountTypeOK, [CountNext]_countVars PROVE CountTypeOK'
  OBVIOUS
<1> USE DEF CountTypeOK, atServer, NoReply, Refused, Alive, Access
<1>1. CASE UNCHANGED countVars
  BY <1>1 DEF countVars
<1>2. ASSUME NEW t \in Tabs, Loads(t) PROVE CountTypeOK'
  <2>1. CASE Login(t)
    BY <2>1 DEF Login, Load
  <2>2. CASE OpenTab(t)
    BY <2>2 DEF OpenTab, Load
  <2> QED
    BY <1>2, <2>1, <2>2 DEF Loads
<1>3. ASSUME NEW t \in Tabs, SendRequest(t) PROVE CountTypeOK'
  BY <1>3 DEF SendRequest
<1>4. ASSUME NEW t \in Tabs, SendUncounted(t) PROVE CountTypeOK'
  BY <1>4 DEF SendUncounted
<1>5. ASSUME NEW t \in Tabs, GetSessionTime(t) PROVE CountTypeOK'
  <2>1. CASE reply[t] = Refused
    BY <1>5, <2>1 DEF GetSessionTime
  <2>2. CASE reply[t] # Refused
    <3>1. reply[t] \in Times
      BY <1>5, <2>2 DEF GetSessionTime
    <3> QED
      BY <1>5, <2>2, <3>1 DEF GetSessionTime
  <2> QED
    BY <2>1, <2>2
<1>6. ASSUME NEW t \in Tabs, InvalidateSession(t) PROVE CountTypeOK'
  BY <1>6 DEF InvalidateSession
<1>7. ASSUME NEW t \in Tabs, CallLost(t) PROVE CountTypeOK'
  BY <1>7 DEF CallLost
<1>8. CASE Tick
  BY <1>8 DEF Tick, Over
<1>9. CASE Expire
  BY <1>9 DEF Expire
<1>10. ASSUME NEW own \in BOOLEAN, SaveSessionTime(own) PROVE CountTypeOK'
  BY <1>10 DEF SaveSessionTime
<1> QED
  BY <1>1, <1>2, <1>3, <1>4, <1>5, <1>6, <1>7, <1>8, <1>9, <1>10
     DEF CountNext, Loads

\* The variables have their types.
THEOREM CountTypeCorrect == CountSpec => []CountTypeOK
<1>1. CountInit => CountTypeOK
  BY TimesAssumption, CountdownAssumption DEF CountInit, CountTypeOK, NoReply
<1> QED
  BY <1>1, CountTypeStep, PTL DEF CountSpec

-----------------------------------------------------------------------------
(* No tab counts on more than the session has left.                        *)

\* Whoever waits for an answer has just been heard.
JustHeard ==
  \A t \in Open : reply[t] # NoReply /\ session = "live" => idle = 0

NoMoreThanSet ==
  /\ setting = limit
  /\ \A t \in Tabs : counter[t] <= limit /\ reply[t] <= limit

CountsWithin ==
  \A t \in Open : ticking[t] /\ session = "live" /\ reply[t] = NoReply
    => counter[t] <= limit - idle

Within == Only({"tabs", "lost", "quiet"}) => JustHeard /\ NoMoreThanSet /\ CountsWithin

LEMMA WithinStep == CountTypeOK /\ Within /\ [CountNext]_countVars => Within'
<1> DEFINE Inv == JustHeard /\ NoMoreThanSet /\ CountsWithin
<1> SUFFICES ASSUME CountTypeOK, Inv, troubles \subseteq {"tabs", "lost", "quiet"},
                    [CountNext]_countVars
             PROVE  Inv'
  BY TroublesStay DEF Within, Only
<1> USE DEF CountTypeOK, atServer, NoReply, Refused, Open, UnderWay, Alive,
            Access, JustHeard, NoMoreThanSet, CountsWithin
<1>1. CASE UNCHANGED countVars
  BY <1>1 DEF countVars
<1>2. ASSUME NEW t \in Tabs, Loads(t) PROVE Inv'
  BY <1>2 DEF Loads, Login, OpenTab, Load
<1>3. ASSUME NEW t \in Tabs, SendRequest(t) PROVE Inv'
  BY <1>3 DEF SendRequest
<1>4. ASSUME NEW t \in Tabs, SendUncounted(t) PROVE Inv'
  BY <1>4 DEF SendUncounted
<1>5. ASSUME NEW t \in Tabs, GetSessionTime(t) PROVE Inv'
  BY <1>5 DEF GetSessionTime
<1>6. ASSUME NEW t \in Tabs, InvalidateSession(t) PROVE Inv'
  BY <1>6 DEF InvalidateSession
<1>7. ASSUME NEW t \in Tabs, CallLost(t) PROVE Inv'
  BY <1>7 DEF CallLost
<1>8. CASE Tick
  <2>1. \A t \in Open : reply[t] = NoReply
    BY <1>8 DEF Tick
  <2> QED
    BY <1>8, <2>1 DEF Tick, Over
<1>9. CASE Expire
  BY <1>9 DEF Expire
<1>10. ASSUME NEW own \in BOOLEAN, SaveSessionTime(own) PROVE FALSE
  BY <1>10 DEF SaveSessionTime
<1> QED
  BY <1>1, <1>2, <1>3, <1>4, <1>5, <1>6, <1>7, <1>8, <1>9, <1>10
     DEF CountNext, Loads

\* A countdown never outlasts its session, with any number of tabs and calls lost.
THEOREM CountdownWithinSession == CountSpec => []CountWithinSession
<1>1. CountInit => Within
  BY TimesAssumption DEF CountInit, Within, JustHeard, NoMoreThanSet, CountsWithin, Open, NoReply
<1>2. Within => CountWithinSession
  BY DEF Within, CountsWithin, CountWithinSession
<1> QED
  BY <1>1, <1>2, CountTypeCorrect, WithinStep, PTL DEF CountSpec

-----------------------------------------------------------------------------
(* A page that is alone ends its session on time, not before: its counter  *)
(* is what is left since its last request that counted.                    *)

OneTab == \A t, u \in Open : t = u

\* Both clocks agree, and the call to end comes when both are at their end.
ClocksAgree ==
  /\ setting = limit
  /\ \A t \in Open : session = "live" =>
       /\ reply[t] # NoReply => reply[t] = limit /\ uncounted = 0
       /\ reply[t] = NoReply /\ ~ ending[t] => ticking[t] /\ counter[t] = limit - uncounted
       /\ ending[t] => uncounted = limit
  /\ \A t \in Tabs : ending[t] => t \in Open /\ reply[t] = NoReply

(* The server has heard of the page since then, if at all. *)
HeardSince ==
  /\ idle <= uncounted
  /\ Only({}) => idle = uncounted

Alone == Only({"quiet"}) => OneTab /\ ClocksAgree /\ HeardSince

LEMMA AloneStep == CountTypeOK /\ Alone /\ [CountNext]_countVars => Alone'
<1> DEFINE Inv == OneTab /\ ClocksAgree /\ HeardSince
<1> SUFFICES ASSUME CountTypeOK, Inv, troubles \subseteq {"quiet"}, [CountNext]_countVars
             PROVE  Inv'
  BY TroublesStay DEF Alone, Only
<1> USE DEF CountTypeOK, atServer, NoReply, Refused, Open, UnderWay, Alive, Access,
            OneTab, ClocksAgree, HeardSince, Only
<1>1. CASE UNCHANGED countVars
  BY <1>1 DEF countVars
<1>2. ASSUME NEW t \in Tabs, Loads(t) PROVE Inv'
  BY <1>2 DEF Loads, Login, OpenTab, Load
<1>3. ASSUME NEW t \in Tabs, SendRequest(t) PROVE Inv'
  BY <1>3 DEF SendRequest
<1>4. ASSUME NEW t \in Tabs, SendUncounted(t) PROVE Inv'
  BY <1>4 DEF SendUncounted
<1>5. ASSUME NEW t \in Tabs, GetSessionTime(t) PROVE Inv'
  BY <1>5 DEF GetSessionTime
<1>6. ASSUME NEW t \in Tabs, InvalidateSession(t) PROVE Inv'
  BY <1>6 DEF InvalidateSession
<1>7. ASSUME NEW t \in Tabs, CallLost(t) PROVE FALSE
  BY <1>7 DEF CallLost
<1>8. CASE Tick
  <2>1. \A t \in Open : reply[t] = NoReply /\ ~ ending[t]
    BY <1>8 DEF Tick
  <2> QED
    BY <1>8, <2>1 DEF Tick, Over
<1>9. CASE Expire
  BY <1>9 DEF Expire
<1>10. ASSUME NEW own \in BOOLEAN, SaveSessionTime(own) PROVE FALSE
  BY <1>10 DEF SaveSessionTime
<1> QED
  BY <1>1, <1>2, <1>3, <1>4, <1>5, <1>6, <1>7, <1>8, <1>9, <1>10
     DEF CountNext, Loads

\* A session is ended, by its page or the server, only when no request has counted
\* for its whole time.
THEOREM InUseLivesOn == CountSpec => InUseNotEnded
<1> DEFINE Ends == Only({"quiet"}) /\ session = "live" /\ session' = "ended"
           InTime == uncounted = limit /\ (Only({}) => idle = limit)
<1>1. CountInit => Alone
  BY TimesAssumption
     DEF CountInit, Alone, OneTab, ClocksAgree, HeardSince, Open, NoReply
<1>2. CountTypeOK /\ Alone /\ [CountNext]_countVars
        => [(Only({"quiet"}) /\ session = "live" /\ session' = "ended")
              => uncounted = limit /\ (Only({}) => idle = limit)]_countVars
  <2> SUFFICES ASSUME CountTypeOK, Alone, CountNext, Ends PROVE InTime
    OBVIOUS
  <2> USE DEF CountTypeOK, Alone, ClocksAgree, HeardSince, Open, atServer, Alive, Access
  <2>1. ASSUME NEW t \in Tabs, SendRequest(t) PROVE InTime
    BY <2>1 DEF SendRequest
  <2>2. ASSUME NEW t \in Tabs, SendUncounted(t) PROVE InTime
    BY <2>2 DEF SendUncounted
  <2>3. ASSUME NEW t \in Tabs, InvalidateSession(t) PROVE InTime
    BY <2>3 DEF InvalidateSession
  <2>4. CASE Expire
    BY <2>4 DEF Expire
  <2> QED
    BY <2>1, <2>2, <2>3, <2>4
       DEF CountNext, Login, OpenTab, GetSessionTime, CallLost, Tick, SaveSessionTime
<1> QED
  BY <1>1, <1>2, CountTypeCorrect, AloneStep, PTL DEF CountSpec, InUseNotEnded
=============================================================================
