--------------------------- MODULE AnalysisPages ---------------------------
(***************************************************************************)
(* The pages of the traffic analysis in the web console, from the click on *)
(* the menu to the tabs a page shows: routers/trafficAnalysisRouter.js,    *)
(* views/frame.js, and the containers protocol.js, service.js, ip.js and   *)
(* maliciousTraffic.js with their tab views.  A page is loaded             *)
(* asynchronously, its container and its tabs talk over ONE event bus that *)
(* belongs to the router and outlives them, and Backbone's unbind(name)    *)
(* takes every handler of that name away, the other views' included.       *)
(*                                                                         *)
(* One action is one event of the browser's loop, which runs to its end    *)
(* before the next; only the handlers that a "newTab" or "detailTab"       *)
(* reaches are steps of their own, taken one after the other while nothing *)
(* else happens.  Answers of the server are left to ReadMore.tla.          *)
(***************************************************************************)
EXTENDS Integers, FiniteSets, SequencesExt

CONSTANTS
  Pages,        \* the pages the user visits
  MaxVisits,    \* how many pages are opened in a run
  MaxExtra,     \* how many tabs of a time range are asked for in a run
  HabitsTried   \* the uncommon habits of users: see Habits

TabPages == {"protocol", "services", "ip", "maliciousTraffic"}

(***************************************************************************)
(* "rush": another menu item is clicked before the page has come up.       *)
(* "middle": a tab that is not the last one is closed.  "drop": the tab    *)
(* closed is the one being looked at, and not the last.                    *)
(***************************************************************************)
Habits == {"rush", "middle", "drop"}

ASSUME PagesAssumption == Pages \subseteq TabPages \cup {"other"}
ASSUME BoundsAssumption == MaxVisits \in Nat \ {0} /\ MaxExtra \in Nat
ASSUME HabitsAssumption == HabitsTried \subseteq Habits

Visits  == 1 .. MaxVisits
Static  == 1   \* the index of the tab of the five-minute statistics
Range_  == 2   \* the index of the tab that asks for time ranges

VARIABLES
  habits,   \* what the user of this run does: rigid
  url,      \* the page in the address bar
  visited,  \* how many pages were opened so far
  page,     \* the page of each visit
  stage,    \* how far the view of each visit has come
  closed,   \* the visits whose container was closed
  content,  \* the containers inside #content, in the document's order
  current,  \* frame.js: currentContainer, never emptied
  timers,   \* the containers whose render waits for its time-out of 0 ms
  tabs,     \* the tabs of a container, by their serial number
  active,   \* the index of the marked tab header, 0 when none is
  pane,     \* the index of the pane that is visible, 0 when none is
  num,      \* the N of "tabN", for each tab made so far
  asked,    \* what each tab made so far was last told to retrieve
  extra,    \* how many tabs of a time range were asked for: bounded
  subs,     \* bus: the tabs bound to "retrieve"
  newTab,   \* bus: the containers bound to "newTab"
  detail,   \* bus: the containers bound to "detailTab"
  firing    \* the handlers the event under way has still to call

nav     == <<url, visited, page, stage, closed, content, current, timers>>
doc     == <<tabs, active, pane, num, asked>>
openers == <<newTab, detail>>
pageVars == <<habits, nav, doc, extra, subs, openers, firing>>

born == Len(asked)  \* the tabs made so far are numbered from 1 to born

Idle == firing = <<>>
Loading == {v \in Visits : stage[v] \in {"loading", "made"}}

----------------------------------------------------------------------------
(* The bus and the tabs. *)

(* Backbone: the handlers of "retrieve" that are called now are told m. *)
Told(made, listeners, m) ==
  [n \in DOMAIN made |-> IF Contains(listeners, n) THEN m ELSE made[n]]

(* hideTab: every tab of the container takes its handler away, and with it *)
(* those of all others; a container without tabs takes none away. *)
HideTabKeeps(v, listeners) == listeners  \* (mutant: customOff takes nothing away)
HideTab(v, listeners) == IF tabs[v] = <<>> THEN listeners ELSE <<>>

(* showTab: the header and the pane at the index are marked, if there are any. *)
ShownIndex(ts, i) == IF i \in 1 .. Len(ts) THEN i ELSE 0
ShownListener(ts, i) == IF i \in 1 .. Len(ts) THEN <<ts[i]>> ELSE <<>>

(* Bootstrap: a click on a dynamic tab's link shows the first pane of the *)
(* document that has the link's id. *)
HasId(v, ts, k) == \E i \in 3 .. Len(ts[v]) : num[ts[v][i]] = k
PanesAfter(ts, panes, k) ==
  LET where == SelectInSeq(content, LAMBDA v : HasId(v, ts, k))
      v == content[where]
      i == CHOOSE j \in 3 .. Len(ts[v]) :
             /\ num[ts[v][j]] = k
             /\ \A h \in 3 .. j - 1 : num[ts[v][h]] # k
  IN IF where = 0 THEN panes ELSE [panes EXCEPT ![v] = i]

(* $("#scroll-tab .nav li").length: the headers in the whole document. *)
HeadersShownNone == 2  \* (mutant: the dynamic tabs are not counted)
HeadersShown == Cardinality(UNION {{v} \X DOMAIN tabs[v] : v \in ToSet(content)})

----------------------------------------------------------------------------
PagesInit ==
  /\ habits \in SUBSET HabitsTried
  /\ url = "none" /\ visited = 0 /\ current = 0
  /\ page = [v \in Visits |-> "none"] /\ stage = [v \in Visits |-> "unused"]
  /\ closed = {} /\ content = <<>>
  /\ tabs = [v \in Visits |-> <<>>]
  /\ active = [v \in Visits |-> 0] /\ pane = [v \in Visits |-> 0]
  /\ num = <<>> /\ asked = <<>> /\ extra = 0 /\ timers = <<>>
  /\ subs = <<>> /\ newTab = <<>> /\ detail = <<>> /\ firing = <<>>

(***************************************************************************)
(* A click on the menu: the current container is closed, even when it was  *)
(* closed before, and the code of the new page is asked for.  onClose of a *)
(* tab page unbinds "newTab" and "detailTab" (that of ip.js forgets the    *)
(* second) and closes its tabs, the static one last, which unbinds every   *)
(* "retrieve".                                                             *)
(***************************************************************************)
CloseCurrentStays ==  \* (mutant of CloseCurrent: remove() is not called)
  UNCHANGED <<closed, content, subs, newTab, detail, tabs>>
CloseCurrentBound ==  \* (mutant of CloseCurrent: onClose leaves the tabs open)
  /\ IF current = 0 THEN UNCHANGED <<closed, content>>
     ELSE /\ closed' = closed \cup {current}
          /\ content' = RemoveFirst(content, current)
  /\ UNCHANGED <<subs, newTab, detail, tabs>>
CloseCurrent ==
  IF current = 0
  THEN UNCHANGED <<closed, content, subs, newTab, detail, tabs>>
  ELSE /\ closed' = closed \cup {current}
       /\ content' = RemoveFirst(content, current)
       /\ IF page[current] \in TabPages
          THEN /\ newTab' = <<>>
               /\ detail' = IF page[current] = "ip" THEN detail ELSE <<>>
               /\ subs' = IF tabs[current] = <<>> THEN subs ELSE <<>>
               /\ tabs' = [tabs EXCEPT ![current] = <<>>]
          ELSE UNCHANGED <<subs, newTab, detail, tabs>>

Navigate(p) ==
  /\ Idle /\ visited < MaxVisits /\ p # url
  /\ Loading # {} => "rush" \in habits
  /\ url' = p
  /\ visited' = visited + 1
  /\ page' = [page EXCEPT ![visited + 1] = p]
  /\ stage' = [stage EXCEPT ![visited + 1] = "loading"]
  /\ CloseCurrent
  /\ UNCHANGED <<habits, current, timers, active, pane, num, asked, extra, firing>>

(* The callback of require(): the container is made and put in the document. *)
ArriveOnly(v) ==  \* (mutant of Arrive: render is not called)
  /\ Idle /\ stage[v] = "loading"
  /\ stage' = [stage EXCEPT ![v] = "made"]
  /\ content' = Append(content, v) /\ current' = v
  /\ UNCHANGED <<habits, url, visited, page, closed, timers, doc, extra, subs,
                 openers, firing>>
Arrive(v) ==
  /\ Idle /\ stage[v] = "loading"
  /\ stage' = [stage EXCEPT ![v] = "made"]
  /\ content' = Append(content, v)
  /\ current' = v
  /\ timers' = Append(timers, v)
  /\ IF page[v] \in TabPages
     THEN newTab' = Append(newTab, v) /\ detail' = Append(detail, v)
     ELSE UNCHANGED openers
  /\ UNCHANGED <<habits, url, visited, page, closed, doc, extra, subs, firing>>

(***************************************************************************)
(* initTab: all dynamic tabs are closed, the static one is shown and the   *)
(* tab of the ranges listens as well.  search: those who listen are asked. *)
(***************************************************************************)
InitTab(v, ts) ==
  /\ tabs' = [tabs EXCEPT ![v] = SubSeq(ts, 1, 2)]
  /\ active' = [active EXCEPT ![v] = Static]
  /\ pane' = [pane EXCEPT ![v] = Static]
  /\ subs' = ShownListener(ts, Static) \o <<ts[Range_]>>

(* render, after a time-out of its own: two tabs are made, each of which   *)
(* binds itself, and the first search follows. *)
Render(v) ==
  /\ Idle /\ timers # <<>> /\ v = Head(timers)
  /\ timers' = Tail(timers)
  /\ stage' = [stage EXCEPT ![v] = "open"]
  /\ IF page[v] \in TabPages
     THEN /\ InitTab(v, <<born + 1, born + 2>>)
          /\ asked' = Told(asked \o <<"nothing", "nothing">>, subs', "search")
          /\ num' = num \o <<0, 0>>
     ELSE UNCHANGED <<doc, subs>>
  /\ UNCHANGED <<habits, url, visited, page, closed, content, current, extra,
                 openers, firing>>

(* What the user can reach: a page with its tabs, in the document.  A page  *)
(* that is due to be rendered is so before the user clicks on another. *)
OnScreen(v) == /\ Idle /\ timers = <<>> /\ stage[v] = "open" /\ page[v] \in TabPages
               /\ v \notin closed

Search(v) ==
  /\ OnScreen(v)
  /\ InitTab(v, tabs[v])
  /\ asked' = Told(asked, subs', "search")
  /\ UNCHANGED <<habits, nav, num, extra, openers, firing>>

(* A search with a bad period or address: ip.js has closed the tabs by then. *)
RefusedSearch(v) ==
  /\ OnScreen(v) /\ page[v] = "ip"
  /\ InitTab(v, tabs[v])
  /\ UNCHANGED <<habits, nav, num, asked, extra, openers, firing>>

(* The buttons of the ranges, and the one beside the two dates. *)
PressRange(v) ==
  /\ OnScreen(v) /\ pane[v] = Range_ /\ asked[tabs[v][Range_]] # "nothing"
  /\ extra + Len(newTab) <= MaxExtra
  /\ firing' = newTab /\ extra' = extra + Len(newTab)
  /\ UNCHANGED <<habits, nav, doc, subs, openers>>

PressDetail(v) ==
  /\ OnScreen(v) /\ pane[v] = Range_ /\ asked[tabs[v][Range_]] # "nothing"
  /\ extra + Len(detail) <= MaxExtra
  /\ firing' = detail /\ extra' = extra + Len(detail)
  /\ UNCHANGED <<habits, nav, doc, subs, openers>>

(***************************************************************************)
(* renderTab of the next container that was bound: its tabs stop           *)
(* listening, a new one is made, listens and is asked for the range with   *)
(* all who listen; its header and its pane are put at the end.             *)
(***************************************************************************)
RenderTab ==
  /\ ~ Idle
  /\ LET v == Head(firing)
         n == born + 1
     IN /\ subs' = Append(HideTab(v, subs), n)
        /\ asked' = Told(Append(asked, "nothing"), subs', "range")
        /\ tabs' = [tabs EXCEPT ![v] = Append(@, n)]
        /\ active' = [active EXCEPT ![v] = Len(tabs'[v])]
        /\ pane' = [pane EXCEPT ![v] = Len(tabs'[v])]
        /\ num' = Append(num, HeadersShown - 2)
  /\ firing' = Tail(firing)
  /\ UNCHANGED <<habits, nav, extra, openers>>

(* A click on a tab's header: showTab, then Bootstrap's own handler, which *)
(* leaves the two fixed tabs alone as they are marked by now. *)
ShowTab(v, i) ==
  /\ OnScreen(v) /\ i \in 1 .. Len(tabs[v])
  /\ subs' = HideTab(v, subs) \o ShownListener(tabs[v], i)
  /\ active' = [active EXCEPT ![v] = ShownIndex(tabs[v], i)]
  /\ LET shown == [pane EXCEPT ![v] = ShownIndex(tabs[v], i)]
     IN pane' = IF i <= Range_ THEN shown
                ELSE PanesAfter(tabs, shown, num[tabs[v][i]])
  /\ UNCHANGED <<habits, nav, tabs, num, asked, extra, openers, firing>>

(* removeTab: which tab is shown next, of those that are left (from 1). *)
NextTabStays(show, del, last) == show  \* (mutant: the tab shown keeps its index)
NextTab(show, del, last) ==
  IF show = del
  THEN IF del = last THEN del - 1 ELSE del + 1
  ELSE IF show > del THEN show - 1 ELSE show

(* The cross of a dynamic tab; the tab that is closed unbinds all, the next *)
(* one binds itself; no index, no tab: showTab(-1) returns at once. *)
RemoveTab(v, i) ==
  /\ OnScreen(v) /\ i \in 3 .. Len(tabs[v])
  /\ i # Len(tabs[v]) => "middle" \in habits
  /\ (i # Len(tabs[v]) /\ i = active[v]) => "drop" \in habits
  /\ LET left == RemoveAt(tabs[v], i)
         next == NextTab(active[v], i, Len(tabs[v]))
         gone == [tabs EXCEPT ![v] = left]
         kept == IF pane[v] = i THEN 0 ELSE IF pane[v] > i THEN pane[v] - 1 ELSE pane[v]
     IN /\ tabs' = gone
        /\ active' = [active EXCEPT ![v] = ShownIndex(left, next)]
        /\ subs' = ShownListener(left, next)
        /\ pane' = PanesAfter(gone,
             [pane EXCEPT ![v] = IF next = 0 THEN kept ELSE ShownIndex(left, next)],
             num[tabs[v][i]])
  /\ UNCHANGED <<habits, nav, num, asked, extra, openers, firing>>

PagesNext ==
  \/ \E p \in Pages : Navigate(p)
  \/ \E v \in Visits : Arrive(v) \/ Render(v)
  \/ \E v \in Visits : Search(v) \/ RefusedSearch(v)
  \/ \E v \in Visits : PressRange(v) \/ PressDetail(v)
  \/ RenderTab
  \/ \E v \in Visits, i \in 1 .. MaxExtra + 2 : ShowTab(v, i) \/ RemoveTab(v, i)

(* The browser runs what it has in its queue: callbacks and time-outs. *)
PagesFairness ==
  /\ \A v \in Visits : WF_pageVars(Arrive(v)) /\ WF_pageVars(Render(v))
  /\ WF_pageVars(RenderTab)
PagesSpec == PagesInit /\ [][PagesNext]_pageVars /\ PagesFairness

----------------------------------------------------------------------------
(* Type invariant: all variables. *)
PagesTypeOK ==
  /\ habits \subseteq Habits
  /\ url \in Pages \cup {"none"} /\ visited \in 0 .. MaxVisits
  /\ page \in [Visits -> Pages \cup {"none"}]
  /\ stage \in [Visits -> {"unused", "loading", "made", "open"}]
  /\ closed \subseteq Visits
  /\ content \in Seq(Visits) /\ current \in 0 .. MaxVisits /\ timers \in Seq(Visits)
  /\ tabs \in [Visits -> Seq(1 .. born)]
  /\ active \in [Visits -> Nat] /\ pane \in [Visits -> Nat]
  /\ asked \in Seq({"nothing", "search", "range"})
  /\ num \in Seq(Int) /\ Len(num) = born /\ extra \in Nat
  /\ subs \in Seq(1 .. born)
  /\ newTab \in Seq(Visits) /\ detail \in Seq(Visits) /\ firing \in Seq(Visits)

(***************************************************************************)
(* When nothing is loading, the document holds one container, that of the  *)
(* page in the address bar, and frame.js knows it as the current one; so   *)
(* the next click closes it.  Clicks in a rush leave a container behind    *)
(* that nothing closes (trafficAnalysisRouter.js 22-37, frame.js 394-404). *)
(***************************************************************************)
OneContainer ==
  ("rush" \notin habits /\ Idle /\ visited > 0 /\ Loading = {})
    => content = <<current>> /\ page[current] = url

(***************************************************************************)
(* A search or a range is sent once by every tab that should send it: no   *)
(* tab is bound to "retrieve" twice, whatever order of tabs and pages      *)
(* comes before it (customOn of protocolTab.js binds without looking).     *)
(***************************************************************************)
NobodyAskedTwice == IsInjective(subs)

(***************************************************************************)
(* No tab of a page that was left still listens on the bus, which would    *)
(* send its requests along with those of the page shown.  In a rush a view *)
(* is rendered after it was closed, and its tabs listen.                   *)
(***************************************************************************)
ClosedTabsSilent ==
  ("rush" \notin habits /\ Idle)
    => \A n \in ToSet(subs) : \E v \in ToSet(content) : Contains(tabs[v], n)

(***************************************************************************)
(* The statistics of the first tab are those of the last search, never of  *)
(* a range asked for in another tab.  ip.js 64-71 leaves the handler of    *)
(* "detailTab" of a closed container on the bus; its renderTab tells the   *)
(* page that is shown, so the promise ends when an ip page is left.        *)
(***************************************************************************)
StaticKeepsSearch ==
  (\A v \in closed : page[v] # "ip") =>
    \A v \in ToSet(content) : tabs[v] # <<>> => asked[tabs[v][Static]] = "search"

(***************************************************************************)
(* The pane that is seen belongs to the header that is marked.  The names  *)
(* of the panes are counted (renderTabs of protocol.js 188-199), so they   *)
(* repeat once a tab in the middle was closed, and Bootstrap shows the     *)
(* first that has the name.                                                *)
(***************************************************************************)
PaneIsTheTabs ==
  (habits \cap {"rush", "middle"} = {}) =>
    \A v \in ToSet(content) : pane[v] = active[v]

(***************************************************************************)
(* Of the tabs of the page shown one is marked, unless one was closed that *)
(* was looked at and not the last; the marked one listens, and nothing     *)
(* else but the tab of the ranges.                                         *)
(***************************************************************************)
MarkedTabListens ==
  ("rush" \notin habits /\ Idle) => \A v \in ToSet(content) :
    /\ (tabs[v] # <<>> /\ "drop" \notin habits) => active[v] # 0
    /\ active[v] # 0 => Contains(subs, tabs[v][active[v]])
    /\ \A i \in 1 .. Len(tabs[v]) :
         Contains(subs, tabs[v][i]) => i \in {active[v], Range_}

(***************************************************************************)
(* service.js 238-244: removeTab selects the tab to be marked ("select the *)
(* tab to activate", by four rules), so a page is never left without one.  *)
(* The index of rule 2 is that of the tab's place before the removal.      *)
(***************************************************************************)
SomeTabMarked ==
  \A v \in ToSet(content) : tabs[v] # <<>> => active[v] # 0

(***************************************************************************)
(* The page whose menu item was clicked comes up, unless another one is    *)
(* clicked meanwhile: its container is rendered and not closed.            *)
(***************************************************************************)
Up(p) == \E v \in ToSet(content) : page[v] = p /\ stage[v] = "open"
PageComesUp ==
  \A p \in Pages : (url = p) ~> (url # p \/ Up(p))
=============================================================================
