------------------------------ MODULE MCBrowser ------------------------------
(***************************************************************************)
(* What the console does in the browser, for TLC: the pages and their tabs *)
(* (AnalysisPages), a list that grows (ReadMore) and the countdown of the  *)
(* session (SessionCountdown).  They share no state, so a behaviour is one *)
(* of one of them, and the others stay at their start.                     *)
(***************************************************************************)
EXTENDS AnalysisPages, ReadMore, SessionCountdown

CONSTANT Parts  \* which of the three are looked at

VARIABLE part   \* the one of this behaviour: rigid

MCPages == {"protocol", "ip", "other"}
MCFaultSets == {{}, {"edge"}, {"rush"}, {"double"}, {"grow"}, {"fail", "edge"},
                {"exportFails", "edge"}, {"export", "exportFails"}}
MCTroubleSets == {{}, {"quiet"}, {"tabs", "lost", "quiet"}, {"tabs", "slow", "setting", "quiet"},
                  {"slow", "lost"}}

browserVars == <<part, pageVars, listVars, countVars>>

BrowserInit ==
  /\ part \in Parts
  /\ PagesInit /\ (part # "pages" => habits = {})
  /\ ListInit /\ (part # "list" => faults = {} /\ kind = "log")
  /\ CountInit /\ (part # "countdown" => troubles = {})

PagesStep == part = "pages" /\ PagesNext /\ UNCHANGED <<part, listVars, countVars>>
ListStep == part = "list" /\ ListNext /\ UNCHANGED <<part, pageVars, countVars>>
CountStep == part = "countdown" /\ CountNext /\ UNCHANGED <<part, pageVars, listVars>>

(* A part that stays at its start has nothing to do that fairness asks for. *)
BrowserSpec ==
  /\ BrowserInit /\ [][PagesStep \/ ListStep \/ CountStep]_browserVars
  /\ PagesFairness /\ ListFairness /\ CountFairness
=============================================================================
