------------------------------ MODULE PageKeys ------------------------------
(***************************************************************************)
(* The key the pages encrypt passwords with: AesUtil.java keeps it in a    *)
(* static field, and in the session that drew it, and CommonController     *)
(* getAesKey hands the static one out to whichever page asks;              *)
(* utils/security/AesUtil.js asks once, when the page is loaded.  A        *)
(* session that ends, or is put out by another login, empties the field    *)
(* for all.                                                                *)
(*                                                                         *)
(* A step is one access to the field or to a session.  The field is not    *)
(* volatile: a thread that sees an older value of it acts like one that    *)
(* read it earlier, which the steps allow.                                 *)
(***************************************************************************)
EXTENDS Naturals, FiniteSets

CONSTANTS
  Sessions,
  Pages,       \* the pages that are loaded, each once
  MaxDrops,    \* how many sessions end or are put out in a run
  RaceSets     \* what may overlap, run by run: sets of Races

(***************************************************************************)
(* "first": a page asks for a key while another one does and there is none *)
(* yet.  "end": a session ends while a page asks, or while another ends.   *)
(***************************************************************************)
Races == {"first", "end"}

ASSUME DropsAssumption == MaxDrops \in Nat
ASSUME RacesAssumption == RaceSets \subseteq SUBSET Races

NoKey == 0

VARIABLES
  races,       \* what overlaps in this run: rigid
  passPhrase,  \* AesUtil: the static field; "" and null are NoKey
  attr,        \* the PASSPHRASE of each session
  ended,       \* the sessions that were invalidated
  dropping,    \* the sessions in the middle of destoryedPassPhrase
  drops,       \* how many were: bounded
  drawn,       \* how many keys were drawn; a key is its number
  step,        \* what each page's request does next
  user,        \* the session of each page
  pageKey,     \* AesUtil.js: AesOption.passPhrase of each page
  answer       \* was the last password of the page read, or not?

keyVars == <<races, passPhrase, attr, ended, dropping, drops, drawn, step, user,
             pageKey, answer>>
server  == <<races, ended, dropping, drops>>

Asking == {p \in Pages : step[p] \in {"check", "init", "keep", "give"}}

----------------------------------------------------------------------------
KeysInit ==
  /\ races \in RaceSets
  /\ passPhrase = NoKey /\ drawn = 0
  /\ attr = [s \in Sessions |-> NoKey]
  /\ ended = {} /\ dropping = {} /\ drops = 0
  /\ step = [p \in Pages |-> "new"]
  /\ user \in [Pages -> Sessions]
  /\ pageKey = [p \in Pages |-> NoKey]
  /\ answer = [p \in Pages |-> "none"]

(* A page is loaded and asks for the key, in a request of its own. *)
GetAesKey(p) ==
  /\ step[p] = "new" /\ user[p] \notin ended
  /\ (Asking # {} /\ passPhrase = NoKey) => "first" \in races
  /\ dropping # {} => "end" \in races
  /\ step' = [step EXCEPT ![p] = "check"]
  /\ UNCHANGED <<server, passPhrase, attr, drawn, user, pageKey, answer>>

(* getPassPhrase: is the field empty? *)
GetPassPhraseOwn(p) ==  \* (mutant: does the session hold a key?)
  /\ step[p] = "check"
  /\ step' = [step EXCEPT ![p] = IF attr[user[p]] = NoKey THEN "init" ELSE "give"]
  /\ UNCHANGED <<server, passPhrase, attr, drawn, user, pageKey, answer>>
GetPassPhrase(p) ==
  /\ step[p] = "check"
  /\ step' = [step EXCEPT ![p] = IF passPhrase = NoKey THEN "init" ELSE "give"]
  /\ UNCHANGED <<server, passPhrase, attr, drawn, user, pageKey, answer>>

(* initAesPass: the session's key, or a new one; an ended session throws. *)
InitAesPass(p) ==
  /\ step[p] = "init" /\ user[p] \notin ended
  /\ IF attr[user[p]] = NoKey
     THEN /\ drawn' = drawn + 1 /\ passPhrase' = drawn + 1
          /\ step' = [step EXCEPT ![p] = "keep"]
     ELSE /\ passPhrase' = attr[user[p]]
          /\ step' = [step EXCEPT ![p] = "give"]
          /\ UNCHANGED drawn
  /\ UNCHANGED <<server, attr, user, pageKey, answer>>

(* setAttribute with what the field holds by now. *)
KeepPass(p) ==
  /\ step[p] = "keep" /\ user[p] \notin ended
  /\ attr' = [attr EXCEPT ![user[p]] = passPhrase]
  /\ step' = [step EXCEPT ![p] = "give"]
  /\ UNCHANGED <<server, passPhrase, drawn, user, pageKey, answer>>

AskFails(p) ==
  /\ step[p] \in {"init", "keep"} /\ user[p] \in ended
  /\ step' = [step EXCEPT ![p] = "failed"]
  /\ UNCHANGED <<server, passPhrase, attr, drawn, user, pageKey, answer>>

(* getPassPhrase returns what the field holds by now. *)
GivePassKeeps(p) ==  \* (mutant: the session keeps the key it is given)
  /\ step[p] = "give"
  /\ pageKey' = [pageKey EXCEPT ![p] = passPhrase]
  /\ attr' = [attr EXCEPT ![user[p]] = passPhrase]
  /\ step' = [step EXCEPT ![p] = "open"]
  /\ UNCHANGED <<server, passPhrase, drawn, user, answer>>
GivePass(p) ==
  /\ step[p] = "give"
  /\ pageKey' = [pageKey EXCEPT ![p] = passPhrase]
  /\ step' = [step EXCEPT ![p] = "open"]
  /\ UNCHANGED <<server, passPhrase, attr, drawn, user, answer>>

(***************************************************************************)
(* destoryedPassPhrase: when a session is destroyed, and when its user is  *)
(* put out by another login, after which the session goes on.              *)
(***************************************************************************)
LosePass(s) ==
  /\ s \notin dropping /\ s \notin ended /\ drops < MaxDrops
  /\ (Asking # {} \/ dropping # {}) => "end" \in races
  /\ attr' = [attr EXCEPT ![s] = NoKey]
  /\ drops' = drops + 1
  /\ UNCHANGED <<races, passPhrase, drawn, step, user, pageKey, answer>>

RemovePass(s) == LosePass(s) /\ dropping' = dropping \cup {s}

SessionDestroyed(s) == RemovePass(s) /\ ended' = ended \cup {s}
PutOut(s) == RemovePass(s) /\ UNCHANGED ended

(* The audit row of the session's end, which comes first, throws: the      *)
(* session is gone and the field stays. *)
SessionDestroyedThrows(s) ==
  LosePass(s) /\ ended' = ended \cup {s} /\ UNCHANGED dropping

DestroyedPassPhrase(s) ==
  /\ s \in dropping /\ dropping' = dropping \ {s}
  /\ passPhrase' = NoKey
  /\ UNCHANGED <<races, attr, ended, drops, drawn, step, user, pageKey, answer>>

(* login.js and AesUtil.decrypt: a password goes through the key of the    *)
(* page and then through that of the field. *)
SendPassword(p) ==
  /\ step[p] = "open"
  /\ answer' = [answer EXCEPT ![p] =
                  IF passPhrase # NoKey /\ pageKey[p] = passPhrase
                  THEN "read" ELSE "failed"]
  /\ UNCHANGED <<server, passPhrase, attr, drawn, step, user, pageKey>>

KeysNext ==
  \/ \E p \in Pages : \/ GetAesKey(p) \/ GetPassPhrase(p) \/ InitAesPass(p)
                      \/ KeepPass(p) \/ AskFails(p) \/ GivePass(p)
                      \/ SendPassword(p)
  \/ \E s \in Sessions : \/ SessionDestroyed(s) \/ SessionDestroyedThrows(s)
                         \/ PutOut(s) \/ DestroyedPassPhrase(s)

KeysSpec == KeysInit /\ [][KeysNext]_keyVars

----------------------------------------------------------------------------
(* Type invariant. *)
KeysTypeOK ==
  /\ races \subseteq Races
  /\ passPhrase \in Nat /\ attr \in [Sessions -> Nat]
  /\ ended \subseteq Sessions /\ dropping \subseteq Sessions
  /\ drops \in Nat /\ drawn \in Nat
  /\ step \in [Pages -> {"new", "check", "init", "keep", "give", "open", "failed"}]
  /\ user \in [Pages -> Sessions] /\ pageKey \in [Pages -> Nat]
  /\ answer \in [Pages -> {"none", "read", "failed"}]

(***************************************************************************)
(* The steps do what KeyPromise says, with the field as the live key, also *)
(* when pages ask at the same time once there is a key: a page that got    *)
(* its key is understood until a session ends, though not a moment longer. *)
(* Two first pages at a time may draw two keys, and the first page of them *)
(* be left with one that nobody ever used.                                 *)
(***************************************************************************)
Promise == INSTANCE KeyPromise
  WITH live <- passPhrase, lossy <- (races # {})
KeysKeepPromise == Promise!PromiseSpec

(***************************************************************************)
(* A key is kept by one session, the one that drew it, so it cannot come   *)
(* back by way of another one when that session has ended.  Either race    *)
(* breaks it: initAesPass 66-78 stores what the field holds by then, not   *)
(* what it drew.                                                           *)
(***************************************************************************)
KeyHasOneOwner ==
  races = {} =>
    \A s, t \in Sessions : attr[s] = attr[t] => s = t \/ attr[s] = NoKey
=============================================================================
