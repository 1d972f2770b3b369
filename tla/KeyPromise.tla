----------------------------- MODULE KeyPromise -----------------------------
(***************************************************************************)
(* What the pages of the console may count on when they encrypt a password *)
(* with the key they got: one key is alive for all of them, the one every  *)
(* page is given, and it stays alive until a session ends.                 *)
(***************************************************************************)
EXTENDS Naturals

CONSTANT Pages

VARIABLES
  live,     \* the key passwords are decrypted with, NoKey when there is none
  pageKey,  \* the key of each page, NoKey before it has one
  answer,   \* was the last password of the page read, or not?
  lossy     \* does the promise stand in this run, or not? rigid

promised == <<live, pageKey, answer, lossy>>

NoKey == 0

PromiseInit ==
  /\ live = NoKey /\ lossy \in BOOLEAN
  /\ pageKey = [p \in Pages |-> NoKey]
  /\ answer = [p \in Pages |-> "none"]

(* A key comes alive, new or not, only where there is none. *)
Choose ==
  /\ live = NoKey /\ live' \in Nat \ {NoKey}
  /\ UNCHANGED <<pageKey, answer, lossy>>

Load(p) ==
  /\ live # NoKey
  /\ pageKey' = [pageKey EXCEPT ![p] = live]
  /\ UNCHANGED <<live, answer, lossy>>

Submit(p) ==
  /\ answer' = [answer EXCEPT ![p] =
                  IF live # NoKey /\ pageKey[p] = live THEN "read" ELSE "failed"]
  /\ UNCHANGED <<live, pageKey, lossy>>

Drop == live' = NoKey /\ UNCHANGED <<pageKey, answer, lossy>>

(* Where the promise does not stand the keys are anything, the answers not. *)
Lose == lossy /\ UNCHANGED <<answer, lossy>>

PromiseNext ==
  Choose \/ Drop \/ Lose \/ \E p \in Pages : Load(p) \/ Submit(p)

PromiseSpec == PromiseInit /\ [][PromiseNext]_promised
=============================================================================
