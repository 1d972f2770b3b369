---------------------------- MODULE AesUtilProofs ----------------------------
(***************************************************************************)
(* The two static fields of AesUtil.java, for any number of pages,         *)
(* sessions, threads and keys, where nothing overlaps that their           *)
(* properties exclude: the key of the pages keeps KeyPromise, and the      *)
(* cipher is every call's own.                                             *)
(***************************************************************************)
EXTENDS PageKeys, SharedCipher, SequenceTheorems, TLAPS

-----------------------------------------------------------------------------
(* The key.  What carries it: a page that is about to fill the field found *)
(* it empty and is the only one that asks.                                 *)

Asks(p) == GetAesKey(p) \/ GetPassPhrase(p) \/ AskFails(p)
Drops(s) == SessionDestroyed(s) \/ SessionDestroyedThrows(s) \/ PutOut(s)

LEMMA RacesStay == ASSUME [KeysNext]_keyVars PROVE races' = races
BY DEF KeysNext, keyVars, server, GetAesKey, GetPassPhrase, InitAesPass, KeepPass,
       AskFails, GivePass, SendPassword, SessionDestroyed, SessionDestroyedThrows,
       PutOut, RemovePass, LosePass, DestroyedPassPhrase

LEMMA KeysTypeStep == KeysTypeOK /\ [KeysNext]_keyVars => KeysTypeOK'
<1> SUFFICES ASSUME KeysTypeOK, [KeysNext]_keyVars PROVE KeysTypeOK'
  OBVIOUS
<1> USE DEF KeysTypeOK, server, NoKey
<1>1. CASE UNCHANGED keyVars
  BY <1>1 DEF keyVars
<1>2. ASSUME NEW p \in Pages, Asks(p) PROVE KeysTypeOK'
  BY <1>2 DEF Asks, GetAesKey, GetPassPhrase, AskFails
<1>3. ASSUME NEW p \in Pages, InitAesPass(p) PROVE KeysTypeOK'
  BY <1>3 DEF InitAesPass
<1>4. ASSUME NEW p \in Pages, KeepPass(p) PROVE KeysTypeOK'
  BY <1>4 DEF KeepPass
<1>5. ASSUME NEW p \in Pages, GivePass(p) PROVE KeysTypeOK'
  BY <1>5 DEF GivePass
<1>6. ASSUME NEW p \in Pages, SendPassword(p) PROVE KeysTypeOK'
  BY <1>6 DEF SendPassword
<1>7. ASSUME NEW s \in Sessions, Drops(s) PROVE KeysTypeOK'
  BY <1>7 DEF Drops, SessionDestroyed, SessionDestroyedThrows, PutOut, RemovePass,
              LosePass
<1>8. ASSUME NEW s \in Sessions, DestroyedPassPhrase(s) PROVE KeysTypeOK'
  BY <1>8 DEF DestroyedPassPhrase
<1> QED
  BY <1>1, <1>2, <1>3, <1>4, <1>5, <1>6, <1>7, <1>8 DEF KeysNext, Asks, Drops

\* The variables have their types.
THEOREM KeysTypeCorrect == KeysSpec => []KeysTypeOK
<1>1. KeysInit => KeysTypeOK
  BY RacesAssumption DEF KeysInit, KeysTypeOK, NoKey
<1> QED
  BY <1>1, KeysTypeStep, PTL DEF KeysSpec

-----------------------------------------------------------------------------
(* What holds while pages ask, where nothing overlaps.                     *)

\* Whoever fills the field found it empty; whoever takes from it finds a key.
FieldAsFound ==
  \A p \in Pages : /\ step[p] = "init" => passPhrase = NoKey
                   /\ step[p] \in {"keep", "give"} => passPhrase # NoKey

OneFirst == passPhrase = NoKey => \A p, q \in Asking : p = q

NoneDropsMeanwhile == Asking # {} => dropping = {}

\* Keys are new when they are drawn, and kept by the session that drew them.
KeysDrawn ==
  /\ passPhrase <= drawn
  /\ \A s \in Sessions : attr[s] <= drawn

OneKeeps ==
  \A p \in Pages : step[p] = "keep" =>
    /\ \A q \in Pages : q # p => step[q] \notin {"init", "keep"}
    /\ \A s \in Sessions : attr[s] # passPhrase

OneOwner == \A s, t \in Sessions : attr[s] = attr[t] => s = t \/ attr[s] = NoKey

Quietly ==
  /\ FieldAsFound /\ OneFirst /\ NoneDropsMeanwhile
  /\ KeysDrawn /\ OneKeeps /\ OneOwner

InQuiet == races = {} => Quietly

LEMMA QuietStep == KeysTypeOK /\ InQuiet /\ [KeysNext]_keyVars => InQuiet'
<1> SUFFICES ASSUME KeysTypeOK, Quietly, races = {}, [KeysNext]_keyVars PROVE Quietly'
  BY RacesStay DEF InQuiet
<1> USE DEF KeysTypeOK, server, NoKey, Asking, Quietly, FieldAsFound, OneFirst,
            NoneDropsMeanwhile, KeysDrawn, OneKeeps, OneOwner
<1>1. CASE UNCHANGED keyVars
  BY <1>1 DEF keyVars
<1>2. ASSUME NEW p \in Pages, Asks(p) PROVE Quietly'
  <2>1. CASE GetAesKey(p)
    BY <2>1 DEF GetAesKey
  <2>2. CASE GetPassPhrase(p)
    BY <2>2 DEF GetPassPhrase
  <2>3. CASE AskFails(p)
    BY <2>3 DEF AskFails
  <2> QED
    BY <1>2, <2>1, <2>2, <2>3 DEF Asks
<1>3. ASSUME NEW p \in Pages, InitAesPass(p) PROVE Quietly'
  <2>1. passPhrase = NoKey /\ \A q \in Asking : q = p
    BY <1>3 DEF InitAesPass
  <2>2. passPhrase' # NoKey
    BY <1>3 DEF InitAesPass
  <2>3. (FieldAsFound /\ OneFirst /\ NoneDropsMeanwhile)'
    BY <1>3, <2>1, <2>2 DEF InitAesPass
  <2>4. (KeysDrawn /\ OneOwner)'
    BY <1>3 DEF InitAesPass
  <2>5. OneKeeps'
    BY <1>3, <2>1 DEF InitAesPass
  <2> QED
    BY <2>3, <2>4, <2>5
<1>4. ASSUME NEW p \in Pages, KeepPass(p) PROVE Quietly'
  BY <1>4 DEF KeepPass
<1>5. ASSUME NEW p \in Pages, GivePass(p) PROVE Quietly'
  BY <1>5 DEF GivePass
<1>6. ASSUME NEW p \in Pages, SendPassword(p) PROVE Quietly'
  BY <1>6 DEF SendPassword
<1>7. ASSUME NEW s \in Sessions, Drops(s) PROVE Quietly'
  BY <1>7 DEF Drops, SessionDestroyed, SessionDestroyedThrows, PutOut, RemovePass,
              LosePass
<1>8. ASSUME NEW s \in Sessions, DestroyedPassPhrase(s) PROVE Quietly'
  BY <1>8 DEF DestroyedPassPhrase
<1> QED
  BY <1>1, <1>2, <1>3, <1>4, <1>5, <1>6, <1>7, <1>8 DEF KeysNext, Asks, Drops

LEMMA QuietHolds == KeysSpec => [](KeysTypeOK /\ InQuiet)
<1>1. KeysInit => InQuiet
  BY DEF KeysInit, InQuiet, Quietly, NoKey, Asking, FieldAsFound, OneFirst,
         NoneDropsMeanwhile, KeysDrawn, OneKeeps, OneOwner
<1> QED
  BY <1>1, KeysTypeCorrect, QuietStep, PTL DEF KeysSpec

\* One session keeps a key, the one that drew it, where nothing overlaps.
THEOREM OneOwnerWhenQuiet == KeysSpec => []KeyHasOneOwner
<1>1. InQuiet => KeyHasOneOwner
  BY DEF InQuiet, Quietly, OneOwner, KeyHasOneOwner
<1> QED
  BY <1>1, QuietHolds, PTL

-----------------------------------------------------------------------------
(* The field implements the promise.                                       *)

LEMMA PromiseStep ==
    ASSUME KeysTypeOK, InQuiet, [KeysNext]_keyVars
    PROVE  [Promise!PromiseNext]_(Promise!promised)
<1> USE DEF KeysTypeOK, server, NoKey, Promise!NoKey, Promise!promised
<1> DEFINE Goal == [Promise!PromiseNext]_(Promise!promised)
<1>0. races' = races
  BY RacesStay
<1>1. CASE UNCHANGED keyVars
  BY <1>1 DEF keyVars
<1>2. ASSUME NEW p \in Pages, Asks(p) \/ KeepPass(p) PROVE Goal
  BY <1>2 DEF Asks, GetAesKey, GetPassPhrase, AskFails, KeepPass
<1>3. ASSUME NEW p \in Pages, InitAesPass(p) PROVE Goal
  <2>1. CASE races # {}
    BY <1>0, <1>3, <2>1 DEF InitAesPass, Promise!PromiseNext, Promise!Lose
  <2>2. CASE races = {}
    <3>1. passPhrase = NoKey
      BY <1>3, <2>2 DEF InitAesPass, InQuiet, Quietly, FieldAsFound
    <3>2. passPhrase' \in Nat \ {NoKey}
      BY <1>3 DEF InitAesPass
    <3>3. Promise!Choose
      BY <1>0, <1>3, <3>1, <3>2 DEF InitAesPass, Promise!Choose
    <3> QED
      BY <3>3 DEF Promise!PromiseNext
  <2> QED
    BY <2>1, <2>2
<1>4. ASSUME NEW p \in Pages, GivePass(p) PROVE Goal
  <2>1. CASE races # {}
    BY <1>0, <1>4, <2>1 DEF GivePass, Promise!PromiseNext, Promise!Lose
  <2>2. CASE races = {}
    <3>1. passPhrase # NoKey
      BY <1>4, <2>2 DEF GivePass, InQuiet, Quietly, FieldAsFound
    <3>2. Promise!Load(p)
      BY <1>0, <1>4, <3>1 DEF GivePass, Promise!Load
    <3> QED
      BY <3>2 DEF Promise!PromiseNext
  <2> QED
    BY <2>1, <2>2
<1>5. ASSUME NEW p \in Pages, SendPassword(p) PROVE Goal
  <2>1. Promise!Submit(p)
    BY <1>0, <1>5 DEF SendPassword, Promise!Submit
  <2> QED
    BY <2>1 DEF Promise!PromiseNext
<1>6. ASSUME NEW s \in Sessions, Drops(s) PROVE Goal
  BY <1>6 DEF Drops, SessionDestroyed, SessionDestroyedThrows, PutOut, RemovePass,
              LosePass
<1>7. ASSUME NEW s \in Sessions, DestroyedPassPhrase(s) PROVE Goal
  <2>1. Promise!Drop
    BY <1>0, <1>7 DEF DestroyedPassPhrase, Promise!Drop
  <2> QED
    BY <2>1 DEF Promise!PromiseNext
<1> QED
  BY <1>1, <1>2, <1>3, <1>4, <1>5, <1>6, <1>7 DEF KeysNext, Asks, Drops

\* The field, the sessions and the pages do what KeyPromise says.
THEOREM FieldKeepsPromise == KeysSpec => KeysKeepPromise
<1>1. KeysInit => Promise!PromiseInit
  BY DEF KeysInit, Promise!PromiseInit, NoKey, Promise!NoKey
<1>2. KeysTypeOK /\ InQuiet /\ [KeysNext]_keyVars
        => [Promise!PromiseNext]_(Promise!promised)
  BY PromiseStep
<1> QED
  BY <1>1, <1>2, QuietHolds, PTL DEF KeysSpec, KeysKeepPromise, Promise!PromiseSpec

-----------------------------------------------------------------------------
(* The cipher, which one call after the other can share.                   *)

LEMMA CrowdStays == ASSUME [CipherNext]_cipherVars PROVE crowd' = crowd
BY DEF CipherNext, cipherVars, CallDoFinal, GetInstance, InitCipher, UseCipher

LEMMA CipherTypeStep == CipherTypeOK /\ [CipherNext]_cipherVars => CipherTypeOK'
<1> SUFFICES ASSUME CipherTypeOK, [CipherNext]_cipherVars PROVE CipherTypeOK'
  OBVIOUS
<1> USE DEF CipherTypeOK, Modes
<1>1. CASE UNCHANGED cipherVars
  BY <1>1 DEF cipherVars
<1>2. ASSUME NEW t \in Threads, CallDoFinal(t) PROVE CipherTypeOK'
  BY <1>2 DEF CallDoFinal
<1>3. ASSUME NEW t \in Threads, GetInstance(t) PROVE CipherTypeOK'
  BY <1>3 DEF GetInstance, Nobody
<1>4. ASSUME NEW t \in Threads, InitCipher(t) PROVE CipherTypeOK'
  <2>1. [by |-> call[t], mode |-> mode[t]] \in [by : Nat, mode : Modes]
    OBVIOUS
  <2>2. CASE cipher = 0
    <3>1. [objects EXCEPT ![cipher] = [by |-> call[t], mode |-> mode[t]]] = objects
      BY <2>2
    <3> QED
      BY <1>4, <3>1 DEF InitCipher
  <2>3. CASE cipher # 0
    <3>1. cipher \in 1 .. Len(objects)
      BY <2>3
    <3>2. objects' \in Seq([by : Nat, mode : Modes]) /\ Len(objects') = Len(objects)
      BY <1>4, <2>1, <3>1, ExceptSeq DEF InitCipher
    <3> QED
      BY <1>4, <3>2 DEF InitCipher
  <2> QED
    BY <2>2, <2>3
<1>5. ASSUME NEW t \in Threads, UseCipher(t) PROVE CipherTypeOK'
  <2>1. \A o, c : Outcomes(o, c) \subseteq {"right", "failed", "wrong"}
    BY DEF Outcomes
  <2> QED
    BY <1>5, <2>1 DEF UseCipher
<1> QED
  BY <1>1, <1>2, <1>3, <1>4, <1>5 DEF CipherNext

\* The variables have their types.
THEOREM CipherTypeCorrect == CipherSpec => []CipherTypeOK
<1>1. CipherInit => CipherTypeOK
  BY CrowdAssumption DEF CipherInit, CipherTypeOK, Modes
<1> QED
  BY <1>1, CipherTypeStep, PTL DEF CipherSpec

-----------------------------------------------------------------------------
(* One call at a time finds the field as it left it.                       *)

OneCall == \A t, u \in Threads : t # u => at[t] = "idle" \/ at[u] = "idle"

\* A thread past getInstance finds a cipher in the field, past init its own.
FieldHeld ==
  \A t \in Threads :
    /\ at[t] \in {"init", "final"} => cipher \in 1 .. Len(objects)
    /\ at[t] = "final" => objects[cipher].by = call[t]

AllRight == \A t \in Threads : result[t] \notin {"failed", "wrong"}

InTurn == ~ crowd => OneCall /\ FieldHeld /\ AllRight

LEMMA InTurnStep == CipherTypeOK /\ InTurn /\ [CipherNext]_cipherVars => InTurn'
<1> SUFFICES ASSUME CipherTypeOK, InTurn, [CipherNext]_cipherVars, ~ crowd
             PROVE  (OneCall /\ FieldHeld /\ AllRight)'
  BY CrowdStays DEF InTurn
<1> USE DEF CipherTypeOK, InTurn, OneCall, FieldHeld, AllRight
<1>1. CASE UNCHANGED cipherVars
  BY <1>1 DEF cipherVars
<1>2. ASSUME NEW t \in Threads, CallDoFinal(t) PROVE (OneCall /\ FieldHeld /\ AllRight)'
  BY <1>2 DEF CallDoFinal
<1>3. ASSUME NEW t \in Threads, GetInstance(t) PROVE (OneCall /\ FieldHeld /\ AllRight)'
  <2>1. \A u \in Threads : u # t => at[u] = "idle"
    BY <1>3 DEF GetInstance
  <2> QED
    BY <1>3, <2>1 DEF GetInstance, Nobody, Modes
<1>4. ASSUME NEW t \in Threads, InitCipher(t) PROVE (OneCall /\ FieldHeld /\ AllRight)'
  <2>1. \A u \in Threads : u # t => at[u] = "idle"
    BY <1>4 DEF InitCipher
  <2>2. [by |-> call[t], mode |-> mode[t]] \in [by : Nat, mode : Modes]
    OBVIOUS
  <2>3. cipher \in 1 .. Len(objects)
    BY <1>4 DEF InitCipher
  <2>4. Len(objects') = Len(objects) /\ objects'[cipher].by = call[t]
    BY <1>4, <2>2, <2>3, ExceptSeq DEF InitCipher
  <2> QED
    BY <1>4, <2>1, <2>3, <2>4 DEF InitCipher
<1>5. ASSUME NEW t \in Threads, UseCipher(t) PROVE (OneCall /\ FieldHeld /\ AllRight)'
  <2>1. Outcomes(objects[cipher], call[t]) = {"right"}
    BY <1>5 DEF UseCipher, Outcomes
  <2> QED
    BY <1>5, <2>1 DEF UseCipher
<1> QED
  BY <1>1, <1>2, <1>3, <1>4, <1>5 DEF CipherNext

\* One call after the other, every text goes through its own key.
THEOREM OwnKeyWhenInTurn == CipherSpec => []OwnKeyInTurn
<1>1. CipherInit => InTurn
  BY DEF CipherInit, InTurn, OneCall, FieldHeld, AllRight
<1>2. InTurn => OwnKeyInTurn
  BY DEF InTurn, AllRight, OwnKeyInTurn
<1> QED
  BY <1>1, <1>2, CipherTypeCorrect, InTurnStep, PTL DEF CipherSpec
=============================================================================
