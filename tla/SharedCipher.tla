---------------------------- MODULE SharedCipher ----------------------------
(***************************************************************************)
(* AesUtil.doFinal: every text of the console that is encrypted or         *)
(* decrypted (rules, passwords) goes through one static field that holds   *)
(* the cipher.  The field is set, then read again to give the cipher its   *)
(* key, and read again to use it, under no lock.                           *)
(***************************************************************************)
EXTENDS Naturals, Sequences

CONSTANTS
  Threads,
  MaxUses,       \* how many texts are encrypted or decrypted in a run
  Crowds         \* may calls overlap? one value for each kind of run

ASSUME UsesAssumption == MaxUses \in Nat
ASSUME CrowdAssumption == Crowds \subseteq BOOLEAN

Modes  == {"encrypt", "decrypt"}
Nobody == [by |-> 0, mode |-> "decrypt"]  \* a cipher before its init

VARIABLES
  crowd,    \* may calls overlap in this run? rigid
  cipher,   \* the static field: the number of the object it holds, 0 at first
  objects,  \* for each object made, the call whose key it has, and its mode
  at,       \* the next step of each thread
  call,     \* its call, which stands for the key
  mode,     \* "encrypt" or "decrypt"
  result,   \* what became of its last call
  calls     \* how many calls there were

cipherVars == <<crowd, cipher, objects, at, call, mode, result, calls>>

----------------------------------------------------------------------------
CipherInit ==
  /\ crowd \in Crowds
  /\ cipher = 0 /\ objects = <<>> /\ calls = 0
  /\ at = [t \in Threads |-> "idle"] /\ call = [t \in Threads |-> 0]
  /\ mode = [t \in Threads |-> "decrypt"]
  /\ result = [t \in Threads |-> "none"]

CallDoFinal(t) ==
  /\ at[t] = "idle" /\ calls < MaxUses
  /\ (\E u \in Threads : at[u] # "idle") => crowd
  /\ calls' = calls + 1 /\ call' = [call EXCEPT ![t] = calls + 1]
  /\ \E m \in Modes : mode' = [mode EXCEPT ![t] = m]
  /\ at' = [at EXCEPT ![t] = "instance"]
  /\ UNCHANGED <<crowd, cipher, objects, result>>

(* cipher = Cipher.getInstance(...) *)
GetInstanceOnce(t) ==  \* (mutant: a cipher that is there is used as it is)
  /\ at[t] = "instance"
  /\ IF cipher = 0
     THEN /\ objects' = Append(objects, Nobody) /\ cipher' = Len(objects) + 1
          /\ at' = [at EXCEPT ![t] = "init"]
     ELSE at' = [at EXCEPT ![t] = "final"] /\ UNCHANGED <<objects, cipher>>
  /\ UNCHANGED <<crowd, call, mode, result, calls>>
GetInstance(t) ==
  /\ at[t] = "instance"
  /\ objects' = Append(objects, Nobody)
  /\ cipher' = Len(objects) + 1
  /\ at' = [at EXCEPT ![t] = "init"]
  /\ UNCHANGED <<crowd, call, mode, result, calls>>

(* cipher.init(mode, key, iv) *)
InitCipher(t) ==
  /\ at[t] = "init"
  /\ objects' = [objects EXCEPT ![cipher] = [by |-> call[t], mode |-> mode[t]]]
  /\ at' = [at EXCEPT ![t] = "final"]
  /\ UNCHANGED <<crowd, cipher, call, mode, result, calls>>

(***************************************************************************)
(* cipher.doFinal(bytes): without a key it throws.  With the key of        *)
(* another call it gives a wrong text where that call encrypts; where it   *)
(* decrypts it throws for most texts, and gives a wrong one for others.    *)
(***************************************************************************)
Outcomes(o, c) ==
  IF o.by = c THEN {"right"} ELSE IF o = Nobody THEN {"failed"}
  ELSE IF o.mode = "encrypt" THEN {"wrong"} ELSE {"failed", "wrong"}

UseCipher(t) ==
  /\ at[t] = "final"
  /\ \E o \in Outcomes(objects[cipher], call[t]) : result' = [result EXCEPT ![t] = o]
  /\ at' = [at EXCEPT ![t] = "idle"]
  /\ UNCHANGED <<crowd, cipher, objects, call, mode, calls>>

CipherNext ==
  \E t \in Threads : CallDoFinal(t) \/ GetInstance(t) \/ InitCipher(t) \/ UseCipher(t)

CipherSpec == CipherInit /\ [][CipherNext]_cipherVars
----------------------------------------------------------------------------
(* Type invariant. *)
CipherTypeOK ==
  /\ crowd \in BOOLEAN /\ cipher \in 0 .. Len(objects)
  /\ objects \in Seq([by : Nat, mode : Modes])
  /\ at \in [Threads -> {"idle", "instance", "init", "final"}]
  /\ call \in [Threads -> Nat] /\ mode \in [Threads -> Modes]
  /\ result \in [Threads -> {"none", "right", "failed", "wrong"}]
  /\ calls \in Nat

(***************************************************************************)
(* One call after the other, every text goes through its own key: what the *)
(* call before left in the static field, its key included, does no harm,   *)
(* whichever thread it was.                                                *)
(***************************************************************************)
OwnKeyInTurn ==
  ~ crowd => \A t \in Threads : result[t] \notin {"failed", "wrong"}

(***************************************************************************)
(* AesUtil.java 114 says of the step that ends in doFinal that the rule is  *)
(* encrypted with the encryption key, which was made of its code.  What is *)
(* encrypted with the key of another call can never be decrypted again.    *)
(***************************************************************************)
EncryptedWithItsKey ==
  \A t \in Threads : mode[t] = "encrypt" => result[t] # "wrong"
=============================================================================
