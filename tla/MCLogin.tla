------------------------------ MODULE MCLogin ------------------------------
(***************************************************************************)
(* Logins for TLC: the sessions of a user and two administrators           *)
(* (LoginSessions), and the lock of one account (LoginLockout).  They      *)
(* share no state, so a behaviour is one of one of them, and the other     *)
(* stays at its start.                                                     *)
(***************************************************************************)
EXTENDS LoginSessions, LoginLockout, TLC

VARIABLE part  \* which of the two this behaviour is of: rigid

loginVars == <<part, vars, lockoutVars>>

LoginInit ==
  /\ part \in {"sessions", "lock"}
  /\ Init /\ (part = "lock" => faults = {})
  /\ LockoutInit /\ (part = "sessions" => cases = {} /\ row.admin)

SessionStep == part = "sessions" /\ Next /\ UNCHANGED <<part, lockoutVars>>
LockStep == part = "lock" /\ LockoutNext /\ UNCHANGED <<part, vars>>

LoginSpec == LoginInit /\ [][SessionStep \/ LockStep]_loginVars

LoginSymmetry ==
  Permutations(Sessions) \cup Permutations(Admins) \cup Permutations(Requests)
=============================================================================
