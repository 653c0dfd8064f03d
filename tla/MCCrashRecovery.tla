-------------------------- MODULE MCCrashRecovery --------------------------
(***************************************************************************)
(* CrashRecovery for TLC: the clients send a bounded number of requests,   *)
(* and if the power fails it does so at the first crash.                   *)
(***************************************************************************)
EXTENDS CrashRecovery

CONSTANT MaxRequests   \* bound: requests in a behaviour

ASSUME MaxRequestsAssumption == MaxRequests \in Nat

VARIABLE requests      \* requests begun so far

Symmetry ==
  Permutations(Handles) \cup Permutations(Workers) \cup Permutations(TxnIds)
    \cup Permutations(Files)

\* A worker leaves "idle", or a request is answered in its first step.
BeginsRequest ==
  \/ \E w \in Workers : pc[w] = "idle" /\ pc'[w] # "idle"
  \/ pc' = pc /\ reply' # NoReply

MCInit == RecoveryInit /\ requests = 0

\* Bound: if the power fails, it is at the first crash.
PowerFailsFirst ==
  crashes' > crashes /\ crashes > 0 =>
    <<disk', synced', powerFailed'>> = <<disk, synced, powerFailed>>

MCNext ==
  /\ RecoveryNext
  /\ PowerFailsFirst
  /\ requests' = IF mode = "up" /\ BeginsRequest THEN requests + 1 ELSE requests
  /\ requests' <= MaxRequests

MCSpec == MCInit /\ [][MCNext]_<<allVars, requests>>
=============================================================================
