------------------------- MODULE TransactionalStore -------------------------
(***************************************************************************)
(* What the server promises about its files, whatever threads, mutexes and *)
(* system calls it is made of: a transaction collects numbered writes for  *)
(* one file and ends once; when it commits, its writes 1..n are appended   *)
(* to the file in one step and in order, and only if all of them arrived.  *)
(***************************************************************************)
EXTENDS Integers, Sequences

CONSTANTS Transactions, Files, SeqNums, NoFile

VARIABLES
  status,   \* transaction -> "none", "open", "committed" or "aborted"
  file,     \* transaction -> the file it is about
  writes,   \* transaction -> sequence numbers of the writes it has collected
  store     \* file -> the committed writes <<transaction, number>>, in order

vars == <<status, file, writes, store>>

Init ==
  /\ status = [t \in Transactions |-> "none"]
  /\ file = [t \in Transactions |-> NoFile]
  /\ writes = [t \in Transactions |-> {}]
  /\ store = [f \in Files |-> <<>>]

Begin(t, f) ==
  /\ status[t] = "none"
  /\ status' = [status EXCEPT ![t] = "open"]
  /\ file' = [file EXCEPT ![t] = f]
  /\ UNCHANGED <<writes, store>>

\* A sequence number is used once.
Write(t, k) ==
  /\ status[t] = "open"
  /\ k \notin writes[t]
  /\ writes' = [writes EXCEPT ![t] = @ \cup {k}]
  /\ UNCHANGED <<status, file, store>>

Commit(t, n) ==
  /\ status[t] = "open"
  /\ 1..n \subseteq writes[t]
  /\ \A k \in writes[t] : k <= n
  /\ status' = [status EXCEPT ![t] = "committed"]
  /\ store' = [store EXCEPT ![file[t]] = @ \o [j \in 1..n |-> <<t, j>>]]
  /\ UNCHANGED <<file, writes>>

\* By request or by timeout.
Abort(t) ==
  /\ status[t] = "open"
  /\ status' = [status EXCEPT ![t] = "aborted"]
  /\ UNCHANGED <<file, writes, store>>

Next ==
  \E t \in Transactions :
    \/ \E f \in Files : Begin(t, f)
    \/ \E k \in SeqNums : Write(t, k)
    \/ \E n \in SeqNums : n > 0 /\ Commit(t, n)
    \/ Abort(t)

Spec == Init /\ [][Next]_vars
=============================================================================
