-------------------------- MODULE MCServerBackend --------------------------
(***************************************************************************)
(* ServerBackend for TLC: the clients send a bounded number of requests.   *)
(***************************************************************************)
EXTENDS ServerBackend, TLC

CONSTANT MaxRequests   \* bound: requests in a behaviour

ASSUME MaxRequestsAssumption == MaxRequests \in Nat

VARIABLE requests      \* requests begun so far

Symmetry ==
  Permutations(Handles) \cup Permutations(Workers) \cup Permutations(TxnIds)
    \cup Permutations(Files)

\* A request begins when its worker leaves "idle" or, if it is answered in its
\* first step, when a response appears and no worker has moved.
BeginsRequest ==
  \/ \E w \in Workers : pc[w] = "idle" /\ pc'[w] # "idle"
  \/ pc' = pc /\ reply' # NoReply

MCInit == Init /\ requests = 0

MCNext ==
  /\ Next
  /\ requests' = IF BeginsRequest THEN requests + 1 ELSE requests
  /\ requests' <= MaxRequests

MCSpec == MCInit /\ [][MCNext]_<<vars, requests>>

\* What the operating system gives: a runnable thread runs eventually, and a
\* deadline that is not moved passes.  Mutexes need not be fair: the number
\* of requests is bounded, so nobody can be overtaken for ever.
Fairness ==
  /\ \A w \in Workers : WF_<<vars, requests>>(Continue(w) /\ UNCHANGED requests)
  /\ \A h \in Handles :
       /\ WF_<<vars, requests>>(Expire(h) /\ UNCHANGED requests)
       /\ WF_<<vars, requests>>(Timer(h) /\ UNCHANGED requests)

FairSpec == MCSpec /\ Fairness

\* A request that the backend has begun to process is answered: no order in
\* which the threads take the member, transaction and file mutexes blocks them.
EveryRequestAnswered == \A w \in Workers : pc[w] # "idle" ~> pc[w] = "idle"

\* "the server will abort any transaction for which no request has been
\* received within transaction_timeout_seconds" (README): no transaction stays
\* open for ever once the requests have stopped.
AbandonedTransactionsEnd ==
  \A id \in TxnIds : txnMap[id] # None ~> txnMap[id] = None
=============================================================================
