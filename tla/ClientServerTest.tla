-------------------------- MODULE ClientServerTest --------------------------
(***************************************************************************)
(* The test suite (ClientServerTest/client-server-test.cpp) with its       *)
(* Client, run against ServerBackend: every tester runs one of the TESTs,  *)
(* at the same time as the other testers, and compares the responses with  *)
(* what the test EXPECTs.                                                  *)
(*                                                                         *)
(* A test is a sequence of rounds, and a round a set of requests whose     *)
(* order the test leaves open: requests of different connections are       *)
(* processed at the same time, those of one connection in some order.      *)
(* Pipelined requests are processed in the order of their connection,      *)
(* which is the same as waiting for each response.  A request for which    *)
(* the test does not look at the response EXPECTs anything.                *)
(*                                                                         *)
(* Every test draws a file name of its own: a tester is named by its file. *)
(* The thread that serves connection c of tester t is worker <<t, c>>.     *)
(***************************************************************************)
EXTENDS ServerBackend, FiniteSetsExt

CONSTANTS
  DefaultId,     \* default_txn_id, which rand() never returns
  NumRequests    \* num_requests, num_clients

Testers == Files

ASSUME TestAssumption ==
  /\ DefaultId \in TxnIds
  /\ NumRequests \in Nat \ {0, 1}
  /\ Workers = Testers \X (0..NumRequests)

VARIABLES
  todo,     \* tester -> rounds left, the current one with what is unanswered
  txnId,    \* tester -> txn_id
  closed,   \* tester -> connections the server has closed
  unmet     \* tester -> requests whose EXPECT did not hold

testVars == <<todo, txnId, closed, unmet>>

-----------------------------------------------------------------------------
(* The tests.                                                              *)

Request(c, cmd, k, want) ==
  [client |-> c, cmd |-> cmd, k |-> k, want |-> want, seq |-> 0]

NewTxn          == Request(0, "NEW_TXN", 0, "ACK")
Write(c, k)     == Request(c, "WRITE", k, "anything")
Commit(k, want) == Request(0, "COMMIT", k, want)
AskResend(m)    == [Commit(NumRequests, "ASK_RESEND") EXCEPT !.seq = m]
ReadExpected    == Request(0, "READ", 0, "expected")
Erase           == Request(0, "eraseFile", 0, "anything")
Sleep           == Request(0, "sleep_for", 0, "anything")

InOrder(requests) == [j \in 1..Len(requests) |-> {requests[j]}]

Writes == [k \in 1..NumRequests |-> Write(0, k)]

\* The end of the tests that look at the file.
CommitAndRead(want) == InOrder(<<Commit(NumRequests, want), ReadExpected, Erase>>)

OmittedSequenceNumber(m) ==
  InOrder(<<NewTxn>> \o SelectSeq(Writes, LAMBDA r : r.k # m)
            \o <<AskResend(m), Write(0, m)>>)
    \o CommitAndRead("ACK")

InvalidRequestFormat ==
  InOrder(<<Request(0, "malformed", 0, "InvalidMessageFormat")>>)

InvalidCommand == InOrder(<<Request(0, "WRRITE", 0, "InvalidCommand")>>)

InvalidTransactionId == InOrder(<<Request(0, "WRITE", 0, "InvalidTransactionId")>>)

InvalidInitialSequenceNumber ==
  InOrder(<<Request(0, "NEW_TXN", 1, "InvalidSequenceNumber")>>)

RepeatedSequenceNumber ==
  InOrder(<<NewTxn, Write(0, 1), Request(0, "WRITE", 1, "RepeatedSequenceNumber")>>)

CommitWithInvalidSequenceNumber ==
  InOrder(<<NewTxn, Write(0, 2), Commit(1, "CommitWithInvalidSequenceNumber")>>)

ReadNonexistentFile == InOrder(<<Request(0, "READ", 0, "ErrorOpeningFile")>>)

SendPacketsOutOfOrder ==
  <<{NewTxn}, {Write(0, k) : k \in 1..NumRequests}>> \o CommitAndRead("anything")

WriteToCommittedTransaction ==
  InOrder(<<NewTxn, Write(0, 1), Commit(1, "anything"),
            Request(0, "WRITE", 1, "InvalidOperation"),
            Request(1, "WRITE", 2, "InvalidOperation"), Erase>>)

AfterSleep == Request(1, "WRITE", 1, "InvalidTransactionId")

TransactionTimeout == InOrder(<<NewTxn, Sleep, AfterSleep>>)

LostAck ==
  InOrder(<<NewTxn, Write(0, 1), Commit(1, "anything"), Commit(1, "ACK"), Erase>>)

NewTransaction == InOrder(<<NewTxn>>)

PipelinedRequests == InOrder(<<NewTxn>> \o Writes) \o CommitAndRead("anything")

ReceiveAckOnCommit == InOrder(<<NewTxn, Write(0, 1), Commit(1, "ACK"), Erase>>)

MultipleClientInteractionSameTransactionSequential ==
  LET Descending == [j \in 1..NumRequests |-> Write(NumRequests + 1 - j, NumRequests + 1 - j)]
  IN  InOrder(<<NewTxn>> \o Descending) \o CommitAndRead("ACK")

MultipleClientInteractionSameTransactionParallel ==
  <<{NewTxn}, {Write(k, k) : k \in 1..NumRequests}>> \o CommitAndRead("ACK")

\* ABORT does not look at its sequence number.
AbortTransaction ==
  InOrder(<<NewTxn>> \o SelectSeq(Writes, LAMBDA r : r.k < NumRequests)
            \o <<Request(0, "ABORT", 0, "ACK"),
                 Request(1, "COMMIT", NumRequests, "InvalidTransactionId")>>)

Tests ==
  {OmittedSequenceNumber(m) : m \in 1..NumRequests} \cup
  {InvalidRequestFormat, InvalidCommand, InvalidTransactionId,
   InvalidInitialSequenceNumber, RepeatedSequenceNumber,
   CommitWithInvalidSequenceNumber, ReadNonexistentFile, SendPacketsOutOfOrder,
   WriteToCommittedTransaction, TransactionTimeout, LostAck, NewTransaction,
   PipelinedRequests, ReceiveAckOnCommit,
   MultipleClientInteractionSameTransactionSequential,
   MultipleClientInteractionSameTransactionParallel, AbortTransaction}

TestInit ==
  /\ Init
  /\ todo \in [Testers -> Tests]
  /\ txnId = [t \in Testers |-> DefaultId]
  /\ closed = [t \in Testers |-> {}]
  /\ unmet = [t \in Testers |-> {}]

-----------------------------------------------------------------------------
(* Requests and responses.                                                 *)

Round(t) == IF todo[t] = <<>> THEN {} ELSE Head(todo[t])

\* r is done, and with the last request of a round the round.
Done(t, r) ==
  todo' = [todo EXCEPT ![t] = IF Round(t) = {r} THEN Tail(@)
                              ELSE <<Round(t) \ {r}>> \o Tail(@)]

\* The first step of the server for a request; the next ones are Continue.
Dispatch(w, t, r) ==
  \/ r.cmd = "NEW_TXN" /\ NewTxnReject(w, r.k)
  \/ /\ r.cmd = "NEW_TXN" /\ r.k = 0
     /\ \E id \in TxnIds \ {DefaultId}, h \in Handles : NewTxnCreate(w, t, id, h)
  \/ r.cmd = "READ" /\ ReadOpen(w, t)
  \/ r.cmd = "WRITE" /\ WriteLookup(w, txnId[t], r.k)
  \/ r.cmd = "COMMIT" /\ CommitLookup(w, txnId[t], r.k)
  \/ r.cmd = "ABORT" /\ AbortLookup(w, txnId[t])
  \/ r.cmd = "malformed" /\ RefuseRequest(w, "InvalidMessageFormat")
  \/ r.cmd = "WRRITE" /\ RefuseRequest(w, "InvalidCommand")

\* The data of a READ and the sequence number of an ASK_RESEND, in the step
\* that sends them.
Data(w) == SubSeq(disk[call[w].file], 1, call[w].i)

ResendSeqNum(w) == Min({j \in 1..call[w].k : j \notin buffers[call[w].h]})

Expected(t) ==
  LET h == CHOOSE g \in Handles : txn[g].id = txnId[t]
  IN  [k \in 1..NumRequests |-> <<h, k>>]

\* The EXPECT about the response that this step sends.
Meets(w, t, r) ==
  CASE r.want = "anything"   -> TRUE
    [] r.want = "expected"   -> reply'.out = "ACK" /\ Data(w) = Expected(t)
    [] r.want = "ASK_RESEND" -> reply'.out = "ASK_RESEND" /\ ResendSeqNum(w) = r.seq
    [] OTHER                 -> reply'.out = r.want

\* getResponse.  The server closes a connection after an error or an ABORT.
Response(w, t, r) ==
  IF pc'[w] # "idle" THEN UNCHANGED testVars
  ELSE /\ Done(t, r)
       /\ unmet' = [unmet EXCEPT ![t] = IF Meets(w, t, r) THEN @ ELSE @ \cup {r}]
       /\ txnId' = IF r.cmd = "NEW_TXN" /\ reply'.out = "ACK"
                   THEN [txnId EXCEPT ![t] = reply'.id] ELSE txnId
       /\ closed' = IF reply'.out \in Errors \/ r.cmd = "ABORT"
                    THEN [closed EXCEPT ![t] = @ \cup {r.client}] ELSE closed

\* sendRequest.  Nothing can be sent over a connection that was closed: a
\* test that tries to exits, here it never finishes.
SendRequest(t, r) ==
  LET w == <<t, r.client>>
  IN  /\ r \in Round(t)
      /\ r.client \notin closed[t]
      /\ Dispatch(w, t, r)
      /\ Response(w, t, r)

ProcessRequest(t, r) ==
  LET w == <<t, r.client>>
  IN  /\ r \in Round(t)
      /\ call[w].cmd = r.cmd /\ call[w].k = r.k
      /\ Continue(w)
      /\ Response(w, t, r)

\* remove() fails if the server did not create the file.
EraseFile(t) ==
  /\ Erase \in Round(t)
  /\ unmet' = [unmet EXCEPT ![t] = IF t \in exists THEN @ ELSE @ \cup {Erase}]
  /\ exists' = exists \ {t}
  /\ disk' = [disk EXCEPT ![t] = <<>>]
  /\ Done(t, Erase)
  /\ reply' = NoReply
  /\ UNCHANGED <<txnId, closed, registryVars, entryVars, lockVars, logs, failures, pc, call>>

\* The deadline of a transaction passes only while its test sleeps.
Elapse(t) ==
  /\ Sleep \in Round(t)
  /\ \E h \in Handles : txn[h].id = txnId[t] /\ Expire(h)
  /\ UNCHANGED testVars

\* The sleep begins after the transaction and lasts as long as its deadline:
\* that has passed when the test wakes up.  The timer thread wakes up at the
\* same moment and may run earlier or later.
WakeUp(t) ==
  LET h == txnMap[txnId[t]]
  IN  /\ Sleep \in Round(t)
      /\ h # None => expired[h]
      /\ Done(t, Sleep)
      /\ UNCHANGED <<txnId, closed, unmet, vars>>

RunTimer(h) == Timer(h) /\ UNCHANGED testVars

Finished == /\ \A t \in Testers : todo[t] = <<>>
            /\ UNCHANGED <<vars, testVars>>

TestNext ==
  \/ \E t \in Testers :
       \/ \E r \in Round(t) : SendRequest(t, r) \/ ProcessRequest(t, r)
       \/ EraseFile(t) \/ Elapse(t) \/ WakeUp(t)
  \/ \E h \in Handles : RunTimer(h)
  \/ Finished

\* A test sends its requests and the threads of the server run.
TestSpec ==
  TestInit /\ [][TestNext]_<<vars, testVars>> /\ WF_<<vars, testVars>>(TestNext)

-----------------------------------------------------------------------------
(* Properties.                                                             *)

\* "EXPECT_STREQ(..., Errors::getErrorMessage(Errors::InvalidTransactionId)"
\* (TransactionTimeout): a test that slept until the deadline of its
\* transaction finds that the transaction is gone.
TimeoutNoticed == \A t \in Testers : AfterSleep \notin unmet[t]

\* Every other EXPECT holds, such as "EXPECT_STREQ(Constants::ack_cmd, ...)" for
\* the second COMMIT of LostAck, whatever the other testers do meanwhile and
\* however their requests interleave in the server.
ExpectationsHold == \A t \in Testers : unmet[t] \subseteq {AfterSleep}

\* The transaction of t has committed and is not, or no longer, in m_commits.
Forgotten(t) ==
  \E h \in Handles : /\ txn[h].id = txnId[t] /\ "committed" \in fate[h]
                     /\ txnId[t] \notin commits

\* Nothing but these two races makes a test fail: a timer that runs later than
\* the test that slept as long, and a commit of another test that takes away the
\* entry in m_commits.  What is in the files and every other response is as
\* EXPECTed in every interleaving.
FailuresExplained ==
  \A t \in Testers : unmet[t] \subseteq {AfterSleep} \/ Forgotten(t)

\* Every test comes to its end: each request, whether or not the test looks
\* at the response, gets one, over a connection that is still open.
TestsFinish == <>(\A t \in Testers : todo[t] = <<>>)
=============================================================================
