------------------------ MODULE ServerBackendProofs ------------------------
(***************************************************************************)
(* Theorems about ServerBackend, for every set of threads, transactions,   *)
(* ids and files, and every choice of the failures the model allows.       *)
(***************************************************************************)
EXTENDS ServerBackend, TLAPS

-----------------------------------------------------------------------------
(* Type correctness.                                                       *)

\* Initially nothing is there.
LEMMA InitStateOK == Init => StateOK
  BY ConstantsAssumption
  DEF Init, StateOK, TypeOK, EntriesOK, CallOK, NoTransaction, NoCall, Call, NoReply,
      TransactionAttributes, Calls, Replies, Labels, Commands, Outcomes, Errors,
      HoldsTxnMtx, UsesTxn, LogNames, LogEntry

\* A step that goes on to a label keeps the types of the thread variables.
LEMMA GotoType ==
  ASSUME TypeOK, NEW w \in Workers, NEW label \in Labels, Goto(w, label)
  PROVE  /\ pc' \in [Workers -> Labels]
         /\ call' \in [Workers -> Calls]
         /\ reply' \in Replies
  BY DEF TypeOK, Goto, NoReply, Replies, Commands, Outcomes

LEMMA ReturnType ==
  ASSUME TypeOK, NEW w \in Workers, NEW cmd \in Commands \cup {"none"},
         NEW id \in TxnIds \cup {None}, NEW h \in Handles \cup {None},
         NEW out \in Outcomes, Return(w, cmd, id, h, out)
  PROVE  /\ pc' \in [Workers -> Labels]
         /\ call' \in [Workers -> Calls]
         /\ reply' \in Replies
  BY DEF TypeOK, Return, Replies, Labels, NoCall, Call, Calls

LEMMA AnswerType ==
  ASSUME TypeOK, NEW w \in Workers, NEW out \in Outcomes, Answer(w, out)
  PROVE  /\ pc' \in [Workers -> Labels]
         /\ call' \in [Workers -> Calls]
         /\ reply' \in Replies
  <1>1. /\ call[w].cmd \in Commands \cup {"none"}
        /\ call[w].id \in TxnIds \cup {None}
        /\ call[w].h \in Handles \cup {None}
    BY DEF TypeOK, Calls
  <1> QED BY <1>1, ReturnType DEF Answer

LEMMA BeginType ==
  ASSUME TypeOK, NEW w \in Workers, NEW label \in Labels, NEW c \in Calls,
         Begin(w, label, c)
  PROVE  /\ pc' \in [Workers -> Labels]
         /\ call' \in [Workers -> Calls]
         /\ reply' \in Replies
  BY DEF TypeOK, Begin, NoReply, Replies, Commands, Outcomes

\* The loop variable can be set to any integer.
LEMMA SetIType ==
  ASSUME TypeOK, NEW w \in Workers, NEW n \in Int
  PROVE  [call EXCEPT ![w].i = n] \in [Workers -> Calls]
  <1>1. call[w] \in Calls
    BY DEF TypeOK
  <1>2. [call[w] EXCEPT !.i = n] \in Calls
    BY <1>1 DEF Calls
  <1> QED BY <1>2 DEF TypeOK

LEMMA FailsType ==
  ASSUME TypeOK, NEW kind, Fails(kind)
  PROVE  failures' \in Nat
  BY DEF TypeOK, Fails

LEMMA DiskType ==
  ASSUME TypeOK, NEW f \in Files
  PROVE  disk[f] \in Seq(Units) /\ Len(disk[f]) \in Nat
  <1>1. disk[f] \in Seq(Units) BY DEF TypeOK
  <1> QED BY <1>1

LEMMA GetFileSizeType ==
  ASSUME TypeOK, NEW f \in Files
  PROVE  GetFileSize(f) \in Nat
  BY DiskType, ConstantsAssumption DEF GetFileSize

LEMMA LogTransactionType ==
  ASSUME TypeOK, NEW log \in LogNames, NEW id \in TxnIds, NEW f \in Files,
         LogTransaction(log, id, f)
  PROVE  logs' \in [LogNames -> Seq(LogEntry)] /\ failures' \in Nat
  <1> DEFINE e == [id |-> id, file |-> f, size |-> GetFileSize(f)]
  <1>1. e \in LogEntry BY GetFileSizeType DEF LogEntry
  <1>2. logs[log] \in Seq(LogEntry) BY DEF TypeOK
  <1>3. Append(logs[log], e) \in Seq(LogEntry) BY <1>1, <1>2
  <1>4. CASE logs' = [logs EXCEPT ![log] = Append(@, e)] /\ UNCHANGED failures
    BY <1>3, <1>4 DEF TypeOK
  <1>5. CASE Fails("log") /\ UNCHANGED logs
    BY <1>5 DEF TypeOK, Fails
  <1> QED BY <1>4, <1>5 DEF LogTransaction

LEMMA RemoveTransactionType ==
  ASSUME TypeOK, EntriesOK, NEW id \in TxnIds, RemoveTransaction(id)
  PROVE  /\ txnMap' \in [TxnIds -> Handles \cup {None}]
         /\ fileMap' \in [Files -> Handles \cup {None}]
         /\ \A i \in TxnIds : txnMap'[i] \in {txnMap[i], None}
  <1>1. CASE txnMap[id] = None
    BY <1>1 DEF TypeOK, RemoveTransaction
  <1>2. CASE txnMap[id] # None
    BY <1>2 DEF TypeOK, RemoveTransaction
  <1> QED BY <1>1, <1>2

\* The facts about the entries hold as long as no entry is created.
LEMMA EntriesStable ==
  ASSUME TypeOK, EntriesOK, UNCHANGED txn,
         \A id \in TxnIds : txnMap'[id] \in {txnMap[id], None},
         timers' \subseteq timers
  PROVE  EntriesOK'
  BY DEF TypeOK, EntriesOK

\* The other threads do not notice such a step.
LEMMA CallsStable ==
  ASSUME StateOK, TypeOK', NEW w \in Workers,
         \A h \in Handles : txn[h].id # None => txn'[h].id = txn[h].id,
         \A v \in Workers \ {w} : pc'[v] = pc[v] /\ call'[v] = call[v],
         CallOK(w)'
  PROVE  \A v \in Workers : CallOK(v)'
  <1>1. ASSUME NEW v \in Workers \ {w} PROVE CallOK(v)'
    <2>1. CallOK(v) /\ pc'[v] = pc[v] /\ call'[v] = call[v]
      BY DEF StateOK
    <2> QED BY <2>1, ConstantsAssumption DEF CallOK, StateOK, TypeOK
  <1> QED BY <1>1

\* What Return, Begin and Goto leave behind.
LEMMA ReturnCall ==
  ASSUME TypeOK, NEW w \in Workers, NEW cmd, NEW id, NEW h, NEW out,
         Return(w, cmd, id, h, out)
  PROVE  /\ CallOK(w)'
         /\ \A v \in Workers \ {w} : pc'[v] = pc[v] /\ call'[v] = call[v]
  BY DEF TypeOK, Return, CallOK, NoCall, Call, HoldsTxnMtx, UsesTxn

LEMMA AnswerCall ==
  ASSUME TypeOK, NEW w \in Workers, NEW out, Answer(w, out)
  PROVE  /\ CallOK(w)'
         /\ \A v \in Workers \ {w} : pc'[v] = pc[v] /\ call'[v] = call[v]
  BY ReturnCall DEF Answer

LEMMA BeginCall ==
  ASSUME TypeOK, NEW w \in Workers, NEW label, NEW c, Begin(w, label, c)
  PROVE  /\ pc'[w] = label /\ call'[w] = c
         /\ \A v \in Workers \ {w} : pc'[v] = pc[v] /\ call'[v] = call[v]
  BY DEF TypeOK, Begin

LEMMA GotoCall ==
  ASSUME TypeOK, NEW w \in Workers, NEW label, Goto(w, label)
  PROVE  /\ pc'[w] = label /\ call'[w] = call[w]
         /\ \A v \in Workers \ {w} : pc'[v] = pc[v] /\ call'[v] = call[v]
  BY DEF TypeOK, Goto

LEMMA ReadStep ==
  ASSUME StateOK, NEW w \in Workers, READ(w)
  PROVE  StateOK'
  <1> USE DEF StateOK
  <1>1. ASSUME NEW f \in Files, ReadOpen(w, f) PROVE StateOK'
    <2> DEFINE c == Call("READ", None, 0, f, None, Len(disk[f]))
    <2>1. /\ UNCHANGED <<registryVars, entryVars, lockVars, disk, exists, logs>>
          /\ failures' \in Nat
      BY <1>1 DEF ReadOpen, Fails, TypeOK
    <2>2. \/ Begin(w, "ReadData", c)
          \/ Return(w, "READ", None, None, "ErrorOpeningFile")
      BY <1>1 DEF ReadOpen
    <2>3. c \in Calls
      BY DiskType DEF Call, Calls, Commands
    <2>4. /\ pc' \in [Workers -> Labels]
          /\ call' \in [Workers -> Calls]
          /\ reply' \in Replies
      BY <2>2, <2>3, BeginType, ReturnType DEF Labels, Commands, Outcomes, Errors
    <2>5. TypeOK'
      BY <2>1, <2>4 DEF TypeOK, registryVars, entryVars, bufferVars, lockVars
    <2>6. EntriesOK'
      BY <2>1, <2>5, EntriesStable DEF registryVars, entryVars, bufferVars
    <2>7. /\ CallOK(w)'
          /\ \A v \in Workers \ {w} : pc'[v] = pc[v] /\ call'[v] = call[v]
      <3>1. CASE Begin(w, "ReadData", c)
        BY <3>1, BeginCall DEF CallOK, Call, HoldsTxnMtx, UsesTxn
      <3>2. CASE Return(w, "READ", None, None, "ErrorOpeningFile")
        BY <3>2, ReturnCall
      <3> QED BY <2>2, <3>1, <3>2
    <2> QED BY <2>1, <2>5, <2>6, <2>7, CallsStable DEF entryVars, bufferVars
  <1>2. CASE ReadData(w)
    <2>1. /\ UNCHANGED <<registryVars, entryVars, lockVars, diskVars>>
          /\ \E out \in Outcomes : Answer(w, out)
      BY <1>2 DEF ReadData, Outcomes, Errors
    <2>5. TypeOK'
      BY <2>1, AnswerType DEF TypeOK, registryVars, entryVars, bufferVars, lockVars, diskVars
    <2>6. EntriesOK'
      BY <2>1, <2>5, EntriesStable DEF registryVars, entryVars, bufferVars
    <2> QED BY <2>1, <2>5, <2>6, AnswerCall, CallsStable DEF entryVars, bufferVars
  <1> QED BY <1>1, <1>2 DEF READ

LEMMA RefuseStep ==
  ASSUME StateOK, NEW w \in Workers, Refuse(w)
  PROVE  StateOK'
  <1> USE DEF StateOK
  <1>1. PICK error \in {"InvalidMessageFormat", "InvalidCommand"} : RefuseRequest(w, error)
    BY DEF Refuse
  <1>2. /\ UNCHANGED <<registryVars, entryVars, lockVars, diskVars>>
        /\ Return(w, "none", None, None, error)
    BY <1>1 DEF RefuseRequest
  <1>3. TypeOK'
    BY <1>2, ReturnType
    DEF TypeOK, registryVars, entryVars, bufferVars, lockVars, diskVars, Outcomes, Errors
  <1>4. EntriesOK'
    BY <1>2, <1>3, EntriesStable DEF registryVars, entryVars, bufferVars
  <1> QED BY <1>2, <1>3, <1>4, ReturnCall, CallsStable DEF entryVars, bufferVars

LEMMA NewTxnStep ==
  ASSUME StateOK, NEW w \in Workers, NEW_TXN(w)
  PROVE  StateOK'
  <1> USE DEF StateOK
  <1>1. ASSUME NEW k \in SeqNums, NewTxnReject(w, k) PROVE StateOK'
    <2>1. /\ UNCHANGED <<registryVars, entryVars, lockVars, diskVars>>
          /\ Return(w, "NEW_TXN", None, None, "InvalidSequenceNumber")
      BY <1>1 DEF NewTxnReject
    <2>2. TypeOK'
      BY <2>1, ReturnType
      DEF TypeOK, registryVars, entryVars, bufferVars, lockVars, diskVars, Commands, Outcomes, Errors
    <2>3. EntriesOK'
      BY <2>1, <2>2, EntriesStable DEF registryVars, entryVars, bufferVars
    <2> QED BY <2>1, <2>2, <2>3, ReturnCall, CallsStable DEF entryVars, bufferVars
  <1>2. ASSUME NEW f \in Files, NEW id \in TxnIds, NEW h \in Handles,
               NewTxnCreate(w, f, id, h)
        PROVE  StateOK'
    <2> DEFINE attrs == IF fileMap[f] = None THEN h ELSE fileMap[f]
               c == Call("NEW_TXN", id, 0, f, h, 0)
    <2>1. attrs \in Handles
      BY DEF TypeOK
    <2>2. c \in Calls
      BY DEF Call, Calls, Commands
    <2>3. Begin(w, "NewTxnLog", c)
      BY <1>2 DEF NewTxnCreate
    <2>4. /\ txnMap' = [txnMap EXCEPT ![id] = h]
          /\ fileMap' = [fileMap EXCEPT ![f] = attrs]
          /\ txn' = [txn EXCEPT ![h] = [id |-> id, file |-> f, attrs |-> attrs]]
          /\ txn[h].id = None
          /\ txnMap[id] = None
          /\ memberMtx' = w
          /\ UNCHANGED <<commits, bufferVars, timers, fate, txnMtx, fileMtx, diskVars>>
      BY <1>2 DEF NewTxnCreate, AddNewTransaction, Candidate
    <2>5. fileSize' \in [Handles -> Nat]
      BY <1>2, GetFileSizeType DEF NewTxnCreate, AddNewTransaction, TypeOK
    <2>6. [id |-> id, file |-> f, attrs |-> attrs] \in TransactionAttributes
      BY <2>1 DEF TransactionAttributes
    <2>7. TypeOK'
      <3>1. /\ pc' \in [Workers -> Labels]
            /\ call' \in [Workers -> Calls]
            /\ reply' \in Replies
        BY <2>2, <2>3, BeginType DEF Labels
      <3> QED BY <2>1, <2>4, <2>5, <2>6, <3>1 DEF TypeOK, diskVars, bufferVars
    <2>8. /\ txn'[h].id = id /\ txn'[h].file = f /\ txn'[h].attrs = attrs
          /\ \A g \in Handles \ {h} : txn'[g] = txn[g]
      BY <2>4 DEF TypeOK
    <2>9. EntriesOK'
      BY <2>1, <2>4, <2>8, ConstantsAssumption DEF EntriesOK, TypeOK
    <2>10. CallOK(w)'
      BY <2>3, <2>8, BeginCall DEF CallOK, Call
    <2> QED BY <2>3, <2>4, <2>7, <2>8, <2>9, <2>10, BeginCall, CallsStable
  <1>3. CASE NewTxnLog(w)
    <2>1. /\ pc[w] = "NewTxnLog"
          /\ LogTransaction("transaction", call[w].id, call[w].file)
          /\ timers' = timers \cup {call[w].h}
          /\ memberMtx' = None
          /\ Answer(w, "ACK")
          /\ UNCHANGED <<registryVars, txn, bufferVars, fileSize, fate, txnMtx,
                         fileMtx, disk, exists>>
      BY <1>3 DEF NewTxnLog
    <2>2. /\ call[w].h \in Handles /\ call[w].id \in TxnIds /\ call[w].file \in Files
          /\ txn[call[w].h].id = call[w].id
      BY <2>1 DEF CallOK
    <2>3. TypeOK'
      <3>1. logs' \in [LogNames -> Seq(LogEntry)] /\ failures' \in Nat
        BY <2>1, <2>2, LogTransactionType DEF LogNames
      <3>2. /\ pc' \in [Workers -> Labels]
            /\ call' \in [Workers -> Calls]
            /\ reply' \in Replies
        BY <2>1, AnswerType DEF Outcomes
      <3> QED BY <2>1, <2>2, <3>1, <3>2 DEF TypeOK, registryVars, bufferVars
    <2>4. EntriesOK'
      BY <2>1, <2>2, ConstantsAssumption DEF EntriesOK, registryVars
    <2> QED BY <2>1, <2>3, <2>4, AnswerCall, CallsStable
  <1> QED BY <1>1, <1>2, <1>3 DEF NEW_TXN

\* The first look, LockTxn and an unsuccessful second look are the same in
\* WRITE, COMMIT and ABORT.
LEMMA LookupStep ==
  ASSUME StateOK, NEW w \in Workers, NEW cmd \in {"WRITE", "COMMIT", "ABORT"},
         NEW id \in TxnIds, NEW k \in Int, NEW out \in Outcomes,
         cmd = "WRITE" => k \in SeqNums, Lookup(w, cmd, id, k, out)
  PROVE  StateOK'
  <1> USE DEF StateOK
  <1> DEFINE c == Call(cmd, id, k, None, txnMap[id], 0)
  <1>1. UNCHANGED <<registryVars, entryVars, lockVars, diskVars>>
    BY DEF Lookup
  <1>2. \/ Return(w, cmd, id, None, out)
        \/ Return(w, cmd, id, None, "InvalidTransactionId")
        \/ txnMap[id] # None /\ Begin(w, "LockTxn", c)
    BY DEF Lookup
  <1>3. c \in Calls
    BY DEF Call, Calls, Commands, TypeOK
  <1>4. TypeOK'
    <2>1. /\ pc' \in [Workers -> Labels]
          /\ call' \in [Workers -> Calls]
          /\ reply' \in Replies
      BY <1>2, <1>3, BeginType, ReturnType DEF Labels, Commands, Outcomes, Errors
    <2> QED BY <1>1, <2>1 DEF TypeOK, registryVars, entryVars, bufferVars, lockVars, diskVars
  <1>5. EntriesOK'
    BY <1>1, <1>4, EntriesStable DEF registryVars, entryVars, bufferVars
  <1>6. /\ CallOK(w)'
        /\ \A v \in Workers \ {w} : pc'[v] = pc[v] /\ call'[v] = call[v]
    <2>1. CASE txnMap[id] # None /\ Begin(w, "LockTxn", c)
      <3>1. txnMap[id] \in Handles /\ txn[txnMap[id]].id = id
        BY <2>1 DEF TypeOK, EntriesOK
      <3> QED BY <1>1, <2>1, <3>1, BeginCall DEF CallOK, Call, entryVars, bufferVars
    <2>2. CASE ~(txnMap[id] # None /\ Begin(w, "LockTxn", c))
      BY <1>2, <2>2, ReturnCall
    <2> QED BY <2>1, <2>2
  <1> QED BY <1>1, <1>4, <1>5, <1>6, CallsStable DEF entryVars, bufferVars

LEMMA LockTxnStep ==
  ASSUME StateOK, NEW w \in Workers, NEW cmd \in {"WRITE", "COMMIT", "ABORT"},
         LockTxn(w, cmd)
  PROVE  StateOK'
  <1> USE DEF StateOK
  <1>1. /\ UNCHANGED <<registryVars, entryVars, memberMtx, fileMtx, diskVars>>
        /\ txnMtx' = [txnMtx EXCEPT ![call[w].h] = w]
        /\ pc[w] = "LockTxn"
        /\ Goto(w, "Recheck")
    BY DEF LockTxn
  <1>2. TypeOK'
    BY <1>1, GotoType
    DEF TypeOK, registryVars, entryVars, bufferVars, diskVars, Labels
  <1>3. EntriesOK'
    BY <1>1, <1>2, EntriesStable DEF registryVars, entryVars, bufferVars
  <1>4. CallOK(w)'
    BY <1>1, GotoCall DEF CallOK, entryVars, bufferVars
  <1> QED BY <1>1, <1>2, <1>3, <1>4, GotoCall, CallsStable DEF entryVars, bufferVars

LEMMA RecheckGoneStep ==
  ASSUME StateOK, NEW w \in Workers, NEW cmd \in {"WRITE", "COMMIT", "ABORT"},
         RecheckGone(w, cmd)
  PROVE  StateOK'
  <1> USE DEF StateOK
  <1>1. /\ UNCHANGED <<registryVars, entryVars, memberMtx, fileMtx, diskVars>>
        /\ txnMtx' = Unlock(txnMtx, call[w].h)
        /\ \E out \in Outcomes : Answer(w, out)
    BY DEF RecheckGone, Outcomes, Errors
  <1>2. TypeOK'
    BY <1>1, AnswerType
    DEF TypeOK, registryVars, entryVars, bufferVars, diskVars, Unlock
  <1>3. EntriesOK'
    BY <1>1, <1>2, EntriesStable DEF registryVars, entryVars, bufferVars
  <1> QED BY <1>1, <1>2, <1>3, AnswerCall, CallsStable DEF entryVars, bufferVars


\* A step that moves the thread on to another use of its transaction.
LEMMA MoveStep ==
  ASSUME StateOK, NEW w \in Workers, Goto(w, pc'[w]),
         pc[w] \in HoldsTxnMtx,
         pc'[w] \in UsesTxn \ {"CommitTruncate"},
         pc'[w] = "WriteBuffer" => call[w].cmd = "WRITE",
         UNCHANGED <<registryVars, txn, timers>>, TypeOK'
  PROVE  StateOK'
  <1> USE DEF StateOK
  <1>1. EntriesOK'
    BY EntriesStable DEF registryVars
  <1>2. CallOK(w)'
    BY GotoCall DEF CallOK, UsesTxn, HoldsTxnMtx
  <1> QED BY <1>1, <1>2, GotoCall, CallsStable

\* A step that ends the command function and erases at most one entry.
LEMMA EndStep ==
  ASSUME StateOK, NEW w \in Workers, NEW out, Answer(w, out),
         \A id \in TxnIds : txnMap'[id] \in {txnMap[id], None},
         UNCHANGED <<txn, timers>>, TypeOK'
  PROVE  StateOK'
  <1> USE DEF StateOK
  <1>1. EntriesOK'
    BY EntriesStable
  <1> QED BY <1>1, AnswerCall, CallsStable

\* The references of a command function point into an entry.
LEMMA CallEntry ==
  ASSUME StateOK, NEW w \in Workers, pc[w] \in HoldsTxnMtx \cup UsesTxn
  PROVE  /\ call[w].h \in Handles /\ call[w].id \in TxnIds
         /\ txn[call[w].h].id = call[w].id
         /\ txn[call[w].h].file \in Files /\ txn[call[w].h].attrs \in Handles
  <1>1. /\ call[w].h \in Handles /\ call[w].id \in TxnIds
        /\ txn[call[w].h].id = call[w].id
    BY DEF StateOK, CallOK
  <1> QED BY <1>1, ConstantsAssumption DEF StateOK, EntriesOK

LEMMA WriteStep ==
  ASSUME StateOK, NEW w \in Workers, WRITE(w)
  PROVE  StateOK'
  <1> USE DEF StateOK
  <1>1. ASSUME NEW id \in TxnIds, NEW k \in SeqNums, WriteLookup(w, id, k)
        PROVE  StateOK'
    BY <1>1, LookupStep, ConstantsAssumption DEF WriteLookup, Outcomes, Errors
  <1>2. CASE LockTxn(w, "WRITE")
    BY <1>2, LockTxnStep
  <1>3. CASE RecheckGone(w, "WRITE")
    BY <1>3, RecheckGoneStep
  <1>4. CASE WriteRecheck(w)
    <2>1. /\ Goto(w, "WriteBuffer") /\ pc[w] = "Recheck" /\ call[w].cmd = "WRITE"
          /\ UNCHANGED <<registryVars, entryVars, lockVars, diskVars>>
      BY <1>4 DEF WriteRecheck, RecheckPresent
    <2>2. TypeOK'
      BY <2>1, GotoType
      DEF TypeOK, registryVars, entryVars, bufferVars, lockVars, diskVars, Labels
    <2>3. pc'[w] = "WriteBuffer"
      BY <2>1, GotoCall
    <2> QED BY <2>1, <2>2, <2>3, MoveStep DEF entryVars, HoldsTxnMtx, UsesTxn
  <1>5. CASE WriteBuffer(w)
    <2>1. PICK out \in Outcomes :
            /\ pc[w] = "WriteBuffer"
            /\ txnMtx' = Unlock(txnMtx, call[w].h)
            /\ Answer(w, out)
            /\ UNCHANGED <<registryVars, txn, fileSize, timers, fate, memberMtx,
                           fileMtx, diskVars>>
      BY <1>5 DEF WriteBuffer, Outcomes, Errors
    <2>2. call[w].h \in Handles /\ call[w].k \in SeqNums /\ call[w].k \in Int
      BY <2>1, ConstantsAssumption DEF CallOK, HoldsTxnMtx, UsesTxn
    <2>3. /\ buffers' \in [Handles -> SUBSET SeqNums]
          /\ maxSeq' \in [Handles -> Int]
          /\ expired' \in [Handles -> BOOLEAN]
      <3>1. /\ maxSeq[call[w].h] \in Int
            /\ buffers[call[w].h] \cup {call[w].k} \in SUBSET SeqNums
        BY <2>2 DEF TypeOK
      <3>2. \/ buffers' = buffers
            \/ buffers' = [buffers EXCEPT ![call[w].h] = @ \cup {call[w].k}]
        BY <1>5 DEF WriteBuffer
      <3>3. \/ maxSeq' = maxSeq
            \/ maxSeq' = [maxSeq EXCEPT ![call[w].h] =
                            IF call[w].k > @ THEN call[w].k ELSE @]
        BY <1>5 DEF WriteBuffer
      <3>4. expired' = [expired EXCEPT ![call[w].h] = FALSE]
        BY <1>5 DEF WriteBuffer
      <3>5. buffers' \in [Handles -> SUBSET SeqNums]
        BY <3>1, <3>2 DEF TypeOK
      <3>6. maxSeq' \in [Handles -> Int]
        BY <2>2, <3>1, <3>3 DEF TypeOK
      <3> QED BY <3>4, <3>5, <3>6 DEF TypeOK
    <2>4. TypeOK'
      BY <2>1, <2>3, AnswerType DEF TypeOK, registryVars, diskVars, Unlock
    <2> QED BY <2>1, <2>4, EndStep DEF registryVars, TypeOK
  <1> QED BY <1>1, <1>2, <1>3, <1>4, <1>5 DEF WRITE

LEMMA TruncateType ==
  ASSUME NEW s \in Seq(Units), NEW n \in Nat
  PROVE  Truncate(s, n) \in Seq(Units)
  <1>1. Nul \in Units BY DEF Nul, Units
  <1>2. \A j \in 1..n : j <= Len(s) => s[j] \in Units
    OBVIOUS
  <1> QED BY <1>1, <1>2 DEF Truncate

LEMMA CommitStep ==
  ASSUME StateOK, NEW w \in Workers, COMMIT(w)
  PROVE  StateOK'
  <1> USE DEF StateOK
  <1>1. ASSUME NEW id \in TxnIds, NEW k \in SeqNums, CommitLookup(w, id, k)
        PROVE  StateOK'
    BY <1>1, LookupStep, ConstantsAssumption DEF CommitLookup, Outcomes
  <1>2. CASE LockTxn(w, "COMMIT")
    BY <1>2, LockTxnStep
  <1>3. CASE RecheckGone(w, "COMMIT")
    BY <1>3, RecheckGoneStep
  <1>4. CASE CommitRecheck(w)
    <2>1. /\ Goto(w, "CommitVerify") /\ pc[w] = "Recheck"
          /\ UNCHANGED <<registryVars, entryVars, lockVars, diskVars>>
      BY <1>4 DEF CommitRecheck, RecheckPresent
    <2>2. TypeOK'
      BY <2>1, GotoType
      DEF TypeOK, registryVars, entryVars, bufferVars, lockVars, diskVars, Labels
    <2>3. pc'[w] = "CommitVerify"
      BY <2>1, GotoCall
    <2> QED BY <2>1, <2>2, <2>3, MoveStep DEF entryVars, HoldsTxnMtx, UsesTxn
  <1>5. CASE CommitVerify(w)
    <2>1. /\ pc[w] = "CommitVerify"
          /\ UNCHANGED <<registryVars, txn, buffers, fileSize, timers, fate,
                         memberMtx, fileMtx, diskVars>>
      BY <1>5 DEF CommitVerify
    <2>2. call[w].h \in Handles /\ call[w].k \in Int
      BY <2>1, CallEntry DEF TypeOK, Calls, HoldsTxnMtx
    <2>3. /\ maxSeq' \in [Handles -> Int]
          /\ expired' \in [Handles -> BOOLEAN]
      BY <1>5, <2>2 DEF CommitVerify, TypeOK
    <2>4. CASE Goto(w, "CommitOpen") /\ UNCHANGED txnMtx
      <3>1. TypeOK'
        BY <2>1, <2>3, <2>4, GotoType DEF TypeOK, registryVars, diskVars, Labels
      <3>2. pc'[w] = "CommitOpen"
        BY <2>4, GotoCall
      <3> QED BY <2>1, <2>4, <3>1, <3>2, MoveStep DEF HoldsTxnMtx, UsesTxn
    <2>5. ASSUME NEW out \in Outcomes, Answer(w, out),
                 txnMtx' = Unlock(txnMtx, call[w].h)
          PROVE  StateOK'
      <3>1. TypeOK'
        BY <2>1, <2>3, <2>5, AnswerType DEF TypeOK, registryVars, diskVars, Unlock
      <3> QED BY <2>1, <2>5, <3>1, EndStep DEF registryVars, TypeOK
    <2> QED BY <1>5, <2>4, <2>5 DEF CommitVerify, Outcomes, Errors
  <1>6. CASE CommitOpen(w)
    <2>1. /\ pc[w] = "CommitOpen"
          /\ UNCHANGED <<registryVars, entryVars, memberMtx, disk, logs>>
      BY <1>6 DEF CommitOpen
    <2>2. txn[call[w].h].file \in Files
      BY <2>1, CallEntry DEF HoldsTxnMtx
    <2>3. CASE Answer(w, "ErrorOpeningFile")
      <3>1. CASE pc'[w] = "idle"
        <4>1. /\ Fails("open")
              /\ txnMtx' = Unlock(txnMtx, call[w].h)
              /\ UNCHANGED <<fileMtx, exists>>
          BY <1>6, <3>1 DEF CommitOpen, TypeOK
        <4>2. TypeOK'
          BY <2>1, <2>3, <4>1, AnswerType, FailsType
          DEF TypeOK, registryVars, entryVars, bufferVars, Unlock, Outcomes, Errors
        <4> QED BY <2>1, <2>3, <4>2, EndStep DEF registryVars, entryVars, TypeOK
      <3> QED BY <2>3, <3>1 DEF Answer, Return, TypeOK
    <2>4. CASE ~Answer(w, "ErrorOpeningFile")
      <3>1. /\ fileMtx' = [fileMtx EXCEPT ![txn[call[w].h].attrs] = w]
            /\ exists' = exists \cup {txn[call[w].h].file}
            /\ pc' = [pc EXCEPT ![w] = "CommitWrite"]
            /\ call' = [call EXCEPT ![w].i = 1]
            /\ reply' = NoReply
            /\ UNCHANGED <<txnMtx, failures>>
        BY <1>6, <2>4 DEF CommitOpen
      <3>2. TypeOK'
        <4>1. [call EXCEPT ![w].i = 1] \in [Workers -> Calls]
          BY SetIType
        <4>2. call' \in [Workers -> Calls] /\ reply' \in Replies
          BY <3>1, <4>1 DEF NoReply, Replies
        <4> QED BY <2>1, <2>2, <3>1, <4>2
                DEF TypeOK, registryVars, entryVars, bufferVars, Labels
      <3>3. EntriesOK'
        BY <2>1, EntriesStable DEF registryVars, entryVars, TypeOK
      <3>4. CallOK(w)'
        BY <2>1, <3>1 DEF CallOK, TypeOK, Calls, entryVars, HoldsTxnMtx, UsesTxn
      <3> QED BY <2>1, <3>1, <3>2, <3>3, <3>4, CallsStable DEF entryVars, TypeOK
    <2> QED BY <2>3, <2>4
  <1>7. CASE CommitWrite(w)
    <2> DEFINE h == call[w].h
               f == txn[h].file
               i == call[w].i
    <2>1. /\ pc[w] = "CommitWrite"
          /\ UNCHANGED <<registryVars, entryVars, memberMtx, txnMtx, exists, logs>>
      BY <1>7 DEF CommitWrite
    <2>2. f \in Files /\ h \in Handles /\ i \in Int
      BY <2>1, CallEntry DEF HoldsTxnMtx, TypeOK, Calls
    <2>3. CASE Fails("write") /\ Goto(w, "CommitRollback") /\ UNCHANGED disk
               /\ fileMtx' = Unlock(fileMtx, txn[h].attrs)
      <3>1. TypeOK'
        BY <2>1, <2>3, GotoType, FailsType
        DEF TypeOK, registryVars, entryVars, bufferVars, Unlock, Labels
      <3>2. pc'[w] = "CommitRollback"
        BY <2>3, GotoCall
      <3> QED BY <2>1, <2>3, <3>1, <3>2, MoveStep DEF HoldsTxnMtx, UsesTxn, entryVars
    <2>4. CASE /\ disk' = [disk EXCEPT ![f] = Append(@, <<h, i>>)]
               /\ pc' = [pc EXCEPT ![w] = IF i < maxSeq[h]
                                          THEN "CommitWrite" ELSE "CommitInsert"]
               /\ call' = [call EXCEPT ![w].i = i + 1]
               /\ reply' = NoReply
               /\ UNCHANGED <<fileMtx, failures>>
      <3>1. Append(disk[f], <<h, i>>) \in Seq(Units)
        <4>1. <<h, i>> \in Units BY <2>2 DEF Units
        <4> QED BY <2>2, <4>1, DiskType
      <3>2. TypeOK'
        <4>1. disk' \in [Files -> Seq(Units)]
          BY <2>2, <2>4, <3>1 DEF TypeOK
        <4>2. [call EXCEPT ![w].i = i + 1] \in [Workers -> Calls]
          BY <2>2, SetIType
        <4>3. call' \in [Workers -> Calls] /\ reply' \in Replies
          BY <2>4, <4>2 DEF NoReply, Replies
        <4>4. pc' \in [Workers -> Labels]
          BY <2>4 DEF TypeOK, Labels
        <4> QED BY <2>1, <2>4, <4>1, <4>3, <4>4
                DEF TypeOK, registryVars, entryVars, bufferVars
      <3>3. EntriesOK'
        BY <2>1, EntriesStable DEF registryVars, entryVars, TypeOK
      <3>4. CallOK(w)'
        BY <2>1, <2>4 DEF CallOK, TypeOK, Calls, entryVars, HoldsTxnMtx, UsesTxn
      <3> QED BY <2>1, <2>4, <3>2, <3>3, <3>4, CallsStable DEF entryVars, TypeOK
    <2> QED BY <1>7, <2>3, <2>4 DEF CommitWrite
  <1>8. CASE CommitRollback(w)
    <2>1. /\ pc[w] = "CommitRollback"
          /\ pc' = [pc EXCEPT ![w] = "CommitTruncate"]
          /\ call' = [call EXCEPT ![w].i = fileSize[txn[call[w].h].attrs]]
          /\ reply' = NoReply
          /\ UNCHANGED <<registryVars, entryVars, lockVars, diskVars>>
      BY <1>8 DEF CommitRollback
    <2>2. fileSize[txn[call[w].h].attrs] \in Nat
      BY <2>1, CallEntry DEF HoldsTxnMtx, TypeOK
    <2>3. TypeOK'
      <3>1. [call EXCEPT ![w].i = fileSize[txn[call[w].h].attrs]]
              \in [Workers -> Calls]
        BY <2>2, SetIType
      <3>2. call' \in [Workers -> Calls] /\ reply' \in Replies
        BY <2>1, <3>1 DEF NoReply, Replies
      <3>3. pc' \in [Workers -> Labels]
        BY <2>1 DEF TypeOK, Labels
      <3> QED BY <2>1, <3>2, <3>3
              DEF TypeOK, registryVars, entryVars, bufferVars, lockVars, diskVars
    <2>4. EntriesOK'
      BY <2>1, EntriesStable DEF registryVars, entryVars, TypeOK
    <2>5. CallOK(w)'
      BY <2>1, <2>2 DEF CallOK, TypeOK, Calls, entryVars, HoldsTxnMtx, UsesTxn
    <2> QED BY <2>1, <2>3, <2>4, <2>5, CallsStable DEF entryVars, TypeOK
  <1>9. CASE CommitTruncate(w)
    <2> DEFINE f == txn[call[w].h].file
               n == call[w].i
    <2>1. /\ pc[w] = "CommitTruncate"
          /\ disk' = IF CwdIsDirectory
                     THEN [disk EXCEPT ![f] = Truncate(@, n)] ELSE disk
          /\ Answer(w, "ErrorWritingFile")
          /\ txnMtx' = Unlock(txnMtx, call[w].h)
          /\ UNCHANGED <<registryVars, entryVars, memberMtx, fileMtx, exists, logs,
                         failures>>
      BY <1>9 DEF CommitTruncate
    <2>2. f \in Files /\ n \in Nat
      BY <2>1, CallEntry DEF HoldsTxnMtx, CallOK
    <2>3. disk' \in [Files -> Seq(Units)]
      <3>1. Truncate(disk[f], n) \in Seq(Units)
        BY <2>2, DiskType, TruncateType
      <3> QED BY <2>1, <2>2, <3>1 DEF TypeOK
    <2>4. TypeOK'
      BY <2>1, <2>3, AnswerType
      DEF TypeOK, registryVars, entryVars, bufferVars, Unlock, Outcomes, Errors
    <2> QED BY <2>1, <2>4, EndStep DEF registryVars, entryVars, TypeOK
  <1>10. CASE CommitInsert(w)
    <2>1. /\ pc[w] = "CommitInsert"
          /\ commits' \in {commits \cup {call[w].id}, commits}
          /\ fate' = [fate EXCEPT ![call[w].h] = @ \cup {"committed"}]
          /\ Goto(w, "CommitLog")
          /\ UNCHANGED <<txnMap, fileMap, txn, bufferVars, fileSize, timers, lockVars,
                         diskVars>>
      BY <1>10 DEF CommitInsert
    <2>2. call[w].id \in TxnIds /\ call[w].h \in Handles
      BY <2>1, CallEntry DEF HoldsTxnMtx
    <2>3. TypeOK'
      BY <2>1, <2>2, GotoType DEF TypeOK, bufferVars, lockVars, diskVars, Labels
    <2>4. pc'[w] = "CommitLog"
      BY <2>1, GotoCall
    <2>5. EntriesOK'
      BY <2>1, EntriesStable DEF TypeOK
    <2>6. CallOK(w)'
      BY <2>1, GotoCall DEF CallOK, HoldsTxnMtx, UsesTxn
    <2> QED BY <2>1, <2>3, <2>5, <2>6, GotoCall, CallsStable
  <1>11. CASE CommitLog(w)
    <2>1. /\ pc[w] = "CommitLog"
          /\ LogTransaction("commit", call[w].id, txn[call[w].h].file)
          /\ Goto(w, "CommitSize")
          /\ UNCHANGED <<registryVars, entryVars, lockVars, disk, exists>>
      BY <1>11 DEF CommitLog
    <2>2. logs' \in [LogNames -> Seq(LogEntry)] /\ failures' \in Nat
      BY <2>1, CallEntry, LogTransactionType DEF HoldsTxnMtx, LogNames
    <2>3. TypeOK'
      BY <2>1, <2>2, GotoType
      DEF TypeOK, registryVars, entryVars, bufferVars, lockVars, Labels
    <2>4. pc'[w] = "CommitSize"
      BY <2>1, GotoCall
    <2> QED BY <2>1, <2>3, <2>4, MoveStep DEF HoldsTxnMtx, UsesTxn, entryVars
  <1>12. CASE CommitSize(w)
    <2> DEFINE t == txn[call[w].h]
    <2>1. /\ pc[w] = "CommitSize"
          /\ fileSize' = [fileSize EXCEPT ![t.attrs] = Len(disk[t.file])]
          /\ fileMtx' = Unlock(fileMtx, t.attrs)
          /\ Goto(w, "CommitRemove")
          /\ UNCHANGED <<registryVars, txn, bufferVars, timers, fate, memberMtx,
                         txnMtx, diskVars>>
      BY <1>12 DEF CommitSize
    <2>2. Len(disk[t.file]) \in Nat
      BY <2>1, CallEntry, DiskType DEF HoldsTxnMtx
    <2>3. TypeOK'
      BY <2>1, <2>2, GotoType
      DEF TypeOK, registryVars, bufferVars, diskVars, Unlock, Labels
    <2>4. pc'[w] = "CommitRemove"
      BY <2>1, GotoCall
    <2> QED BY <2>1, <2>3, <2>4, MoveStep DEF HoldsTxnMtx, UsesTxn
  <1>13. CASE CommitRemove(w)
    <2>1. /\ pc[w] = "CommitRemove"
          /\ RemoveTransaction(call[w].id)
          /\ Answer(w, "ACK")
          /\ txnMtx' = Unlock(txnMtx, call[w].h)
          /\ UNCHANGED <<commits, entryVars, memberMtx, fileMtx, diskVars>>
      BY <1>13 DEF CommitRemove
    <2>2. /\ txnMap' \in [TxnIds -> Handles \cup {None}]
          /\ fileMap' \in [Files -> Handles \cup {None}]
          /\ \A i \in TxnIds : txnMap'[i] \in {txnMap[i], None}
      BY <2>1, CallEntry, RemoveTransactionType DEF HoldsTxnMtx
    <2>3. TypeOK'
      BY <2>1, <2>2, AnswerType
      DEF TypeOK, entryVars, bufferVars, diskVars, Unlock, Outcomes
    <2> QED BY <2>1, <2>2, <2>3, EndStep DEF entryVars
  <1> QED BY <1>1, <1>2, <1>3, <1>4, <1>5, <1>6, <1>7, <1>8, <1>9, <1>10, <1>11,
             <1>12, <1>13 DEF COMMIT

LEMMA AbortStep ==
  ASSUME StateOK, NEW w \in Workers, ABORT(w)
  PROVE  StateOK'
  <1> USE DEF StateOK
  <1>1. ASSUME NEW id \in TxnIds, AbortLookup(w, id) PROVE StateOK'
    BY <1>1, LookupStep DEF AbortLookup, Outcomes, Errors
  <1>2. CASE LockTxn(w, "ABORT")
    BY <1>2, LockTxnStep
  <1>3. CASE RecheckGone(w, "ABORT")
    BY <1>3, RecheckGoneStep
  <1>4. CASE AbortRecheck(w)
    <2>1. /\ Goto(w, "AbortUnlock") /\ pc[w] = "Recheck"
          /\ memberMtx' = w
          /\ UNCHANGED <<registryVars, entryVars, txnMtx, fileMtx, diskVars>>
      BY <1>4 DEF AbortRecheck, RecheckPresent
    <2>2. TypeOK'
      BY <2>1, GotoType
      DEF TypeOK, registryVars, entryVars, bufferVars, diskVars, Labels
    <2>3. pc'[w] = "AbortUnlock"
      BY <2>1, GotoCall
    <2> QED BY <2>1, <2>2, <2>3, MoveStep DEF entryVars, HoldsTxnMtx, UsesTxn
  <1>5. CASE AbortUnlock(w)
    <2>1. /\ pc[w] = "AbortUnlock"
          /\ txnMtx' = Unlock(txnMtx, call[w].h)
          /\ Goto(w, "AbortRemove")
          /\ UNCHANGED <<registryVars, entryVars, memberMtx, fileMtx, diskVars>>
      BY <1>5 DEF AbortUnlock
    <2>2. TypeOK'
      BY <2>1, GotoType
      DEF TypeOK, registryVars, entryVars, bufferVars, diskVars, Unlock, Labels
    <2>3. pc'[w] = "AbortRemove"
      BY <2>1, GotoCall
    <2> QED BY <2>1, <2>2, <2>3, MoveStep DEF entryVars, HoldsTxnMtx, UsesTxn
  <1>6. CASE AbortRemove(w)
    <2>1. /\ pc[w] = "AbortRemove"
          /\ LogTransaction("abort", call[w].id, txn[call[w].h].file)
          /\ RemoveTransaction(call[w].id)
          /\ fate' = [fate EXCEPT ![call[w].h] = @ \cup {"aborted"}]
          /\ memberMtx' = None
          /\ Answer(w, "ACK")
          /\ UNCHANGED <<commits, txn, bufferVars, fileSize, timers, txnMtx, fileMtx,
                         disk, exists>>
      BY <1>6 DEF AbortRemove
    <2>2. /\ txnMap' \in [TxnIds -> Handles \cup {None}]
          /\ fileMap' \in [Files -> Handles \cup {None}]
          /\ \A i \in TxnIds : txnMap'[i] \in {txnMap[i], None}
      BY <2>1, CallEntry, RemoveTransactionType DEF UsesTxn
    <2>3. logs' \in [LogNames -> Seq(LogEntry)] /\ failures' \in Nat
      BY <2>1, CallEntry, LogTransactionType DEF UsesTxn, LogNames
    <2>4. TypeOK'
      BY <2>1, <2>2, <2>3, AnswerType DEF TypeOK, bufferVars, Outcomes
    <2> QED BY <2>1, <2>2, <2>4, EndStep
  <1> QED BY <1>1, <1>2, <1>3, <1>4, <1>5, <1>6 DEF ABORT

LEMMA TimerStep ==
  ASSUME StateOK, NEW h \in Handles, Expire(h) \/ Timer(h)
  PROVE  StateOK'
  <1> USE DEF StateOK
  <1>1. NoReply \in Replies
    BY DEF NoReply, Replies
  <1>2. ASSUME TypeOK', UNCHANGED <<txn, pc, call>>, timers' \subseteq timers,
               \A id \in TxnIds : txnMap'[id] \in {txnMap[id], None}
        PROVE  StateOK'
    <2>1. EntriesOK'
      BY <1>2, EntriesStable
    <2>2. ASSUME NEW w \in Workers PROVE CallOK(w)'
      BY <1>2 DEF CallOK
    <2> QED BY <1>2, <2>1, <2>2
  <1>3. CASE Expire(h)
    <2>1. TypeOK'
      BY <1>1, <1>3 DEF Expire, TypeOK, registryVars, lockVars, diskVars
    <2> QED BY <1>2, <1>3, <2>1 DEF Expire, registryVars, TypeOK
  <1>4. CASE TimerFire(h)
    <2>1. /\ h \in timers
          /\ RemoveTransaction(txn[h].id)
          /\ LogTransaction("timeout", txn[h].id, txn[h].file)
          /\ fate' = [fate EXCEPT ![txnMap[txn[h].id]] = @ \cup {"timedout"}]
          /\ timers' = timers \ {h}
          /\ reply' = NoReply
          /\ UNCHANGED <<commits, txn, bufferVars, fileSize, lockVars, disk, exists,
                         pc, call>>
      BY <1>4 DEF TimerFire
    <2>2. txn[h].id \in TxnIds /\ txn[h].file \in Files
      BY <2>1 DEF TypeOK, EntriesOK, TransactionAttributes
    <2>3. /\ txnMap' \in [TxnIds -> Handles \cup {None}]
          /\ fileMap' \in [Files -> Handles \cup {None}]
          /\ \A i \in TxnIds : txnMap'[i] \in {txnMap[i], None}
      BY <2>1, <2>2, RemoveTransactionType
    <2>4. logs' \in [LogNames -> Seq(LogEntry)] /\ failures' \in Nat
      BY <2>1, <2>2, LogTransactionType DEF LogNames
    <2>5. TypeOK'
      BY <1>1, <2>1, <2>3, <2>4 DEF TypeOK, bufferVars, lockVars
    <2> QED BY <1>2, <2>1, <2>3, <2>5
  <1>5. CASE TimerExit(h)
    <2>1. TypeOK'
      BY <1>1, <1>5 DEF TimerExit, TypeOK, registryVars, bufferVars, lockVars, diskVars
    <2> QED BY <1>2, <1>5, <2>1 DEF TimerExit, registryVars, TypeOK
  <1> QED BY <1>3, <1>4, <1>5 DEF Timer

\* StateOK is inductive.
LEMMA StateStep == StateOK /\ [Next]_vars => StateOK'
  <1> SUFFICES ASSUME StateOK, [Next]_vars PROVE StateOK'
    OBVIOUS
  <1>1. CASE UNCHANGED vars
    BY <1>1
    DEF vars, registryVars, entryVars, bufferVars, lockVars, diskVars, threadVars,
        StateOK, TypeOK, EntriesOK, CallOK
  <1>2. ASSUME NEW w \in Workers,
               READ(w) \/ NEW_TXN(w) \/ WRITE(w) \/ COMMIT(w) \/ ABORT(w) \/ Refuse(w)
        PROVE  StateOK'
    BY <1>2, ReadStep, NewTxnStep, WriteStep, CommitStep, AbortStep, RefuseStep
  <1>3. ASSUME NEW h \in Handles, Expire(h) \/ Timer(h) PROVE StateOK'
    BY <1>3, TimerStep
  <1> QED BY <1>1, <1>2, <1>3 DEF Next

\* Every reachable state has the shapes of the members of ServerBackend, for
\* all threads, transactions, ids, files and failures.
THEOREM TypeCorrect == Spec => []TypeOK
  <1>1. Spec => []StateOK
    BY InitStateOK, StateStep, PTL DEF Spec
  <1>2. StateOK => TypeOK
    BY DEF StateOK
  <1> QED BY <1>1, <1>2, PTL
=============================================================================
