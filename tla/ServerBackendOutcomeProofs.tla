---------------------- MODULE ServerBackendOutcomeProofs ----------------------
(***************************************************************************)
(* Outcomes: how transactions end, and what clients are told about it.     *)
(***************************************************************************)
EXTENDS ServerBackendLockProofs, FiniteSetTheorems

-----------------------------------------------------------------------------
(* The steps that matter for outcomes and for the contents of files.       *)

\* A step that leaves transactions and files alone; a thread may stop a
\* COMMIT before it has opened its file, and no thread gets ahead in one.
Quiet ==
  /\ UNCHANGED <<registryVars, txn, buffers, maxSeq, fileSize, fate, disk>>
  /\ \A v \in Workers :
       /\ pc'[v] \in Committing \cup HasCommitted \cup {"CommitRollback", "CommitTruncate"} =>
            pc'[v] = pc[v] /\ call'[v] = call[v]
       /\ pc[v] \in (Committing \ {"CommitOpen"}) \cup HasCommitted =>
            pc'[v] = pc[v] /\ call'[v] = call[v]

QuietLabels == {"idle", "ReadData", "NewTxnLog", "LockTxn", "Recheck", "WriteBuffer",
                "CommitVerify", "AbortUnlock", "AbortRemove"}

\* A thread that goes from one harmless place to another does nothing else.
LEMMA QuietMove ==
  ASSUME StateOK, NEW w \in Workers,
         pc[w] \in QuietLabels, pc'[w] \in QuietLabels,
         \A v \in Workers \ {w} : pc'[v] = pc[v] /\ call'[v] = call[v],
         UNCHANGED <<registryVars, txn, buffers, maxSeq, fileSize, fate, disk>>
  PROVE  Quiet
  BY DEF Quiet, QuietLabels, Committing, HasCommitted

\* The first look of WRITE, COMMIT and ABORT changes no transaction ...
LEMMA LookupQuiet ==
  ASSUME StateOK, NEW w \in Workers, NEW cmd, NEW id, NEW k, NEW out,
         Lookup(w, cmd, id, k, out)
  PROVE  Quiet
  <1>1. /\ pc[w] \in QuietLabels /\ pc'[w] \in QuietLabels
        /\ \A v \in Workers \ {w} : pc'[v] = pc[v] /\ call'[v] = call[v]
    BY DEF Lookup, Return, Begin, StateOK, TypeOK, QuietLabels
  <1>2. UNCHANGED <<registryVars, txn, buffers, maxSeq, fileSize, fate, disk>>
    BY DEF Lookup, entryVars, bufferVars, diskVars
  <1> QED BY <1>1, <1>2, QuietMove

\* ... nor does waiting for its mutex, or finding it gone ...
LEMMA LockQuiet ==
  ASSUME StateOK, NEW w \in Workers, NEW cmd, LockTxn(w, cmd) \/ RecheckGone(w, cmd)
  PROVE  Quiet
  <1>1. /\ pc[w] \in QuietLabels /\ pc'[w] \in QuietLabels
        /\ \A v \in Workers \ {w} : pc'[v] = pc[v] /\ call'[v] = call[v]
    BY DEF LockTxn, RecheckGone, Goto, Answer, Return, StateOK, TypeOK, QuietLabels
  <1>2. UNCHANGED <<registryVars, txn, buffers, maxSeq, fileSize, fate, disk>>
    BY DEF LockTxn, RecheckGone, entryVars, bufferVars, diskVars
  <1> QED BY <1>1, <1>2, QuietMove

\* ... nor finding it still there.
LEMMA RecheckQuiet ==
  ASSUME StateOK, NEW w \in Workers,
         WriteRecheck(w) \/ CommitRecheck(w) \/ AbortRecheck(w) \/ AbortUnlock(w)
  PROVE  Quiet
  <1>1. /\ pc[w] \in QuietLabels /\ pc'[w] \in QuietLabels
        /\ \A v \in Workers \ {w} : pc'[v] = pc[v] /\ call'[v] = call[v]
    BY DEF WriteRecheck, CommitRecheck, AbortRecheck, AbortUnlock, RecheckPresent,
           Goto, StateOK, TypeOK, QuietLabels
  <1>2. UNCHANGED <<registryVars, txn, buffers, maxSeq, fileSize, fate, disk>>
    BY DEF WriteRecheck, CommitRecheck, AbortRecheck, AbortUnlock, entryVars,
           bufferVars, diskVars
  <1> QED BY <1>1, <1>2, QuietMove

\* READ and refused requests change no transaction.
LEMMA ReadQuiet ==
  ASSUME StateOK, NEW w \in Workers, READ(w) \/ Refuse(w)
  PROVE  Quiet
  <1>1. /\ pc[w] \in QuietLabels /\ pc'[w] \in QuietLabels
        /\ \A v \in Workers \ {w} : pc'[v] = pc[v] /\ call'[v] = call[v]
    BY DEF READ, ReadOpen, ReadData, Refuse, RefuseRequest, Begin, Answer, Return,
           StateOK, TypeOK, QuietLabels
  <1>2. UNCHANGED <<registryVars, txn, buffers, maxSeq, fileSize, fate, disk>>
    BY DEF READ, ReadOpen, ReadData, Refuse, RefuseRequest, entryVars, bufferVars,
           diskVars
  <1> QED BY <1>1, <1>2, QuietMove

\* NEW_TXN changes transactions only in the step that creates one.
LEMMA NewTxnQuiet ==
  ASSUME StateOK, NEW w \in Workers, NewTxnLog(w) \/ \E k \in SeqNums : NewTxnReject(w, k)
  PROVE  Quiet
  <1>1. /\ pc[w] \in QuietLabels /\ pc'[w] \in QuietLabels
        /\ \A v \in Workers \ {w} : pc'[v] = pc[v] /\ call'[v] = call[v]
    BY DEF NewTxnLog, NewTxnReject, Answer, Return, StateOK, TypeOK, QuietLabels
  <1>2. UNCHANGED <<registryVars, txn, buffers, maxSeq, fileSize, fate, disk>>
    BY DEF NewTxnLog, NewTxnReject, entryVars, bufferVars, diskVars
  <1> QED BY <1>1, <1>2, QuietMove

\* The steps that are not quiet.
CommitStepOf(w) ==
  \/ CommitVerify(w) \/ CommitOpen(w) \/ CommitWrite(w)
  \/ CommitRollback(w) \/ CommitTruncate(w)
  \/ CommitInsert(w) \/ CommitLog(w) \/ CommitSize(w) \/ CommitRemove(w)

\* The steps that change transactions or files.
LEMMA Steps ==
  ASSUME StateOK, [Next]_vars
  PROVE  \/ Quiet
         \/ \E w \in Workers :
              \/ \E f \in Files, id \in TxnIds, h \in Handles : NewTxnCreate(w, f, id, h)
              \/ WriteBuffer(w) \/ CommitStepOf(w) \/ AbortRemove(w)
         \/ \E h \in Handles : TimerFire(h)
  <1>1. CASE UNCHANGED vars
    BY <1>1 DEF vars, entryVars, bufferVars, diskVars, threadVars, Quiet
  <1>2. ASSUME NEW w \in Workers, READ(w) \/ Refuse(w) PROVE Quiet
    BY <1>2, ReadQuiet
  <1>3. ASSUME NEW w \in Workers, NEW_TXN(w)
        PROVE  \/ Quiet
               \/ \E f \in Files, id \in TxnIds, h \in Handles : NewTxnCreate(w, f, id, h)
    BY <1>3, NewTxnQuiet DEF NEW_TXN
  <1>4. ASSUME NEW w \in Workers, WRITE(w) PROVE Quiet \/ WriteBuffer(w)
    BY <1>4, LookupQuiet, LockQuiet, RecheckQuiet DEF WRITE, WriteLookup
  <1>5. ASSUME NEW w \in Workers, COMMIT(w) PROVE Quiet \/ CommitStepOf(w)
    BY <1>5, LookupQuiet, LockQuiet, RecheckQuiet DEF COMMIT, CommitLookup, CommitStepOf
  <1>6. ASSUME NEW w \in Workers, ABORT(w) PROVE Quiet \/ AbortRemove(w)
    BY <1>6, LookupQuiet, LockQuiet, RecheckQuiet DEF ABORT, AbortLookup
  <1>7. ASSUME NEW h \in Handles, Expire(h) \/ Timer(h) PROVE Quiet \/ TimerFire(h)
    BY <1>7 DEF Expire, Timer, TimerExit, bufferVars, diskVars, Quiet
  <1> QED BY <1>1, <1>2, <1>3, <1>4, <1>5, <1>6, <1>7 DEF Next

\* What NoWindow rests on is kept by every step.
LEMMA IsolationStep ==
  ASSUME ~TimerRaces, ~IdReuse, Isolation, [Next]_vars
  PROVE  Isolation'
  BY StateStep, OwnershipInductive, SharedInductive, UniqueInductive,
     ExclusiveInductive, LiveInductive
  DEF Isolation

-----------------------------------------------------------------------------
(* How transactions end.                                                   *)

\* Only the thread that uses a transaction can be about to erase it.
LEMMA FateOfUsed ==
  ASSUME Isolation, FatesOK, NEW w \in Workers, pc[w] \in UsesTxn
  PROVE  /\ call[w].h \in Handles /\ call[w].id \in TxnIds
         /\ txn[call[w].h].id = call[w].id /\ call[w].id # None
         /\ txnMap[call[w].id] = call[w].h /\ txnMap[call[w].id] # None
         /\ fate[call[w].h] = IF pc[w] \in HasCommitted THEN {"committed"} ELSE {}
  <1>1. /\ call[w].h \in Handles /\ call[w].id \in TxnIds
        /\ txn[call[w].h].id = call[w].id
    BY CallEntry DEF Isolation
  <1>2. call[w].id # None /\ call[w].h # None
    BY <1>1, ConstantsAssumption
  <1>3. txnMap[call[w].id] = call[w].h
    BY DEF Isolation, RequestUsesLiveTransaction
  <1>4. Finishing(call[w].h) <=> pc[w] \in HasCommitted
    BY DEF Isolation, ExclusiveUse, Finishing, HasCommitted, UsesTxn, HoldsTxnMtx
  <1> QED BY <1>1, <1>2, <1>3, <1>4 DEF FatesOK, FateOK

\* Fates stay right while the map and they themselves do.
LEMMA FatesKept ==
  ASSUME StateOK, FatesOK, UNCHANGED <<txnMap, txn, fate>>,
         \A h \in Handles : Finishing(h)' <=> Finishing(h)
  PROVE  FatesOK'
  BY DEF FatesOK, FateOK

\* A transaction is erased, and has ended in one way.
LEMMA FatesRemoved ==
  ASSUME Isolation, FatesOK, NEW id \in TxnIds, txnMap[id] # None,
         RemoveTransaction(id), UNCHANGED txn,
         \E way \in {"committed", "aborted", "timedout"} : fate'[txnMap[id]] = {way},
         \A h \in Handles \ {txnMap[id]} :
           fate'[h] = fate[h] /\ (Finishing(h)' <=> Finishing(h))
  PROVE  FatesOK'
  <1> SUFFICES ASSUME NEW h \in Handles PROVE FateOK(h)'
    BY DEF FatesOK
  <1> USE DEF FateOK
  <1>1. /\ txnMap[id] \in Handles
        /\ txn[txnMap[id]].id = id /\ id # None
    BY LiveEntry DEF Isolation
  <1>2. \A i \in TxnIds : txnMap'[i] = (IF i = id THEN None ELSE txnMap[i])
    BY RemoveMap DEF Isolation
  <1>3. CASE h = txnMap[id]
    BY <1>1, <1>2, <1>3, ConstantsAssumption
  <1>4. CASE h # txnMap[id] /\ txn[h].id # None
    <2>1. txn[h].id # id
      BY <1>1, <1>4 DEF Isolation, UniqueIds
    <2>2. txn[h].id \in TxnIds
      BY <1>4 DEF Isolation, StateOK, TypeOK, TransactionAttributes
    <2>3. txnMap'[txn[h].id] = txnMap[txn[h].id]
      BY <1>2, <2>1, <2>2
    <2> QED BY <1>4, <2>3 DEF FatesOK
  <1>5. CASE h # txnMap[id] /\ txn[h].id = None
    BY <1>5 DEF FatesOK
  <1> QED BY <1>3, <1>4, <1>5

\* w makes a step that neither begins nor ends the commit of a transaction.
LEMMA FinishingKept ==
  ASSUME NEW w \in Workers,
         \A v \in Workers \ {w} : pc'[v] = pc[v] /\ call'[v] = call[v],
         pc'[w] \in HasCommitted <=> pc[w] \in HasCommitted,
         pc[w] \in HasCommitted => call'[w].h = call[w].h
  PROVE  \A h \in Handles : Finishing(h)' <=> Finishing(h)
  BY DEF Finishing

\* A new transaction has not ended.
LEMMA FatesCreate ==
  ASSUME Isolation, FatesOK, ~IdReuse, NEW w \in Workers, NEW f \in Files,
         NEW id \in TxnIds, NEW g \in Handles, NewTxnCreate(w, f, id, g)
  PROVE  FatesOK'
  <1>1. /\ txn[g].id = None /\ txn'[g].id = id /\ txnMap'[id] = g
        /\ \A h \in Handles \ {g} : txn'[h] = txn[h] /\ txn[h].id # id
        /\ \A i \in TxnIds \ {id} : txnMap'[i] = txnMap[i]
        /\ UNCHANGED fate /\ id # None
    BY ConstantsAssumption
    DEF NewTxnCreate, AddNewTransaction, Candidate, Isolation, StateOK, TypeOK
  <1>2. \A h \in Handles : Finishing(h)' <=> Finishing(h)
    <2>1. /\ \A v \in Workers \ {w} : pc'[v] = pc[v] /\ call'[v] = call[v]
          /\ pc[w] = "idle" /\ pc'[w] = "NewTxnLog"
      BY DEF NewTxnCreate, Begin, Isolation, StateOK, TypeOK
    <2> QED BY <2>1, FinishingKept DEF HasCommitted
  <1>3. ~Finishing(g)
    BY <1>1, CallEntry, ConstantsAssumption
    DEF Finishing, HasCommitted, HoldsTxnMtx, Isolation
  <1>4. \A h \in Handles \ {g} : txn[h].id # None => txn[h].id \in TxnIds
    BY DEF Isolation, StateOK, TypeOK, TransactionAttributes
  <1> SUFFICES ASSUME NEW h \in Handles PROVE FateOK(h)'
    BY DEF FatesOK
  <1>5. FateOK(h) BY DEF FatesOK
  <1>6. CASE h = g
    BY <1>1, <1>2, <1>3, <1>5, <1>6 DEF FateOK
  <1>7. CASE h # g
    <2>1. txn'[h] = txn[h] /\ txn[h].id # id /\ fate'[h] = fate[h]
      BY <1>1, <1>7
    <2>2. txn[h].id # None => txnMap'[txn[h].id] = txnMap[txn[h].id]
      BY <1>1, <1>4, <1>7
    <2> QED BY <1>2, <1>5, <2>1, <2>2 DEF FateOK
  <1> QED BY <1>6, <1>7

\* COMMIT ends its transaction when it inserts the id into m_commits: it
\* holds the only use of it.
LEMMA FatesCommitInsert ==
  ASSUME Isolation, FatesOK, NEW w \in Workers, CommitInsert(w)
  PROVE  FatesOK'
  <1>1. pc[w] \in UsesTxn /\ pc[w] \notin HasCommitted
    BY DEF CommitInsert, UsesTxn, HoldsTxnMtx, HasCommitted
  <1>2. /\ pc'[w] = "CommitLog" /\ call' = call
        /\ \A v \in Workers \ {w} : pc'[v] = pc[v]
    BY DEF CommitInsert, Goto, Isolation, StateOK, TypeOK
  <1>3. \A h \in Handles : IF h = call[w].h THEN Finishing(h)' ELSE Finishing(h)' <=> Finishing(h)
    BY <1>1, <1>2 DEF Finishing, HasCommitted
  <1>4. /\ UNCHANGED <<txn, txnMap>>
        /\ fate'[call[w].h] = {"committed"}
        /\ \A h \in Handles \ {call[w].h} : fate'[h] = fate[h]
    BY <1>1, FateOfUsed DEF CommitInsert, Isolation, StateOK, TypeOK
  <1>5. /\ call[w].h \in Handles /\ txn[call[w].h].id # None
        /\ txnMap[txn[call[w].h].id] = call[w].h
    BY <1>1, FateOfUsed
  <1> SUFFICES ASSUME NEW h \in Handles PROVE FateOK(h)'
    BY DEF FatesOK
  <1>6. CASE h = call[w].h
    BY <1>3, <1>4, <1>5, <1>6 DEF FateOK
  <1>7. CASE h # call[w].h
    BY <1>3, <1>4, <1>7 DEF FateOK, FatesOK
  <1> QED BY <1>6, <1>7

\* The end of a COMMIT or ABORT.
LEMMA FatesRemove ==
  ASSUME Isolation, FatesOK, NEW w \in Workers, CommitRemove(w) \/ AbortRemove(w)
  PROVE  FatesOK'
  <1>1. pc[w] \in UsesTxn
    BY DEF CommitRemove, AbortRemove, UsesTxn, HoldsTxnMtx
  <1>2. /\ call[w].h \in Handles /\ call[w].id \in TxnIds
        /\ txnMap[call[w].id] = call[w].h /\ txnMap[call[w].id] # None
    BY <1>1, FateOfUsed
  <1>3. RemoveTransaction(call[w].id) /\ UNCHANGED txn
    BY DEF CommitRemove, AbortRemove, entryVars
  <1>4. /\ \E way \in {"committed", "aborted", "timedout"} : fate'[call[w].h] = {way}
        /\ \A h \in Handles \ {call[w].h} : fate'[h] = fate[h]
    <2>1. CASE CommitRemove(w)
      BY <1>1, <2>1, FateOfUsed DEF CommitRemove, entryVars, HasCommitted
    <2>2. CASE AbortRemove(w)
      BY <1>1, <2>2, FateOfUsed
      DEF AbortRemove, HasCommitted, Isolation, StateOK, TypeOK
    <2> QED BY <2>1, <2>2
  <1>5. /\ pc'[w] = "idle"
        /\ \A v \in Workers \ {w} : pc'[v] = pc[v] /\ call'[v] = call[v]
    BY DEF CommitRemove, AbortRemove, Answer, Return, Isolation, StateOK, TypeOK
  <1>6. \A h \in Handles \ {call[w].h} : Finishing(h)' <=> Finishing(h)
    BY <1>5 DEF Finishing, HasCommitted
  <1> QED BY <1>2, <1>3, <1>4, <1>6, FatesRemoved

\* A timer ends a transaction that nobody uses.
LEMMA FatesTimer ==
  ASSUME Isolation, FatesOK, ~TimerRaces, NEW h \in Handles, TimerFire(h)
  PROVE  FatesOK'
  <1>1. txn[h].id \in TxnIds /\ txnMap[txn[h].id] # None
    BY DEF TimerFire, Isolation, StateOK, TypeOK, EntriesOK, TransactionAttributes
  <1> DEFINE g == txnMap[txn[h].id]
  <1>2. g \in Handles /\ txn[g].id = txn[h].id /\ txn[g].id # None
    BY <1>1, LiveEntry DEF Isolation
  <1>3. ~Finishing(g)
    BY DEF TimerFire, InUse, Finishing, HasCommitted, UsesTxn, HoldsTxnMtx
  <1>4. fate[g] = {}
    BY <1>2, <1>3 DEF FatesOK, FateOK
  <1>5. fate' = [fate EXCEPT ![g] = @ \cup {"timedout"}]
    BY DEF TimerFire
  <1>6. fate'[g] = {"timedout"} /\ \A i \in Handles \ {g} : fate'[i] = fate[i]
    BY <1>2, <1>4, <1>5 DEF Isolation, StateOK, TypeOK
  <1>7. UNCHANGED <<txn, pc, call>> /\ RemoveTransaction(txn[h].id)
    BY DEF TimerFire
  <1>8. \A i \in Handles : Finishing(i)' <=> Finishing(i)
    BY <1>7 DEF Finishing
  <1> QED BY <1>1, <1>6, <1>7, <1>8, FatesRemoved

\* The steps that end no transaction.
LEMMA FatesMove ==
  ASSUME StateOK, FatesOK, NEW w \in Workers,
         \/ WriteBuffer(w) \/ CommitVerify(w) \/ CommitOpen(w) \/ CommitWrite(w)
         \/ CommitRollback(w) \/ CommitTruncate(w) \/ CommitLog(w) \/ CommitSize(w)
  PROVE  FatesOK'
  <1>1. UNCHANGED <<txnMap, txn, fate>>
    BY DEF WriteBuffer, CommitVerify, CommitOpen, CommitWrite, CommitRollback,
           CommitTruncate, CommitLog, CommitSize, registryVars, entryVars
  <1>2. CASE CommitLog(w) \/ CommitSize(w)
    BY <1>1, <1>2, FinishingKept, FatesKept, GotoCall
    DEF CommitLog, CommitSize, HasCommitted, StateOK
  <1>3. CASE ~(CommitLog(w) \/ CommitSize(w))
    <2>1. pc[w] \notin HasCommitted /\ pc'[w] \notin HasCommitted
      BY <1>3
      DEF WriteBuffer, CommitVerify, CommitOpen, CommitWrite, CommitRollback,
          CommitTruncate, Goto, Answer, Return, HasCommitted, StateOK, TypeOK
    <2>2. \A v \in Workers \ {w} : pc'[v] = pc[v] /\ call'[v] = call[v]
      BY <1>3
      DEF WriteBuffer, CommitVerify, CommitOpen, CommitWrite, CommitRollback,
          CommitTruncate, Goto, Answer, Return, StateOK, TypeOK
    <2> QED BY <1>1, <2>1, <2>2, FinishingKept, FatesKept
  <1> QED BY <1>2, <1>3

\* Every step keeps the fates right.
LEMMA FatesInductive ==
  ASSUME ~TimerRaces, ~IdReuse, Isolation, FatesOK, [Next]_vars
  PROVE  FatesOK'
  <1>1. CASE Quiet
    <2>1. \A h \in Handles : Finishing(h)' <=> Finishing(h)
      BY <1>1 DEF Quiet, Finishing, HasCommitted
    <2> QED BY <1>1, <2>1, FatesKept DEF Quiet, registryVars, Isolation
  <1> QED
    BY <1>1, Steps, FatesCreate, FatesCommitInsert, FatesRemove, FatesTimer, FatesMove
    DEF CommitStepOf, Isolation

-----------------------------------------------------------------------------
(* The set of commits.                                                     *)

\* Only COMMIT touches m_commits, in one place.
LEMMA CommitsStep ==
  ASSUME StateOK, [Next]_vars
  PROVE  \/ UNCHANGED commits
         \/ \E w \in Workers : CommitInsert(w)
  <1>1. CASE Quiet
    BY <1>1 DEF Quiet, registryVars
  <1>2. ASSUME NEW w \in Workers,
               \/ \E f \in Files, id \in TxnIds, h \in Handles : NewTxnCreate(w, f, id, h)
               \/ WriteBuffer(w) \/ CommitStepOf(w) \/ AbortRemove(w)
        PROVE  UNCHANGED commits \/ CommitInsert(w)
    BY <1>2
    DEF NewTxnCreate, WriteBuffer, CommitStepOf, CommitVerify, CommitOpen, CommitWrite,
        CommitRollback, CommitTruncate, CommitLog, CommitSize, CommitRemove,
        AbortRemove, registryVars
  <1>3. ASSUME NEW h \in Handles, TimerFire(h) PROVE UNCHANGED commits
    BY <1>3 DEF TimerFire
  <1> QED BY <1>1, <1>2, <1>3, Steps

\* An entry that was created stays as it is, and no outcome is taken back;
\* only CommitInsert commits.
LEMMA FatesGrow ==
  ASSUME StateOK, [Next]_vars, NEW h \in Handles
  PROVE  /\ fate[h] \subseteq fate'[h]
         /\ txn[h].id # None => txn'[h] = txn[h]
         /\ "committed" \in fate'[h] /\ "committed" \notin fate[h] =>
              \E w \in Workers : CommitInsert(w) /\ call[w].h = h
  <1> USE DEF StateOK, TypeOK
  <1>1. CASE Quiet
    BY <1>1 DEF Quiet
  <1>2. ASSUME NEW w \in Workers, NEW f \in Files, NEW id \in TxnIds,
               NEW g \in Handles, NewTxnCreate(w, f, id, g)
        PROVE  UNCHANGED fate /\ (txn[h].id # None => txn'[h] = txn[h])
    BY <1>2 DEF NewTxnCreate, AddNewTransaction
  <1>3. ASSUME NEW w \in Workers, WriteBuffer(w) \/ CommitStepOf(w), ~CommitInsert(w)
        PROVE  UNCHANGED <<txn, fate>>
    BY <1>3
    DEF WriteBuffer, CommitStepOf, CommitVerify, CommitOpen, CommitWrite,
        CommitRollback, CommitTruncate, CommitLog, CommitSize, CommitRemove, entryVars
  <1>4. ASSUME NEW w \in Workers, CommitInsert(w)
        PROVE  /\ UNCHANGED txn /\ fate[h] \subseteq fate'[h]
               /\ call[w].h # h => fate'[h] = fate[h]
    BY <1>4 DEF CommitInsert
  <1>5. ASSUME NEW w \in Workers, AbortRemove(w)
        PROVE  /\ UNCHANGED txn /\ fate[h] \subseteq fate'[h]
               /\ fate'[h] \subseteq fate[h] \cup {"aborted"}
    BY <1>5 DEF AbortRemove
  <1>6. ASSUME NEW g \in Handles, TimerFire(g)
        PROVE  /\ UNCHANGED txn /\ fate[h] \subseteq fate'[h]
               /\ fate'[h] \subseteq fate[h] \cup {"timedout"}
    BY <1>6 DEF TimerFire
  <1> QED BY <1>1, <1>2, <1>3, <1>4, <1>5, <1>6, Steps

\* No id gets into m_commits whose transaction did not commit.
LEMMA CommitsSoundInductive ==
  ASSUME StateOK, CommitsSound, [Next]_vars
  PROVE  CommitsSound'
  <1>1. ASSUME NEW id \in commits
        PROVE  \E h \in Handles : txn'[h].id = id /\ "committed" \in fate'[h]
    <2>1. PICK h \in Handles : txn[h].id = id /\ "committed" \in fate[h]
      BY DEF CommitsSound
    <2>2. id # None
      BY ConstantsAssumption DEF StateOK, TypeOK
    <2> QED BY <2>1, <2>2, FatesGrow
  <1>2. CASE UNCHANGED commits
    BY <1>1, <1>2 DEF CommitsSound
  <1>3. ASSUME NEW w \in Workers, CommitInsert(w) PROVE CommitsSound'
    <2>1. call[w].h \in Handles /\ txn[call[w].h].id = call[w].id
      BY <1>3, CallEntry DEF CommitInsert, HoldsTxnMtx
    <2>2. /\ txn'[call[w].h].id = call[w].id
          /\ "committed" \in fate'[call[w].h]
          /\ commits' \subseteq commits \cup {call[w].id}
      BY <1>3, <2>1 DEF CommitInsert, StateOK, TypeOK
    <2> QED BY <1>1, <2>1, <2>2 DEF CommitsSound
  <1> QED BY <1>2, <1>3, CommitsStep

\* No insert into m_commits is lost, be it that inserts do not overlap or
\* that all commits are to one file and exclude each other.
InsertsKept == ~InsertRaces \/ \A f, g \in Files : f = g

\* No id gets lost from m_commits: two inserts overlap only if two files are
\* being committed.
LEMMA RememberedInductive ==
  ASSUME InsertsKept, Isolation, CommitsRemembered, [Next]_vars
  PROVE  CommitsRemembered'
  <1>1. ASSUME NEW h \in Handles, "committed" \in fate[h]
        PROVE  txn'[h].id = txn[h].id /\ txn[h].id \in commits
    <2>1. txn[h].id \in commits
      BY <1>1 DEF CommitsRemembered
    <2>2. txn[h].id # None /\ StateOK
      BY <2>1, ConstantsAssumption DEF Isolation, StateOK, TypeOK
    <2> QED BY <2>1, <2>2, FatesGrow
  <1>2. commits \subseteq commits'
    BY CommitsStep DEF CommitInsert, Isolation
  <1>3. ASSUME NEW w \in Workers, CommitInsert(w)
        PROVE  txn'[call[w].h].id \in commits'
    <2>1. /\ txn[call[w].h].id = call[w].id /\ UNCHANGED txn
          /\ txn[call[w].h].file \in Files
      BY <1>3, CallEntry DEF CommitInsert, HoldsTxnMtx, Isolation
    <2>2. CASE call[w].id \in commits'
      BY <2>1, <2>2
    <2>3. CASE call[w].id \notin commits'
      <3>1. PICK v \in Workers \ {w} : pc[v] = "CommitInsert"
        BY <1>3, <2>3 DEF CommitInsert
      <3>2. \A f, g \in Files : f = g
        BY <1>3, <2>3 DEF CommitInsert, InsertsKept
      <3>3. txn[call[v].h].file = txn[call[w].h].file
        BY <2>1, <3>1, <3>2, CallEntry DEF HoldsTxnMtx, Isolation
      <3>4. OneWriterPerFile
        BY LiveGivesOneWriter DEF Isolation
      <3> QED BY <1>3, <3>1, <3>3, <3>4 DEF CommitInsert, OneWriterPerFile, HoldsFileMtx
    <2> QED BY <2>2, <2>3
  <1> SUFFICES ASSUME NEW h \in Handles, "committed" \in fate'[h]
               PROVE  txn'[h].id \in commits'
    BY DEF CommitsRemembered
  <1>4. CASE "committed" \in fate[h]
    BY <1>1, <1>2, <1>4
  <1>5. CASE "committed" \notin fate[h]
    BY <1>3, <1>5, FatesGrow DEF Isolation
  <1> QED BY <1>4, <1>5

-----------------------------------------------------------------------------
(* The command function a thread is in.                                    *)

\* A step of one thread leaves the command of the others alone.
LEMMA CommandStep ==
  ASSUME StateOK, CommandsOK, NEW w \in Workers, CommandOK(w)',
         \A v \in Workers \ {w} : pc'[v] = pc[v] /\ call'[v] = call[v]
  PROVE  CommandsOK'
  BY DEF CommandsOK, CommandOK

\* Back to "idle".
LEMMA CommandEnd ==
  ASSUME StateOK, CommandsOK, NEW w \in Workers,
         (\E out : Answer(w, out)) \/ \E cmd, id, h, out : Return(w, cmd, id, h, out)
  PROVE  CommandsOK'
  <1>1. /\ pc'[w] = "idle" /\ call'[w] = NoCall
        /\ \A v \in Workers \ {w} : pc'[v] = pc[v] /\ call'[v] = call[v]
    BY DEF Answer, Return, StateOK, TypeOK
  <1>2. CommandOK(w)'
    BY <1>1 DEF CommandOK, NoCall, Call, Committing, HasCommitted
  <1> QED BY <1>1, <1>2, CommandStep

\* Within a command function the command stays.
LEMMA CommandGoto ==
  ASSUME StateOK, CommandsOK, NEW w \in Workers, NEW label, Goto(w, label),
         \/ label \in {"LockTxn", "Recheck", "WriteBuffer"}
         \/ label = "AbortUnlock" /\ call[w].cmd = "ABORT"
         \/ label = "AbortRemove" /\ call[w].cmd = "ABORT"
         \/ /\ label \in {"CommitVerify", "CommitRollback"} \cup Committing \cup HasCommitted
            /\ call[w].cmd = "COMMIT"
  PROVE  CommandsOK'
  <1>1. /\ pc'[w] = label /\ call'[w] = call[w]
        /\ \A v \in Workers \ {w} : pc'[v] = pc[v] /\ call'[v] = call[v]
    BY GotoCall DEF StateOK
  <1>2. CommandOK(w)'
    BY <1>1 DEF CommandsOK, CommandOK, Committing, HasCommitted
  <1> QED BY <1>1, <1>2, CommandStep

\* A command function begins with its own command.
LEMMA CommandBegin ==
  ASSUME StateOK, CommandsOK, NEW w \in Workers, NEW label, NEW c, Begin(w, label, c),
         \/ label = "ReadData" /\ c.cmd = "READ" /\ c.file \in Files
         \/ label = "NewTxnLog" /\ c.cmd = "NEW_TXN"
         \/ label = "LockTxn" /\ (c.cmd = "COMMIT" => c.k \in SeqNums)
  PROVE  CommandsOK'
  <1>1. /\ pc'[w] = label /\ call'[w] = c
        /\ \A v \in Workers \ {w} : pc'[v] = pc[v] /\ call'[v] = call[v]
    BY BeginCall DEF StateOK
  <1>2. CommandOK(w)'
    BY <1>1 DEF CommandOK, Committing, HasCommitted
  <1> QED BY <1>1, <1>2, CommandStep

\* The loop of COMMIT and its handler set i.
LEMMA CommandSetI ==
  ASSUME StateOK, CommandsOK, NEW w \in Workers, NEW n, NEW label,
         pc[w] \in Committing \cup {"CommitRollback"},
         label \in Committing \cup {"CommitTruncate"},
         pc' = [pc EXCEPT ![w] = label],
         call' = [call EXCEPT ![w].i = n]
  PROVE  CommandsOK'
  <1>1. /\ pc'[w] = label
        /\ call'[w].cmd = call[w].cmd /\ call'[w].k = call[w].k
        /\ \A v \in Workers \ {w} : pc'[v] = pc[v] /\ call'[v] = call[v]
    BY DEF StateOK, TypeOK, Calls
  <1>2. CommandOK(w)'
    BY <1>1 DEF CommandsOK, CommandOK, Committing, HasCommitted
  <1> QED BY <1>1, <1>2, CommandStep

\* So do the three that look up a transaction first.
LEMMA CommandLookup ==
  ASSUME StateOK, CommandsOK, NEW w \in Workers, NEW cmd, NEW id, NEW k, NEW out,
         Lookup(w, cmd, id, k, out), cmd = "COMMIT" => k \in SeqNums
  PROVE  CommandsOK'
  <1>1. \/ \E o : Return(w, cmd, id, None, o)
        \/ Begin(w, "LockTxn", Call(cmd, id, k, None, txnMap[id], 0))
    BY DEF Lookup
  <1>2. CASE \E o : Return(w, cmd, id, None, o)
    BY <1>2, CommandEnd
  <1>3. CASE Begin(w, "LockTxn", Call(cmd, id, k, None, txnMap[id], 0))
    BY <1>3, CommandBegin DEF Call
  <1> QED BY <1>1, <1>2, <1>3

\* COMMIT goes on as COMMIT.
LEMMA CommandCommit ==
  ASSUME StateOK, CommandsOK, NEW w \in Workers, CommitStepOf(w)
  PROVE  CommandsOK'
  <1> USE DEF Committing, HasCommitted
  <1>1. call[w].cmd = "COMMIT"
    BY DEF CommitStepOf, CommitVerify, CommitOpen, CommitWrite, CommitRollback,
           CommitTruncate, CommitInsert, CommitLog, CommitSize, CommitRemove,
           CommandsOK, CommandOK
  <1>2. CASE CommitVerify(w) BY <1>1, <1>2, CommandGoto, CommandEnd DEF CommitVerify
  <1>3. CASE CommitOpen(w) BY <1>3, CommandSetI, CommandEnd DEF CommitOpen
  <1>4. CASE CommitWrite(w)
    <2>1. \/ Goto(w, "CommitRollback")
          \/ \E n, label : /\ label \in Committing
                           /\ pc' = [pc EXCEPT ![w] = label]
                           /\ call' = [call EXCEPT ![w].i = n]
      BY <1>4 DEF CommitWrite
    <2>2. pc[w] = "CommitWrite"
      BY <1>4 DEF CommitWrite
    <2>3. CASE Goto(w, "CommitRollback")
      BY <1>1, <2>3, CommandGoto
    <2> QED BY <2>1, <2>2, <2>3, CommandSetI
  <1>5. CASE CommitRollback(w) BY <1>5, CommandSetI DEF CommitRollback
  <1>6. CASE CommitTruncate(w) BY <1>6, CommandEnd DEF CommitTruncate
  <1>7. CASE CommitInsert(w) BY <1>1, <1>7, CommandGoto DEF CommitInsert
  <1>8. CASE CommitLog(w) BY <1>1, <1>8, CommandGoto DEF CommitLog
  <1>9. CASE CommitSize(w) BY <1>1, <1>9, CommandGoto DEF CommitSize
  <1>10. CASE CommitRemove(w) BY <1>10, CommandEnd DEF CommitRemove
  <1> QED
    BY <1>2, <1>3, <1>4, <1>5, <1>6, <1>7, <1>8, <1>9, <1>10 DEF CommitStepOf

\* A thread is in the function of the command it received.
LEMMA CommandsInductive ==
  ASSUME StateOK, CommandsOK, [Next]_vars
  PROVE  CommandsOK'
  <1>1. CASE UNCHANGED <<pc, call>>
    BY <1>1 DEF CommandsOK, CommandOK
  <1>2. ASSUME NEW w \in Workers, Refuse(w) PROVE CommandsOK'
    BY <1>2, CommandEnd DEF Refuse, RefuseRequest
  <1>3. ASSUME NEW w \in Workers, READ(w) PROVE CommandsOK'
    BY <1>3, CommandBegin, CommandEnd DEF READ, ReadOpen, ReadData, Call
  <1>4. ASSUME NEW w \in Workers, NEW_TXN(w) PROVE CommandsOK'
    BY <1>4, CommandBegin, CommandEnd
    DEF NEW_TXN, NewTxnReject, NewTxnCreate, NewTxnLog, Call
  <1>5. ASSUME NEW w \in Workers, NEW cmd, LockTxn(w, cmd) \/ RecheckGone(w, cmd)
        PROVE  CommandsOK'
    BY <1>5, CommandGoto, CommandEnd DEF LockTxn, RecheckGone
  <1>6. ASSUME NEW w \in Workers, WRITE(w) PROVE CommandsOK'
    <2>1. CASE WriteBuffer(w) BY <2>1, CommandEnd DEF WriteBuffer
    <2>2. CASE WriteRecheck(w) BY <2>2, CommandGoto DEF WriteRecheck, RecheckPresent
    <2> QED BY <1>5, <1>6, <2>1, <2>2, CommandLookup DEF WRITE, WriteLookup
  <1>7. ASSUME NEW w \in Workers, COMMIT(w) PROVE CommandsOK'
    <2>1. CASE CommitRecheck(w)
      BY <2>1, CommandGoto DEF CommitRecheck, RecheckPresent
    <2> QED BY <1>5, <1>7, <2>1, CommandLookup, CommandCommit
            DEF COMMIT, CommitLookup, CommitStepOf
  <1>8. ASSUME NEW w \in Workers, ABORT(w) PROVE CommandsOK'
    <2>1. CASE AbortRecheck(w)
      BY <2>1, CommandGoto DEF AbortRecheck, RecheckPresent
    <2>2. CASE AbortUnlock(w)
      BY <2>2, CommandGoto DEF AbortUnlock, CommandsOK, CommandOK
    <2>3. CASE AbortRemove(w) BY <2>3, CommandEnd DEF AbortRemove
    <2> QED BY <1>5, <1>8, <2>1, <2>2, <2>3, CommandLookup DEF ABORT, AbortLookup
  <1>9. ASSUME NEW h \in Handles, Expire(h) \/ Timer(h) PROVE UNCHANGED <<pc, call>>
    BY <1>9 DEF Expire, Timer, TimerFire, TimerExit
  <1>10. CASE UNCHANGED vars BY <1>1, <1>10 DEF vars, threadVars
  <1> QED BY <1>1, <1>2, <1>3, <1>4, <1>6, <1>7, <1>8, <1>9, <1>10 DEF Next

-----------------------------------------------------------------------------
(* The lengths of files.                                                   *)

\* No step makes a file shorter while no system call has failed.
LEMMA DiskGrows ==
  ASSUME StateOK, [Next]_vars, NEW f \in Files,
         \A w \in Workers : pc[w] # "CommitTruncate"
  PROVE  Len(disk'[f]) >= Len(disk[f])
  <1>1. Len(disk[f]) \in Nat
    BY DEF StateOK, TypeOK
  <1>2. CASE UNCHANGED disk
    BY <1>1, <1>2
  <1>3. ASSUME NEW w \in Workers, CommitWrite(w), ~UNCHANGED disk
        PROVE  Len(disk'[f]) >= Len(disk[f])
    <2>1. call[w].h \in Handles /\ txn[call[w].h].file \in Files /\ call[w].i \in Int
      BY <1>3, CallEntry DEF CommitWrite, HoldsTxnMtx, StateOK, TypeOK, Calls
    <2>2. disk' = [disk EXCEPT ![txn[call[w].h].file] = Append(@, <<call[w].h, call[w].i>>)]
      BY <1>3 DEF CommitWrite
    <2> DEFINE u == <<call[w].h, call[w].i>>
    <2>3. u \in Units
      BY <2>1 DEF Units
    <2> HIDE DEF u
    <2>4. disk'[f] = disk[f] \/ disk'[f] = Append(disk[f], u)
      BY <2>1, <2>2 DEF StateOK, TypeOK, u
    <2>5. disk[f] \in Seq(Units)
      BY DEF StateOK, TypeOK
    <2> QED BY <1>1, <2>3, <2>4, <2>5
  <1>4. ASSUME NEW w \in Workers,
               \/ \E g \in Files, id \in TxnIds, h \in Handles : NewTxnCreate(w, g, id, h)
               \/ WriteBuffer(w) \/ CommitStepOf(w) \/ AbortRemove(w)
        PROVE  UNCHANGED disk \/ CommitWrite(w)
    BY <1>4
    DEF NewTxnCreate, WriteBuffer, CommitStepOf, CommitVerify, CommitOpen,
        CommitRollback, CommitTruncate, CommitInsert, CommitLog, CommitSize,
        CommitRemove, AbortRemove, diskVars
  <1>5. ASSUME NEW h \in Handles, TimerFire(h) PROVE UNCHANGED disk
    BY <1>5 DEF TimerFire
  <1>6. Quiet => UNCHANGED disk
    BY DEF Quiet
  <1> QED BY <1>2, <1>3, <1>4, <1>5, <1>6, Steps

\* Failures are counted; a thread comes to READ's second step, and to the
\* handler of a failed write, in one way each.
LEMMA WorkerSteps ==
  ASSUME StateOK, [Next]_vars
  PROVE  /\ failures' \in {failures, failures + 1}
         /\ \/ UNCHANGED <<pc, call>>
            \/ \E w \in Workers :
                 /\ \A v \in Workers \ {w} : pc'[v] = pc[v] /\ call'[v] = call[v]
                 /\ \/ pc'[w] \notin {"ReadData", "CommitRollback", "CommitTruncate"}
                    \/ (\E f \in Files : ReadOpen(w, f)) \/ CommitWrite(w) \/ CommitRollback(w)
  <1> DEFINE Fails1 == failures' \in {failures, failures + 1}
             Others(w) == \A v \in Workers \ {w} : pc'[v] = pc[v] /\ call'[v] = call[v]
             Elsewhere(w) == pc'[w] \notin {"ReadData", "CommitRollback", "CommitTruncate"}
             Way(w) == (\E f \in Files : ReadOpen(w, f)) \/ CommitWrite(w) \/ CommitRollback(w)
  <1> USE DEF StateOK, TypeOK, Goto, Answer, Return, Begin
  <1>1. ASSUME NEW w \in Workers, READ(w) \/ Refuse(w)
        PROVE  Fails1 /\ Others(w) /\ (Elsewhere(w) \/ Way(w))
    BY <1>1 DEF READ, ReadOpen, ReadData, Refuse, RefuseRequest, Fails, diskVars
  <1>2. ASSUME NEW w \in Workers, NEW_TXN(w)
        PROVE  Fails1 /\ Others(w) /\ Elsewhere(w)
    BY <1>2
    DEF NEW_TXN, NewTxnReject, NewTxnCreate, NewTxnLog, LogTransaction, Fails, diskVars
  <1>3. ASSUME NEW w \in Workers, NEW cmd, NEW id, NEW k, NEW out, Lookup(w, cmd, id, k, out)
        PROVE  Fails1 /\ Others(w) /\ Elsewhere(w)
    BY <1>3 DEF Lookup, diskVars
  <1>4. ASSUME NEW w \in Workers, NEW cmd, LockTxn(w, cmd) \/ RecheckGone(w, cmd)
        PROVE  Fails1 /\ Others(w) /\ Elsewhere(w)
    BY <1>4 DEF LockTxn, RecheckGone, diskVars
  <1>5. ASSUME NEW w \in Workers,
               WriteRecheck(w) \/ CommitRecheck(w) \/ AbortRecheck(w)
        PROVE  Fails1 /\ Others(w) /\ Elsewhere(w)
    BY <1>5 DEF WriteRecheck, CommitRecheck, AbortRecheck, RecheckPresent, diskVars
  <1>6. ASSUME NEW w \in Workers, WriteBuffer(w) \/ CommitVerify(w) \/ AbortUnlock(w)
        PROVE  Fails1 /\ Others(w) /\ Elsewhere(w)
    BY <1>6 DEF WriteBuffer, CommitVerify, AbortUnlock, diskVars
  <1>7. ASSUME NEW w \in Workers, CommitOpen(w) \/ CommitTruncate(w) \/ CommitInsert(w)
        PROVE  Fails1 /\ Others(w) /\ Elsewhere(w)
    BY <1>7 DEF CommitOpen, CommitTruncate, CommitInsert, Fails, diskVars
  <1>8. ASSUME NEW w \in Workers, CommitWrite(w) \/ CommitRollback(w)
        PROVE  Fails1 /\ Others(w) /\ Way(w)
    BY <1>8 DEF CommitWrite, CommitRollback, Fails, diskVars
  <1>9. ASSUME NEW w \in Workers,
               CommitLog(w) \/ CommitSize(w) \/ CommitRemove(w) \/ AbortRemove(w)
        PROVE  Fails1 /\ Others(w) /\ Elsewhere(w)
    BY <1>9
    DEF CommitLog, CommitSize, CommitRemove, AbortRemove, LogTransaction, Fails, diskVars
  <1>10. ASSUME NEW h \in Handles, Expire(h) \/ Timer(h)
         PROVE  Fails1 /\ UNCHANGED <<pc, call>>
    BY <1>10
    DEF Expire, Timer, TimerFire, TimerExit, LogTransaction, Fails, diskVars
  <1>11. ASSUME UNCHANGED vars PROVE Fails1 /\ UNCHANGED <<pc, call>>
    BY <1>11 DEF vars, diskVars, threadVars
  <1> HIDE DEF Fails1, Others, Elsewhere, Way
  <1>12. ASSUME NEW w \in Workers, WRITE(w) \/ COMMIT(w) \/ ABORT(w)
         PROVE  Fails1 /\ Others(w) /\ (Elsewhere(w) \/ Way(w))
    BY <1>3, <1>4, <1>5, <1>6, <1>7, <1>8, <1>9, <1>12
    DEF WRITE, COMMIT, ABORT, WriteLookup, CommitLookup, AbortLookup
  <1>13. Fails1 /\ (UNCHANGED <<pc, call>> \/ \E w \in Workers : Others(w) /\ (Elsewhere(w) \/ Way(w)))
    BY <1>1, <1>2, <1>10, <1>11, <1>12 DEF Next
  <1> QED BY <1>13 DEF Fails1, Others, Elsewhere, Way

\* A file becomes shorter only after a failed write, so that READ finds as
\* much as fstat announced.
LEMMA GrowInductive ==
  ASSUME StateOK, CommandsOK, FilesGrow, [Next]_vars
  PROVE  FilesGrow'
  <1>1. failures \in Nat
    BY DEF StateOK, TypeOK
  <1>2. CASE failures > 0 \/ failures' # failures
    BY <1>1, <1>2, WorkerSteps DEF FilesGrow
  <1>3. CASE failures = 0 /\ UNCHANGED failures
    <2>1. \A w \in Workers :
            /\ pc[w] \notin {"CommitRollback", "CommitTruncate"}
            /\ pc[w] = "ReadData" => call[w].i <= Len(disk[call[w].file])
      BY <1>3 DEF FilesGrow
    <2>2. \A f \in Files : Len(disk'[f]) >= Len(disk[f])
      BY <2>1, DiskGrows
    <2>3. \A f \in Files : Len(disk[f]) \in Nat /\ Len(disk'[f]) \in Nat
      BY StateStep DEF StateOK, TypeOK
    <2>4. ASSUME NEW v \in Workers, pc'[v] = pc[v], call'[v] = call[v]
          PROVE  /\ pc'[v] \notin {"CommitRollback", "CommitTruncate"}
                 /\ pc'[v] = "ReadData" => call'[v].i <= Len(disk'[call'[v].file])
      BY <2>1, <2>2, <2>3, <2>4 DEF CommandsOK, CommandOK, StateOK, TypeOK, Calls
    <2>5. ASSUME NEW w \in Workers, CommitWrite(w) PROVE pc'[w] \in {"CommitWrite", "CommitInsert"}
      BY <1>3, <2>5 DEF CommitWrite, Fails, StateOK, TypeOK
    <2>6. ASSUME NEW w \in Workers, NEW f \in Files, ReadOpen(w, f)
          PROVE  \/ pc'[w] = "idle"
                 \/ /\ pc'[w] = "ReadData"
                    /\ call'[w].i <= Len(disk'[call'[w].file])
      <3>1. \/ pc'[w] = "idle"
            \/ Begin(w, "ReadData", Call("READ", None, 0, f, None, Len(disk[f])))
        BY <2>6 DEF ReadOpen, Return, StateOK, TypeOK
      <3>2. UNCHANGED disk
        BY <2>6 DEF ReadOpen
      <3> QED BY <2>3, <3>1, <3>2, BeginCall DEF Call, StateOK
    <2>7. \A w \in Workers : ~CommitRollback(w)
      BY <2>1 DEF CommitRollback
    <2> QED BY <2>4, <2>5, <2>6, <2>7, WorkerSteps DEF FilesGrow
  <1> QED BY <1>1, <1>2, <1>3

-----------------------------------------------------------------------------
(* What clients are told.                                                  *)

\* A response that says nothing of how a transaction ended, or none.
Harmless ==
  /\ reply'.out \notin {"InvalidOperation", "TransactionAlreadyCommitted",
                        "TransactionAborted", "InvalidTransactionId", "ErrorReadingFile"}
  /\ reply'.out = "ACK" => reply'.cmd \notin {"COMMIT", "ABORT"}

\* Replies that claim nothing about a transaction.
LEMMA HarmlessReplies ==
  ASSUME Harmless
  PROVE  RepliesTruthful' /\ RepeatedCommitKnown'
  BY DEF Harmless, RepliesTruthful, RepeatedCommitKnown

\* The steps whose responses speak of how a transaction ended.
LEMMA ReplySteps ==
  ASSUME StateOK, CommandsOK, [Next]_vars
  PROVE  \/ UNCHANGED vars
         \/ Harmless
         \/ \E w \in Workers :
              \/ ReadData(w) \/ CommitRemove(w) \/ AbortRemove(w)
              \/ \E id \in TxnIds : \E k : \/ Lookup(w, "COMMIT", id, k, "ACK")
                                           \/ Lookup(w, "WRITE", id, k, "InvalidOperation")
                                           \/ Lookup(w, "ABORT", id, k, "InvalidOperation")
              \/ \E cmd : RecheckGone(w, cmd)
  <1> USE DEF Harmless, NoReply
  <1>1. ASSUME NEW w \in Workers, NEW label, Goto(w, label) PROVE Harmless
    BY <1>1 DEF Goto
  <1>2. ASSUME NEW w \in Workers, NEW label, NEW c, Begin(w, label, c) PROVE Harmless
    BY <1>2 DEF Begin
  <1>3. ASSUME NEW w \in Workers, READ(w) \/ Refuse(w), ~ReadData(w) PROVE Harmless
    BY <1>2, <1>3 DEF READ, ReadOpen, Refuse, RefuseRequest, Return
  <1>4. ASSUME NEW w \in Workers, NEW_TXN(w) PROVE Harmless
    <2>1. CASE NewTxnLog(w)
      BY <2>1 DEF NewTxnLog, Answer, Return, CommandsOK, CommandOK
    <2> QED BY <1>2, <1>4, <2>1 DEF NEW_TXN, NewTxnReject, NewTxnCreate, Return
  <1>5. ASSUME NEW w \in Workers, NEW cmd, LockTxn(w, cmd) PROVE Harmless
    BY <1>1, <1>5 DEF LockTxn
  <1>6. ASSUME NEW w \in Workers, WriteBuffer(w) PROVE Harmless
    BY <1>6 DEF WriteBuffer, Answer, Return, StateOK, CallOK
  <1>7. ASSUME NEW w \in Workers,
               WriteRecheck(w) \/ CommitRecheck(w) \/ AbortRecheck(w) \/ AbortUnlock(w)
        PROVE  Harmless
    BY <1>1, <1>7 DEF WriteRecheck, CommitRecheck, AbortRecheck, RecheckPresent, AbortUnlock
  <1>8. ASSUME NEW w \in Workers, CommitStepOf(w), ~CommitRemove(w) PROVE Harmless
    <2>1. CASE CommitVerify(w) \/ CommitOpen(w) \/ CommitTruncate(w)
      BY <1>1, <2>1 DEF CommitVerify, CommitOpen, CommitTruncate, Answer, Return
    <2>2. CASE ~(CommitVerify(w) \/ CommitOpen(w) \/ CommitTruncate(w))
      <3>1. reply' = NoReply \/ \E label : Goto(w, label)
        BY <1>8, <2>2
        DEF CommitStepOf, CommitWrite, CommitRollback, CommitInsert, CommitLog, CommitSize
      <3> QED BY <1>1, <3>1
    <2> QED BY <2>1, <2>2
  <1>9. ASSUME NEW h \in Handles, Expire(h) \/ Timer(h) PROVE Harmless
    BY <1>9 DEF Expire, Timer, TimerFire, TimerExit
  <1> HIDE DEF Harmless
  <1>10. ASSUME NEW w \in Workers, WRITE(w) \/ COMMIT(w) \/ ABORT(w)
         PROVE  \/ Harmless
                \/ CommitRemove(w) \/ AbortRemove(w)
                \/ \E id \in TxnIds : \E k : \/ Lookup(w, "COMMIT", id, k, "ACK")
                                             \/ Lookup(w, "WRITE", id, k, "InvalidOperation")
                                             \/ Lookup(w, "ABORT", id, k, "InvalidOperation")
                \/ \E cmd : RecheckGone(w, cmd)
    BY <1>5, <1>6, <1>7, <1>8, <1>10
    DEF WRITE, COMMIT, ABORT, WriteLookup, CommitLookup, AbortLookup, CommitStepOf
  <1> QED BY <1>3, <1>4, <1>9, <1>10 DEF Next

\* The inductive invariant of outcomes.
OutcomesOK ==
  Isolation /\ FatesOK /\ CommitsSound /\ CommandsOK /\ FilesGrow

\* The inductive invariant is kept by every step.
LEMMA OutcomesStep ==
  ASSUME ~TimerRaces, ~IdReuse, OutcomesOK, [Next]_vars
  PROVE  OutcomesOK'
  BY IsolationStep, FatesInductive, CommitsSoundInductive, CommandsInductive,
     GrowInductive
  DEF OutcomesOK, Isolation

\* The server starts without transactions.
LEMMA OutcomesInit == Init => OutcomesOK /\ CommitsRemembered
  <1> SUFFICES ASSUME Init PROVE OutcomesOK /\ CommitsRemembered
    OBVIOUS
  <1>1. FileAttributesShared /\ AttributesNamed
    BY DEF Init, FileAttributesShared, AttributesNamed
  <1>2. UniqueIds
    BY DEF Init, UniqueIds, NoTransaction
  <1>3. ExclusiveUse /\ RequestUsesLiveTransaction
    BY DEF Init, ExclusiveUse, RequestUsesLiveTransaction, UsesTxn, HoldsTxnMtx
  <1>4. Isolation
    BY <1>1, <1>2, <1>3, InitStateOK, InitOwnership DEF Isolation
  <1>5. FatesOK /\ CommitsSound /\ CommitsRemembered
    BY DEF Init, FatesOK, FateOK, CommitsSound, CommitsRemembered, NoTransaction
  <1>6. CommandsOK /\ FilesGrow
    BY DEF Init, CommandsOK, CommandOK, FilesGrow, NoCall, Call, Committing, HasCommitted
  <1> QED BY <1>4, <1>5, <1>6 DEF OutcomesOK

\* The inductive invariant of EndsOnce.
LEMMA OutcomesInvariant ==
  ASSUME ~TimerRaces, ~IdReuse
  PROVE  Spec => []OutcomesOK
  <1>1. Init => OutcomesOK
    BY OutcomesInit
  <1>2. OutcomesOK /\ [Next]_vars => OutcomesOK'
    BY OutcomesStep
  <1> QED BY <1>1, <1>2, PTL DEF Spec

\* The inductive invariant of what clients are told.
LEMMA RememberedInvariant ==
  ASSUME ~TimerRaces, ~IdReuse, InsertsKept
  PROVE  Spec => [](OutcomesOK /\ CommitsRemembered)
  <1>1. Init => OutcomesOK /\ CommitsRemembered
    BY OutcomesInit
  <1>2. OutcomesOK /\ CommitsRemembered /\ [Next]_vars => (OutcomesOK /\ CommitsRemembered)'
    BY OutcomesStep, RememberedInductive DEF OutcomesOK
  <1> QED BY <1>1, <1>2, PTL DEF Spec

\* A transaction ends in one way: of a COMMIT, an ABORT and a timer that
\* meet, one ends it and the others find it gone.
THEOREM EndsOnce ==
  ASSUME ~TimerRaces, ~IdReuse
  PROVE  Spec => []OneOutcome
  <1>1. OutcomesOK => OneOutcome
    <2> SUFFICES ASSUME OutcomesOK, NEW h \in Handles PROVE Cardinality(fate[h]) <= 1
      BY DEF OneOutcome
    <2>1. fate[h] = {} \/ \E way : fate[h] = {way}
      BY DEF OutcomesOK, FatesOK, FateOK
    <2>2. CASE fate[h] = {}
      <3>1. Cardinality(fate[h]) = 0
        BY <2>2, FS_EmptySet, Zenon
      <3> QED BY <3>1
    <2>3. ASSUME NEW way, fate[h] = {way} PROVE Cardinality(fate[h]) <= 1
      <3>1. Cardinality(fate[h]) = 1
        BY <2>3, FS_Singleton, Zenon
      <3> QED BY <3>1
    <2> QED BY <2>1, <2>2, <2>3
  <1> QED BY <1>1, OutcomesInvariant, PTL

\* The first look: the response depends on m_commits and on the map.
LEMMA LookupReplies ==
  ASSUME OutcomesOK, NEW w \in Workers, NEW id \in TxnIds, NEW k,
         \/ Lookup(w, "COMMIT", id, k, "ACK")
         \/ Lookup(w, "WRITE", id, k, "InvalidOperation")
         \/ Lookup(w, "ABORT", id, k, "InvalidOperation")
  PROVE  /\ RepliesTruthful'
         /\ CommitsRemembered => RepeatedCommitKnown'
  <1>1. UNCHANGED <<txnMap, txn, fate, commits>>
    BY DEF Lookup, registryVars, entryVars
  <1>2. CASE id \in commits
    <2>1. PICK h \in Handles : txn[h].id = id /\ "committed" \in fate[h]
      BY <1>2 DEF OutcomesOK, CommitsSound
    <2>2. txnMap[id] # None => txnMap[id] = h
      BY <2>1, LiveEntry DEF OutcomesOK, Isolation, UniqueIds
    <2>3. /\ reply'.id = id
          /\ \/ reply'.cmd = "COMMIT" /\ reply'.out = "ACK"
             \/ reply'.cmd # "COMMIT" /\ reply'.out = "InvalidOperation"
      BY <1>2 DEF Lookup, Return
    <2>4. fate[h] \cap {"committed"} # {}
      BY <2>1
    <2>5. RepliesTruthful'
      BY <1>1, <2>1, <2>2, <2>3, <2>4 DEF RepliesTruthful
    <2> QED BY <2>3, <2>5 DEF RepeatedCommitKnown
  <1>3. CASE id \notin commits /\ txnMap[id] = None
    <2>1. reply'.id = id /\ reply'.out = "InvalidTransactionId"
      BY <1>3 DEF Lookup, Return
    <2>2. RepliesTruthful'
      BY <2>1 DEF RepliesTruthful
    <2>3. CommitsRemembered => RepeatedCommitKnown'
      BY <1>1, <1>3, <2>1 DEF CommitsRemembered, RepeatedCommitKnown
    <2> QED BY <2>2, <2>3
  <1>4. CASE id \notin commits /\ txnMap[id] # None
    <2>1. reply' = NoReply
      BY <1>4 DEF Lookup, Begin
    <2> QED BY <2>1, HarmlessReplies DEF Harmless, NoReply
  <1> QED BY <1>2, <1>3, <1>4

\* The second look, when the transaction is gone.
LEMMA GoneReplies ==
  ASSUME OutcomesOK, NEW w \in Workers, NEW cmd, RecheckGone(w, cmd)
  PROVE  /\ CommitsRemembered => RepliesTruthful'
         /\ RepeatedCommitKnown'
  <1>1. UNCHANGED <<txnMap, txn, fate, commits>>
    BY DEF RecheckGone, registryVars, entryVars
  <1>2. /\ reply'.id = call[w].id
        /\ reply'.out = IF call[w].id \in commits
                        THEN "TransactionAlreadyCommitted" ELSE "TransactionAborted"
    BY DEF RecheckGone, Answer, Return
  <1>3. RepeatedCommitKnown'
    BY <1>2 DEF RepeatedCommitKnown
  <1>4. CASE call[w].id \in commits
    <2>1. PICK h \in Handles : txn[h].id = call[w].id /\ "committed" \in fate[h]
      BY <1>4 DEF OutcomesOK, CommitsSound
    <2>2. fate[h] \cap {"committed"} # {}
      BY <2>1
    <2> QED BY <1>1, <1>2, <1>3, <1>4, <2>1, <2>2 DEF RepliesTruthful
  <1>5. ASSUME call[w].id \notin commits, CommitsRemembered
        PROVE  RepliesTruthful'
    <2> DEFINE h == call[w].h
    <2>1. h \in Handles /\ txn[h].id = call[w].id /\ call[w].id \in TxnIds
      BY CallEntry DEF RecheckGone, HoldsTxnMtx, OutcomesOK, Isolation
    <2>2. txnMap[call[w].id] = None
      BY <1>5 DEF RecheckGone, Gone
    <2>3. \E way \in {"committed", "aborted", "timedout"} : fate[h] = {way}
      BY <2>1, <2>2, ConstantsAssumption DEF OutcomesOK, FatesOK, FateOK
    <2>4. "committed" \notin fate[h]
      BY <1>5, <2>1 DEF CommitsRemembered
    <2>5. fate[h] \cap {"aborted", "timedout"} # {}
      BY <2>3, <2>4
    <2> QED BY <1>1, <1>2, <1>5, <2>1, <2>5 DEF RepliesTruthful
  <1> QED BY <1>3, <1>4, <1>5

\* The ends of COMMIT, ABORT and READ.
LEMMA EndReplies ==
  ASSUME OutcomesOK, NEW w \in Workers,
         CommitRemove(w) \/ AbortRemove(w) \/ ReadData(w)
  PROVE  RepliesTruthful' /\ RepeatedCommitKnown'
  <1>1. CASE CommitRemove(w)
    <2> DEFINE h == call[w].h
    <2>1. pc[w] \in UsesTxn /\ pc[w] \in HasCommitted
      BY <1>1 DEF CommitRemove, UsesTxn, HoldsTxnMtx, HasCommitted
    <2>2. /\ h \in Handles /\ txn[h].id = call[w].id /\ call[w].id \in TxnIds
          /\ fate[h] = {"committed"}
      BY <2>1, FateOfUsed DEF OutcomesOK
    <2>3. txnMap'[call[w].id] = None
      BY <1>1, <2>2, RemoveMap DEF CommitRemove, OutcomesOK, Isolation
    <2>4. reply'.id = call[w].id /\ reply'.cmd = "COMMIT" /\ reply'.out = "ACK"
      BY <1>1, <2>1
      DEF CommitRemove, Answer, Return, OutcomesOK, CommandsOK, CommandOK
    <2>5. UNCHANGED <<txn, fate>>
      BY <1>1 DEF CommitRemove, entryVars
    <2>6. fate[h] \cap {"committed"} # {}
      BY <2>2
    <2>7. RepliesTruthful'
      BY <2>2, <2>3, <2>4, <2>5, <2>6 DEF RepliesTruthful
    <2> QED BY <2>4, <2>7 DEF RepeatedCommitKnown
  <1>2. CASE AbortRemove(w)
    <2>1. pc[w] \in UsesTxn /\ pc[w] \notin HasCommitted
      BY <1>2 DEF AbortRemove, UsesTxn, HasCommitted
    <2>2. call[w].h \in Handles /\ fate[call[w].h] = {}
      BY <2>1, FateOfUsed DEF OutcomesOK
    <2>3. fate'[call[w].h] = {"aborted"}
      BY <1>2, <2>2 DEF AbortRemove, OutcomesOK, Isolation, StateOK, TypeOK
    <2>4. reply'.h = call[w].h /\ reply'.cmd = "ABORT" /\ reply'.out = "ACK"
      BY <1>2 DEF AbortRemove, Answer, Return, OutcomesOK, CommandsOK, CommandOK
    <2>5. RepliesTruthful'
      BY <2>3, <2>4 DEF RepliesTruthful
    <2> QED BY <2>4, <2>5 DEF RepeatedCommitKnown
  <1>3. CASE ReadData(w)
    <2>1. /\ reply'.cmd = "READ" /\ UNCHANGED failures
          /\ \/ reply'.out = "ACK"
             \/ reply'.out = "ErrorReadingFile" /\ ~(call[w].i <= Len(disk[call[w].file]))
      BY <1>3
      DEF ReadData, Answer, Return, OutcomesOK, CommandsOK, CommandOK, diskVars
    <2>2. CASE reply'.out = "ACK"
      BY <2>1, <2>2, HarmlessReplies DEF Harmless
    <2>3. CASE reply'.out # "ACK"
      <3>1. failures' > 0
        BY <1>3, <2>1, <2>3 DEF OutcomesOK, FilesGrow, ReadData
      <3>2. RepliesTruthful'
        BY <2>1, <2>3, <3>1 DEF RepliesTruthful
      <3> QED BY <2>1, <3>2 DEF RepeatedCommitKnown
    <2> QED BY <2>2, <2>3
  <1> QED BY <1>1, <1>2, <1>3

\* A response that speaks of how a transaction ended, or that a COMMIT gets
\* at all, agrees with how it did end; provided that no timer fires while a
\* request works on the transaction, ids are not reused, and no insert into
\* m_commits is lost.
THEOREM ClientsToldTheTruth ==
  ASSUME ~TimerRaces, ~IdReuse, InsertsKept
  PROVE  Spec => []RepliesTruthful
  <1>1. Init => RepliesTruthful
    BY DEF Init, RepliesTruthful, NoReply
  <1>2. OutcomesOK /\ CommitsRemembered /\ RepliesTruthful /\ [Next]_vars => RepliesTruthful'
    <2> SUFFICES ASSUME OutcomesOK, CommitsRemembered, RepliesTruthful, [Next]_vars
                 PROVE  RepliesTruthful'
      OBVIOUS
    <2>1. CASE UNCHANGED vars
      BY <2>1
      DEF vars, registryVars, entryVars, diskVars, threadVars, RepliesTruthful
    <2> QED
      BY <2>1, ReplySteps, HarmlessReplies, LookupReplies, GoneReplies, EndReplies
      DEF OutcomesOK, Isolation
  <1> QED BY <1>1, <1>2, RememberedInvariant, PTL DEF Spec

\* Under the same proviso no repeated COMMIT of a committed transaction is
\* answered with InvalidTransactionId.
THEOREM RepeatedCommitsKnown ==
  ASSUME ~TimerRaces, ~IdReuse, InsertsKept
  PROVE  Spec => []RepeatedCommitKnown
  <1>1. Init => RepeatedCommitKnown
    BY DEF Init, RepeatedCommitKnown, NoReply
  <1>2. OutcomesOK /\ CommitsRemembered /\ RepeatedCommitKnown /\ [Next]_vars
          => RepeatedCommitKnown'
    <2> SUFFICES ASSUME OutcomesOK, CommitsRemembered, RepeatedCommitKnown, [Next]_vars
                 PROVE  RepeatedCommitKnown'
      OBVIOUS
    <2>1. CASE UNCHANGED vars
      BY <2>1 DEF vars, entryVars, threadVars, RepeatedCommitKnown
    <2> QED
      BY <2>1, ReplySteps, HarmlessReplies, LookupReplies, GoneReplies, EndReplies
      DEF OutcomesOK, Isolation
  <1> QED BY <1>1, <1>2, RememberedInvariant, PTL DEF Spec
=============================================================================
