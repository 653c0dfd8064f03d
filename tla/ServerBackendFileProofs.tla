------------------------ MODULE ServerBackendFileProofs ------------------------
(***************************************************************************)
(* The contents of the files while no write fails: commits are whole, in   *)
(* order and not interleaved, and m_file_size is the size of the file.     *)
(***************************************************************************)
EXTENDS ServerBackendOutcomeProofs

Others(w) == \A v \in Workers \ {w} : pc'[v] = pc[v] /\ call'[v] = call[v]

InCommit == Committing \cup HasCommitted

-----------------------------------------------------------------------------
(* The writes a transaction has collected.                                 *)

\* Past CommitVerify, COMMIT keeps to its transaction and its writes.
LEMMA CommitKeeps ==
  ASSUME StateOK, NEW w \in Workers, CommitStepOf(w), ~CommitVerify(w)
  PROVE  /\ Others(w)
         /\ UNCHANGED <<txn, buffers, maxSeq>>
         /\ pc'[w] \in InCommit => pc[w] \in InCommit /\ call'[w].h = call[w].h
  <1> USE DEF StateOK, TypeOK, Goto, Answer, Return, Others
  <1>1. Others(w)
    BY DEF CommitStepOf, CommitOpen, CommitWrite, CommitRollback, CommitTruncate,
           CommitInsert, CommitLog, CommitSize, CommitRemove
  <1>2. UNCHANGED <<txn, buffers, maxSeq>>
    BY DEF CommitStepOf, CommitOpen, CommitWrite, CommitRollback, CommitTruncate,
           CommitInsert, CommitLog, CommitSize, CommitRemove, entryVars, bufferVars
  <1>3. \/ pc'[w] \in {"idle", "CommitRollback", "CommitTruncate"}
        \/ pc[w] \in InCommit /\ UNCHANGED call
        \/ pc[w] \in InCommit /\ \E n : call' = [call EXCEPT ![w].i = n]
    BY DEF CommitStepOf, CommitOpen, CommitWrite, CommitRollback, CommitTruncate,
           CommitInsert, CommitLog, CommitSize, CommitRemove, InCommit, Committing,
           HasCommitted
  <1>4. (\E n : call' = [call EXCEPT ![w].i = n]) => call'[w].h = call[w].h
    BY DEF Calls
  <1> QED BY <1>1, <1>2, <1>3, <1>4 DEF InCommit, Committing, HasCommitted

\* A step that collects nothing.
LEMMA BuffersKept ==
  ASSUME StateOK, BuffersOK, UNCHANGED <<buffers, maxSeq>>,
         \A v \in Workers : pc'[v] \in InCommit =>
           pc[v] \in InCommit /\ call'[v].h = call[v].h
  PROVE  BuffersOK'
  BY DEF BuffersOK, InCommit

\* WRITE raises max_seq_num to the number it received.
LEMMA BuffersWrite ==
  ASSUME Isolation, BuffersOK, NEW w \in Workers, WriteBuffer(w)
  PROVE  BuffersOK'
  <1> DEFINE h == call[w].h
             k == call[w].k
  <1>1. pc[w] \in UsesTxn /\ h \in Handles /\ k \in SeqNums /\ SeqNums \subseteq Int
    BY CallEntry, ConstantsAssumption
    DEF WriteBuffer, UsesTxn, HoldsTxnMtx, Isolation, StateOK, CallOK
  <1>2. pc'[w] \notin InCommit /\ Others(w)
    BY DEF WriteBuffer, Answer, Return, InCommit, Committing, HasCommitted, Others,
           Isolation, StateOK, TypeOK
  <1>3. \A g \in Handles \ {h} : buffers'[g] = buffers[g] /\ maxSeq'[g] = maxSeq[g]
    BY <1>1 DEF WriteBuffer, Isolation, StateOK, TypeOK
  <1>4. \/ buffers'[h] = buffers[h] /\ maxSeq'[h] = maxSeq[h]
        \/ /\ buffers'[h] = buffers[h] \cup {k}
           /\ maxSeq'[h] = IF k > maxSeq[h] THEN k ELSE maxSeq[h]
    BY <1>1 DEF WriteBuffer, Isolation, StateOK, TypeOK
  <1>5. maxSeq[h] \in Int /\ buffers[h] \subseteq Int
    BY <1>1 DEF Isolation, StateOK, TypeOK
  <1>6. maxSeq'[h] >= 1 /\ \A j \in buffers'[h] : j <= maxSeq'[h]
    <2>1. maxSeq[h] >= 1 /\ \A j \in buffers[h] : j <= maxSeq[h]
      BY <1>1 DEF BuffersOK
    <2>2. k \in Int
      BY <1>1
    <2> HIDE DEF h, k
    <2> QED BY <1>4, <1>5, <2>1, <2>2
  <1>7. ASSUME NEW v \in Workers, pc'[v] \in InCommit
        PROVE  pc[v] \in InCommit /\ call'[v] = call[v] /\ call[v].h \in Handles \ {h}
    <2>1. v # w /\ pc[v] \in InCommit /\ call'[v] = call[v]
      BY <1>2, <1>7 DEF Others
    <2>2. pc[v] \in UsesTxn
      BY <2>1 DEF InCommit, Committing, HasCommitted, UsesTxn, HoldsTxnMtx
    <2> QED BY <1>1, <2>1, <2>2, CallEntry DEF Isolation, ExclusiveUse
  <1> QED BY <1>3, <1>6, <1>7 DEF BuffersOK, InCommit

\* COMMIT goes on only if no number up to its own is missing.
LEMMA BuffersVerify ==
  ASSUME Isolation, CommandsOK, BuffersOK, NEW w \in Workers, CommitVerify(w)
  PROVE  BuffersOK'
  <1> DEFINE h == call[w].h
             k == call[w].k
  <1>1. pc[w] \in UsesTxn /\ h \in Handles /\ k \in SeqNums /\ SeqNums \subseteq Int
    BY CallEntry, ConstantsAssumption
    DEF CommitVerify, UsesTxn, HoldsTxnMtx, Isolation, CommandsOK, CommandOK
  <1>2. Others(w) /\ UNCHANGED buffers
    BY DEF CommitVerify, Goto, Answer, Return, Others, Isolation, StateOK, TypeOK
  <1>3. maxSeq[h] \in Int /\ \A g \in Handles \ {h} : maxSeq'[g] = maxSeq[g]
    BY <1>1 DEF CommitVerify, Isolation, StateOK, TypeOK
  <1>4. maxSeq'[h] = IF k < maxSeq[h] THEN maxSeq[h] ELSE k
    BY <1>1 DEF CommitVerify, Isolation, StateOK, TypeOK
  <1>5. maxSeq'[h] >= 1 /\ \A j \in buffers'[h] : j <= maxSeq'[h]
    <2>1. buffers[h] \subseteq Int
      BY <1>1 DEF Isolation, StateOK, TypeOK
    <2>2. maxSeq[h] >= 1 /\ \A j \in buffers[h] : j <= maxSeq[h]
      BY <1>1 DEF BuffersOK
    <2>3. k \in Int /\ buffers'[h] = buffers[h]
      BY <1>1, <1>2
    <2> HIDE DEF h, k
    <2> QED BY <1>3, <1>4, <2>1, <2>2, <2>3
  <1>6. pc'[w] \in InCommit => maxSeq'[h] = k /\ 1..k \subseteq buffers[h] /\ call'[w] = call[w]
    <2>1. pc'[w] \in InCommit => /\ ~(k < maxSeq[h])
                                 /\ \A j \in 1..k : j \in buffers[h]
                                 /\ call'[w] = call[w]
      BY DEF CommitVerify, Goto, Answer, Return, InCommit, Committing, HasCommitted,
             Isolation, StateOK, TypeOK
    <2> QED BY <1>4, <2>1
  <1>7. ASSUME NEW v \in Workers \ {w}, pc'[v] \in InCommit
        PROVE  pc[v] \in InCommit /\ call'[v] = call[v] /\ call[v].h \in Handles \ {h}
    <2>1. pc[v] \in InCommit /\ call'[v] = call[v]
      BY <1>2, <1>7 DEF Others
    <2>2. pc[v] \in UsesTxn
      BY <2>1 DEF InCommit, Committing, HasCommitted, UsesTxn, HoldsTxnMtx
    <2> QED BY <1>1, <2>1, <2>2, CallEntry DEF Isolation, ExclusiveUse
  <1>8. \A g \in Handles : maxSeq'[g] >= 1 /\ \A j \in buffers'[g] : j <= maxSeq'[g]
    BY <1>2, <1>3, <1>5 DEF BuffersOK
  <1>9. ASSUME NEW v \in Workers, pc'[v] \in InCommit
        PROVE  /\ maxSeq'[call'[v].h] \in SeqNums
               /\ 1..maxSeq'[call'[v].h] \subseteq buffers'[call'[v].h]
    <2>1. CASE v = w
      BY <1>1, <1>2, <1>6, <1>9, <2>1
    <2>2. CASE v # w
      BY <1>2, <1>3, <1>7, <1>9, <2>2 DEF BuffersOK, InCommit
    <2> QED BY <2>1, <2>2
  <1> QED BY <1>8, <1>9 DEF BuffersOK, InCommit

\* max_seq_num and the buffers stay together in every step.
LEMMA BuffersInductive ==
  ASSUME Isolation, CommandsOK, BuffersOK, [Next]_vars
  PROVE  BuffersOK'
  <1>1. CASE Quiet
    BY <1>1, BuffersKept DEF Quiet, InCommit, Isolation
  <1>2. ASSUME NEW w \in Workers, CommitStepOf(w), ~CommitVerify(w) PROVE BuffersOK'
    BY <1>2, BuffersKept, CommitKeeps DEF Others, Isolation
  <1>3. ASSUME NEW w \in Workers,
               \/ \E f \in Files, id \in TxnIds, h \in Handles : NewTxnCreate(w, f, id, h)
               \/ AbortRemove(w)
        PROVE  BuffersOK'
    <2>1. UNCHANGED <<buffers, maxSeq>> /\ Others(w) /\ pc'[w] \notin InCommit
      BY <1>3
      DEF NewTxnCreate, AbortRemove, Begin, Answer, Return, bufferVars, Others,
          InCommit, Committing, HasCommitted, Isolation, StateOK, TypeOK
    <2> QED BY <2>1, BuffersKept DEF Others, Isolation
  <1>4. ASSUME NEW h \in Handles, TimerFire(h) PROVE BuffersOK'
    BY <1>4, BuffersKept DEF TimerFire, bufferVars, Isolation
  <1> QED
    BY <1>1, <1>2, <1>3, <1>4, Steps, BuffersWrite, BuffersVerify
    DEF CommitStepOf, Isolation

-----------------------------------------------------------------------------
(* The contents of the files.                                              *)

\* What was committed stays so.
LEMMA EndsWithKept ==
  ASSUME StateOK, UnitsOK, UNCHANGED disk,
         \A g \in Handles : "committed" \in fate[g] => "committed" \in fate'[g],
         NEW f \in Files, NEW h, NEW m \in Int, m >= 0, EndsWith(f, h, m)
  PROVE  EndsWith(f, h, m)'
  <1>1. Len(disk[f]) \in Nat
    BY DEF StateOK, TypeOK
  <1>2. ASSUME NEW j \in 1..(Len(disk[f]) - m) PROVE disk[f][j][1] \in Handles
    BY <1>1 DEF UnitsOK
  <1> QED BY <1>1, <1>2 DEF EndsWith

\* A step that writes no file, lets no COMMIT begin or end its writing, and
\* leaves the transactions that are being written or have committed alone.
LEMMA FilesKept ==
  ASSUME StateOK, FatesOK, FilesOK, UNCHANGED disk,
         \A h \in Handles : /\ txn[h].id # None => txn'[h] = txn[h]
                            /\ buffers[h] \subseteq buffers'[h]
                            /\ "committed" \in fate'[h] <=> "committed" \in fate[h]
                            /\ "committed" \in fate[h] => buffers'[h] = buffers[h],
         \A v \in Workers : /\ pc'[v] \notin {"CommitRollback", "CommitTruncate"}
                            /\ IsWriting(v)' <=> IsWriting(v)
                            /\ IsWriting(v) => /\ pc'[v] = pc[v] /\ call'[v] = call[v]
                                               /\ maxSeq'[call[v].h] = maxSeq[call[v].h]
  PROVE  FilesOK'
  <1>1. ASSUME NEW f \in Files, NEW j \in 1..Len(disk[f])
        PROVE  LET h == disk[f][j][1]
               IN  /\ h \in Handles /\ txn[h].id # None /\ txn[h].file = f
                   /\ disk[f][j][2] \in buffers[h]
    BY DEF FilesOK, UnitsOK
  <1>2. UnitsOK'
    BY <1>1 DEF UnitsOK
  <1>3. ASSUME NEW v \in Workers, IsWriting(v)
        PROVE  /\ call[v].h \in Handles /\ txn'[call[v].h] = txn[call[v].h]
               /\ txn[call[v].h].file \in Files
    <2>1. pc[v] \in UsesTxn
      BY <1>3 DEF IsWriting, UsesTxn, HoldsTxnMtx
    <2> QED BY <2>1, CallEntry, ConstantsAssumption
  <1>4. ASSUME NEW v \in Workers, IsWriting(v)' PROVE PartWritten(v)'
    <2>1. /\ IsWriting(v) /\ PartWritten(v)
          /\ pc'[v] = pc[v] /\ call'[v] = call[v]
          /\ maxSeq'[call[v].h] = maxSeq[call[v].h]
      BY <1>4 DEF FilesOK, WritersOK
    <2>2. txn'[call[v].h] = txn[call[v].h] /\ txn[call[v].h].file \in Files
      BY <1>3, <2>1
    <2>3. call[v].i \in Int
      BY DEF StateOK, TypeOK, Calls
    <2> QED BY <2>1, <2>2, <2>3, EndsWithKept DEF PartWritten, FilesOK
  <1>5. ASSUME NEW f \in Files
        PROVE  \/ \E v \in Workers : IsWriting(v)' /\ txn'[call'[v].h].file = f
               \/ \A j \in 1..Len(disk'[f]) : "committed" \in fate'[disk'[f][j][1]]
    <2>1. CASE \E v \in Workers : IsWriting(v) /\ txn[call[v].h].file = f
      BY <1>3, <2>1
    <2>2. CASE \A j \in 1..Len(disk[f]) : "committed" \in fate[disk[f][j][1]]
      BY <1>1, <2>2
    <2> QED BY <2>1, <2>2 DEF FilesOK, WritersOK
  <1>6. WritersOK'
    BY <1>4, <1>5 DEF WritersOK
  <1>7. CommitsWhole'
    <2>1. \A h \in Handles : "committed" \in fate[h] => txn[h].id # None
      BY DEF FatesOK, FateOK
    <2>2. \A f, u : HasUnit(f, u)' <=> HasUnit(f, u)
      BY DEF HasUnit
    <2>3. ASSUME NEW h \in Handles, "committed" \in fate'[h], NEW k \in buffers'[h], k > 0
          PROVE  HasUnit(txn[h].file, <<h, k>>) /\ txn'[h] = txn[h]
      BY <2>1, <2>3 DEF FilesOK, CommitsWhole
    <2> QED BY <2>2, <2>3 DEF CommitsWhole
  <1>8. NotInterleaved'
    BY DEF FilesOK, NotInterleaved
  <1> QED BY <1>2, <1>6, <1>7, <1>8 DEF FilesOK

\* Threads that are writing use the transaction, and no two the same file.
LEMMA WriterFacts ==
  ASSUME Isolation, FatesOK, NEW w \in Workers, IsWriting(w)
  PROVE  /\ pc[w] \in UsesTxn /\ call[w].h \in Handles /\ call[w].i \in Int
         /\ txn[call[w].h].id # None /\ txn[call[w].h].file \in Files
         /\ fate[call[w].h] = {}
         /\ \A v \in Workers \ {w} :
              IsWriting(v) => txn[call[v].h].file # txn[call[w].h].file
  <1>1. pc[w] \in UsesTxn /\ pc[w] \notin HasCommitted
    BY DEF IsWriting, UsesTxn, HoldsTxnMtx, HasCommitted
  <1>2. /\ call[w].h \in Handles /\ txn[call[w].h].id # None
        /\ fate[call[w].h] = {}
    BY <1>1, FateOfUsed
  <1>3. txn[call[w].h].file \in Files
    BY <1>1, CallEntry DEF Isolation
  <1>4. OneWriterPerFile
    BY LiveGivesOneWriter DEF Isolation
  <1>5. call[w].i \in Int
    BY DEF Isolation, StateOK, TypeOK, Calls
  <1> QED BY <1>1, <1>2, <1>3, <1>4, <1>5 DEF OneWriterPerFile, IsWriting, HoldsFileMtx

\* NEW_TXN and the ends of transactions write nothing.
LEMMA FilesCreate ==
  ASSUME Isolation, FatesOK, FilesOK, NEW w \in Workers, NEW f \in Files,
         NEW id \in TxnIds, NEW g \in Handles, NewTxnCreate(w, f, id, g)
  PROVE  FilesOK'
  <1>1. /\ UNCHANGED <<disk, buffers, maxSeq, fate>>
        /\ \A h \in Handles : txn[h].id # None => txn'[h] = txn[h]
    BY DEF NewTxnCreate, AddNewTransaction, bufferVars, diskVars, Isolation, StateOK,
           TypeOK
  <1>2. pc[w] = "idle" /\ pc'[w] = "NewTxnLog" /\ Others(w)
    BY DEF NewTxnCreate, Begin, Others, Isolation, StateOK, TypeOK
  <1>3. \A v \in Workers : /\ pc'[v] \notin {"CommitRollback", "CommitTruncate"}
                           /\ IsWriting(v)' <=> IsWriting(v)
                           /\ IsWriting(v) => pc'[v] = pc[v] /\ call'[v] = call[v]
    BY <1>2 DEF Others, IsWriting, FilesOK, WritersOK
  <1> QED BY <1>1, <1>3, FilesKept DEF Isolation

\* The end of COMMIT and ABORT leaves the file alone.
LEMMA FilesEnd ==
  ASSUME Isolation, FatesOK, FilesOK, NEW w \in Workers,
         \/ CommitLog(w) \/ CommitSize(w) \/ CommitRemove(w) \/ AbortRemove(w)
  PROVE  FilesOK'
  <1>1. UNCHANGED <<disk, txn, buffers, maxSeq>>
    BY DEF CommitLog, CommitSize, CommitRemove, AbortRemove, entryVars, bufferVars,
           diskVars
  <1>2. \A h \in Handles : "committed" \in fate'[h] <=> "committed" \in fate[h]
    BY DEF CommitLog, CommitSize, CommitRemove, AbortRemove, entryVars, Isolation,
           StateOK, TypeOK
  <1>3. /\ pc[w] \in HasCommitted \cup {"AbortRemove"}
        /\ pc'[w] \in HasCommitted \cup {"idle"}
        /\ Others(w)
    BY DEF CommitLog, CommitSize, CommitRemove, AbortRemove, HasCommitted, Others,
           Goto, Answer, Return, Isolation, StateOK, TypeOK
  <1>4. \A v \in Workers : /\ pc'[v] \notin {"CommitRollback", "CommitTruncate"}
                           /\ IsWriting(v)' <=> IsWriting(v)
                           /\ IsWriting(v) => pc'[v] = pc[v] /\ call'[v] = call[v]
    BY <1>3 DEF Others, IsWriting, HasCommitted, FilesOK, WritersOK
  <1> QED BY <1>1, <1>2, <1>4, FilesKept DEF Isolation

\* A timer leaves files alone.
LEMMA FilesTimer ==
  ASSUME Isolation, FatesOK, FilesOK, NEW h \in Handles, TimerFire(h)
  PROVE  FilesOK'
  <1>1. UNCHANGED <<disk, txn, buffers, maxSeq, pc, call>>
    BY DEF TimerFire, bufferVars
  <1>2. \A g \in Handles : "committed" \in fate'[g] <=> "committed" \in fate[g]
    BY DEF TimerFire, Isolation, StateOK, TypeOK
  <1>3. \A v \in Workers : /\ pc'[v] \notin {"CommitRollback", "CommitTruncate"}
                           /\ IsWriting(v)' <=> IsWriting(v)
    BY <1>1 DEF IsWriting, FilesOK, WritersOK
  <1> QED BY <1>1, <1>2, <1>3, FilesKept DEF Isolation

\* So do the steps that change no transaction.
LEMMA FilesQuiet ==
  ASSUME Isolation, FatesOK, FilesOK, Quiet
  PROVE  FilesOK'
  <1>1. UNCHANGED <<disk, txn, buffers, maxSeq, fate>>
    BY DEF Quiet
  <1>2. \A v \in Workers : /\ pc'[v] \notin {"CommitRollback", "CommitTruncate"}
                           /\ IsWriting(v)' <=> IsWriting(v)
                           /\ IsWriting(v) => pc'[v] = pc[v] /\ call'[v] = call[v]
    BY DEF Quiet, IsWriting, Committing, FilesOK, WritersOK
  <1> QED BY <1>1, <1>2, FilesKept DEF Isolation

\* WRITE and the check of COMMIT change what only their own transaction has.
LEMMA FilesCollect ==
  ASSUME Isolation, FatesOK, FilesOK, NEW w \in Workers, WriteBuffer(w) \/ CommitVerify(w)
  PROVE  FilesOK'
  <1> DEFINE h == call[w].h
  <1>1. pc[w] \in UsesTxn /\ pc[w] \notin HasCommitted
    BY DEF WriteBuffer, CommitVerify, UsesTxn, HoldsTxnMtx, HasCommitted
  <1>2. h \in Handles /\ fate[h] = {}
    BY <1>1, FateOfUsed
  <1>3. UNCHANGED <<disk, txn, fate>>
    BY DEF WriteBuffer, CommitVerify, diskVars
  <1>4. /\ \A g \in Handles \ {h} : buffers'[g] = buffers[g] /\ maxSeq'[g] = maxSeq[g]
        /\ buffers[h] \subseteq buffers'[h]
    BY <1>2 DEF WriteBuffer, CommitVerify, Isolation, StateOK, TypeOK
  <1>5. ~IsWriting(w) /\ pc'[w] \in {"idle", "CommitOpen"} /\ Others(w)
    BY DEF WriteBuffer, CommitVerify, IsWriting, Others, Goto, Answer, Return,
           Isolation, StateOK, TypeOK
  <1>6. ASSUME NEW v \in Workers, IsWriting(v)
        PROVE  maxSeq'[call[v].h] = maxSeq[call[v].h]
    <2>1. pc[v] \in UsesTxn /\ call[v].h \in Handles /\ v # w
      BY <1>5, <1>6, WriterFacts
    <2>2. call[v].h # h
      BY <1>1, <2>1 DEF Isolation, ExclusiveUse
    <2> QED BY <1>4, <2>1, <2>2
  <1>7. \A v \in Workers : /\ pc'[v] \notin {"CommitRollback", "CommitTruncate"}
                           /\ IsWriting(v)' <=> IsWriting(v)
                           /\ IsWriting(v) => pc'[v] = pc[v] /\ call'[v] = call[v]
    BY <1>5 DEF Others, IsWriting, FilesOK, WritersOK
  <1>8. \A g \in Handles : /\ buffers[g] \subseteq buffers'[g]
                           /\ "committed" \in fate[g] => buffers'[g] = buffers[g]
    BY <1>2, <1>4
  <1> QED BY <1>3, <1>6, <1>7, <1>8, FilesKept DEF Isolation

\* A writer whose file is not touched stays where it is in it.
LEMMA PartKept ==
  ASSUME StateOK, UnitsOK, NEW v \in Workers, PartWritten(v),
         txn[call[v].h].file \in Files, UNCHANGED <<txn, maxSeq>>,
         pc'[v] = pc[v], call'[v] = call[v],
         disk'[txn[call[v].h].file] = disk[txn[call[v].h].file],
         \A g \in Handles : "committed" \in fate[g] => "committed" \in fate'[g]
  PROVE  PartWritten(v)'
  <1> DEFINE f == txn[call[v].h].file
             m == call[v].i - 1
  <1>1. Len(disk[f]) \in Nat /\ m \in Int
    BY DEF StateOK, TypeOK, Calls
  <1>2. m >= 0 /\ EndsWith(f, call[v].h, m)
    BY DEF PartWritten
  <1>3. ASSUME NEW j \in 1..(Len(disk[f]) - m)
        PROVE  disk[f][j][1] \in Handles /\ "committed" \in fate[disk[f][j][1]]
    <2>1. j \in 1..Len(disk[f])
      BY <1>1, <1>2
    <2> QED BY <1>2, <2>1 DEF UnitsOK, EndsWith
  <1>4. EndsWith(f, call[v].h, m)'
    BY <1>2, <1>3 DEF EndsWith
  <1> QED BY <1>4 DEF PartWritten

\* COMMIT opens a file in which all units are of committed transactions.
LEMMA FilesOpen ==
  ASSUME Isolation, Isolation', FatesOK, BuffersOK, FilesOK, NEW w \in Workers,
         CommitOpen(w)
  PROVE  FilesOK'
  <1> DEFINE h == call[w].h
             f == txn[h].file
  <1>1. UNCHANGED <<disk, txn, buffers, maxSeq, fate>> /\ pc[w] = "CommitOpen"
    BY DEF CommitOpen, entryVars, bufferVars
  <1>2. h \in Handles /\ f \in Files /\ ~IsWriting(w) /\ Others(w)
    <2>1. h \in Handles /\ f \in Files
      BY <1>1, CallEntry DEF HoldsTxnMtx, Isolation
    <2> QED BY <1>1, <2>1 DEF CommitOpen, Others, IsWriting, Answer, Return, Isolation, StateOK, TypeOK
  <1>3. CASE Answer(w, "ErrorOpeningFile")
    <2>1. pc'[w] = "idle"
      BY <1>3 DEF Answer, Return, Isolation, StateOK, TypeOK
    <2>2. \A v \in Workers : /\ pc'[v] \notin {"CommitRollback", "CommitTruncate"}
                             /\ IsWriting(v)' <=> IsWriting(v)
                             /\ IsWriting(v) => pc'[v] = pc[v] /\ call'[v] = call[v]
      BY <1>2, <2>1 DEF Others, IsWriting, FilesOK, WritersOK
    <2> QED BY <1>1, <2>2, FilesKept DEF Isolation
  <1>4. CASE pc' = [pc EXCEPT ![w] = "CommitWrite"] /\ call' = [call EXCEPT ![w].i = 1]
    <2>1. pc'[w] = "CommitWrite" /\ call'[w].h = h /\ call'[w].i = 1
      BY <1>4 DEF Isolation, StateOK, TypeOK, Calls
    <2>2. ASSUME NEW v \in Workers, IsWriting(v), txn[call[v].h].file = f PROVE FALSE
      <3>1. v # w /\ pc'[v] = pc[v] /\ call'[v] = call[v]
        BY <1>2, <2>2 DEF Others
      <3>2. pc[v] \in HoldsFileMtx /\ pc[v] \in UsesTxn /\ pc[w] \in UsesTxn
        BY <1>1, <2>2 DEF IsWriting, HoldsFileMtx, UsesTxn, HoldsTxnMtx
      <3>3. txn[call[v].h].attrs = fileMap[f] /\ txn[h].attrs = fileMap[f]
        BY <2>2, <3>2, CallEntry, ConstantsAssumption
        DEF Isolation, RequestUsesLiveTransaction, FileAttributesShared
      <3>4. txn[h].attrs \in Handles /\ fileMtx[txn[h].attrs] = None
        BY <1>2, <3>2, CallEntry DEF CommitOpen, Isolation
      <3>5. fileMtx[txn[h].attrs] = v
        BY <3>2, <3>3, <3>4 DEF Isolation, MutexOwnership, Owns
      <3> QED BY <3>4, <3>5, ConstantsAssumption
    <2>3. \A j \in 1..Len(disk[f]) : "committed" \in fate[disk[f][j][1]]
      BY <1>2, <2>2 DEF FilesOK, WritersOK
    <2>4. Len(disk[f]) \in Nat /\ maxSeq[h] >= 1 /\ maxSeq[h] \in Int
      BY <1>2 DEF Isolation, StateOK, TypeOK, BuffersOK
    <2>5. ASSUME NEW e \in Files, e = f PROVE EndsWith(e, call[w].h, 0)'
      <3>1. Len(disk'[e]) - 0 = Len(disk[e]) /\ Len(disk[e]) >= 0
        BY <1>1, <2>4, <2>5
      <3>2. \A j \in 1..0 : FALSE
        OBVIOUS
      <3> QED BY <1>1, <2>3, <2>5, <3>1, <3>2 DEF EndsWith
    <2>6. PartWritten(w)'
      <3>1. txn'[call'[w].h].file = f /\ call'[w].i - 1 = 0
        BY <1>1, <2>1
      <3>2. maxSeq'[call'[w].h] = maxSeq[h]
        BY <1>1, <2>1
      <3> QED BY <1>2, <2>1, <2>4, <2>5, <3>1, <3>2 DEF PartWritten
    <2>7. ASSUME NEW v \in Workers \ {w}, IsWriting(v)' PROVE PartWritten(v)'
      <3>1. IsWriting(v) /\ pc'[v] = pc[v] /\ call'[v] = call[v]
        BY <1>2, <2>7 DEF Others, IsWriting
      <3>2. PartWritten(v) /\ txn[call[v].h].file \in Files
        BY <3>1, WriterFacts DEF FilesOK, WritersOK
      <3> QED BY <1>1, <3>1, <3>2, PartKept DEF Isolation, FilesOK
    <2>8. \A v \in Workers : pc'[v] \notin {"CommitRollback", "CommitTruncate"}
      BY <1>2, <2>1 DEF Others, FilesOK, WritersOK
    <2>9. ASSUME NEW e \in Files
          PROVE  \/ \E v \in Workers : IsWriting(v)' /\ txn'[call'[v].h].file = e
                 \/ \A j \in 1..Len(disk'[e]) : "committed" \in fate'[disk'[e][j][1]]
      BY <1>1, <1>2 DEF Others, IsWriting, FilesOK, WritersOK
    <2>10. WritersOK'
      BY <2>6, <2>7, <2>8, <2>9 DEF WritersOK
    <2>11. UnitsOK' /\ NotInterleaved'
      BY <1>1 DEF FilesOK, UnitsOK, NotInterleaved
    <2>12. CommitsWhole'
      <3>1. \A e, u : HasUnit(e, u)' <=> HasUnit(e, u)
        BY <1>1 DEF HasUnit
      <3> QED BY <1>1, <3>1 DEF FilesOK, CommitsWhole
    <2> QED BY <2>10, <2>11, <2>12 DEF FilesOK
  <1> QED BY <1>3, <1>4 DEF CommitOpen

\* Places among the last m of l places.
LEMMA LastPlaces ==
  ASSUME NEW l \in Int, NEW m \in Int, l - m >= 0
  PROVE  /\ \A k \in 1..m : (l - m) + k \in 1..l
         /\ \A j \in 1..l : j > l - m => /\ j - (l - m) \in 1..m
                                        /\ (l - m) + (j - (l - m)) = j
  OBVIOUS

\* A unit is one of the last ones or of an earlier commit.
LEMMA UnitOf ==
  ASSUME StateOK, NEW f \in Files, NEW h, NEW m \in Int, m >= 0, EndsWith(f, h, m),
         NEW j \in 1..Len(disk[f])
  PROVE  "committed" \in fate[disk[f][j][1]] \/ disk[f][j][1] = h
  <1> DEFINE l == Len(disk[f])
             n == l - m
  <1>1. l \in Nat /\ j \in 1..l
    BY DEF StateOK, TypeOK
  <1>2. /\ n >= 0
        /\ \A k \in 1..m : disk[f][n + k] = <<h, k>>
        /\ \A k \in 1..n : "committed" \in fate[disk[f][k][1]]
    BY DEF EndsWith
  <1>3. j \in 1..n \/ \E k \in 1..m : n + k = j
    <2> HIDE DEF l
    <2>1. j > n => j - n \in 1..m /\ n + (j - n) = j
      BY <1>1, <1>2, LastPlaces
    <2>2. j > n \/ j \in 1..n
      BY <1>1, <1>2
    <2> QED BY <2>1, <2>2
  <1>4. ASSUME NEW k \in 1..m, n + k = j PROVE disk[f][j][1] = h
    <2>1. disk[f][j] = <<h, k>>
      BY <1>2, <1>4
    <2> QED BY <2>1
  <1> QED BY <1>2, <1>3, <1>4

\* When COMMIT has written all its units, it is committed.
LEMMA FilesInsert ==
  ASSUME Isolation, FatesOK, BuffersOK, FilesOK, NEW w \in Workers, CommitInsert(w)
  PROVE  FilesOK'
  <1> DEFINE h == call[w].h
             f == txn[h].file
             m == maxSeq[h]
             n == Len(disk[f]) - m
  <1>1. UNCHANGED <<disk, txn, buffers, maxSeq, call>> /\ IsWriting(w)
    BY DEF CommitInsert, Goto, bufferVars, diskVars, IsWriting
  <1>2. pc[w] = "CommitInsert" /\ pc'[w] = "CommitLog" /\ Others(w)
    BY DEF CommitInsert, Goto, Others, Isolation, StateOK, TypeOK
  <1>3. h \in Handles /\ f \in Files /\ call[w].i \in Int /\ txn[h].id # None
    BY <1>1, WriterFacts
  <1>4. \A g \in Handles : fate'[g] = IF g = h THEN fate[g] \cup {"committed"} ELSE fate[g]
    BY <1>3 DEF CommitInsert, Isolation, StateOK, TypeOK
  <1>5. Len(disk[f]) \in Nat /\ m \in Int /\ m >= 1
    BY <1>3 DEF Isolation, StateOK, TypeOK, BuffersOK
  <1>6. EndsWith(f, h, m)
    <2>1. PartWritten(w)
      BY <1>1 DEF FilesOK, WritersOK
    <2> QED BY <1>2, <1>3, <1>5, <2>1 DEF PartWritten
  <1>7. /\ \A k \in 1..m : n + k \in 1..Len(disk[f])
        /\ \A j \in 1..Len(disk[f]) : j > n => j - n \in 1..m /\ n + (j - n) = j
    <2> DEFINE l == Len(disk[f])
    <2>1. l \in Int /\ m \in Int /\ l - m >= 0
      <3>1. Len(disk[f]) - m >= 0
        BY <1>6 DEF EndsWith
      <3> QED BY <1>5, <3>1
    <2>2. /\ \A k \in 1..m : (l - m) + k \in 1..l
          /\ \A j \in 1..l : j > l - m => /\ j - (l - m) \in 1..m
                                         /\ (l - m) + (j - (l - m)) = j
      <3> HIDE DEF l, m
      <3> QED BY <2>1, LastPlaces
    <2> QED BY <2>2
  <1>8. ASSUME NEW j \in 1..Len(disk[f]) PROVE "committed" \in fate'[disk[f][j][1]]
    <2>1. disk[f][j][1] \in Handles
      BY <1>3 DEF FilesOK, UnitsOK
    <2>2. CASE j \in 1..n
      BY <1>4, <1>6, <2>1, <2>2 DEF EndsWith
    <2>3. CASE j > n
      <3> DEFINE i == j - n
      <3>1. i \in 1..m /\ n + i = j
        BY <1>7, <2>3
      <3>2. \A a \in 1..m : disk[f][n + a] = <<h, a>>
        BY <1>6 DEF EndsWith
      <3>3. disk[f][j] = <<h, i>>
        BY <3>1, <3>2
      <3>4. disk[f][j][1] = h
        BY <3>3
      <3> QED BY <1>3, <1>4, <3>4
    <2> QED BY <1>5, <2>2, <2>3
  <1>9. ASSUME NEW k \in buffers[h], k > 0 PROVE HasUnit(f, <<h, k>>)
    <2>1. k \in 1..m
      <3>1. k \in Int
        BY <1>3, ConstantsAssumption DEF Isolation, StateOK, TypeOK
      <3>2. k <= m
        BY <1>3 DEF BuffersOK
      <3> QED BY <1>5, <1>9, <3>1, <3>2
    <2>2. n >= 0 /\ \A a \in 1..m : disk[f][n + a] = <<h, a>>
      BY <1>6 DEF EndsWith
    <2>3. n + k \in 1..Len(disk[f])
      BY <1>7, <2>1
    <2> QED BY <2>1, <2>2, <2>3 DEF HasUnit
  <1>10. CommitsWhole'
    <2>1. \A e, u : HasUnit(e, u)' <=> HasUnit(e, u)
      BY <1>1 DEF HasUnit
    <2>2. ASSUME NEW g \in Handles, "committed" \in fate'[g], NEW k \in buffers[g], k > 0
          PROVE  HasUnit(txn[g].file, <<g, k>>)
      BY <1>4, <1>9, <2>2 DEF FilesOK, CommitsWhole
    <2> QED BY <1>1, <2>1, <2>2 DEF CommitsWhole
  <1>11. WritersOK'
    <2>1. \A v \in Workers : pc'[v] \notin {"CommitRollback", "CommitTruncate"}
      BY <1>2 DEF Others, FilesOK, WritersOK
    <2>2. ASSUME NEW v \in Workers, IsWriting(v)' PROVE PartWritten(v)'
      <3>1. IsWriting(v) /\ pc'[v] = pc[v] /\ call'[v] = call[v]
        BY <1>2, <2>2 DEF Others, IsWriting
      <3>2. PartWritten(v) /\ txn[call[v].h].file \in Files
        BY <3>1, WriterFacts DEF FilesOK, WritersOK
      <3> QED BY <1>1, <1>4, <3>1, <3>2, PartKept DEF Isolation, FilesOK
    <2>3. ASSUME NEW e \in Files
          PROVE  \/ \E v \in Workers : IsWriting(v)' /\ txn'[call'[v].h].file = e
                 \/ \A j \in 1..Len(disk'[e]) : "committed" \in fate'[disk'[e][j][1]]
      <3>1. CASE e = f
        BY <1>1, <1>8, <3>1
      <3>2. CASE e # f /\ \E v \in Workers : IsWriting(v) /\ txn[call[v].h].file = e
        BY <1>1, <1>2, <3>2 DEF Others, IsWriting
      <3>3. CASE \A j \in 1..Len(disk[e]) : "committed" \in fate[disk[e][j][1]]
        BY <1>1, <1>4, <3>3 DEF FilesOK, UnitsOK
      <3> QED BY <3>1, <3>2, <3>3 DEF FilesOK, WritersOK
    <2> QED BY <2>1, <2>2, <2>3 DEF WritersOK
  <1> QED BY <1>1, <1>10, <1>11 DEF FilesOK, UnitsOK, NotInterleaved
\* Append, place by place.
LEMMA Appended ==
  ASSUME NEW S, NEW s \in Seq(S), NEW u \in S
  PROVE  /\ Len(s) \in Nat
         /\ Len(Append(s, u)) = Len(s) + 1
         /\ \A j \in 1..Len(s) : Append(s, u)[j] = s[j]
         /\ Append(s, u)[Len(s) + 1] = u
  OBVIOUS

\* A unit that continues what is at the end of the file, and is new in it.
LEMMA NextUnit ==
  ASSUME StateOK, NEW f \in Files, NEW h \in Handles, NEW m \in Int, m >= 0,
         EndsWith(f, h, m), "committed" \notin fate[h]
  PROVE  /\ \/ m + 1 = 1
            \/ Len(disk[f]) + 1 > 1 /\ disk[f][Len(disk[f])] = <<h, m>>
         /\ \A j \in 1..Len(disk[f]) : disk[f][j] # <<h, m + 1>>
  <1> DEFINE l == Len(disk[f])
             n == l - m
  <1>1. l \in Nat
    BY DEF StateOK, TypeOK
  <1>2. /\ n >= 0
        /\ \A j \in 1..m : disk[f][n + j] = <<h, j>>
        /\ \A j \in 1..n : "committed" \in fate[disk[f][j][1]]
    BY DEF EndsWith
  <1>3. /\ \A k \in 1..m : n + k \in 1..l
        /\ \A j \in 1..l : j > n => j - n \in 1..m /\ n + (j - n) = j
    <2> HIDE DEF l
    <2> QED BY <1>1, <1>2, LastPlaces
  <1>4. m + 1 = 1 \/ (m \in 1..m /\ n + m = l)
    <2> HIDE DEF l
    <2> QED BY <1>1
  <1>5. ASSUME NEW j \in 1..l PROVE disk[f][j] # <<h, m + 1>>
    <2>1. CASE j > n
      <3> DEFINE k == j - n
      <3>1. k \in 1..m /\ n + k = j
        BY <1>3, <2>1
      <3>2. disk[f][j] = <<h, k>>
        BY <1>2, <3>1
      <3>3. k # m + 1
        <4> HIDE DEF k
        <4> QED BY <3>1
      <3> HIDE DEF k
      <3> QED BY <3>2, <3>3
    <2>2. CASE j \in 1..n
      BY <1>2, <2>2
    <2>3. j > n \/ j \in 1..n
      <3> HIDE DEF l
      <3> QED BY <1>1, <1>2
    <2> QED BY <2>1, <2>2, <2>3
  <1>6. m + 1 = 1 \/ (l + 1 > 1 /\ disk[f][l] = <<h, m>>)
    <2>1. CASE m \in 1..m /\ n + m = l
      <3>1. l \in 1..l /\ disk[f][l] = <<h, m>>
        BY <1>2, <1>3, <2>1
      <3> HIDE DEF l
      <3> QED BY <1>1, <3>1
    <2> QED BY <1>4, <2>1
  <1> QED BY <1>5, <1>6

\* The step that puts the next unit of w's transaction into its file.
Appends(w) ==
  LET h == call[w].h
      f == txn[h].file
      i == call[w].i
  IN  /\ pc[w] = "CommitWrite"
      /\ i <= maxSeq[h]
      /\ disk' = [disk EXCEPT ![f] = Append(@, <<h, i>>)]
      /\ pc' = [pc EXCEPT ![w] = IF i < maxSeq[h] THEN "CommitWrite" ELSE "CommitInsert"]
      /\ call' = [call EXCEPT ![w].i = i + 1]
      /\ UNCHANGED <<txn, buffers, maxSeq, fate>>

\* A write that does not fail appends the next unit.
LEMMA WriteAppends ==
  ASSUME "write" \notin FailureKinds, NEW w \in Workers, CommitWrite(w)
  PROVE  Appends(w)
  BY DEF CommitWrite, Appends, Fails, entryVars, bufferVars

\* What Appends does to the file, place by place.
LEMMA AppendsPlaces ==
  ASSUME Isolation, FatesOK, NEW w \in Workers, Appends(w), NEW f \in Files,
         f = txn[call[w].h].file
  PROVE  /\ Len(disk[f]) \in Nat
         /\ Len(disk'[f]) = Len(disk[f]) + 1
         /\ \A j \in 1..Len(disk[f]) : disk'[f][j] = disk[f][j]
         /\ disk'[f][Len(disk[f]) + 1] = <<call[w].h, call[w].i>>
         /\ \A e \in Files \ {f} : disk'[e] = disk[e]
  <1>1. IsWriting(w)
    BY DEF Appends, IsWriting
  <1>2. call[w].h \in Handles /\ call[w].i \in Int
    BY <1>1, WriterFacts
  <1>3. <<call[w].h, call[w].i>> \in Units /\ disk[f] \in Seq(Units)
    BY <1>2 DEF Units, Isolation, StateOK, TypeOK
  <1>4. disk'[f] = Append(disk[f], <<call[w].h, call[w].i>>)
    BY DEF Appends, Isolation, StateOK, TypeOK
  <1>5. \A e \in Files \ {f} : disk'[e] = disk[e]
    BY DEF Appends, Isolation, StateOK, TypeOK
  <1> DEFINE u == <<call[w].h, call[w].i>>
             s == disk[f]
  <1>6. /\ Len(s) \in Nat
        /\ Len(Append(s, u)) = Len(s) + 1
        /\ \A j \in 1..Len(s) : Append(s, u)[j] = s[j]
        /\ Append(s, u)[Len(s) + 1] = u
    <2>1. u \in Units /\ s \in Seq(Units)
      BY <1>3
    <2> HIDE DEF u, s
    <2> QED BY <2>1, Appended
  <1>7. disk'[f] = Append(s, u)
    BY <1>4
  <1> QED
    <2> HIDE DEF u
    <2>1. Len(disk'[f]) = Len(disk[f]) + 1 /\ Len(disk[f]) \in Nat
      BY <1>6, <1>7
    <2>2. \A j \in 1..Len(disk[f]) : disk'[f][j] = disk[f][j]
      BY <1>6, <1>7
    <2>3. disk'[f][Len(disk[f]) + 1] = u
      BY <1>6, <1>7
    <2> QED BY <1>5, <2>1, <2>2, <2>3 DEF u

\* A property of units that holds for the old ones and for the new one.
LEMMA AppendsUnits ==
  ASSUME Isolation, FatesOK, BuffersOK, FilesOK, NEW w \in Workers, Appends(w)
  PROVE  UnitsOK'
  <1> DEFINE h == call[w].h
             f == txn[h].file
             i == call[w].i
  <1>1. IsWriting(w)
    BY DEF Appends, IsWriting
  <1>2. h \in Handles /\ f \in Files /\ i \in Int /\ txn[h].id # None
    BY <1>1, WriterFacts
  <1>3. i \in buffers[h]
    <2>1. 1..maxSeq[h] \subseteq buffers[h]
      BY DEF Appends, BuffersOK, Committing
    <2>2. i - 1 >= 0 /\ i <= maxSeq[h]
      BY <1>1 DEF Appends, FilesOK, WritersOK, PartWritten
    <2>3. maxSeq[h] \in Int
      BY <1>2 DEF Isolation, StateOK, TypeOK
    <2> HIDE DEF h, i
    <2>4. i \in 1..maxSeq[h]
      BY <1>2, <2>2, <2>3
    <2> QED BY <2>1, <2>4
  <1>4. ASSUME NEW e \in Files, NEW j \in 1..Len(disk'[e])
        PROVE  LET g == disk'[e][j][1]
               IN  /\ g \in Handles /\ txn[g].id # None /\ txn[g].file = e
                   /\ disk'[e][j][2] \in buffers[g]
    <2>1. CASE e # f
      BY <1>2, <2>1, AppendsPlaces DEF FilesOK, UnitsOK
    <2>2. CASE e = f /\ j = Len(disk[e]) + 1
      <3>1. disk'[e][j] = <<h, i>>
        BY <1>2, <2>2, AppendsPlaces
      <3>2. disk'[e][j][1] = h /\ disk'[e][j][2] = i
        BY <3>1
      <3> QED BY <1>2, <1>3, <2>2, <3>2
    <2>3. CASE e = f /\ j # Len(disk[e]) + 1
      <3>0. /\ Len(disk[e]) \in Nat
            /\ Len(disk'[e]) = Len(disk[e]) + 1
            /\ \A k \in 1..Len(disk[e]) : disk'[e][k] = disk[e][k]
        BY <2>3, AppendsPlaces
      <3>1. j \in 1..Len(disk[e])
        <4>1. PICK l \in Nat : l = Len(disk[e])
          BY <3>0
        <4>2. j \in 1..(l + 1) /\ j # l + 1
          BY <2>3, <3>0, <4>1
        <4>3. j \in 1..l
          BY <4>2
        <4> QED BY <4>1, <4>3
      <3>2. disk'[e][j] = disk[e][j]
        BY <3>0, <3>1
      <3> QED BY <3>1, <3>2 DEF FilesOK, UnitsOK
    <2> QED BY <2>1, <2>2, <2>3
  <1> QED BY <1>4 DEF UnitsOK, Appends

\* The file of w ends with one unit more of its transaction.
LEMMA AppendsPart ==
  ASSUME Isolation, FatesOK, FilesOK, NEW w \in Workers, Appends(w)
  PROVE  PartWritten(w)'
  <1>1. PICK h \in Handles, f \in Files, i \in Int :
          h = call[w].h /\ f = txn[h].file /\ i = call[w].i
    <2>1. IsWriting(w)
      BY DEF Appends, IsWriting
    <2> QED BY <2>1, WriterFacts
  <1> DEFINE l == Len(disk[f])
             m == i - 1
             n == l - m
  <1>2. m >= 0 /\ m < maxSeq[h] /\ EndsWith(f, h, m)
    BY <1>1 DEF Appends, IsWriting, FilesOK, WritersOK, PartWritten
  <1>3. /\ n >= 0
        /\ \A j \in 1..m : disk[f][n + j] = <<h, j>>
        /\ \A j \in 1..n : "committed" \in fate[disk[f][j][1]]
    BY <1>2 DEF EndsWith
  <1>4. /\ l \in Nat
        /\ Len(disk'[f]) = l + 1
        /\ \A j \in 1..l : disk'[f][j] = disk[f][j]
        /\ disk'[f][l + 1] = <<h, i>>
    BY <1>1, AppendsPlaces
  <1>5. Len(disk'[f]) - i = n /\ n + i = l + 1 /\ n \in Nat
    <2> HIDE DEF l
    <2> QED BY <1>3, <1>4
  <1>6. ASSUME NEW j \in 1..i PROVE disk'[f][n + j] = <<h, j>>
    <2>1. CASE j = i
      <3>1. n + j = l + 1
        BY <1>5, <2>1
      <3> QED BY <1>4, <2>1, <3>1
    <2>2. CASE j # i
      <3>1. j \in 1..m /\ n + j \in 1..l
        <4> HIDE DEF l
        <4> QED BY <1>3, <1>4, <2>2
      <3> QED BY <1>3, <1>4, <3>1
    <2> QED BY <2>1, <2>2
  <1>7. ASSUME NEW j \in 1..n PROVE "committed" \in fate'[disk'[f][j][1]]
    <2>1. j \in 1..l
      <3> HIDE DEF l
      <3> QED BY <1>2, <1>4
    <2> QED BY <1>3, <1>4, <2>1 DEF Appends
  <1>8. EndsWith(f, h, i)'
    <2>1. Len(disk'[f]) - i >= 0
      BY <1>3, <1>5
    <2>2. \A j \in 1..i : disk'[f][(Len(disk'[f]) - i) + j] = <<h, j>>
      BY <1>5, <1>6
    <2>3. \A j \in 1..(Len(disk'[f]) - i) : "committed" \in fate'[disk'[f][j][1]]
      BY <1>5, <1>7
    <2> QED BY <2>1, <2>2, <2>3 DEF EndsWith
  <1>9. /\ call'[w].h = h /\ call'[w].i - 1 = i /\ txn'[h].file = f
        /\ maxSeq'[h] = maxSeq[h]
        /\ pc'[w] = IF i < maxSeq[h] THEN "CommitWrite" ELSE "CommitInsert"
    BY <1>1 DEF Appends, Isolation, StateOK, TypeOK, Calls
  <1>10. /\ i >= 0 /\ i <= maxSeq[h] /\ maxSeq[h] \in Int
    BY <1>1, <1>2 DEF Appends, Isolation, StateOK, TypeOK
  <1> QED BY <1>8, <1>9, <1>10 DEF PartWritten

\* The file goes on ending with what its one committer has written ...
LEMMA AppendsWriters ==
  ASSUME Isolation, FatesOK, FilesOK, NEW w \in Workers, Appends(w)
  PROVE  WritersOK'
  <1> DEFINE f == txn[call[w].h].file
  <1>1. IsWriting(w) /\ IsWriting(w)' /\ Others(w)
    BY DEF Appends, IsWriting, Others, Isolation, StateOK, TypeOK
  <1>2. f \in Files /\ txn'[call'[w].h].file = f
    <2>1. f \in Files
      BY <1>1, WriterFacts
    <2>2. call'[w].h = call[w].h
      BY DEF Appends, Isolation, StateOK, TypeOK, Calls
    <2> QED BY <2>1, <2>2 DEF Appends
  <1>3. ASSUME NEW v \in Workers, IsWriting(v)', v # w PROVE PartWritten(v)'
    <2>1. IsWriting(v) /\ pc'[v] = pc[v] /\ call'[v] = call[v]
      BY <1>1, <1>3 DEF Others, IsWriting
    <2>2. PartWritten(v) /\ txn[call[v].h].file \in Files \ {f}
      BY <1>1, <1>3, <2>1, WriterFacts DEF FilesOK, WritersOK
    <2>3. disk'[txn[call[v].h].file] = disk[txn[call[v].h].file]
      BY <1>2, <2>2, AppendsPlaces
    <2>4. UNCHANGED <<txn, maxSeq, fate>>
      BY DEF Appends
    <2> QED BY <2>1, <2>2, <2>3, <2>4, PartKept DEF Isolation, FilesOK
  <1>4. \A v \in Workers : pc'[v] \notin {"CommitRollback", "CommitTruncate"}
    BY <1>1 DEF Others, IsWriting, FilesOK, WritersOK
  <1>5. ASSUME NEW e \in Files
        PROVE  \/ \E v \in Workers : IsWriting(v)' /\ txn'[call'[v].h].file = e
               \/ \A j \in 1..Len(disk'[e]) : "committed" \in fate'[disk'[e][j][1]]
    <2>1. CASE e = f
      BY <1>1, <1>2, <2>1
    <2>2. CASE e # f
      <3>1. disk'[e] = disk[e] /\ UNCHANGED <<txn, fate>>
        BY <1>2, <2>2, AppendsPlaces DEF Appends
      <3>2. \A v \in Workers : IsWriting(v) /\ txn[call[v].h].file = e =>
              IsWriting(v)' /\ call'[v] = call[v]
        BY <1>1, <2>2 DEF Others, IsWriting
      <3> QED BY <3>1, <3>2 DEF FilesOK, WritersOK
    <2> QED BY <2>1, <2>2
  <1> QED BY <1>3, <1>4, <1>5, AppendsPart DEF WritersOK

\* ... behind all units of others, and in order.
LEMMA AppendsOrder ==
  ASSUME Isolation, FatesOK, FilesOK, NEW w \in Workers, Appends(w)
  PROVE  NotInterleaved'
  <1>1. PICK h \in Handles, f \in Files, i \in Int :
          h = call[w].h /\ f = txn[h].file /\ i = call[w].i /\ fate[h] = {}
    <2>1. IsWriting(w)
      BY DEF Appends, IsWriting
    <2> QED BY <2>1, WriterFacts
  <1> DEFINE l == Len(disk[f])
  <1>2. i - 1 >= 0 /\ EndsWith(f, h, i - 1)
    BY <1>1 DEF Appends, IsWriting, FilesOK, WritersOK, PartWritten
  <1>3. /\ l \in Nat
        /\ Len(disk'[f]) = l + 1
        /\ \A j \in 1..l : disk'[f][j] = disk[f][j]
        /\ disk'[f][l + 1] = <<h, i>>
        /\ \A e \in Files \ {f} : disk'[e] = disk[e]
    BY <1>1, AppendsPlaces
  <1>4. /\ i = 1 \/ (l + 1 > 1 /\ disk[f][l] = <<h, i - 1>>)
        /\ \A j \in 1..l : disk[f][j] # <<h, i>>
    <2>1. PICK m \in Int : m = i - 1 /\ m + 1 = i
      <3>1. i - 1 \in Int /\ (i - 1) + 1 = i
        OBVIOUS
      <3> QED BY <3>1
    <2>2. m >= 0 /\ EndsWith(f, h, m) /\ "committed" \notin fate[h]
      BY <1>1, <1>2, <2>1
    <2>3. /\ m + 1 = 1 \/ (l + 1 > 1 /\ disk[f][l] = <<h, m>>)
          /\ \A j \in 1..l : disk[f][j] # <<h, m + 1>>
      BY <2>2, NextUnit DEF Isolation
    <2> QED BY <2>1, <2>3
  <1>5. ASSUME NEW e \in Files, NEW j \in 1..Len(disk'[e])
        PROVE  /\ \/ disk'[e][j][2] = 1
                  \/ j > 1 /\ disk'[e][j - 1] = <<disk'[e][j][1], disk'[e][j][2] - 1>>
               /\ \A k \in 1..(j - 1) : disk'[e][k] # disk'[e][j]
    <2>1. CASE e # f
      <3>1. disk'[e] = disk[e]
        BY <1>3, <2>1
      <3>2. j \in 1..Len(disk[e])
        BY <3>1
      <3>3. /\ \/ disk[e][j][2] = 1
               \/ j > 1 /\ disk[e][j - 1] = <<disk[e][j][1], disk[e][j][2] - 1>>
            /\ \A k \in 1..(j - 1) : disk[e][k] # disk[e][j]
        BY <3>2 DEF FilesOK, NotInterleaved
      <3> QED BY <3>1, <3>3
    <2>2. CASE e = f /\ j = l + 1
      <3>1. disk'[e][j] = <<h, i>> /\ disk'[e][j][1] = h /\ disk'[e][j][2] = i
        BY <1>3, <2>2
      <3>2. j - 1 = l /\ (l + 1 > 1 => l \in 1..l)
        <4> HIDE DEF l
        <4> QED BY <1>3, <2>2
      <3> QED BY <1>3, <1>4, <2>2, <3>1, <3>2
    <2>3. CASE e = f /\ j # l + 1
      <3>1. j \in 1..l /\ (j > 1 => j - 1 \in 1..l) /\ \A k \in 1..(j - 1) : k \in 1..l
        <4> HIDE DEF l
        <4> QED BY <1>3, <2>3
      <3>2. /\ \/ disk[f][j][2] = 1
               \/ j > 1 /\ disk[f][j - 1] = <<disk[f][j][1], disk[f][j][2] - 1>>
            /\ \A k \in 1..(j - 1) : disk[f][k] # disk[f][j]
        BY <3>1 DEF FilesOK, NotInterleaved
      <3>3. disk'[f][j] = disk[f][j]
        BY <1>3, <3>1
      <3>4. j > 1 => disk'[f][j - 1] = disk[f][j - 1]
        BY <1>3, <3>1
      <3>5. \A k \in 1..(j - 1) : disk'[f][k] = disk[f][k]
        BY <1>3, <3>1
      <3> QED BY <2>3, <3>2, <3>3, <3>4, <3>5
    <2> QED BY <2>1, <2>2, <2>3
  <1> QED BY <1>5 DEF NotInterleaved

\* A write keeps all that is known of files.
LEMMA FilesWrite ==
  ASSUME Isolation, FatesOK, BuffersOK, FilesOK, NEW w \in Workers, Appends(w)
  PROVE  FilesOK'
  <1>1. ASSUME NEW e \in Files, NEW u, HasUnit(e, u) PROVE HasUnit(e, u)'
    <2>1. PICK j \in 1..Len(disk[e]) : disk[e][j] = u
      BY <1>1 DEF HasUnit
    <2>2. CASE e = txn[call[w].h].file
      <3>1. /\ Len(disk[e]) \in Nat
            /\ Len(disk'[e]) = Len(disk[e]) + 1
            /\ \A k \in 1..Len(disk[e]) : disk'[e][k] = disk[e][k]
        BY <2>2, AppendsPlaces
      <3>2. j \in 1..Len(disk'[e])
        BY <3>1
      <3>3. disk'[e][j] = u
        BY <2>1, <3>1
      <3> QED BY <3>2, <3>3 DEF HasUnit
    <2>3. CASE e # txn[call[w].h].file
      <3>1. disk'[e] = disk[e]
        BY <2>3 DEF Appends, Isolation, StateOK, TypeOK
      <3> QED BY <2>1, <3>1 DEF HasUnit
    <2> QED BY <2>2, <2>3
  <1>2. CommitsWhole'
    <2>1. \A h \in Handles : "committed" \in fate[h] => txn[h].file \in Files
      BY DEF FatesOK, FateOK, Isolation, StateOK, EntriesOK
    <2> QED BY <1>1, <2>1 DEF FilesOK, CommitsWhole, Appends
  <1> QED BY <1>2, AppendsUnits, AppendsWriters, AppendsOrder DEF FilesOK

\* Every step keeps what is known of files.
LEMMA FilesInductive ==
  ASSUME "write" \notin FailureKinds, Isolation, Isolation', FatesOK, BuffersOK, FilesOK,
         [Next]_vars
  PROVE  FilesOK'
  <1>1. ASSUME NEW w \in Workers, CommitStepOf(w) PROVE FilesOK'
    <2>1. ~CommitRollback(w) /\ ~CommitTruncate(w)
      BY DEF CommitRollback, CommitTruncate, FilesOK, WritersOK
    <2> QED
      BY <1>1, <2>1, FilesCollect, FilesOpen, FilesWrite, WriteAppends, FilesInsert, FilesEnd
      DEF CommitStepOf
  <1> QED
    BY <1>1, Steps, FilesQuiet, FilesCreate, FilesCollect, FilesEnd, FilesTimer
    DEF Isolation

-----------------------------------------------------------------------------
(* Theorems.                                                               *)

ContentsOK == OutcomesOK /\ BuffersOK /\ FilesOK

\* The inductive invariant is kept by every step.
LEMMA ContentsStep ==
  ASSUME ~TimerRaces, ~IdReuse, "write" \notin FailureKinds, ContentsOK, [Next]_vars
  PROVE  ContentsOK'
  <1>1. OutcomesOK'
    BY OutcomesStep DEF ContentsOK
  <1>2. BuffersOK'
    BY BuffersInductive DEF ContentsOK, OutcomesOK
  <1>3. FilesOK'
    BY <1>1, FilesInductive DEF ContentsOK, OutcomesOK
  <1> QED BY <1>1, <1>2, <1>3 DEF ContentsOK

\* The server starts with empty files.
LEMMA ContentsInit == Init => ContentsOK
  <1> SUFFICES ASSUME Init PROVE ContentsOK
    OBVIOUS
  <1>1. BuffersOK
    BY DEF Init, BuffersOK, Committing, HasCommitted
  <1>2. \A f \in Files : disk[f] = <<>> /\ Len(disk[f]) = 0
    BY DEF Init
  <1>3. UnitsOK /\ NotInterleaved
    BY <1>2 DEF UnitsOK, NotInterleaved
  <1>4. WritersOK
    BY <1>2 DEF Init, WritersOK, IsWriting
  <1>5. CommitsWhole
    BY DEF Init, CommitsWhole
  <1> QED BY <1>1, <1>3, <1>4, <1>5, OutcomesInit DEF ContentsOK, FilesOK

\* The inductive invariant of CommitsNotInterleaved and CommitsAllOrNothing.
LEMMA ContentsInvariant ==
  ASSUME ~TimerRaces, ~IdReuse, "write" \notin FailureKinds
  PROVE  Spec => []ContentsOK
  <1>1. ContentsOK /\ [Next]_vars => ContentsOK'
    BY ContentsStep
  <1> QED BY <1>1, ContentsInit, PTL DEF Spec

\* Two COMMITs to one file, whatever the clients send in between, leave their
\* writes one commit after the other, each in the order of its sequence
\* numbers, as long as write() does not fail.
THEOREM CommitsNotInterleaved ==
  ASSUME ~TimerRaces, ~IdReuse, "write" \notin FailureKinds
  PROVE  Spec => []NotInterleaved
  <1>1. ContentsOK => NotInterleaved
    BY DEF ContentsOK, FilesOK
  <1> QED BY <1>1, ContentsInvariant, PTL

\* Under the same proviso a file has the writes of committed transactions, all
\* of them, and besides them only those of a COMMIT that is at work.
THEOREM CommitsAllOrNothing ==
  ASSUME ~TimerRaces, ~IdReuse, "write" \notin FailureKinds
  PROVE  Spec => []AllOrNothing
  <1>1. ContentsOK => AllOrNothing
    <2> SUFFICES ASSUME ContentsOK PROVE AllOrNothing
      OBVIOUS
    <2>1. Isolation /\ FatesOK /\ UnitsOK /\ WritersOK /\ CommitsWhole
      BY DEF ContentsOK, OutcomesOK, FilesOK
    <2>2. ASSUME NEW f \in Files, NEW j \in 1..Len(disk[f])
          PROVE  LET h == disk[f][j][1]
                 IN  /\ h # None
                     /\ txn[h].file = f
                     /\ disk[f][j][2] \in buffers[h]
      BY <2>1, ConstantsAssumption DEF UnitsOK
    <2>3. ASSUME NEW f \in Files, NEW j \in 1..Len(disk[f])
          PROVE  LET h == disk[f][j][1]
                 IN  \/ "committed" \in fate[h]
                     \/ \E w \in Workers : pc[w] \in UsesTxn /\ call[w].h = h
      <3>1. CASE \A i \in 1..Len(disk[f]) : "committed" \in fate[disk[f][i][1]]
        BY <3>1
      <3>2. ASSUME NEW w \in Workers, IsWriting(w), txn[call[w].h].file = f
            PROVE  \/ "committed" \in fate[disk[f][j][1]]
                   \/ pc[w] \in UsesTxn /\ call[w].h = disk[f][j][1]
        <4>1. PICK h \in Handles, m \in Int : h = call[w].h /\ m = call[w].i - 1
          BY <2>1, <3>2, WriterFacts
        <4>2. pc[w] \in UsesTxn
          BY <2>1, <3>2, WriterFacts
        <4>3. m >= 0 /\ EndsWith(f, h, m)
          BY <2>1, <3>2, <4>1 DEF WritersOK, PartWritten
        <4> QED BY <2>1, <4>1, <4>2, <4>3, UnitOf DEF Isolation
      <3> QED BY <2>1, <3>1, <3>2 DEF WritersOK
    <2>4. ASSUME NEW h \in Handles, "committed" \in fate[h], NEW k \in buffers[h], k > 0
          PROVE  \E j \in 1..Len(disk[txn[h].file]) : disk[txn[h].file][j] = <<h, k>>
      BY <2>1, <2>4 DEF CommitsWhole, HasUnit
    <2> QED BY <2>2, <2>3, <2>4 DEF AllOrNothing
  <1> QED BY <1>1, ContentsInvariant, PTL

-----------------------------------------------------------------------------
(* m_file_size.                                                            *)

Busy == HoldsFileMtx \cup {"CommitRollback", "CommitTruncate"}

BusyWith(w, f) == pc[w] \in Busy /\ txn[call[w].h].file = f

SizeKnown(f) ==
  \/ fileMap[f] = None
  \/ fileSize[fileMap[f]] = Len(disk[f])
  \/ \E w \in Workers : BusyWith(w, f)

\* RollbackPoint, file by file ...
LEMMA SizesKnown == RollbackPoint <=> \A f \in Files : SizeKnown(f)
  BY DEF RollbackPoint, SizeKnown, BusyWith, Busy

\* ... and after a step.
LEMMA SizesKnownAfter == RollbackPoint' <=> \A f \in Files : SizeKnown(f)'
  BY DEF RollbackPoint, SizeKnown, BusyWith, Busy

\* Nothing that matters for f changes, but its attributes may go.
LEMMA SizeKept ==
  ASSUME NEW f \in Files, SizeKnown(f), fileMap'[f] \in {None, fileMap[f]},
         fileMap[f] # None => fileSize'[fileMap[f]] = fileSize[fileMap[f]],
         disk'[f] = disk[f],
         \A w \in Workers : BusyWith(w, f) => BusyWith(w, f)'
  PROVE  SizeKnown(f)'
  BY DEF SizeKnown

\* A step of w leaves the other threads with their files.
LEMMA BusyKept ==
  ASSUME StateOK, NEW w \in Workers, Others(w), NEW f,
         \A h \in Handles : txn[h].id # None => txn'[h] = txn[h],
         NEW v \in Workers, BusyWith(v, f), v # w \/ (pc'[w] \in Busy /\ call'[w].h = call[w].h)
  PROVE  BusyWith(v, f)'
  <1>1. pc[v] \in HoldsTxnMtx
    BY DEF BusyWith, Busy, HoldsFileMtx, HoldsTxnMtx
  <1>2. call[v].h \in Handles /\ txn'[call[v].h] = txn[call[v].h]
    BY <1>1, CallEntry, ConstantsAssumption
  <1>3. pc'[v] \in Busy /\ call'[v].h = call[v].h
    BY DEF BusyWith, Others
  <1> QED BY <1>2, <1>3 DEF BusyWith

\* The first transaction on a file takes its size, unless it is already known.
LEMMA SizeCreate ==
  ASSUME CwdIsDirectory, Isolation, RollbackPoint, NEW w \in Workers, NEW f \in Files,
         NEW id \in TxnIds, NEW h \in Handles, NewTxnCreate(w, f, id, h)
  PROVE  RollbackPoint'
  <1>1. UNCHANGED disk /\ Others(w) /\ pc[w] = "idle" /\ txn[h].id = None
    BY DEF NewTxnCreate, Begin, diskVars, Others, Isolation, StateOK, TypeOK
  <1>2. \A g \in Handles : txn[g].id # None => txn'[g] = txn[g]
    BY DEF NewTxnCreate, AddNewTransaction, Isolation, StateOK, TypeOK
  <1>3. /\ fileMap'[f] = IF fileMap[f] = None THEN h ELSE fileMap[f]
        /\ \A e \in Files \ {f} : fileMap'[e] = fileMap[e]
        /\ fileMap[f] = None => fileSize'[h] = Len(disk[f])
        /\ \A g \in Handles \ {h} : fileSize'[g] = fileSize[g]
        /\ fileMap[f] # None => UNCHANGED fileSize
    BY DEF NewTxnCreate, AddNewTransaction, GetFileSize, Isolation, StateOK, TypeOK
  <1>4. \A e \in Files : fileMap[e] # None => fileMap[e] \in Handles \ {h}
    BY <1>1 DEF Isolation, AttributesNamed, StateOK, TypeOK
  <1>5. ASSUME NEW e \in Files, NEW v \in Workers, BusyWith(v, e) PROVE BusyWith(v, e)'
    <2>1. v # w
      BY <1>1, <1>5 DEF BusyWith, Busy, HoldsFileMtx
    <2> QED BY <1>1, <1>2, <1>5, <2>1, BusyKept DEF Isolation
  <1>6. ASSUME NEW e \in Files PROVE SizeKnown(e)'
    <2>1. CASE e = f /\ fileMap[f] = None
      BY <1>1, <1>3, <2>1 DEF SizeKnown
    <2>2. CASE e # f \/ fileMap[f] # None
      BY <1>1, <1>3, <1>4, <1>5, <2>2, SizesKnown, SizeKept
    <2> QED BY <2>1, <2>2
  <1> QED BY <1>6, SizesKnownAfter

\* COMMIT records the size at its end.
LEMMA SizeSet ==
  ASSUME Isolation, RollbackPoint, NEW w \in Workers, CommitSize(w)
  PROVE  RollbackPoint'
  <1> DEFINE f == txn[call[w].h].file
             a == txn[call[w].h].attrs
  <1>1. UNCHANGED <<disk, txn, fileMap>> /\ Others(w) /\ pc[w] \in UsesTxn
    BY DEF CommitSize, Goto, registryVars, diskVars, Others, UsesTxn, HoldsTxnMtx,
           Isolation, StateOK, TypeOK
  <1>2. f \in Files /\ a \in Handles /\ fileMap[f] = a
    BY <1>1, CallEntry, ConstantsAssumption
    DEF Isolation, RequestUsesLiveTransaction, FileAttributesShared
  <1>3. fileSize'[a] = Len(disk[f]) /\ \A g \in Handles \ {a} : fileSize'[g] = fileSize[g]
    BY <1>2 DEF CommitSize, Isolation, StateOK, TypeOK
  <1>4. ASSUME NEW e \in Files, e # f PROVE fileMap[e] \in (Handles \cup {None}) \ {a}
    BY <1>2, <1>4, ConstantsAssumption DEF Isolation, AttributesNamed, StateOK, TypeOK
  <1>5. ASSUME NEW e \in Files, e # f, NEW v \in Workers, BusyWith(v, e)
        PROVE  BusyWith(v, e)'
    <2>1. v # w
      BY <1>5 DEF BusyWith
    <2> QED BY <1>1, <1>5, <2>1, BusyKept DEF Isolation
  <1>6. ASSUME NEW e \in Files PROVE SizeKnown(e)'
    <2>1. CASE e = f
      BY <1>1, <1>2, <1>3, <2>1 DEF SizeKnown
    <2>2. CASE e # f
      BY <1>1, <1>3, <1>4, <1>5, <2>2, SizesKnown, SizeKept
    <2> QED BY <2>1, <2>2
  <1> QED BY <1>6, SizesKnownAfter

\* While COMMIT appends, it holds the mutex of the file.
LEMMA SizeWrite ==
  ASSUME Isolation, RollbackPoint, NEW w \in Workers, Appends(w),
         UNCHANGED <<fileMap, fileSize>>
  PROVE  RollbackPoint'
  <1> DEFINE f == txn[call[w].h].file
  <1>1. /\ UNCHANGED txn /\ Others(w)
        /\ pc[w] \in Busy /\ pc'[w] \in Busy /\ call'[w].h = call[w].h
    BY DEF Appends, Others, Busy, HoldsFileMtx, Isolation, StateOK, TypeOK, Calls
  <1>2. \A e \in Files : e # f => disk'[e] = disk[e]
    BY DEF Appends, Isolation, StateOK, TypeOK
  <1>3. ASSUME NEW e \in Files, NEW v \in Workers, BusyWith(v, e) PROVE BusyWith(v, e)'
    BY <1>1, <1>3, BusyKept DEF Isolation
  <1>4. ASSUME NEW e \in Files PROVE SizeKnown(e)'
    <2>1. CASE e = f
      BY <1>1, <1>3, <2>1 DEF SizeKnown, BusyWith
    <2>2. CASE e # f
      BY <1>2, <1>3, <2>2, SizesKnown, SizeKept
    <2> QED BY <2>1, <2>2
  <1> QED BY <1>4, SizesKnownAfter

\* A transaction is erased and with it, perhaps, the attributes of its file.
LEMMA RemovedFiles ==
  ASSUME StateOK, NEW id, RemoveTransaction(id)
  PROVE  \A f \in Files : fileMap'[f] \in {None, fileMap[f]}
  BY DEF RemoveTransaction, StateOK, TypeOK

\* The other steps of a command function.
LEMMA SizeOther ==
  ASSUME Isolation, RollbackPoint, NEW w \in Workers,
         \/ WriteBuffer(w) \/ CommitVerify(w) \/ CommitOpen(w) \/ CommitInsert(w)
         \/ CommitLog(w) \/ CommitRemove(w) \/ AbortRemove(w)
  PROVE  RollbackPoint'
  <1>1. UNCHANGED <<disk, txn, fileSize>>
    BY DEF WriteBuffer, CommitVerify, CommitOpen, CommitInsert, CommitLog, CommitRemove,
           AbortRemove, entryVars, diskVars
  <1>2. \A f \in Files : fileMap'[f] \in {None, fileMap[f]}
    BY RemovedFiles
    DEF WriteBuffer, CommitVerify, CommitOpen, CommitInsert, CommitLog, CommitRemove,
        AbortRemove, registryVars, Isolation
  <1>3. /\ Others(w)
        /\ pc[w] \in Busy => pc'[w] \in Busy /\ call'[w].h = call[w].h
    BY DEF WriteBuffer, CommitVerify, CommitOpen, CommitInsert, CommitLog, CommitRemove,
           AbortRemove, Goto, Answer, Return, Others, Busy, HoldsFileMtx, Isolation,
           StateOK, TypeOK
  <1>4. ASSUME NEW e \in Files, NEW v \in Workers, BusyWith(v, e) PROVE BusyWith(v, e)'
    <2>1. v # w \/ pc[w] \in Busy
      BY <1>4 DEF BusyWith
    <2> QED BY <1>1, <1>3, <1>4, <2>1, BusyKept DEF Isolation
  <1>5. ASSUME NEW e \in Files PROVE SizeKnown(e)'
    BY <1>1, <1>2, <1>4, SizesKnown, SizeKept
  <1> QED BY <1>5, SizesKnownAfter

\* Every step keeps the recorded sizes right.
LEMMA SizeInductive ==
  ASSUME CwdIsDirectory, "write" \notin FailureKinds, Isolation, FilesOK, RollbackPoint,
         [Next]_vars
  PROVE  RollbackPoint'
  <1>1. CASE Quiet
    <2>1. UNCHANGED <<fileMap, fileSize, disk, txn>>
      BY <1>1 DEF Quiet, registryVars
    <2>2. ASSUME NEW e \in Files, NEW v \in Workers, BusyWith(v, e) PROVE BusyWith(v, e)'
      <3>1. pc[v] \in HoldsFileMtx
        BY <2>2 DEF BusyWith, Busy, FilesOK, WritersOK
      <3>2. pc'[v] = pc[v] /\ call'[v] = call[v]
        BY <1>1, <3>1 DEF Quiet, HoldsFileMtx, Committing, HasCommitted
      <3> QED BY <2>1, <2>2, <3>2 DEF BusyWith
    <2>3. ASSUME NEW e \in Files PROVE SizeKnown(e)'
      BY <2>1, <2>2, SizesKnown, SizeKept
    <2> QED BY <2>3, SizesKnownAfter
  <1>2. ASSUME NEW h \in Handles, TimerFire(h) PROVE RollbackPoint'
    <2>1. /\ UNCHANGED <<fileSize, disk, txn, pc, call>>
          /\ \A f \in Files : fileMap'[f] \in {None, fileMap[f]}
      BY <1>2, RemovedFiles DEF TimerFire, Isolation
    <2>2. ASSUME NEW e \in Files, NEW v \in Workers, BusyWith(v, e) PROVE BusyWith(v, e)'
      BY <2>1, <2>2 DEF BusyWith
    <2>3. ASSUME NEW e \in Files PROVE SizeKnown(e)'
      BY <2>1, <2>2, SizesKnown, SizeKept
    <2> QED BY <2>3, SizesKnownAfter
  <1>3. ASSUME NEW w \in Workers, CommitStepOf(w) PROVE RollbackPoint'
    <2>1. ~CommitRollback(w) /\ ~CommitTruncate(w)
      BY DEF CommitRollback, CommitTruncate, FilesOK, WritersOK
    <2>2. CASE CommitWrite(w)
      <3>1. UNCHANGED <<fileMap, fileSize>>
        BY <2>2 DEF CommitWrite, registryVars, entryVars
      <3> QED BY <2>2, <3>1, WriteAppends, SizeWrite
    <2> QED BY <1>3, <2>1, <2>2, SizeOther, SizeSet DEF CommitStepOf
  <1> QED BY <1>1, <1>2, <1>3, Steps, SizeCreate, SizeOther DEF Isolation

\* While no write() fails, m_file_size is the size of the file whenever nobody
\* is between the opening of the file and the release of its mutex: the first
\* commit to fail would be cut back to the commits before it.  It takes a
\* server that is started in its own directory: getFileSize has the bare name.
THEOREM SizesRecorded ==
  ASSUME ~TimerRaces, ~IdReuse, "write" \notin FailureKinds, CwdIsDirectory
  PROVE  Spec => []RollbackPoint
  <1>1. Init => RollbackPoint
    BY DEF Init, RollbackPoint
  <1>2. ContentsOK /\ RollbackPoint /\ [Next]_vars => RollbackPoint'
    BY SizeInductive DEF ContentsOK, OutcomesOK
  <1> QED BY <1>1, <1>2, ContentsInvariant, PTL DEF Spec

=============================================================================
