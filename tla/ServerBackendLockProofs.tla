---------------------- MODULE ServerBackendLockProofs ----------------------
(***************************************************************************)
(* Who holds which mutex, and what the mutexes protect: the attributes of  *)
(* files, and a transaction while a request works on it.                   *)
(***************************************************************************)
EXTENDS ServerBackendProofs

-----------------------------------------------------------------------------
(* Ownership of the mutexes.                                               *)

\* Initially all mutexes are free and all threads idle.
LEMMA InitOwnership == Init => MutexOwnership
  BY ConstantsAssumption
  DEF Init, MutexOwnership, Owns, HoldsMemberMtx, HoldsTxnMtx, HoldsFileMtx

\* A step of w preserves ownership if w owns what it should afterwards and no
\* other thread wins or loses a mutex.
LEMMA OwnershipStep ==
  ASSUME StateOK, MutexOwnership, NEW w \in Workers,
         \A v \in Workers \ {w} :
            /\ pc'[v] = pc[v] /\ call'[v] = call[v]
            /\ memberMtx' = v <=> memberMtx = v
            /\ \A h \in Handles : /\ txnMtx'[h] = v <=> txnMtx[h] = v
                                  /\ fileMtx'[h] = v <=> fileMtx[h] = v,
         \A h \in Handles : txn[h].id # None => txn'[h] = txn[h],
         Owns(w)'
  PROVE  MutexOwnership'
  <1>1. ASSUME NEW v \in Workers \ {w} PROVE Owns(v)'
    <2>1. Owns(v)
      BY DEF MutexOwnership
    <2>2. pc[v] \in HoldsFileMtx => txn'[call[v].h] = txn[call[v].h]
      BY CallEntry, ConstantsAssumption
      DEF HoldsFileMtx, HoldsTxnMtx
    <2> QED BY <2>1, <2>2 DEF Owns
  <1> QED BY <1>1 DEF MutexOwnership

\* Locking, unlocking and moving on, seen from the other threads.
LEMMA OthersUnlock ==
  ASSUME StateOK, MutexOwnership, NEW w \in Workers, pc[w] \in HoldsTxnMtx,
         txnMtx' = Unlock(txnMtx, call[w].h)
  PROVE  \A h \in Handles :
           /\ txnMtx'[h] # w
           /\ \A v \in Workers \ {w} : txnMtx'[h] = v <=> txnMtx[h] = v
  <1>1. call[w].h \in Handles
    BY CallEntry
  <1>2. \A h \in Handles : txnMtx[h] = w <=> call[w].h = h
    BY DEF MutexOwnership, Owns
  <1> QED BY <1>1, <1>2, ConstantsAssumption DEF Unlock, StateOK, TypeOK

LEMMA OthersUnlockFile ==
  ASSUME StateOK, MutexOwnership, NEW w \in Workers, pc[w] \in HoldsFileMtx,
         fileMtx' = Unlock(fileMtx, txn[call[w].h].attrs)
  PROVE  \A h \in Handles :
           /\ fileMtx'[h] # w
           /\ \A v \in Workers \ {w} : fileMtx'[h] = v <=> fileMtx[h] = v
  <1>1. txn[call[w].h].attrs \in Handles
    BY CallEntry DEF HoldsFileMtx, HoldsTxnMtx
  <1>2. \A h \in Handles : fileMtx[h] = w <=> txn[call[w].h].attrs = h
    BY DEF MutexOwnership, Owns
  <1> QED BY <1>1, <1>2, ConstantsAssumption DEF Unlock, StateOK, TypeOK

\* A step that changes no mutex and stays where the same ones are held.
LEMMA OwnershipKept ==
  ASSUME StateOK, MutexOwnership, NEW w \in Workers, UNCHANGED lockVars,
         \A v \in Workers \ {w} : pc'[v] = pc[v] /\ call'[v] = call[v],
         UNCHANGED txn,
         pc'[w] \in HoldsMemberMtx <=> pc[w] \in HoldsMemberMtx,
         pc'[w] \in HoldsTxnMtx <=> pc[w] \in HoldsTxnMtx,
         pc'[w] \in HoldsFileMtx <=> pc[w] \in HoldsFileMtx,
         pc[w] \in HoldsTxnMtx => call'[w].h = call[w].h
  PROVE  MutexOwnership'
  <1>1. Owns(w)'
    <2>1. Owns(w) BY DEF MutexOwnership
    <2>2. pc[w] \in HoldsFileMtx => pc[w] \in HoldsTxnMtx
      BY DEF HoldsFileMtx, HoldsTxnMtx
    <2> QED BY <2>1, <2>2 DEF Owns, lockVars
  <1> QED BY <1>1, OwnershipStep DEF lockVars

\* A step that answers the request and releases the transaction's mutex, when
\* no other mutex is held.
LEMMA OwnershipReleased ==
  ASSUME StateOK, MutexOwnership, NEW w \in Workers, NEW out, Answer(w, out),
         pc[w] \in HoldsTxnMtx \ (HoldsMemberMtx \cup HoldsFileMtx),
         txnMtx' = Unlock(txnMtx, call[w].h),
         UNCHANGED <<memberMtx, fileMtx, txn>>
  PROVE  MutexOwnership'
  <1>1. pc'[w] = "idle" /\ \A v \in Workers \ {w} : pc'[v] = pc[v] /\ call'[v] = call[v]
    BY DEF Answer, Return, StateOK, TypeOK
  <1>2. Owns(w)'
    <2>1. Owns(w) BY DEF MutexOwnership
    <2> QED BY <1>1, <2>1, OthersUnlock
            DEF Owns, HoldsMemberMtx, HoldsTxnMtx, HoldsFileMtx
  <1> QED BY <1>1, <1>2, OthersUnlock, OwnershipStep

LEMMA ReadOwnership ==
  ASSUME StateOK, MutexOwnership, NEW w \in Workers, READ(w)
  PROVE  MutexOwnership'
  <1>1. /\ UNCHANGED lockVars /\ UNCHANGED txn
        /\ pc[w] \in {"idle", "ReadData"} /\ pc'[w] \in {"idle", "ReadData"}
        /\ \A v \in Workers \ {w} : pc'[v] = pc[v] /\ call'[v] = call[v]
    BY DEF READ, ReadOpen, ReadData, Begin, Answer, Return, StateOK, TypeOK, entryVars
  <1> QED BY <1>1, OwnershipKept DEF HoldsMemberMtx, HoldsTxnMtx, HoldsFileMtx

LEMMA RefuseOwnership ==
  ASSUME StateOK, MutexOwnership, NEW w \in Workers, Refuse(w)
  PROVE  MutexOwnership'
  <1>1. /\ UNCHANGED lockVars /\ UNCHANGED txn
        /\ pc[w] = "idle" /\ pc'[w] = "idle"
        /\ \A v \in Workers \ {w} : pc'[v] = pc[v] /\ call'[v] = call[v]
    BY DEF Refuse, RefuseRequest, Return, StateOK, TypeOK, entryVars
  <1> QED BY <1>1, OwnershipKept DEF HoldsTxnMtx

LEMMA NewTxnOwnership ==
  ASSUME StateOK, MutexOwnership, NEW w \in Workers, NEW_TXN(w)
  PROVE  MutexOwnership'
  <1>1. ASSUME NEW k \in SeqNums, NewTxnReject(w, k) PROVE MutexOwnership'
    <2>1. /\ UNCHANGED lockVars /\ UNCHANGED txn
          /\ pc[w] = "idle" /\ pc'[w] = "idle"
          /\ \A v \in Workers \ {w} : pc'[v] = pc[v] /\ call'[v] = call[v]
      BY <1>1 DEF NewTxnReject, Return, StateOK, TypeOK, entryVars
    <2> QED BY <2>1, OwnershipKept DEF HoldsTxnMtx
  <1>2. ASSUME NEW f \in Files, NEW id \in TxnIds, NEW h \in Handles,
               NewTxnCreate(w, f, id, h)
        PROVE  MutexOwnership'
    <2>1. /\ memberMtx = None /\ memberMtx' = w
          /\ UNCHANGED <<txnMtx, fileMtx>>
          /\ pc[w] = "idle" /\ pc'[w] = "NewTxnLog"
          /\ \A v \in Workers \ {w} : pc'[v] = pc[v] /\ call'[v] = call[v]
      BY <1>2 DEF NewTxnCreate, Begin, StateOK, TypeOK
    <2>2. \A g \in Handles : txn[g].id # None => txn'[g] = txn[g]
      BY <1>2 DEF NewTxnCreate, AddNewTransaction, StateOK, TypeOK
    <2>3. Owns(w)'
      <3>1. Owns(w) BY DEF MutexOwnership
      <3> QED BY <2>1, <3>1 DEF Owns, HoldsMemberMtx, HoldsTxnMtx, HoldsFileMtx
    <2> QED BY <2>1, <2>2, <2>3, OwnershipStep, ConstantsAssumption
  <1>3. CASE NewTxnLog(w)
    <2>1. /\ memberMtx' = None
          /\ UNCHANGED <<txnMtx, fileMtx, txn>>
          /\ pc[w] = "NewTxnLog" /\ pc'[w] = "idle"
          /\ \A v \in Workers \ {w} : pc'[v] = pc[v] /\ call'[v] = call[v]
      BY <1>3 DEF NewTxnLog, Answer, Return, StateOK, TypeOK
    <2>2. memberMtx = w /\ Owns(w)
      BY <2>1 DEF MutexOwnership, Owns, HoldsMemberMtx
    <2>3. Owns(w)'
      BY <2>1, <2>2, ConstantsAssumption
      DEF Owns, HoldsMemberMtx, HoldsTxnMtx, HoldsFileMtx
    <2> QED BY <2>1, <2>2, <2>3, OwnershipStep, ConstantsAssumption
  <1> QED BY <1>1, <1>2, <1>3 DEF NEW_TXN

LEMMA LookupOwnership ==
  ASSUME StateOK, MutexOwnership, NEW w \in Workers, NEW cmd, NEW id, NEW k,
         NEW out, Lookup(w, cmd, id, k, out)
  PROVE  MutexOwnership'
  <1>1. /\ UNCHANGED lockVars /\ UNCHANGED txn
        /\ pc[w] = "idle" /\ pc'[w] \in {"idle", "LockTxn"}
        /\ \A v \in Workers \ {w} : pc'[v] = pc[v] /\ call'[v] = call[v]
    BY DEF Lookup, Return, Begin, StateOK, TypeOK, entryVars
  <1> QED BY <1>1, OwnershipKept DEF HoldsMemberMtx, HoldsTxnMtx, HoldsFileMtx

LEMMA LockTxnOwnership ==
  ASSUME StateOK, MutexOwnership, NEW w \in Workers, NEW cmd, LockTxn(w, cmd)
  PROVE  MutexOwnership'
  <1>1. /\ txnMtx[call[w].h] = None
        /\ txnMtx' = [txnMtx EXCEPT ![call[w].h] = w]
        /\ UNCHANGED <<memberMtx, fileMtx, txn>>
        /\ pc[w] = "LockTxn" /\ Goto(w, "Recheck")
    BY DEF LockTxn, entryVars
  <1>2. /\ pc'[w] = "Recheck" /\ call'[w] = call[w]
        /\ \A v \in Workers \ {w} : pc'[v] = pc[v] /\ call'[v] = call[v]
    BY <1>1, GotoCall DEF StateOK
  <1>3. call[w].h \in Handles
    BY <1>1 DEF StateOK, CallOK
  <1>4. Owns(w)'
    <2>1. Owns(w) BY DEF MutexOwnership
    <2> QED BY <1>1, <1>2, <1>3, <2>1
            DEF Owns, HoldsMemberMtx, HoldsTxnMtx, HoldsFileMtx, StateOK, TypeOK
  <1> QED BY <1>1, <1>2, <1>3, <1>4, OwnershipStep, ConstantsAssumption
          DEF StateOK, TypeOK

LEMMA RecheckGoneOwnership ==
  ASSUME StateOK, MutexOwnership, NEW w \in Workers, NEW cmd, RecheckGone(w, cmd)
  PROVE  MutexOwnership'
  <1>1. PICK out : /\ pc[w] = "Recheck"
                   /\ Answer(w, out)
                   /\ txnMtx' = Unlock(txnMtx, call[w].h)
                   /\ UNCHANGED <<memberMtx, fileMtx, txn>>
    BY DEF RecheckGone, entryVars
  <1> QED BY <1>1, OwnershipReleased DEF HoldsMemberMtx, HoldsTxnMtx, HoldsFileMtx

LEMMA WriteOwnership ==
  ASSUME StateOK, MutexOwnership, NEW w \in Workers, WRITE(w)
  PROVE  MutexOwnership'
  <1>1. ASSUME NEW id \in TxnIds, NEW k \in SeqNums, WriteLookup(w, id, k)
        PROVE  MutexOwnership'
    BY <1>1, LookupOwnership DEF WriteLookup
  <1>2. CASE LockTxn(w, "WRITE") BY <1>2, LockTxnOwnership
  <1>3. CASE RecheckGone(w, "WRITE") BY <1>3, RecheckGoneOwnership
  <1>4. CASE WriteRecheck(w)
    <2>1. /\ UNCHANGED lockVars /\ UNCHANGED txn
          /\ pc[w] = "Recheck" /\ Goto(w, "WriteBuffer")
      BY <1>4 DEF WriteRecheck, RecheckPresent, entryVars
    <2> QED BY <2>1, GotoCall, OwnershipKept
            DEF HoldsMemberMtx, HoldsTxnMtx, HoldsFileMtx, StateOK
  <1>5. CASE WriteBuffer(w)
    <2>1. PICK out : /\ pc[w] = "WriteBuffer"
                     /\ Answer(w, out)
                     /\ txnMtx' = Unlock(txnMtx, call[w].h)
                     /\ UNCHANGED <<memberMtx, fileMtx, txn>>
      BY <1>5 DEF WriteBuffer
    <2> QED BY <2>1, OwnershipReleased DEF HoldsMemberMtx, HoldsTxnMtx, HoldsFileMtx
  <1> QED BY <1>1, <1>2, <1>3, <1>4, <1>5 DEF WRITE

LEMMA CommitOwnership ==
  ASSUME StateOK, MutexOwnership, NEW w \in Workers, COMMIT(w)
  PROVE  MutexOwnership'
  <1> USE DEF HoldsMemberMtx, HoldsTxnMtx, HoldsFileMtx
  <1>1. ASSUME NEW id \in TxnIds, NEW k \in SeqNums, CommitLookup(w, id, k)
        PROVE  MutexOwnership'
    BY <1>1, LookupOwnership DEF CommitLookup
  <1>2. CASE LockTxn(w, "COMMIT") BY <1>2, LockTxnOwnership
  <1>3. CASE RecheckGone(w, "COMMIT") BY <1>3, RecheckGoneOwnership
  <1>4. CASE CommitRecheck(w)
    <2>1. /\ UNCHANGED lockVars /\ UNCHANGED txn
          /\ pc[w] = "Recheck" /\ Goto(w, "CommitVerify")
      BY <1>4 DEF CommitRecheck, RecheckPresent, entryVars
    <2> QED BY <2>1, GotoCall, OwnershipKept DEF StateOK
  <1>5. CASE CommitVerify(w)
    <2>1. /\ pc[w] = "CommitVerify"
          /\ UNCHANGED <<memberMtx, fileMtx, txn>>
      BY <1>5 DEF CommitVerify
    <2>2. CASE Goto(w, "CommitOpen") /\ UNCHANGED txnMtx
      BY <2>1, <2>2, GotoCall, OwnershipKept DEF StateOK, lockVars
    <2>3. ASSUME NEW out, Answer(w, out), txnMtx' = Unlock(txnMtx, call[w].h)
          PROVE  MutexOwnership'
      BY <2>1, <2>3, OwnershipReleased
    <2> QED BY <1>5, <2>2, <2>3 DEF CommitVerify
  <1>6. CASE CommitOpen(w)
    <2> DEFINE a == txn[call[w].h].attrs
    <2>1. /\ pc[w] = "CommitOpen" /\ fileMtx[a] = None
          /\ UNCHANGED <<memberMtx, txn>>
      BY <1>6 DEF CommitOpen, entryVars
    <2>2. a \in Handles
      BY <2>1, CallEntry
    <2>3. CASE /\ fileMtx' = [fileMtx EXCEPT ![a] = w]
               /\ pc' = [pc EXCEPT ![w] = "CommitWrite"]
               /\ call' = [call EXCEPT ![w].i = 1]
               /\ UNCHANGED txnMtx
      <3>1. /\ pc'[w] = "CommitWrite" /\ call'[w].h = call[w].h
            /\ \A v \in Workers \ {w} : pc'[v] = pc[v] /\ call'[v] = call[v]
        BY <2>3 DEF StateOK, TypeOK, Calls
      <3>2. /\ \A h \in Handles : fileMtx'[h] = w <=> (fileMtx[h] = w \/ h = a)
            /\ \A h \in Handles : \A v \in Workers \ {w} :
                 fileMtx'[h] = v <=> fileMtx[h] = v
        BY <2>1, <2>2, <2>3, ConstantsAssumption DEF StateOK, TypeOK
      <3>3. Owns(w)'
        <4>1. Owns(w) BY DEF MutexOwnership
        <4> QED BY <2>1, <2>3, <3>1, <3>2, <4>1 DEF Owns
      <3> QED BY <2>1, <2>3, <3>1, <3>2, <3>3, OwnershipStep
    <2>4. CASE /\ Answer(w, "ErrorOpeningFile")
               /\ txnMtx' = Unlock(txnMtx, call[w].h)
               /\ UNCHANGED fileMtx
      BY <2>1, <2>4, OwnershipReleased
    <2> QED BY <1>6, <2>3, <2>4 DEF CommitOpen
  <1>7. CASE CommitWrite(w)
    <2>1. /\ pc[w] = "CommitWrite"
          /\ UNCHANGED <<memberMtx, txnMtx, txn>>
      BY <1>7 DEF CommitWrite, entryVars
    <2>2. CASE /\ pc' = [pc EXCEPT ![w] = IF call[w].i < maxSeq[call[w].h]
                                          THEN "CommitWrite" ELSE "CommitInsert"]
               /\ call' = [call EXCEPT ![w].i = call[w].i + 1]
               /\ UNCHANGED fileMtx
      <3>1. /\ pc'[w] \in {"CommitWrite", "CommitInsert"} /\ call'[w].h = call[w].h
            /\ \A v \in Workers \ {w} : pc'[v] = pc[v] /\ call'[v] = call[v]
        BY <2>2 DEF StateOK, TypeOK, Calls
      <3> QED BY <2>1, <2>2, <3>1, OwnershipKept DEF lockVars
    <2>3. CASE /\ Goto(w, "CommitRollback")
               /\ fileMtx' = Unlock(fileMtx, txn[call[w].h].attrs)
      <3>1. /\ pc'[w] = "CommitRollback" /\ call'[w] = call[w]
            /\ \A v \in Workers \ {w} : pc'[v] = pc[v] /\ call'[v] = call[v]
        BY <2>3, GotoCall DEF StateOK
      <3>2. Owns(w)'
        <4>1. Owns(w) BY DEF MutexOwnership
        <4> QED BY <2>1, <2>3, <3>1, <4>1, OthersUnlockFile DEF Owns
      <3> QED BY <2>1, <2>3, <3>1, <3>2, OthersUnlockFile, OwnershipStep
    <2> QED BY <1>7, <2>2, <2>3 DEF CommitWrite
  <1>8. CASE CommitRollback(w)
    <2>1. /\ pc[w] = "CommitRollback" /\ pc'[w] = "CommitTruncate"
          /\ call'[w].h = call[w].h
          /\ UNCHANGED lockVars /\ UNCHANGED txn
          /\ \A v \in Workers \ {w} : pc'[v] = pc[v] /\ call'[v] = call[v]
      BY <1>8 DEF CommitRollback, StateOK, TypeOK, Calls, entryVars
    <2> QED BY <2>1, OwnershipKept
  <1>9. CASE CommitTruncate(w)
    <2>1. /\ pc[w] = "CommitTruncate"
          /\ Answer(w, "ErrorWritingFile")
          /\ txnMtx' = Unlock(txnMtx, call[w].h)
          /\ UNCHANGED <<memberMtx, fileMtx, txn>>
      BY <1>9 DEF CommitTruncate, entryVars
    <2> QED BY <2>1, OwnershipReleased
  <1>10. CASE CommitInsert(w)
    <2>1. /\ UNCHANGED lockVars /\ UNCHANGED txn
          /\ pc[w] = "CommitInsert" /\ Goto(w, "CommitLog")
      BY <1>10 DEF CommitInsert
    <2> QED BY <2>1, GotoCall, OwnershipKept DEF StateOK
  <1>11. CASE CommitLog(w)
    <2>1. /\ UNCHANGED lockVars /\ UNCHANGED txn
          /\ pc[w] = "CommitLog" /\ Goto(w, "CommitSize")
      BY <1>11 DEF CommitLog, entryVars
    <2> QED BY <2>1, GotoCall, OwnershipKept DEF StateOK
  <1>12. CASE CommitSize(w)
    <2>1. /\ pc[w] = "CommitSize" /\ Goto(w, "CommitRemove")
          /\ fileMtx' = Unlock(fileMtx, txn[call[w].h].attrs)
          /\ UNCHANGED <<memberMtx, txnMtx, txn>>
      BY <1>12 DEF CommitSize
    <2>2. /\ pc'[w] = "CommitRemove" /\ call'[w] = call[w]
          /\ \A v \in Workers \ {w} : pc'[v] = pc[v] /\ call'[v] = call[v]
      BY <2>1, GotoCall DEF StateOK
    <2>3. Owns(w)'
      <3>1. Owns(w) BY DEF MutexOwnership
      <3> QED BY <2>1, <2>2, <3>1, OthersUnlockFile DEF Owns
    <2> QED BY <2>1, <2>2, <2>3, OthersUnlockFile, OwnershipStep
  <1>13. CASE CommitRemove(w)
    <2>1. /\ pc[w] = "CommitRemove"
          /\ Answer(w, "ACK")
          /\ txnMtx' = Unlock(txnMtx, call[w].h)
          /\ UNCHANGED <<memberMtx, fileMtx, txn>>
      BY <1>13 DEF CommitRemove, entryVars
    <2> QED BY <2>1, OwnershipReleased
  <1> QED BY <1>1, <1>2, <1>3, <1>4, <1>5, <1>6, <1>7, <1>8, <1>9, <1>10, <1>11,
             <1>12, <1>13 DEF COMMIT

LEMMA AbortOwnership ==
  ASSUME StateOK, MutexOwnership, NEW w \in Workers, ABORT(w)
  PROVE  MutexOwnership'
  <1> USE DEF HoldsMemberMtx, HoldsTxnMtx, HoldsFileMtx
  <1>1. ASSUME NEW id \in TxnIds, AbortLookup(w, id) PROVE MutexOwnership'
    BY <1>1, LookupOwnership DEF AbortLookup
  <1>2. CASE LockTxn(w, "ABORT") BY <1>2, LockTxnOwnership
  <1>3. CASE RecheckGone(w, "ABORT") BY <1>3, RecheckGoneOwnership
  <1>4. CASE AbortRecheck(w)
    <2>1. /\ UNCHANGED <<txnMtx, fileMtx, txn>>
          /\ memberMtx = None /\ memberMtx' = w
          /\ pc[w] = "Recheck" /\ Goto(w, "AbortUnlock")
      BY <1>4 DEF AbortRecheck, RecheckPresent, entryVars
    <2>2. /\ pc'[w] = "AbortUnlock" /\ call'[w] = call[w]
          /\ \A v \in Workers \ {w} : pc'[v] = pc[v] /\ call'[v] = call[v]
      BY <2>1, GotoCall DEF StateOK
    <2>3. Owns(w)'
      <3>1. Owns(w) BY DEF MutexOwnership
      <3> QED BY <2>1, <2>2, <3>1 DEF Owns
    <2> QED BY <2>1, <2>2, <2>3, OwnershipStep, ConstantsAssumption
  <1>5. CASE AbortUnlock(w)
    <2>1. /\ pc[w] = "AbortUnlock" /\ Goto(w, "AbortRemove")
          /\ txnMtx' = Unlock(txnMtx, call[w].h)
          /\ UNCHANGED <<memberMtx, fileMtx, txn>>
      BY <1>5 DEF AbortUnlock, entryVars
    <2>2. /\ pc'[w] = "AbortRemove" /\ call'[w] = call[w]
          /\ \A v \in Workers \ {w} : pc'[v] = pc[v] /\ call'[v] = call[v]
      BY <2>1, GotoCall DEF StateOK
    <2>3. Owns(w)'
      <3>1. Owns(w) BY DEF MutexOwnership
      <3> QED BY <2>1, <2>2, <3>1, OthersUnlock DEF Owns
    <2> QED BY <2>1, <2>2, <2>3, OthersUnlock, OwnershipStep
  <1>6. CASE AbortRemove(w)
    <2>1. /\ memberMtx' = None
          /\ UNCHANGED <<txnMtx, fileMtx, txn>>
          /\ pc[w] = "AbortRemove" /\ pc'[w] = "idle"
          /\ \A v \in Workers \ {w} : pc'[v] = pc[v] /\ call'[v] = call[v]
      BY <1>6 DEF AbortRemove, Answer, Return, StateOK, TypeOK
    <2>2. memberMtx = w /\ Owns(w)
      BY <2>1 DEF MutexOwnership, Owns
    <2>3. Owns(w)'
      BY <2>1, <2>2, ConstantsAssumption DEF Owns
    <2> QED BY <2>1, <2>2, <2>3, OwnershipStep, ConstantsAssumption
  <1> QED BY <1>1, <1>2, <1>3, <1>4, <1>5, <1>6 DEF ABORT

LEMMA OwnershipInductive ==
  StateOK /\ MutexOwnership /\ [Next]_vars => MutexOwnership'
  <1> SUFFICES ASSUME StateOK, MutexOwnership, [Next]_vars PROVE MutexOwnership'
    OBVIOUS
  <1>1. CASE UNCHANGED vars
    BY <1>1
    DEF vars, entryVars, lockVars, threadVars, MutexOwnership, Owns
  <1>2. ASSUME NEW w \in Workers,
               READ(w) \/ NEW_TXN(w) \/ WRITE(w) \/ COMMIT(w) \/ ABORT(w) \/ Refuse(w)
        PROVE  MutexOwnership'
    BY <1>2, ReadOwnership, NewTxnOwnership, WriteOwnership, CommitOwnership,
       AbortOwnership, RefuseOwnership
  <1>3. ASSUME NEW h \in Handles, Expire(h) \/ Timer(h) PROVE MutexOwnership'
    BY <1>3
    DEF Expire, Timer, TimerFire, TimerExit, lockVars, MutexOwnership, Owns
  <1> QED BY <1>1, <1>2, <1>3 DEF Next

\* In every reachable state each mutex is held exactly by the thread that is
\* where the code holds it, whatever fails and whatever is requested.
THEOREM MutexesOwned == Spec => []MutexOwnership
  <1>1. StateOK /\ MutexOwnership /\ [Next]_vars => StateOK' /\ MutexOwnership'
    BY StateStep, OwnershipInductive
  <1>2. Init => StateOK /\ MutexOwnership
    BY InitStateOK, InitOwnership
  <1> QED BY <1>1, <1>2, PTL DEF Spec

-----------------------------------------------------------------------------
(* The attributes of a file.                                               *)

\* The map finds complete entries.
LEMMA LiveEntry ==
  ASSUME StateOK, NEW id \in TxnIds, txnMap[id] # None
  PROVE  /\ txnMap[id] \in Handles
         /\ txn[txnMap[id]].id = id /\ txn[txnMap[id]].id # None
         /\ txn[txnMap[id]].file \in Files /\ txn[txnMap[id]].attrs \in Handles
  <1>1. txnMap[id] \in Handles /\ txn[txnMap[id]].id = id /\ id # None
    BY ConstantsAssumption DEF StateOK, TypeOK, EntriesOK
  <1> QED BY <1>1 DEF StateOK, EntriesOK

\* A transaction is erased: those that share its attributes keep them.
LEMMA RemoveShared ==
  ASSUME StateOK, FileAttributesShared, AttributesNamed, NEW id \in TxnIds,
         RemoveTransaction(id), UNCHANGED txn
  PROVE  FileAttributesShared' /\ AttributesNamed'
  <1> DEFINE h == txnMap[id]
             shared == \E other \in TxnIds \ {id} :
                          /\ txnMap[other] # None
                          /\ txn[txnMap[other]].attrs = txn[h].attrs
  <1> USE DEF StateOK
  <1>1. CASE h = None
    BY <1>1 DEF RemoveTransaction, FileAttributesShared, AttributesNamed
  <1>2. CASE h # None /\ shared
    <2>1. /\ txnMap' = [txnMap EXCEPT ![id] = None]
          /\ UNCHANGED fileMap
      BY <1>2 DEF RemoveTransaction
    <2>2. PICK other \in TxnIds \ {id} :
                 /\ txnMap[other] # None
                 /\ txn[txnMap[other]].attrs = txn[h].attrs
      BY <1>2
    <2>3. /\ h \in Handles /\ txnMap[other] \in Handles
          /\ txn[h].id # None /\ txn[txnMap[other]].id # None
      BY <1>2, <2>2, ConstantsAssumption DEF TypeOK, EntriesOK
    <2>4. /\ txn[h].file \in Files /\ txn[txnMap[other]].file \in Files
          /\ fileMap[txn[h].file] # None
          /\ fileMap[txn[h].file] = fileMap[txn[txnMap[other]].file]
      BY <1>2, <2>2, <2>3, ConstantsAssumption DEF FileAttributesShared, EntriesOK
    <2>5. txn[h].file = txn[txnMap[other]].file
      BY <2>4 DEF AttributesNamed
    <2>6. \A f \in Files : fileMap[f] # None =>
            \E i \in TxnIds : txnMap'[i] # None /\ txn[txnMap'[i]].file = f
      <3> SUFFICES ASSUME NEW f \in Files, fileMap[f] # None
                   PROVE  \E i \in TxnIds : txnMap'[i] # None /\ txn[txnMap'[i]].file = f
        OBVIOUS
      <3>1. PICK i \in TxnIds : txnMap[i] # None /\ txn[txnMap[i]].file = f
        BY DEF FileAttributesShared
      <3>2. CASE i = id
        BY <2>1, <2>2, <2>5, <3>1, <3>2 DEF TypeOK
      <3>3. CASE i # id
        BY <2>1, <3>1, <3>3 DEF TypeOK
      <3> QED BY <3>2, <3>3
    <2> QED BY <2>1, <2>6 DEF FileAttributesShared, AttributesNamed, TypeOK
  <1>3. CASE h # None /\ ~shared
    <2>1. /\ txnMap' = [txnMap EXCEPT ![id] = None]
          /\ fileMap' = [fileMap EXCEPT ![txn[h].file] = None]
      BY <1>3 DEF RemoveTransaction
    <2>2. /\ h \in Handles /\ txn[h].file \in Files
          /\ fileMap[txn[h].file] = txn[h].attrs
      <3>1. h \in Handles /\ txn[h].id = id
        BY <1>3 DEF TypeOK, EntriesOK
      <3>2. txn[h].file \in Files
        BY <3>1, ConstantsAssumption DEF EntriesOK
      <3> QED BY <1>3, <3>1, <3>2 DEF FileAttributesShared
    <2>3. \A i \in TxnIds \ {id} : txnMap[i] # None =>
            /\ txn[txnMap[i]].file # txn[h].file
            /\ txn[txnMap[i]].file \in Files
      BY <1>3, <2>2, LiveEntry DEF FileAttributesShared
    <2>4. \A i \in TxnIds : txnMap'[i] # None => i # id /\ txnMap'[i] = txnMap[i]
      BY <2>1 DEF TypeOK
    <2>5. \A f \in Files : fileMap'[f] # None =>
            f # txn[h].file /\ fileMap'[f] = fileMap[f]
      BY <2>1 DEF TypeOK
    <2>6. AttributesNamed'
      BY <2>5 DEF AttributesNamed
    <2>7. \A i \in TxnIds : txnMap'[i] # None =>
            txn[txnMap'[i]].attrs = fileMap'[txn[txnMap'[i]].file]
      BY <2>1, <2>3, <2>4 DEF TypeOK, FileAttributesShared
    <2>8. \A f \in Files : fileMap'[f] # None =>
            \E i \in TxnIds : txnMap'[i] # None /\ txn[txnMap'[i]].file = f
      <3> SUFFICES ASSUME NEW f \in Files, fileMap'[f] # None
                   PROVE  \E i \in TxnIds : txnMap'[i] # None /\ txn[txnMap'[i]].file = f
        OBVIOUS
      <3>1. PICK i \in TxnIds : txnMap[i] # None /\ txn[txnMap[i]].file = f
        BY <2>5 DEF FileAttributesShared
      <3>2. i # id
        BY <2>5, <3>1
      <3> QED BY <2>1, <3>1, <3>2 DEF TypeOK
    <2> QED BY <2>6, <2>7, <2>8 DEF FileAttributesShared
  <1> QED BY <1>1, <1>2, <1>3

\* A transaction is created: it shares the attributes or brings its own.
LEMMA AddShared ==
  ASSUME StateOK, FileAttributesShared, AttributesNamed, NEW f \in Files,
         NEW id \in TxnIds, NEW h \in Handles, txnMap[id] = None,
         txn[h].id = None, AddNewTransaction(h, id, f)
  PROVE  FileAttributesShared' /\ AttributesNamed'
  <1> USE DEF StateOK
  <1> DEFINE a == IF fileMap[f] = None THEN h ELSE fileMap[f]
  <1>1. /\ txnMap' = [txnMap EXCEPT ![id] = h]
        /\ fileMap' = [fileMap EXCEPT ![f] = a]
        /\ txn' = [txn EXCEPT ![h] = [id |-> id, file |-> f, attrs |-> a]]
    BY DEF AddNewTransaction
  <1>2. /\ txn'[h].id = id /\ txn'[h].file = f /\ txn'[h].attrs = a
        /\ \A g \in Handles \ {h} : txn'[g] = txn[g]
    BY <1>1 DEF TypeOK
  <1>3. /\ txnMap'[id] = h
        /\ \A i \in TxnIds \ {id} : txnMap'[i] = txnMap[i]
        /\ fileMap'[f] = a
        /\ \A g \in Files \ {f} : fileMap'[g] = fileMap[g]
    BY <1>1 DEF TypeOK
  <1>4. \A i \in TxnIds : txnMap[i] # None =>
          txnMap[i] \in Handles \ {h} /\ txn[txnMap[i]].file \in Files
    BY LiveEntry
  <1>5. \A g \in Files : fileMap[g] # None => fileMap[g] \in Handles \ {h}
    BY DEF TypeOK, AttributesNamed
  <1>6. AttributesNamed'
    BY <1>2, <1>3, <1>5, ConstantsAssumption DEF AttributesNamed
  <1>7. \A i \in TxnIds : txnMap'[i] # None =>
          txn'[txnMap'[i]].attrs = fileMap'[txn'[txnMap'[i]].file]
    <2>1. ASSUME NEW i \in TxnIds \ {id}, txnMap[i] # None
          PROVE  txn'[txnMap'[i]].attrs = fileMap'[txn'[txnMap'[i]].file]
      <3>1. /\ txn'[txnMap'[i]] = txn[txnMap[i]]
            /\ txn[txnMap[i]].attrs = fileMap[txn[txnMap[i]].file]
        BY <1>2, <1>3, <1>4, <2>1 DEF FileAttributesShared
      <3>2. txn[txnMap[i]].attrs # None
        BY <2>1, LiveEntry, ConstantsAssumption
      <3> QED BY <1>3, <1>4, <2>1, <3>1, <3>2
    <2> QED BY <1>2, <1>3, <2>1
  <1>8. \A g \in Files : fileMap'[g] # None =>
          \E i \in TxnIds : txnMap'[i] # None /\ txn'[txnMap'[i]].file = g
    <2>1. ASSUME NEW g \in Files \ {f}, fileMap'[g] # None
          PROVE  \E i \in TxnIds : txnMap'[i] # None /\ txn'[txnMap'[i]].file = g
      <3>1. PICK i \in TxnIds : txnMap[i] # None /\ txn[txnMap[i]].file = g
        BY <1>3, <2>1 DEF FileAttributesShared
      <3> QED BY <1>2, <1>3, <1>4, <3>1
    <2>2. txnMap'[id] # None /\ txn'[txnMap'[id]].file = f
      BY <1>2, <1>3, ConstantsAssumption
    <2> QED BY <2>1, <2>2
  <1> QED BY <1>6, <1>7, <1>8 DEF FileAttributesShared

\* What a step does to the two maps and to the entries.
LEMMA MapSteps ==
  ASSUME StateOK, [Next]_vars
  PROVE  \/ UNCHANGED <<txnMap, fileMap, txn>>
         \/ \E id \in TxnIds : RemoveTransaction(id) /\ UNCHANGED txn
         \/ \E f \in Files, id \in TxnIds, h \in Handles :
              /\ txnMap[id] = None /\ txn[h].id = None
              /\ Candidate(id)
              /\ AddNewTransaction(h, id, f)
  <1>1. CASE UNCHANGED vars
    BY <1>1 DEF vars, registryVars, entryVars
  <1>2. ASSUME NEW w \in Workers, READ(w) \/ Refuse(w)
        PROVE  UNCHANGED <<txnMap, fileMap, txn>>
    BY <1>2
    DEF READ, ReadOpen, ReadData, Refuse, RefuseRequest, registryVars, entryVars
  <1>3. ASSUME NEW w \in Workers, NEW_TXN(w)
        PROVE  \/ UNCHANGED <<txnMap, fileMap, txn>>
               \/ \E f \in Files, id \in TxnIds, h \in Handles :
                    /\ txnMap[id] = None /\ txn[h].id = None
                    /\ Candidate(id)
                    /\ AddNewTransaction(h, id, f)
    BY <1>3
    DEF NEW_TXN, NewTxnReject, NewTxnCreate, NewTxnLog, Candidate, registryVars, entryVars
  <1>4. ASSUME NEW w \in Workers, WRITE(w) PROVE UNCHANGED <<txnMap, fileMap, txn>>
    BY <1>4
    DEF WRITE, WriteLookup, Lookup, LockTxn, RecheckGone, WriteRecheck, WriteBuffer,
        registryVars, entryVars
  <1>5. ASSUME NEW w \in Workers, COMMIT(w)
        PROVE  \/ UNCHANGED <<txnMap, fileMap, txn>>
               \/ \E id \in TxnIds : RemoveTransaction(id) /\ UNCHANGED txn
    <2>1. CASE CommitRemove(w)
      BY <2>1, CallEntry DEF CommitRemove, entryVars, HoldsTxnMtx
    <2>2. CASE ~CommitRemove(w)
      BY <1>5, <2>2
      DEF COMMIT, CommitLookup, Lookup, LockTxn, RecheckGone, CommitRecheck,
          CommitVerify, CommitOpen, CommitWrite, CommitRollback, CommitTruncate,
          CommitInsert, CommitLog, CommitSize, registryVars, entryVars
    <2> QED BY <2>1, <2>2
  <1>6. ASSUME NEW w \in Workers, ABORT(w)
        PROVE  \/ UNCHANGED <<txnMap, fileMap, txn>>
               \/ \E id \in TxnIds : RemoveTransaction(id) /\ UNCHANGED txn
    <2>1. CASE AbortRemove(w)
      BY <2>1, CallEntry DEF AbortRemove, UsesTxn
    <2>2. CASE ~AbortRemove(w)
      BY <1>6, <2>2
      DEF ABORT, AbortLookup, Lookup, LockTxn, RecheckGone, AbortRecheck,
          AbortUnlock, registryVars, entryVars
    <2> QED BY <2>1, <2>2
  <1>7. ASSUME NEW h \in Handles, Expire(h) \/ Timer(h)
        PROVE  \/ UNCHANGED <<txnMap, fileMap, txn>>
               \/ \E id \in TxnIds : RemoveTransaction(id) /\ UNCHANGED txn
    <2>1. CASE TimerFire(h)
      <3>1. txn[h].id \in TxnIds
        BY <2>1 DEF TimerFire, StateOK, TypeOK, EntriesOK, TransactionAttributes
      <3> QED BY <2>1, <3>1 DEF TimerFire
    <2>2. CASE ~TimerFire(h)
      BY <1>7, <2>2 DEF Expire, Timer, TimerExit, registryVars
    <2> QED BY <2>1, <2>2
  <1> QED BY <1>1, <1>2, <1>3, <1>4, <1>5, <1>6, <1>7 DEF Next

LEMMA SharedInductive ==
  ASSUME StateOK, FileAttributesShared, AttributesNamed, [Next]_vars
  PROVE  FileAttributesShared' /\ AttributesNamed'
  <1>1. CASE UNCHANGED <<txnMap, fileMap, txn>>
    BY <1>1 DEF FileAttributesShared, AttributesNamed
  <1>2. ASSUME NEW id \in TxnIds, RemoveTransaction(id), UNCHANGED txn
        PROVE  FileAttributesShared' /\ AttributesNamed'
    BY <1>2, RemoveShared
  <1>3. ASSUME NEW f \in Files, NEW id \in TxnIds, NEW h \in Handles,
               txnMap[id] = None, txn[h].id = None, AddNewTransaction(h, id, f)
        PROVE  FileAttributesShared' /\ AttributesNamed'
    BY <1>3, AddShared
  <1> QED BY <1>1, <1>2, <1>3, MapSteps

\* All open transactions on a file share the one FileAttributes object that
\* m_file_name_to_ptr_to_file_attributes has for it, whatever the timers do.
THEOREM AttributesShared == Spec => []FileAttributesShared
  <1> DEFINE I == StateOK /\ FileAttributesShared /\ AttributesNamed
  <1>1. Init => I
    <2>1. Init => FileAttributesShared /\ AttributesNamed
      BY DEF Init, FileAttributesShared, AttributesNamed
    <2> QED BY <2>1, InitStateOK
  <1>2. I /\ [Next]_vars => I'
    BY StateStep, SharedInductive
  <1> QED BY <1>1, <1>2, PTL DEF Spec

-----------------------------------------------------------------------------
(* Isolation: what holds when no timer fires while a request works on its  *)
(* transaction, and no transaction id is used twice.                       *)

\* Threads that use a transaction after a step used the same one before it.
NobodyEnters ==
  \A v \in Workers : pc'[v] \in UsesTxn =>
    /\ pc[v] \in UsesTxn
    /\ call'[v].h = call[v].h
    /\ call'[v].id = call[v].id

\* w passes the second look at its transaction.
Enters(w) ==
  /\ pc[w] = "Recheck" /\ pc'[w] \in UsesTxn
  /\ memberMtx = None
  /\ ~Gone(w)
  /\ UNCHANGED <<txnMap, txn, call>>
  /\ \A v \in Workers \ {w} : pc'[v] = pc[v]

\* w erases the transaction it uses and is done with it.
Leaves(w) ==
  /\ pc[w] \in UsesTxn /\ pc'[w] \notin UsesTxn
  /\ RemoveTransaction(call[w].id)
  /\ NobodyEnters

LEMMA LookupUse ==
  ASSUME StateOK, NEW w \in Workers, NEW cmd, NEW id, NEW k, NEW out,
         Lookup(w, cmd, id, k, out)
  PROVE  NobodyEnters /\ UNCHANGED txnMap
  <1>1. pc'[w] \in {"LockTxn", "idle"} /\ UNCHANGED txnMap
        /\ \A v \in Workers \ {w} : pc'[v] = pc[v] /\ call'[v] = call[v]
    BY DEF Lookup, Return, Begin, StateOK, TypeOK, registryVars
  <1> QED BY <1>1 DEF NobodyEnters, UsesTxn, HoldsTxnMtx

LEMMA LockUse ==
  ASSUME StateOK, NEW w \in Workers, NEW cmd, LockTxn(w, cmd) \/ RecheckGone(w, cmd)
  PROVE  NobodyEnters /\ UNCHANGED txnMap
  <1>1. pc'[w] \in {"Recheck", "idle"} /\ UNCHANGED txnMap
        /\ \A v \in Workers \ {w} : pc'[v] = pc[v] /\ call'[v] = call[v]
    BY DEF LockTxn, RecheckGone, Goto, Answer, Return, StateOK, TypeOK, registryVars
  <1> QED BY <1>1 DEF NobodyEnters, UsesTxn, HoldsTxnMtx

\* A step of a thread that uses its transaction and goes on to do so.
LEMMA GotoUse ==
  ASSUME StateOK, NEW w \in Workers, NEW label, Goto(w, label), pc[w] \in UsesTxn
  PROVE  NobodyEnters
  BY GotoCall DEF NobodyEnters, StateOK

LEMMA AnswerUse ==
  ASSUME StateOK, NEW w \in Workers, NEW out, Answer(w, out)
  PROVE  NobodyEnters /\ pc'[w] \notin UsesTxn
  BY DEF Answer, Return, NobodyEnters, UsesTxn, HoldsTxnMtx, StateOK, TypeOK

\* RecheckPresent is the only way in.
LEMMA EnterUse ==
  ASSUME StateOK, NEW w \in Workers, NEW cmd, NEW label \in UsesTxn,
         RecheckPresent(w, cmd, label), UNCHANGED <<txnMap, txn>>
  PROVE  Enters(w)
  BY GotoCall DEF RecheckPresent, Enters, StateOK, Goto

LEMMA CommitUse ==
  ASSUME StateOK, NEW w \in Workers, COMMIT(w)
  PROVE  Enters(w) \/ Leaves(w) \/ (NobodyEnters /\ UNCHANGED txnMap)
  <1> USE DEF UsesTxn, HoldsTxnMtx
  <1>1. ASSUME NEW id \in TxnIds, NEW k \in SeqNums, CommitLookup(w, id, k)
        PROVE  NobodyEnters /\ UNCHANGED txnMap
    BY <1>1, LookupUse DEF CommitLookup
  <1>2. CASE LockTxn(w, "COMMIT") \/ RecheckGone(w, "COMMIT") BY <1>2, LockUse
  <1>3. CASE CommitRecheck(w)
    BY <1>3, EnterUse DEF CommitRecheck, registryVars, entryVars
  <1>4. CASE CommitVerify(w)
    <2>1. pc[w] = "CommitVerify" /\ UNCHANGED txnMap
      BY <1>4 DEF CommitVerify, registryVars
    <2>2. Goto(w, "CommitOpen") \/ \E out : Answer(w, out)
      BY <1>4 DEF CommitVerify
    <2> QED BY <2>1, <2>2, GotoUse, AnswerUse
  <1>5. CASE CommitOpen(w) \/ CommitWrite(w) \/ CommitRollback(w)
    <2>1. pc[w] \in UsesTxn /\ UNCHANGED txnMap
      BY <1>5 DEF CommitOpen, CommitWrite, CommitRollback, registryVars
    <2>2. CASE \E n : call' = [call EXCEPT ![w].i = n] /\ \A v \in Workers \ {w} : pc'[v] = pc[v]
      <3>1. \A v \in Workers : call'[v].h = call[v].h /\ call'[v].id = call[v].id
        BY <2>2 DEF StateOK, TypeOK, Calls
      <3> QED BY <2>1, <2>2, <3>1 DEF NobodyEnters
    <2>3. CASE Goto(w, "CommitRollback") \/ Answer(w, "ErrorOpeningFile")
      BY <2>1, <2>3, GotoUse, AnswerUse
    <2>4. \/ Goto(w, "CommitRollback") \/ Answer(w, "ErrorOpeningFile")
          \/ \E n, label : /\ call' = [call EXCEPT ![w].i = n]
                           /\ pc' = [pc EXCEPT ![w] = label]
      BY <1>5 DEF CommitOpen, CommitWrite, CommitRollback
    <2> QED BY <2>2, <2>3, <2>4 DEF StateOK, TypeOK
  <1>6. CASE CommitTruncate(w)
    BY <1>6, AnswerUse DEF CommitTruncate, registryVars
  <1>7. CASE CommitInsert(w) \/ CommitLog(w) \/ CommitSize(w)
    BY <1>7, GotoUse DEF CommitInsert, CommitLog, CommitSize, registryVars
  <1>8. CASE CommitRemove(w)
    <2>1. /\ pc[w] \in UsesTxn
          /\ RemoveTransaction(call[w].id)
          /\ Answer(w, "ACK")
      BY <1>8 DEF CommitRemove
    <2> QED BY <2>1, AnswerUse DEF Leaves
  <1> QED BY <1>1, <1>2, <1>3, <1>4, <1>5, <1>6, <1>7, <1>8 DEF COMMIT

LEMMA OtherUse ==
  ASSUME StateOK, NEW w \in Workers,
         READ(w) \/ NEW_TXN(w) \/ WRITE(w) \/ ABORT(w) \/ Refuse(w)
  PROVE  \/ Enters(w) \/ Leaves(w)
         \/ /\ NobodyEnters
            /\ \A id \in TxnIds : txnMap[id] # None => txnMap'[id] = txnMap[id]
  <1> USE DEF UsesTxn, HoldsTxnMtx
  <1>1. CASE READ(w) \/ Refuse(w)
    <2>1. /\ pc'[w] \in {"ReadData", "idle"}
          /\ UNCHANGED txnMap
          /\ \A v \in Workers \ {w} : pc'[v] = pc[v] /\ call'[v] = call[v]
      BY <1>1
      DEF READ, ReadOpen, ReadData, Refuse, RefuseRequest, Begin, Answer, Return,
          StateOK, TypeOK, registryVars
    <2> QED BY <2>1 DEF NobodyEnters
  <1>2. CASE NEW_TXN(w)
    <2>1. ASSUME NEW k \in SeqNums, NewTxnReject(w, k)
          PROVE  NobodyEnters /\ UNCHANGED txnMap
      BY <2>1 DEF NewTxnReject, Return, NobodyEnters, StateOK, TypeOK, registryVars
    <2>2. ASSUME NEW f \in Files, NEW id \in TxnIds, NEW h \in Handles,
                 NewTxnCreate(w, f, id, h)
          PROVE  /\ NobodyEnters
                 /\ \A i \in TxnIds : txnMap[i] # None => txnMap'[i] = txnMap[i]
      BY <2>2
      DEF NewTxnCreate, Candidate, AddNewTransaction, Begin, NobodyEnters, StateOK,
          TypeOK
    <2>3. CASE NewTxnLog(w)
      BY <2>3, AnswerUse DEF NewTxnLog, registryVars
    <2> QED BY <1>2, <2>1, <2>2, <2>3 DEF NEW_TXN
  <1>3. CASE WRITE(w)
    <2>1. ASSUME NEW id \in TxnIds, NEW k \in SeqNums, WriteLookup(w, id, k)
          PROVE  NobodyEnters /\ UNCHANGED txnMap
      BY <2>1, LookupUse DEF WriteLookup
    <2>2. CASE LockTxn(w, "WRITE") \/ RecheckGone(w, "WRITE") BY <2>2, LockUse
    <2>3. CASE WriteRecheck(w)
      BY <2>3, EnterUse DEF WriteRecheck, registryVars, entryVars
    <2>4. CASE WriteBuffer(w)
      BY <2>4, AnswerUse DEF WriteBuffer, registryVars
    <2> QED BY <1>3, <2>1, <2>2, <2>3, <2>4 DEF WRITE
  <1>4. CASE ABORT(w)
    <2>1. ASSUME NEW id \in TxnIds, AbortLookup(w, id)
          PROVE  NobodyEnters /\ UNCHANGED txnMap
      BY <2>1, LookupUse DEF AbortLookup
    <2>2. CASE LockTxn(w, "ABORT") \/ RecheckGone(w, "ABORT") BY <2>2, LockUse
    <2>3. CASE AbortRecheck(w)
      BY <2>3, EnterUse DEF AbortRecheck, registryVars, entryVars
    <2>4. CASE AbortUnlock(w)
      BY <2>4, GotoUse DEF AbortUnlock, registryVars
    <2>5. CASE AbortRemove(w)
      BY <2>5, AnswerUse DEF AbortRemove, Leaves
    <2> QED BY <1>4, <2>1, <2>2, <2>3, <2>4, <2>5 DEF ABORT
  <1> QED BY <1>1, <1>2, <1>3, <1>4

\* The steps of the timers and of the clock change nobody's use; the timer
\* may erase an entry, which no request is using.
LEMMA TimerUse ==
  ASSUME StateOK, ~TimerRaces, NEW h \in Handles, Expire(h) \/ Timer(h)
  PROVE  /\ UNCHANGED <<pc, call>>
         /\ \/ UNCHANGED txnMap
            \/ \E id \in TxnIds : /\ RemoveTransaction(id)
                                  /\ txnMap[id] # None
                                  /\ ~InUse(txnMap[id])
  <1>1. CASE TimerFire(h)
    <2>1. txn[h].id \in TxnIds
      BY <1>1 DEF TimerFire, StateOK, TypeOK, EntriesOK, TransactionAttributes
    <2> QED BY <1>1, <2>1 DEF TimerFire
  <1>2. CASE ~TimerFire(h)
    BY <1>2 DEF Expire, Timer, TimerExit, registryVars
  <1> QED BY <1>1, <1>2

LEMMA UniqueInductive ==
  ASSUME StateOK, ~IdReuse, UniqueIds, [Next]_vars
  PROVE  UniqueIds'
  <1>1. CASE UNCHANGED txn
    BY <1>1 DEF UniqueIds
  <1>2. ASSUME NEW w \in Workers, NEW f \in Files, NEW id \in TxnIds,
               NEW h \in Handles, NewTxnCreate(w, f, id, h)
        PROVE  UniqueIds'
    <2>1. /\ \A g \in Handles : txn[g].id # id
          /\ txn'[h].id = id
          /\ \A g \in Handles \ {h} : txn'[g] = txn[g]
      BY <1>2 DEF NewTxnCreate, Candidate, AddNewTransaction, StateOK, TypeOK
    <2> QED BY <2>1 DEF UniqueIds
  <1>3. ASSUME NEW w \in Workers,
               READ(w) \/ WRITE(w) \/ Refuse(w)
        PROVE  UNCHANGED txn
    BY <1>3
    DEF entryVars, READ, ReadOpen, ReadData, Refuse, RefuseRequest, WRITE, WriteLookup, Lookup, LockTxn,
        RecheckGone, WriteRecheck, WriteBuffer
  <1>4. ASSUME NEW w \in Workers, COMMIT(w) PROVE UNCHANGED txn
    BY <1>4
    DEF entryVars, COMMIT, CommitLookup, Lookup, LockTxn, RecheckGone, CommitRecheck,
        CommitVerify, CommitOpen, CommitWrite, CommitRollback, CommitTruncate,
        CommitInsert, CommitLog, CommitSize, CommitRemove
  <1>5. ASSUME NEW w \in Workers, ABORT(w) PROVE UNCHANGED txn
    BY <1>5
    DEF entryVars, ABORT, AbortLookup, Lookup, LockTxn, RecheckGone, AbortRecheck,
        AbortUnlock, AbortRemove
  <1>6. ASSUME NEW w \in Workers, NEW_TXN(w) PROVE UniqueIds'
    <2>1. \/ UNCHANGED txn
          \/ \E f \in Files, id \in TxnIds, h \in Handles : NewTxnCreate(w, f, id, h)
      BY <1>6 DEF NEW_TXN, NewTxnReject, NewTxnLog, entryVars
    <2> QED BY <1>1, <1>2, <2>1
  <1>7. ASSUME NEW h \in Handles, Expire(h) \/ Timer(h) PROVE UNCHANGED txn
    BY <1>7 DEF Expire, Timer, TimerFire, TimerExit
  <1>8. CASE UNCHANGED vars
    BY <1>1, <1>8 DEF vars, entryVars
  <1> QED BY <1>1, <1>3, <1>4, <1>5, <1>6, <1>7, <1>8 DEF Next

\* All steps, as far as the use of transactions goes.
LEMMA UseSteps ==
  ASSUME StateOK, ~TimerRaces, [Next]_vars
  PROVE  \/ \E w \in Workers : Enters(w) \/ Leaves(w)
         \/ /\ NobodyEnters
            /\ \A id \in TxnIds : txnMap[id] # None => txnMap'[id] = txnMap[id]
         \/ /\ UNCHANGED <<pc, call>>
            /\ \E id \in TxnIds : /\ RemoveTransaction(id)
                                 /\ txnMap[id] # None
                                 /\ ~InUse(txnMap[id])
  <1>1. CASE UNCHANGED vars
    BY <1>1 DEF vars, registryVars, threadVars, NobodyEnters
  <1>2. ASSUME NEW w \in Workers, COMMIT(w)
        PROVE  Enters(w) \/ Leaves(w) \/ (NobodyEnters /\ UNCHANGED txnMap)
    BY <1>2, CommitUse
  <1>3. ASSUME NEW w \in Workers,
               READ(w) \/ NEW_TXN(w) \/ WRITE(w) \/ ABORT(w) \/ Refuse(w)
        PROVE  \/ Enters(w) \/ Leaves(w)
               \/ /\ NobodyEnters
                  /\ \A id \in TxnIds : txnMap[id] # None => txnMap'[id] = txnMap[id]
    BY <1>3, OtherUse
  <1>4. ASSUME NEW h \in Handles, Expire(h) \/ Timer(h)
        PROVE  \/ NobodyEnters /\ UNCHANGED txnMap
               \/ /\ UNCHANGED <<pc, call>>
                  /\ \E id \in TxnIds : /\ RemoveTransaction(id)
                                       /\ txnMap[id] # None
                                       /\ ~InUse(txnMap[id])
    BY <1>4, TimerUse DEF NobodyEnters
  <1> QED BY <1>1, <1>2, <1>3, <1>4 DEF Next

\* Two threads past the second look at one transaction would both have its
\* mutex, or one of them m_member_mtx while the other passes.
LEMMA ExclusiveInductive ==
  ASSUME StateOK, ~TimerRaces, MutexOwnership, ExclusiveUse, [Next]_vars
  PROVE  ExclusiveUse'
  <1>1. ASSUME NEW w \in Workers, Enters(w) PROVE ExclusiveUse'
    <2>1. ASSUME NEW v \in Workers \ {w}, pc[v] \in UsesTxn, call[v].h = call[w].h
          PROVE  FALSE
      <3>1. pc[w] \in HoldsTxnMtx /\ memberMtx = None /\ call[w].h \in Handles
        BY <1>1, CallEntry DEF Enters, HoldsTxnMtx
      <3>2. txnMtx[call[w].h] = w
        BY <3>1 DEF MutexOwnership, Owns
      <3>3. pc[v] \in HoldsTxnMtx
        BY <2>1, <3>1, ConstantsAssumption
        DEF MutexOwnership, Owns, UsesTxn, HoldsMemberMtx
      <3>4. txnMtx[call[w].h] = v
        BY <2>1, <3>1, <3>3 DEF MutexOwnership, Owns
      <3> QED BY <3>2, <3>4
    <2> QED BY <1>1, <2>1 DEF Enters, ExclusiveUse
  <1>2. CASE NobodyEnters
    BY <1>2 DEF NobodyEnters, ExclusiveUse
  <1>3. CASE UNCHANGED <<pc, call>>
    BY <1>3 DEF ExclusiveUse
  <1> QED BY <1>1, <1>2, <1>3, UseSteps DEF Leaves

\* RemoveTransaction erases one id.
LEMMA RemoveMap ==
  ASSUME StateOK, NEW id \in TxnIds, RemoveTransaction(id)
  PROVE  \A i \in TxnIds : txnMap'[i] = (IF i = id THEN None ELSE txnMap[i])
  BY DEF RemoveTransaction, StateOK, TypeOK

LEMMA LiveInductive ==
  ASSUME StateOK, ~TimerRaces, UniqueIds, ExclusiveUse, RequestUsesLiveTransaction,
         [Next]_vars
  PROVE  RequestUsesLiveTransaction'
  <1>1. ASSUME NEW w \in Workers, Enters(w) PROVE RequestUsesLiveTransaction'
    <2>1. /\ call[w].h \in Handles /\ call[w].id \in TxnIds
          /\ txn[call[w].h].id = call[w].id
      BY <1>1, CallEntry DEF Enters, HoldsTxnMtx
    <2>2. txnMap[call[w].id] # None
      BY <1>1 DEF Enters, Gone
    <2>3. /\ txnMap[call[w].id] \in Handles
          /\ txn[txnMap[call[w].id]].id = call[w].id /\ call[w].id # None
      BY <2>1, <2>2, LiveEntry
    <2>4. txnMap[call[w].id] = call[w].h
      BY <2>1, <2>3 DEF UniqueIds
    <2> QED BY <1>1, <2>4 DEF Enters, RequestUsesLiveTransaction
  <1>2. ASSUME NEW w \in Workers, Leaves(w) PROVE RequestUsesLiveTransaction'
    <2> SUFFICES ASSUME NEW v \in Workers, pc'[v] \in UsesTxn
                 PROVE  txnMap'[call'[v].id] = call'[v].h
      BY DEF RequestUsesLiveTransaction
    <2>1. /\ pc[v] \in UsesTxn /\ v # w /\ pc[w] \in UsesTxn
          /\ call'[v].h = call[v].h /\ call'[v].id = call[v].id
          /\ RemoveTransaction(call[w].id)
      BY <1>2 DEF Leaves, NobodyEnters
    <2>2. /\ txnMap[call[v].id] = call[v].h
          /\ txnMap[call[w].id] = call[w].h
          /\ call[v].h # call[w].h
      BY <2>1 DEF RequestUsesLiveTransaction, ExclusiveUse
    <2>3. call[w].id \in TxnIds /\ call[v].id \in TxnIds /\ call[v].id # call[w].id
      BY <2>1, <2>2, CallEntry
    <2>4. txnMap'[call[v].id] = txnMap[call[v].id]
      BY <2>1, <2>3, RemoveMap
    <2> QED BY <2>1, <2>2, <2>4
  <1>3. CASE /\ NobodyEnters
             /\ \A id \in TxnIds : txnMap[id] # None => txnMap'[id] = txnMap[id]
    <2> SUFFICES ASSUME NEW v \in Workers, pc'[v] \in UsesTxn
                 PROVE  txnMap'[call'[v].id] = call'[v].h
      BY DEF RequestUsesLiveTransaction
    <2>1. /\ pc[v] \in UsesTxn
          /\ call'[v].h = call[v].h /\ call'[v].id = call[v].id
      BY <1>3 DEF NobodyEnters
    <2>2. /\ txnMap[call[v].id] = call[v].h
          /\ call[v].id \in TxnIds /\ call[v].h \in Handles
      BY <2>1, CallEntry DEF RequestUsesLiveTransaction
    <2> QED BY <1>3, <2>1, <2>2, ConstantsAssumption
  <1>4. ASSUME UNCHANGED <<pc, call>>, NEW id \in TxnIds, RemoveTransaction(id),
               txnMap[id] # None, ~InUse(txnMap[id])
        PROVE  RequestUsesLiveTransaction'
    <2> SUFFICES ASSUME NEW v \in Workers, pc[v] \in UsesTxn
                 PROVE  txnMap'[call[v].id] = call[v].h
      BY <1>4 DEF RequestUsesLiveTransaction
    <2>1. txnMap[call[v].id] = call[v].h /\ call[v].id \in TxnIds
      BY CallEntry DEF RequestUsesLiveTransaction
    <2>2. call[v].id # id
      BY <1>4, <2>1 DEF InUse
    <2> QED BY <1>4, <2>1, <2>2, RemoveMap
  <1> QED BY <1>1, <1>2, <1>3, <1>4, UseSteps

\* The writers of one file share its attributes, hence its mutex.
LEMMA LiveGivesOneWriter ==
  ASSUME StateOK, MutexOwnership, FileAttributesShared, RequestUsesLiveTransaction
  PROVE  OneWriterPerFile
  <1> SUFFICES ASSUME NEW v \in Workers, NEW w \in Workers,
                      pc[v] \in HoldsFileMtx, pc[w] \in HoldsFileMtx,
                      txn[call[v].h].file = txn[call[w].h].file
               PROVE  v = w
    BY DEF OneWriterPerFile
  <1>1. ASSUME NEW u \in Workers, pc[u] \in HoldsFileMtx
        PROVE  /\ txn[call[u].h].attrs = fileMap[txn[call[u].h].file]
               /\ txn[call[u].h].attrs \in Handles
               /\ fileMtx[txn[call[u].h].attrs] = u
    <2>1. pc[u] \in UsesTxn
      BY <1>1 DEF HoldsFileMtx, UsesTxn, HoldsTxnMtx
    <2>2. call[u].id \in TxnIds /\ call[u].h \in Handles
          /\ txnMap[call[u].id] = call[u].h
      BY <2>1, CallEntry DEF RequestUsesLiveTransaction
    <2>3. txnMap[call[u].id] # None
      BY <2>2, ConstantsAssumption
    <2>4. txn[call[u].h].attrs \in Handles
      BY <2>2, <2>3, LiveEntry
    <2>5. txn[call[u].h].attrs = fileMap[txn[call[u].h].file]
      BY <2>2, <2>3 DEF FileAttributesShared
    <2> QED BY <1>1, <2>4, <2>5 DEF MutexOwnership, Owns
  <1> QED BY <1>1

\* The inductive invariant of isolation.
Isolation ==
  /\ StateOK
  /\ MutexOwnership
  /\ FileAttributesShared
  /\ AttributesNamed
  /\ UniqueIds
  /\ ExclusiveUse
  /\ RequestUsesLiveTransaction

LEMMA IsolationInvariant ==
  ASSUME ~TimerRaces, ~IdReuse
  PROVE  Spec => []Isolation
  <1>1. Init => Isolation
    <2>1. Init => FileAttributesShared /\ AttributesNamed
      BY DEF Init, FileAttributesShared, AttributesNamed
    <2>2. Init => UniqueIds
      BY DEF Init, UniqueIds, NoTransaction
    <2>3. Init => ExclusiveUse /\ RequestUsesLiveTransaction
      BY DEF Init, ExclusiveUse, RequestUsesLiveTransaction, UsesTxn, HoldsTxnMtx
    <2> QED BY <2>1, <2>2, <2>3, InitStateOK, InitOwnership DEF Isolation
  <1>2. Isolation /\ [Next]_vars => Isolation'
    BY StateStep, OwnershipInductive, SharedInductive, UniqueInductive,
       ExclusiveInductive, LiveInductive
    DEF Isolation
  <1> QED BY <1>1, <1>2, PTL DEF Spec

\* ABORT's "there is no window": a command function that passed its second
\* look works on an entry that stays in the map until it erases the entry
\* itself, whatever WRITE, COMMIT and ABORT requests the other threads run,
\* provided no timer fires in between and ids are not reused.
THEOREM NoWindow ==
  ASSUME ~TimerRaces, ~IdReuse
  PROVE  Spec => []RequestUsesLiveTransaction
  <1>1. Isolation => RequestUsesLiveTransaction
    BY DEF Isolation
  <1> QED BY <1>1, IsolationInvariant, PTL

\* Under the same proviso no two COMMITs have the same file open for writing:
\* they share the FileAttributes object of the file, hence its mutex.
THEOREM CommitsExclude ==
  ASSUME ~TimerRaces, ~IdReuse
  PROVE  Spec => []OneWriterPerFile
  <1>1. Isolation => OneWriterPerFile
    BY LiveGivesOneWriter DEF Isolation
  <1> QED BY <1>1, IsolationInvariant, PTL
=============================================================================
