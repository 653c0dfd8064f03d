--------------------------- MODULE ServerBackend ---------------------------
(***************************************************************************)
(* ServerBackend (Server/Server/server-backend.cpp): the transactions of   *)
(* the file system and the threads that work on them.                      *)
(*                                                                         *)
(* One worker is one connection thread of the dispatcher; it runs one      *)
(* command function at a time.  A command function is cut where it locks   *)
(* or unlocks a mutex and where it touches state that its locks do not     *)
(* protect, so every interleaving the locks allow is a behaviour.          *)
(*                                                                         *)
(* m_txn_id_to_transaction_attributes maps an id to an entry; a command    *)
(* keeps references into the entry after it has unlocked m_member_mtx.     *)
(* An entry is therefore an object with an identity of its own, a handle,  *)
(* which is never used twice, and an entry erased from the map keeps its   *)
(* contents for the threads that still hold a reference to it: that is the *)
(* outcome of such an access in which the freed memory has not been used   *)
(* again.  (The outcome in which the process dies is a crash.)             *)
(* A FileAttributes object is named by the handle it was allocated for.    *)
(*                                                                         *)
(* The payload of a WRITE is one unit, <<h, k>> for the k-th write of the  *)
(* transaction with handle h; a file is a sequence of units.               *)
(***************************************************************************)
EXTENDS Integers, Sequences, FiniteSets

CONSTANTS
  Workers,         \* connection threads
  Handles,         \* bound: transactions created in a behaviour
  TxnIds,          \* the values of rand() % INT32_MAX
  Files,           \* file names
  SeqNums,         \* sequence numbers that requests carry
  None,            \* no handle, no thread, no id, no file
  IdReuse,         \* may rand() return an id that was handed out before?
  CwdIsDirectory,  \* does a bare file name name a file of m_directory?
  Timeouts,        \* may a transaction reach its deadline?
  TimerRaces,      \* may a timer fire while a request works on the transaction?
  InsertRaces,     \* may one of two simultaneous inserts into m_commits be lost?
  FailureKinds,    \* the system calls that may fail
  MaxFailures      \* bound: failing system calls in a behaviour

ASSUME ConstantsAssumption ==
  /\ None \notin Workers \cup Handles \cup TxnIds \cup Files
  /\ SeqNums \subseteq Int
  /\ {IdReuse, CwdIsDirectory, Timeouts, TimerRaces, InsertRaces} \subseteq BOOLEAN
  /\ FailureKinds \subseteq {"open", "write", "log"}
  /\ MaxFailures \in Nat

VARIABLES
  txnMap,     \* m_txn_id_to_transaction_attributes: id -> handle
  fileMap,    \* m_file_name_to_ptr_to_file_attributes: name -> attributes
  commits,    \* m_commits
  txn,        \* handle -> what stays the same in a TransactionAttributesTuple
  buffers,    \* handle -> sequence numbers in the BufferMap
  maxSeq,     \* handle -> max_seq_num
  expired,    \* handle -> has the deadline after curr_timestamp passed?
  fileSize,   \* attributes -> m_file_size
  timers,     \* the running threads of m_txn_timer_function
  memberMtx,  \* holder of m_member_mtx across steps
  txnMtx,     \* handle -> holder of the transaction's mutex
  fileMtx,    \* attributes -> holder of m_file_mtx
  disk,       \* file name -> contents
  exists,     \* the files that exist
  logs,       \* log name -> entries
  failures,   \* system calls that failed so far
  pc,         \* worker -> next step of its command function
  call,       \* worker -> request and local variables of its command function
  reply,      \* the response sent by the last step, if it sent one
  fate        \* history: handle -> the ways in which the transaction ended

registryVars == <<txnMap, fileMap, commits>>
bufferVars   == <<buffers, maxSeq, expired>>
entryVars    == <<txn, bufferVars, fileSize, timers, fate>>
lockVars     == <<memberMtx, txnMtx, fileMtx>>
diskVars     == <<disk, exists, logs, failures>>
threadVars   == <<pc, call, reply>>
vars == <<registryVars, entryVars, lockVars, diskVars, threadVars>>

-----------------------------------------------------------------------------
(* Types and default values.                                               *)

Units == (Handles \cup {None}) \X Int

Nul == <<None, 0>>          \* what truncate() appends to a file it extends

LogNames == {"transaction", "timeout", "commit", "abort"}

LogEntry == [id : TxnIds, file : Files, size : Nat]

Errors == {"InvalidTransactionId", "InvalidOperation", "InvalidSequenceNumber",
           "RepeatedSequenceNumber", "ErrorOpeningFile", "ErrorReadingFile",
           "ErrorWritingFile", "CommitWithInvalidSequenceNumber",
           "TransactionAlreadyCommitted", "TransactionAborted",
           "InvalidMessageFormat", "InvalidCommand"}

Outcomes == {"ACK", "ASK_RESEND"} \cup Errors

Commands == {"READ", "NEW_TXN", "WRITE", "COMMIT", "ABORT"}

TransactionAttributes ==
  [id : TxnIds \cup {None}, file : Files \cup {None}, attrs : Handles \cup {None}]

NoTransaction == [id |-> None, file |-> None, attrs |-> None]

\* h: the entry the references of the command function point into;
\* i: its loop variable, or the file size it has read.
Calls ==
  [cmd : Commands \cup {"none"}, id : TxnIds \cup {None}, k : Int,
   file : Files \cup {None}, h : Handles \cup {None}, i : Int]

Call(cmd, id, k, file, h, i) ==
  [cmd |-> cmd, id |-> id, k |-> k, file |-> file, h |-> h, i |-> i]

NoCall == Call("none", None, 0, None, None, 0)

Replies ==
  [cmd : Commands \cup {"none"}, id : TxnIds \cup {None},
   h : Handles \cup {None}, out : Outcomes \cup {"none"}]

NoReply == [cmd |-> "none", id |-> None, h |-> None, out |-> "none"]

Labels == {"idle", "ReadData", "NewTxnLog", "LockTxn", "Recheck",
           "WriteBuffer", "CommitVerify", "CommitOpen",
           "CommitWrite", "CommitRollback", "CommitTruncate", "CommitInsert",
           "CommitLog", "CommitSize", "CommitRemove", "AbortUnlock",
           "AbortRemove"}

\* Where a command function has the transaction's mutex ...
HoldsTxnMtx == {"Recheck", "WriteBuffer", "CommitVerify", "CommitOpen",
                "CommitWrite", "CommitRollback", "CommitTruncate",
                "CommitInsert", "CommitLog", "CommitSize", "CommitRemove",
                "AbortUnlock"}

\* ... where it has seen that the transaction is there and relies on it ...
UsesTxn == (HoldsTxnMtx \ {"Recheck"}) \cup {"AbortRemove"}

\* ... where it has the mutex of the file, and where m_member_mtx.
HoldsFileMtx == {"CommitWrite", "CommitInsert", "CommitLog", "CommitSize"}

HoldsMemberMtx == {"NewTxnLog", "AbortUnlock", "AbortRemove"}

\* Where COMMIT has all writes and has not committed, and where it has.
Committing == {"CommitOpen", "CommitWrite", "CommitInsert"}

HasCommitted == {"CommitLog", "CommitSize", "CommitRemove"}

\* The state has the shapes of the members of ServerBackend; in particular no
\* recorded file size is negative and no mutex belongs to a timer thread.
TypeOK ==
  /\ txnMap \in [TxnIds -> Handles \cup {None}]
  /\ fileMap \in [Files -> Handles \cup {None}]
  /\ commits \subseteq TxnIds
  /\ txn \in [Handles -> TransactionAttributes]
  /\ buffers \in [Handles -> SUBSET SeqNums]
  /\ maxSeq \in [Handles -> Int]
  /\ expired \in [Handles -> BOOLEAN]
  /\ fileSize \in [Handles -> Nat]
  /\ timers \subseteq Handles
  /\ memberMtx \in Workers \cup {None}
  /\ txnMtx \in [Handles -> Workers \cup {None}]
  /\ fileMtx \in [Handles -> Workers \cup {None}]
  /\ disk \in [Files -> Seq(Units)]
  /\ exists \subseteq Files
  /\ logs \in [LogNames -> Seq(LogEntry)]
  /\ failures \in Nat
  /\ pc \in [Workers -> Labels]
  /\ call \in [Workers -> Calls]
  /\ reply \in Replies
  /\ fate \in [Handles -> SUBSET {"committed", "aborted", "timedout"}]

\* A new entry has an empty BufferMap, max_seq_num is initial_seq_num + 1 and
\* its deadline lies ahead: so has every handle until it is used.
Init ==
  /\ txnMap = [id \in TxnIds |-> None]
  /\ fileMap = [f \in Files |-> None]
  /\ commits = {}
  /\ txn = [h \in Handles |-> NoTransaction]
  /\ buffers = [h \in Handles |-> {}]
  /\ maxSeq = [h \in Handles |-> 1]
  /\ expired = [h \in Handles |-> FALSE]
  /\ fileSize = [h \in Handles |-> 0]
  /\ timers = {}
  /\ memberMtx = None
  /\ txnMtx = [h \in Handles |-> None]
  /\ fileMtx = [h \in Handles |-> None]
  /\ disk = [f \in Files |-> <<>>]
  /\ exists = {}
  /\ logs = [l \in LogNames |-> <<>>]
  /\ failures = 0
  /\ pc = [w \in Workers |-> "idle"]
  /\ call = [w \in Workers |-> NoCall]
  /\ reply = NoReply
  /\ fate = [h \in Handles |-> {}]

-----------------------------------------------------------------------------
(* Steps of a command function.                                            *)

Goto(w, label) ==
  /\ pc' = [pc EXCEPT ![w] = label]
  /\ reply' = NoReply
  /\ UNCHANGED call

Begin(w, label, c) ==
  /\ pc[w] = "idle"
  /\ pc' = [pc EXCEPT ![w] = label]
  /\ call' = [call EXCEPT ![w] = c]
  /\ reply' = NoReply

Return(w, cmd, id, h, out) ==
  /\ pc' = [pc EXCEPT ![w] = "idle"]
  /\ call' = [call EXCEPT ![w] = NoCall]
  /\ reply' = [cmd |-> cmd, id |-> id, h |-> h, out |-> out]

Answer(w, out) == Return(w, call[w].cmd, call[w].id, call[w].h, out)

Fails(kind) ==
  /\ kind \in FailureKinds
  /\ failures < MaxFailures
  /\ failures' = failures + 1

\* Mutant: a mutex is not released.
StaysLocked(mtx, h) == mtx

Unlock(mtx, h) == [mtx EXCEPT ![h] = None]

-----------------------------------------------------------------------------
(* The File class.                                                         *)

\* Mutant: the error value of stat is taken for a size.
GetFileSizeOfMissing(f) ==
  IF CwdIsDirectory /\ f \in exists THEN Len(disk[f]) ELSE -1

\* File::getFileSize(name) resolves the bare name, not m_directory + name;
\* a file that does not exist has size 0.
GetFileSize(f) == IF CwdIsDirectory THEN Len(disk[f]) ELSE 0

\* truncate(2): cuts the file, or extends it with NUL bytes.
Truncate(s, n) ==
  [j \in 1..n |-> IF j <= Len(s) THEN s[j] ELSE Nul]

\* logTransaction appends an entry, or swallows the error of a failed call.
LogTransaction(log, id, f) ==
  \/ /\ logs' = [logs EXCEPT ![log] =
                   Append(@, [id |-> id, file |-> f, size |-> GetFileSize(f)])]
     /\ UNCHANGED failures
  \/ Fails("log") /\ UNCHANGED logs

-----------------------------------------------------------------------------
(* The transaction map.                                                    *)

\* The entry with this id is erased; its shared_ptr to the file attributes
\* goes with it, and the last one to go runs the deleter, which erases the
\* name from the map of file attributes.
RemoveTransaction(id) ==
  LET h == txnMap[id]
      shared == \E other \in TxnIds \ {id} :
                   /\ txnMap[other] # None
                   /\ txn[txnMap[other]].attrs = txn[h].attrs
  IN  IF h = None
      THEN UNCHANGED <<txnMap, fileMap>>
      ELSE /\ txnMap' = [txnMap EXCEPT ![id] = None]
           /\ fileMap' = IF shared THEN fileMap
                         ELSE [fileMap EXCEPT ![txn[h].file] = None]

\* Mutant: every transaction has file attributes of its own.
AddNewTransactionUnshared(h, id, f) ==
  /\ txnMap' = [txnMap EXCEPT ![id] = h]
  /\ fileMap' = [fileMap EXCEPT ![f] = h]
  /\ fileSize' = [fileSize EXCEPT ![h] = GetFileSize(f)]
  /\ txn' = [txn EXCEPT ![h] = [id |-> id, file |-> f, attrs |-> h]]

\* addNewTransaction: the entry shares the attributes of its file with the
\* transactions that are open on it, or allocates them.
AddNewTransaction(h, id, f) ==
  LET attrs == IF fileMap[f] = None THEN h ELSE fileMap[f]
  IN  /\ txnMap' = [txnMap EXCEPT ![id] = h]
      /\ fileMap' = [fileMap EXCEPT ![f] = attrs]
      /\ fileSize' = IF fileMap[f] = None
                     THEN [fileSize EXCEPT ![h] = GetFileSize(f)]
                     ELSE fileSize
      /\ txn' = [txn EXCEPT ![h] = [id |-> id, file |-> f, attrs |-> attrs]]

-----------------------------------------------------------------------------
(* Requests that no command function processes.                            *)

\* getContentLength refuses a header that is none, processCommand a command
\* that is not in m_command_to_function.
RefuseRequest(w, error) ==
  /\ pc[w] = "idle"
  /\ Return(w, "none", None, None, error)
  /\ UNCHANGED <<registryVars, entryVars, lockVars, diskVars>>

Refuse(w) ==
  \E error \in {"InvalidMessageFormat", "InvalidCommand"} : RefuseRequest(w, error)

-----------------------------------------------------------------------------
(* READ.                                                                   *)

\* The file is opened and its size taken with fstat.
ReadOpen(w, f) ==
  /\ pc[w] = "idle"
  /\ \/ /\ f \in exists
        /\ Begin(w, "ReadData", Call("READ", None, 0, f, None, Len(disk[f])))
        /\ UNCHANGED failures
     \/ /\ f \notin exists
        /\ Return(w, "READ", None, None, "ErrorOpeningFile")
        /\ UNCHANGED failures
     \/ /\ Fails("open")
        /\ Return(w, "READ", None, None, "ErrorOpeningFile")
  /\ UNCHANGED <<registryVars, entryVars, lockVars, disk, exists, logs>>

\* read() hits the end of a file that has become shorter since.
ReadData(w) ==
  /\ pc[w] = "ReadData"
  /\ Answer(w, IF call[w].i <= Len(disk[call[w].file])
               THEN "ACK" ELSE "ErrorReadingFile")
  /\ UNCHANGED <<registryVars, entryVars, lockVars, diskVars>>

READ(w) == (\E f \in Files : ReadOpen(w, f)) \/ ReadData(w)

-----------------------------------------------------------------------------
(* NEW_TXN.                                                                *)

NewTxnReject(w, k) ==
  /\ pc[w] = "idle"
  /\ k # 0
  /\ Return(w, "NEW_TXN", None, None, "InvalidSequenceNumber")
  /\ UNCHANGED <<registryVars, entryVars, lockVars, diskVars>>

\* rand() is called until it returns an id that is not in the map; the ids
\* in m_commits are not looked at.
Candidate(id) ==
  /\ txnMap[id] = None
  /\ IdReuse \/ \A h \in Handles : txn[h].id # id

NewTxnCreate(w, f, id, h) ==
  /\ memberMtx = None
  /\ Candidate(id)
  /\ txn[h].id = None
  /\ memberMtx' = w
  /\ AddNewTransaction(h, id, f)
  /\ Begin(w, "NewTxnLog", Call("NEW_TXN", id, 0, f, h, 0))
  /\ UNCHANGED <<commits, bufferVars, timers, fate, txnMtx, fileMtx, diskVars>>

\* Mutant: no timer thread is started.
NewTxnLogUntimed(w) ==
  /\ pc[w] = "NewTxnLog"
  /\ LogTransaction("transaction", call[w].id, call[w].file)
  /\ memberMtx' = None
  /\ Answer(w, "ACK")
  /\ UNCHANGED <<registryVars, entryVars, txnMtx, fileMtx, disk, exists>>

\* The entry is logged and its timer thread started before m_member_mtx is
\* released.
NewTxnLog(w) ==
  /\ pc[w] = "NewTxnLog"
  /\ LogTransaction("transaction", call[w].id, call[w].file)
  /\ timers' = timers \cup {call[w].h}
  /\ memberMtx' = None
  /\ Answer(w, "ACK")
  /\ UNCHANGED <<registryVars, txn, bufferVars, fileSize, fate, txnMtx, fileMtx,
                 disk, exists>>

NEW_TXN(w) ==
  \/ \E k \in SeqNums : NewTxnReject(w, k)
  \/ \E f \in Files, id \in TxnIds, h \in Handles : NewTxnCreate(w, f, id, h)
  \/ NewTxnLog(w)

-----------------------------------------------------------------------------
(* What WRITE, COMMIT and ABORT have in common.                            *)

\* First look at the transaction, under m_member_mtx.
Lookup(w, cmd, id, k, ifCommitted) ==
  /\ pc[w] = "idle"
  /\ memberMtx = None
  /\ IF id \in commits
     THEN Return(w, cmd, id, None, ifCommitted)
     ELSE IF txnMap[id] = None
     THEN Return(w, cmd, id, None, "InvalidTransactionId")
     ELSE Begin(w, "LockTxn", Call(cmd, id, k, None, txnMap[id], 0))
  /\ UNCHANGED <<registryVars, entryVars, lockVars, diskVars>>

LockTxn(w, cmd) ==
  /\ pc[w] = "LockTxn"
  /\ call[w].cmd = cmd
  /\ txnMtx[call[w].h] = None
  /\ txnMtx' = [txnMtx EXCEPT ![call[w].h] = w]
  /\ Goto(w, "Recheck")
  /\ UNCHANGED <<registryVars, entryVars, memberMtx, fileMtx, diskVars>>

\* Mutant: the second look is left out.
NeverGone(w) == FALSE

\* Second look, with the transaction's mutex held.  Both looks go by the id.
Gone(w) == call[w].id \in commits \/ txnMap[call[w].id] = None

\* Mutant: the map is looked at, the set of commits is not.
RecheckGoneUncommitted(w, cmd) ==
  /\ pc[w] = "Recheck"
  /\ call[w].cmd = cmd
  /\ memberMtx = None
  /\ Gone(w)
  /\ Answer(w, "TransactionAborted")
  /\ txnMtx' = Unlock(txnMtx, call[w].h)
  /\ UNCHANGED <<registryVars, entryVars, memberMtx, fileMtx, diskVars>>

RecheckGone(w, cmd) ==
  /\ pc[w] = "Recheck"
  /\ call[w].cmd = cmd
  /\ memberMtx = None
  /\ Gone(w)
  /\ Answer(w, IF call[w].id \in commits
               THEN "TransactionAlreadyCommitted" ELSE "TransactionAborted")
  /\ txnMtx' = Unlock(txnMtx, call[w].h)
  /\ UNCHANGED <<registryVars, entryVars, memberMtx, fileMtx, diskVars>>

RecheckPresent(w, cmd, label) ==
  /\ pc[w] = "Recheck"
  /\ call[w].cmd = cmd
  /\ memberMtx = None
  /\ ~Gone(w)
  /\ Goto(w, label)

-----------------------------------------------------------------------------
(* WRITE.                                                                  *)

WriteLookup(w, id, k) == Lookup(w, "WRITE", id, k, "InvalidOperation")

WriteRecheck(w) ==
  /\ RecheckPresent(w, "WRITE", "WriteBuffer")
  /\ UNCHANGED <<registryVars, entryVars, lockVars, diskVars>>

\* The timestamp is renewed whether or not the payload is accepted.
WriteBuffer(w) ==
  LET h == call[w].h
      k == call[w].k
  IN  /\ pc[w] = "WriteBuffer"
      /\ expired' = [expired EXCEPT ![h] = FALSE]
      /\ \/ /\ k \in buffers[h]
            /\ Answer(w, "RepeatedSequenceNumber")
            /\ UNCHANGED <<buffers, maxSeq>>
         \/ /\ k \notin buffers[h]
            /\ buffers' = [buffers EXCEPT ![h] = @ \cup {k}]
            /\ maxSeq' = [maxSeq EXCEPT ![h] = IF k > @ THEN k ELSE @]
            /\ Answer(w, "ACK")
      /\ txnMtx' = Unlock(txnMtx, h)
      /\ UNCHANGED <<registryVars, txn, fileSize, timers, fate, memberMtx, fileMtx,
                     diskVars>>

WRITE(w) ==
  \/ \E id \in TxnIds, k \in SeqNums : WriteLookup(w, id, k)
  \/ LockTxn(w, "WRITE")
  \/ RecheckGone(w, "WRITE")
  \/ WriteRecheck(w)
  \/ WriteBuffer(w)

-----------------------------------------------------------------------------
(* COMMIT.                                                                 *)

CommitLookup(w, id, k) == Lookup(w, "COMMIT", id, k, "ACK")

CommitRecheck(w) ==
  /\ RecheckPresent(w, "COMMIT", "CommitVerify")
  /\ UNCHANGED <<registryVars, entryVars, lockVars, diskVars>>

\* The sequence number becomes the transaction's maximum even when a write
\* below it turns out to be missing.
CommitVerify(w) ==
  LET h == call[w].h
      k == call[w].k
      tooLow   == k < maxSeq[h]
      complete == \A j \in 1..k : j \in buffers[h]
  IN  /\ pc[w] = "CommitVerify"
      /\ expired' = [expired EXCEPT ![h] = FALSE]
      /\ maxSeq' = IF tooLow THEN maxSeq ELSE [maxSeq EXCEPT ![h] = k]
      /\ \/ /\ ~tooLow /\ complete
            /\ Goto(w, "CommitOpen")
            /\ UNCHANGED txnMtx
         \/ /\ tooLow \/ ~complete
            /\ Answer(w, IF tooLow THEN "CommitWithInvalidSequenceNumber"
                         ELSE "ASK_RESEND")
            /\ txnMtx' = Unlock(txnMtx, h)
      /\ UNCHANGED <<registryVars, txn, buffers, fileSize, timers, fate, memberMtx,
                     fileMtx, diskVars>>

\* Mutant: m_file_mtx is not waited for.
CommitOpenUnlocked(w) ==
  /\ pc[w] = "CommitOpen"
  /\ exists' = exists \cup {txn[call[w].h].file}
  /\ pc' = [pc EXCEPT ![w] = "CommitWrite"]
  /\ call' = [call EXCEPT ![w].i = 1]
  /\ reply' = NoReply
  /\ UNCHANGED <<registryVars, entryVars, lockVars, disk, logs, failures>>

\* m_file_mtx is locked and the file opened with O_CREAT | O_WRONLY | O_APPEND;
\* when the open fails the transaction stays as it is.
CommitOpen(w) ==
  LET h == call[w].h
      a == txn[h].attrs
  IN  /\ pc[w] = "CommitOpen"
      /\ fileMtx[a] = None
      /\ \/ /\ fileMtx' = [fileMtx EXCEPT ![a] = w]
            /\ exists' = exists \cup {txn[h].file}
            /\ pc' = [pc EXCEPT ![w] = "CommitWrite"]
            /\ call' = [call EXCEPT ![w].i = 1]
            /\ reply' = NoReply
            /\ UNCHANGED <<txnMtx, failures>>
         \/ /\ Fails("open")
            /\ Answer(w, "ErrorOpeningFile")
            /\ txnMtx' = Unlock(txnMtx, h)
            /\ UNCHANGED <<fileMtx, exists>>
      /\ UNCHANGED <<registryVars, entryVars, memberMtx, disk, logs>>

\* Mutant: the loop stops one write early.
CommitWriteShort(w) ==
  LET h == call[w].h
      i == call[w].i
  IN  /\ pc[w] = "CommitWrite"
      /\ disk' = IF i < maxSeq[h]
                 THEN [disk EXCEPT ![txn[h].file] = Append(@, <<h, i>>)] ELSE disk
      /\ pc' = [pc EXCEPT ![w] = IF i < maxSeq[h]
                                 THEN "CommitWrite" ELSE "CommitInsert"]
      /\ call' = [call EXCEPT ![w].i = i + 1]
      /\ reply' = NoReply
      /\ UNCHANGED <<registryVars, entryVars, lockVars, exists, logs, failures>>

\* One write per step.  A failure unwinds the block: the file is closed and
\* m_file_mtx released before the handler runs.
CommitWrite(w) ==
  LET h == call[w].h
      f == txn[h].file
      i == call[w].i
  IN  /\ pc[w] = "CommitWrite"
      /\ i <= maxSeq[h]
      /\ \/ /\ disk' = [disk EXCEPT ![f] = Append(@, <<h, i>>)]
            /\ pc' = [pc EXCEPT ![w] = IF i < maxSeq[h]
                                       THEN "CommitWrite" ELSE "CommitInsert"]
            /\ call' = [call EXCEPT ![w].i = i + 1]
            /\ reply' = NoReply
            /\ UNCHANGED <<fileMtx, failures>>
         \/ /\ Fails("write")
            /\ Goto(w, "CommitRollback")
            /\ fileMtx' = Unlock(fileMtx, txn[h].attrs)
            /\ UNCHANGED disk
      /\ UNCHANGED <<registryVars, entryVars, memberMtx, txnMtx, exists, logs>>

\* The handler: file_size is read, with no lock, as truncate's argument ...
CommitRollback(w) ==
  /\ pc[w] = "CommitRollback"
  /\ pc' = [pc EXCEPT ![w] = "CommitTruncate"]
  /\ call' = [call EXCEPT ![w].i = fileSize[txn[call[w].h].attrs]]
  /\ reply' = NoReply
  /\ UNCHANGED <<registryVars, entryVars, lockVars, diskVars>>

\* ... and truncate() is called, on the bare file name.
CommitTruncate(w) ==
  LET h == call[w].h
      f == txn[h].file
  IN  /\ pc[w] = "CommitTruncate"
      /\ disk' = IF CwdIsDirectory
                 THEN [disk EXCEPT ![f] = Truncate(@, call[w].i)] ELSE disk
      /\ Answer(w, "ErrorWritingFile")
      /\ txnMtx' = Unlock(txnMtx, h)
      /\ UNCHANGED <<registryVars, entryVars, memberMtx, fileMtx, exists, logs,
                     failures>>

\* Mutant: the committed id is not remembered.
CommitInsertSkipped(w) ==
  /\ pc[w] = "CommitInsert"
  /\ fate' = [fate EXCEPT ![call[w].h] = @ \cup {"committed"}]
  /\ Goto(w, "CommitLog")
  /\ UNCHANGED <<registryVars, txn, bufferVars, fileSize, timers, lockVars, diskVars>>

\* m_commits is modified without m_member_mtx.  When another thread is at the
\* same point, the two inserts may overlap and this one may be lost.
CommitInsert(w) ==
  LET overlaps == \E v \in Workers \ {w} : pc[v] = "CommitInsert"
  IN  /\ pc[w] = "CommitInsert"
      /\ \/ commits' = commits \cup {call[w].id}
         \/ InsertRaces /\ overlaps /\ UNCHANGED commits
      /\ fate' = [fate EXCEPT ![call[w].h] = @ \cup {"committed"}]
      /\ Goto(w, "CommitLog")
      /\ UNCHANGED <<txnMap, fileMap, txn, bufferVars, fileSize, timers, lockVars,
                     diskVars>>

CommitLog(w) ==
  /\ pc[w] = "CommitLog"
  /\ LogTransaction("commit", call[w].id, txn[call[w].h].file)
  /\ Goto(w, "CommitSize")
  /\ UNCHANGED <<registryVars, entryVars, lockVars, disk, exists>>

\* Mutant: m_file_size keeps the size from before the commit.
CommitSizeStale(w) ==
  /\ pc[w] = "CommitSize"
  /\ fileMtx' = Unlock(fileMtx, txn[call[w].h].attrs)
  /\ Goto(w, "CommitRemove")
  /\ UNCHANGED <<registryVars, entryVars, memberMtx, txnMtx, diskVars>>

\* file_size is set from fstat; the file is closed and m_file_mtx released.
CommitSize(w) ==
  LET t == txn[call[w].h]
  IN  /\ pc[w] = "CommitSize"
      /\ fileSize' = [fileSize EXCEPT ![t.attrs] = Len(disk[t.file])]
      /\ fileMtx' = Unlock(fileMtx, t.attrs)
      /\ Goto(w, "CommitRemove")
      /\ UNCHANGED <<registryVars, txn, bufferVars, timers, fate, memberMtx, txnMtx,
                     diskVars>>

CommitRemove(w) ==
  /\ pc[w] = "CommitRemove"
  /\ memberMtx = None
  /\ RemoveTransaction(call[w].id)
  /\ Answer(w, "ACK")
  /\ txnMtx' = Unlock(txnMtx, call[w].h)
  /\ UNCHANGED <<commits, entryVars, memberMtx, fileMtx, diskVars>>

COMMIT(w) ==
  \/ \E id \in TxnIds, k \in SeqNums : CommitLookup(w, id, k)
  \/ LockTxn(w, "COMMIT")
  \/ RecheckGone(w, "COMMIT")
  \/ CommitRecheck(w)
  \/ CommitVerify(w)
  \/ CommitOpen(w)
  \/ CommitWrite(w)
  \/ CommitRollback(w)
  \/ CommitTruncate(w)
  \/ CommitInsert(w)
  \/ CommitLog(w)
  \/ CommitSize(w)
  \/ CommitRemove(w)

-----------------------------------------------------------------------------
(* ABORT.                                                                  *)

AbortLookup(w, id) == Lookup(w, "ABORT", id, 0, "InvalidOperation")

\* ABORT keeps m_member_mtx from here to its end ...
AbortRecheck(w) ==
  /\ RecheckPresent(w, "ABORT", "AbortUnlock")
  /\ memberMtx' = w
  /\ UNCHANGED <<registryVars, entryVars, txnMtx, fileMtx, diskVars>>

\* Mutant: m_member_mtx is released together with the transaction's mutex.
AbortUnlockBoth(w) ==
  /\ pc[w] = "AbortUnlock"
  /\ txnMtx' = Unlock(txnMtx, call[w].h)
  /\ memberMtx' = None
  /\ Goto(w, "AbortRemove")
  /\ UNCHANGED <<registryVars, entryVars, fileMtx, diskVars>>

\* ... but releases the transaction's mutex before it erases the entry.
AbortUnlock(w) ==
  /\ pc[w] = "AbortUnlock"
  /\ txnMtx' = Unlock(txnMtx, call[w].h)
  /\ Goto(w, "AbortRemove")
  /\ UNCHANGED <<registryVars, entryVars, memberMtx, fileMtx, diskVars>>

AbortRemove(w) ==
  /\ pc[w] = "AbortRemove"
  /\ LogTransaction("abort", call[w].id, txn[call[w].h].file)
  /\ RemoveTransaction(call[w].id)
  /\ fate' = [fate EXCEPT ![call[w].h] = @ \cup {"aborted"}]
  /\ memberMtx' = None
  /\ Answer(w, "ACK")
  /\ UNCHANGED <<commits, txn, bufferVars, fileSize, timers, txnMtx, fileMtx, disk,
                 exists>>

ABORT(w) ==
  \/ \E id \in TxnIds : AbortLookup(w, id)
  \/ LockTxn(w, "ABORT")
  \/ RecheckGone(w, "ABORT")
  \/ AbortRecheck(w)
  \/ AbortUnlock(w)
  \/ AbortRemove(w)

-----------------------------------------------------------------------------
(* Timers.                                                                 *)

\* transaction_timeout_seconds have passed since the entry's timestamp.
Expire(h) ==
  /\ Timeouts
  /\ \E id \in TxnIds : txnMap[id] = h
  /\ ~expired[h]
  /\ expired' = [expired EXCEPT ![h] = TRUE]
  /\ reply' = NoReply
  /\ UNCHANGED <<registryVars, txn, buffers, maxSeq, fileSize, timers, fate, lockVars, diskVars, pc, call>>

InUse(h) == \E w \in Workers : pc[w] \in UsesTxn /\ call[w].h = h

\* The timer started for h wakes up and looks for its id; it takes
\* m_member_mtx but not the transaction's mutex.  A timer that finds the
\* deadline moved sleeps again, which changes nothing.
TimerFire(h) ==
  LET id    == txn[h].id
      found == txnMap[id]
  IN  /\ h \in timers
      /\ memberMtx = None
      /\ found # None
      /\ expired[found]
      /\ TimerRaces \/ ~InUse(found)
      /\ RemoveTransaction(id)
      /\ LogTransaction("timeout", id, txn[h].file)
      /\ fate' = [fate EXCEPT ![found] = @ \cup {"timedout"}]
      /\ timers' = timers \ {h}
      /\ reply' = NoReply
      /\ UNCHANGED <<commits, txn, bufferVars, fileSize, lockVars, disk, exists, pc,
                     call>>

TimerExit(h) ==
  /\ h \in timers
  /\ memberMtx = None
  /\ txnMap[txn[h].id] = None
  /\ timers' = timers \ {h}
  /\ reply' = NoReply
  /\ UNCHANGED <<registryVars, txn, bufferVars, fileSize, fate, lockVars, diskVars,
                 pc, call>>

Timer(h) == TimerFire(h) \/ TimerExit(h)

-----------------------------------------------------------------------------

\* The steps of a command function after its first.
Continue(w) ==
  \/ ReadData(w)
  \/ NewTxnLog(w)
  \/ \E cmd \in {"WRITE", "COMMIT", "ABORT"} : LockTxn(w, cmd) \/ RecheckGone(w, cmd)
  \/ WriteRecheck(w) \/ WriteBuffer(w)
  \/ CommitRecheck(w) \/ CommitVerify(w) \/ CommitOpen(w) \/ CommitWrite(w)
  \/ CommitRollback(w) \/ CommitTruncate(w)
  \/ CommitInsert(w) \/ CommitLog(w) \/ CommitSize(w) \/ CommitRemove(w)
  \/ AbortRecheck(w) \/ AbortUnlock(w) \/ AbortRemove(w)

Next ==
  \/ \E w \in Workers :
       READ(w) \/ NEW_TXN(w) \/ WRITE(w) \/ COMMIT(w) \/ ABORT(w) \/ Refuse(w)
  \/ \E h \in Handles : Expire(h) \/ Timer(h)

Spec == Init /\ [][Next]_vars

-----------------------------------------------------------------------------
(* Properties.                                                             *)

\* w has exactly the mutexes that the code holds where it is.
Owns(w) ==
  /\ memberMtx = w <=> pc[w] \in HoldsMemberMtx
  /\ \A h \in Handles :
       /\ txnMtx[h] = w <=> pc[w] \in HoldsTxnMtx /\ call[w].h = h
       /\ fileMtx[h] = w <=> pc[w] \in HoldsFileMtx /\ txn[call[w].h].attrs = h

\* No path of a command function, early returns and failures included, leaves
\* with a mutex locked or releases one that another thread holds.
MutexOwnership == \A w \in Workers : Owns(w)

\* All open transactions on a file share one FileAttributes object, the one
\* m_file_name_to_ptr_to_file_attributes knows, and the map knows no other:
\* sharing in addNewTransaction and the deleter of the shared_ptr agree.
FileAttributesShared ==
  /\ \A id \in TxnIds : txnMap[id] # None =>
       txn[txnMap[id]].attrs = fileMap[txn[txnMap[id]].file]
  /\ \A f \in Files : fileMap[f] # None =>
       \E id \in TxnIds : txnMap[id] # None /\ txn[txnMap[id]].file = f

\* A command function that has seen its transaction in the map under the
\* transaction's mutex works on an entry that stays in the map: "there is no
\* window for the WRITEr or COMMITer to modify or access the aborted
\* transaction" (ABORT's comment).
RequestUsesLiveTransaction ==
  \A w \in Workers : pc[w] \in UsesTxn => txnMap[call[w].id] = call[w].h

\* No two threads are between the opening and the closing of the same file
\* in COMMIT.
OneWriterPerFile ==
  \A v, w \in Workers :
    /\ pc[v] \in HoldsFileMtx
    /\ pc[w] \in HoldsFileMtx
    /\ txn[call[v].h].file = txn[call[w].h].file
    => v = w

\* In a file the writes of a transaction follow one another in the order of
\* their sequence numbers, with nothing in between and nothing twice.
NotInterleaved ==
  \A f \in Files : \A j \in 1..Len(disk[f]) :
    LET u == disk[f][j]
    IN  /\ \/ u[2] = 1
           \/ j > 1 /\ disk[f][j - 1] = <<u[1], u[2] - 1>>
        /\ \A i \in 1..(j - 1) : disk[f][i] # u

\* A write is in a file only if its transaction committed or is being
\* committed, and all writes of a committed transaction are in its file.
AllOrNothing ==
  /\ \A f \in Files : \A j \in 1..Len(disk[f]) :
       LET h == disk[f][j][1]
       IN  /\ h # None
           /\ txn[h].file = f
           /\ disk[f][j][2] \in buffers[h]
           /\ \/ "committed" \in fate[h]
              \/ \E w \in Workers : pc[w] \in UsesTxn /\ call[w].h = h
  /\ \A h \in Handles : "committed" \in fate[h] =>
       \A k \in buffers[h] : k > 0 =>
         \E j \in 1..Len(disk[txn[h].file]) : disk[txn[h].file][j] = <<h, k>>

\* The size to which a failed commit would cut a file back is the size of
\* the file whenever nobody is committing to it.
RollbackPoint ==
  \A f \in Files :
    \/ fileMap[f] = None
    \/ fileSize[fileMap[f]] = Len(disk[f])
    \/ \E w \in Workers :
         /\ pc[w] \in HoldsFileMtx \cup {"CommitRollback", "CommitTruncate"}
         /\ txn[call[w].h].file = f

\* A transaction ends in one way: committed, aborted or timed out.
OneOutcome == \A h \in Handles : Cardinality(fate[h]) <= 1

\* What the server says happened to a transaction is what happened to it: an
\* acknowledged COMMIT, first or repeated, means that the transaction that
\* now has the id, if there is one, committed; an acknowledged ABORT that it
\* was aborted; an error about its end that it did end so.
RepliesTruthful ==
  LET Ended(ways) == \E h \in Handles : /\ txn[h].id = reply.id
                                        /\ fate[h] \cap ways # {}
      COMMITted == Ended({"committed"})
      Current   == txnMap[reply.id]
  IN  /\ reply.cmd = "COMMIT" /\ reply.out = "ACK" =>
           /\ COMMITted
           /\ Current # None => "committed" \in fate[Current]
      /\ reply.cmd = "ABORT" /\ reply.out = "ACK" => fate[reply.h] = {"aborted"}
      /\ reply.out \in {"InvalidOperation", "TransactionAlreadyCommitted"} => COMMITted
      /\ reply.out = "TransactionAborted" => Ended({"aborted", "timedout"})
      /\ reply.out = "ErrorReadingFile" => failures > 0

\* A COMMIT that is sent again because its ACK was lost is not told that the
\* transaction is unknown: "Return ACK here if committed as the client may be
\* retransmitting the COMMIT due to lost ACK from initial COMMIT".
RepeatedCommitKnown ==
  reply.cmd = "COMMIT" /\ reply.out = "InvalidTransactionId" =>
    \A h \in Handles : txn[h].id = reply.id => "committed" \notin fate[h]

-----------------------------------------------------------------------------
(* What makes the properties inductive.                                    *)

\* An entry that was created is complete, and the map finds it by its id.
EntriesOK ==
  /\ \A h \in Handles : txn[h].id # None =>
       txn[h].file \in Files /\ txn[h].attrs \in Handles
  /\ \A id \in TxnIds : txnMap[id] # None => txn[txnMap[id]].id = id
  /\ \A h \in timers : txn[h].id # None

\* A command function has references into the entry of its transaction.
CallOK(w) ==
  /\ pc[w] \in {"NewTxnLog", "LockTxn"} \cup HoldsTxnMtx \cup UsesTxn =>
       /\ call[w].h \in Handles
       /\ call[w].id \in TxnIds
       /\ txn[call[w].h].id = call[w].id
  /\ pc[w] = "NewTxnLog" => call[w].file \in Files
  /\ pc[w] = "WriteBuffer" => call[w].cmd = "WRITE"
  /\ call[w].cmd = "WRITE" => call[w].k \in SeqNums
  /\ pc[w] = "CommitTruncate" => call[w].i \in Nat

StateOK == TypeOK /\ EntriesOK /\ \A w \in Workers : CallOK(w)

\* The handle that names a FileAttributes object is that of a transaction on
\* the same file.
AttributesNamed ==
  \A f \in Files : fileMap[f] # None =>
    txn[fileMap[f]].id # None /\ txn[fileMap[f]].file = f

\* Two transactions never have the same id.
UniqueIds ==
  \A g, h \in Handles : txn[g].id = txn[h].id /\ txn[g].id # None => g = h

\* At most one command function is past the second look at a transaction:
\* between AbortUnlock and AbortRemove it is m_member_mtx that keeps the
\* others out.
ExclusiveUse ==
  \A v, w \in Workers :
    pc[v] \in UsesTxn /\ pc[w] \in UsesTxn /\ call[v].h = call[w].h => v = w

\* A COMMIT has committed h and is still to erase it.
Finishing(h) == \E w \in Workers : pc[w] \in HasCommitted /\ call[w].h = h

\* A transaction that is in the map has not ended, unless a COMMIT is about to
\* erase it; one that was created and is not in the map has ended in one way.
FateOK(h) ==
  IF txn[h].id = None THEN fate[h] = {}
  ELSE IF txnMap[txn[h].id] = h
  THEN fate[h] = IF Finishing(h) THEN {"committed"} ELSE {}
  ELSE \E way \in {"committed", "aborted", "timedout"} : fate[h] = {way}

FatesOK == \A h \in Handles : FateOK(h)

\* m_commits has ids of committed transactions only ...
CommitsSound ==
  \A id \in commits : \E h \in Handles : txn[h].id = id /\ "committed" \in fate[h]

\* ... and of all of them, if no insert is lost.
CommitsRemembered ==
  \A h \in Handles : "committed" \in fate[h] => txn[h].id \in commits

\* Which command function a thread is in.
CommandOK(w) ==
  /\ pc[w] = "ReadData" => call[w].cmd = "READ" /\ call[w].file \in Files
  /\ pc[w] = "NewTxnLog" => call[w].cmd = "NEW_TXN"
  /\ pc[w] \in {"AbortUnlock", "AbortRemove"} => call[w].cmd = "ABORT"
  /\ pc[w] \in {"CommitVerify", "CommitRollback", "CommitTruncate"}
                \cup Committing \cup HasCommitted => call[w].cmd = "COMMIT"
  /\ call[w].cmd = "COMMIT" => call[w].k \in SeqNums

CommandsOK == \A w \in Workers : CommandOK(w)

\* Files become shorter only after a failed write.
FilesGrow ==
  \/ failures > 0
  \/ \A w \in Workers :
       /\ pc[w] \notin {"CommitRollback", "CommitTruncate"}
       /\ pc[w] = "ReadData" => call[w].i <= Len(disk[call[w].file])

\* max_seq_num bounds the writes a transaction has collected, and from
\* CommitVerify on all of them are there.
BuffersOK ==
  /\ \A h \in Handles : maxSeq[h] >= 1 /\ \A k \in buffers[h] : k <= maxSeq[h]
  /\ \A w \in Workers : pc[w] \in Committing \cup HasCommitted =>
       /\ maxSeq[call[w].h] \in SeqNums
       /\ 1..maxSeq[call[w].h] \subseteq buffers[call[w].h]

\* The file ends with the first m writes of h, after those of earlier commits.
EndsWith(f, h, m) ==
  LET n == Len(disk[f]) - m
  IN  /\ n >= 0
      /\ \A j \in 1..m : disk[f][n + j] = <<h, j>>
      /\ \A j \in 1..n : "committed" \in fate[disk[f][j][1]]

\* w has appended the writes below call[w].i.
PartWritten(w) ==
  LET h == call[w].h
      m == call[w].i - 1
  IN  /\ m >= 0
      /\ IF pc[w] = "CommitWrite" THEN m < maxSeq[h] ELSE m = maxSeq[h]
      /\ EndsWith(txn[h].file, h, m)

IsWriting(w) == pc[w] \in {"CommitWrite", "CommitInsert"}

\* What is in the files while no write fails.
UnitsOK ==
  \A f \in Files : \A j \in 1..Len(disk[f]) :
    LET h == disk[f][j][1]
    IN  /\ h \in Handles
        /\ txn[h].id # None
        /\ txn[h].file = f
        /\ disk[f][j][2] \in buffers[h]

WritersOK ==
  /\ \A w \in Workers : pc[w] \notin {"CommitRollback", "CommitTruncate"}
  /\ \A w \in Workers : IsWriting(w) => PartWritten(w)
  /\ \A f \in Files :
       \/ \E w \in Workers : IsWriting(w) /\ txn[call[w].h].file = f
       \/ \A j \in 1..Len(disk[f]) : "committed" \in fate[disk[f][j][1]]

HasUnit(f, u) == \E j \in 1..Len(disk[f]) : disk[f][j] = u

CommitsWhole ==
  \A h \in Handles : "committed" \in fate[h] =>
    \A k \in buffers[h] : k > 0 => HasUnit(txn[h].file, <<h, k>>)

FilesOK == UnitsOK /\ WritersOK /\ CommitsWhole /\ NotInterleaved

-----------------------------------------------------------------------------
(* The abstract store the backend implements.  A transaction commits when  *)
(* its id enters m_commits; until then what it has in the file, which a    *)
(* READ can see, is not part of the store.                                 *)

Status(h) ==
  IF txn[h].id = None THEN "none"
  ELSE IF fate[h] = {} THEN "open"
  ELSE IF "committed" \in fate[h] THEN "committed" ELSE "aborted"

\* The last unit of a transaction in the set is at place n.
LastAt(s, ended, n) ==
  /\ n > 0 => s[n][1] \in ended
  /\ \A j \in (n + 1)..Len(s) : s[j][1] \notin ended

UpToLast(s, ended) == SubSeq(s, 1, CHOOSE n \in 0..Len(s) : LastAt(s, ended, n))

Committed == {h \in Handles : "committed" \in fate[h]}

\* A file up to its last committed write; what follows is being committed.
CommittedPart(f) == UpToLast(disk[f], Committed)

Store == INSTANCE TransactionalStore WITH
  Transactions <- Handles,
  NoFile <- None,
  status <- [h \in Handles |-> Status(h)],
  file <- [h \in Handles |-> txn[h].file],
  writes <- [h \in Handles |-> buffers[h]],
  store <- [f \in Files |-> CommittedPart(f)]

\* Every behaviour of the threads is a behaviour of the store: writes are
\* collected only while the transaction is open, and a commit appends all of
\* them to what earlier commits left there, in one step.
ImplementsStore == Store!Spec
=============================================================================
