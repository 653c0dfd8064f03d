---------------------------- MODULE CrashRecovery ----------------------------
(***************************************************************************)
(* The server stops at any moment and is started again: what the logs and  *)
(* files hold, initializeTransactions turns into the transactions and file *)
(* contents to go on with (server-backend.cpp).                            *)
(*                                                                         *)
(* When the process dies, what write() was given is kept and the memory of *)
(* the process is lost.  When the power fails, the end of what was written *)
(* to a file since its last fsync() may be lost as well.  File syncs what  *)
(* it has written before it closes a descriptor, so a log entry is safe    *)
(* when logTransaction returns.  It is written whole or not at all, as in  *)
(* ServerBackend; TransactionLog looks at its parts.                       *)
(*                                                                         *)
(* Initialization runs in the first request after the start and holds      *)
(* m_member_mtx, so nothing else happens meanwhile - except another crash. *)
(***************************************************************************)
EXTENDS ServerBackend, SequencesExt

CONSTANTS
  MaxCrashes,       \* bound: crashes in a behaviour
  CrashInRecovery,  \* may the server crash while it recovers?
  PowerFailures     \* may the power fail?

ASSUME RecoveryAssumption ==
  /\ MaxCrashes \in Nat
  /\ {CrashInRecovery, PowerFailures} \subseteq BOOLEAN

VARIABLES
  mode,         \* "up", "loading" or "truncating"
  unread,       \* logs that loadFilesAndTransactions has not read yet
  sizes,        \* file_names_to_file_sizes; -1: the name is not in the map
  restarts,     \* txn_ids_to_file_names; None: the id is not in the map
  crashes,      \* crashes so far
  synced,       \* file -> units that are on the disk for good
  official,     \* history: file -> writes of the logged commits, in that order
  officialIds,  \* history: ids of the logged commits
  acked,        \* history: ids of the commits that clients were told of
  survivors,    \* history: ids of the transactions open at the last crash
  powerFailed   \* history: has the power failed?

loadVars    == <<unread, sizes, restarts>>
historyVars == <<official, officialIds, acked, survivors, powerFailed>>
allVars     == <<vars, mode, loadVars, crashes, synced, historyVars>>

\* m_transaction_log is first: the others take out what ended.
LogOrder == <<"transaction", "timeout", "commit", "abort">>

NoSizes    == [f \in Files |-> -1]
NoRestarts == [id \in TxnIds |-> None]

\* A server that is started for the first time has nothing to recover.
RecoveryInit ==
  /\ Init
  /\ mode = "up"
  /\ unread = <<>>
  /\ sizes = NoSizes
  /\ restarts = NoRestarts
  /\ crashes = 0
  /\ official = [f \in Files |-> <<>>]
  /\ synced = [f \in Files |-> 0]
  /\ officialIds = {}
  /\ acked = {}
  /\ survivors = {}
  /\ powerFailed = FALSE

-----------------------------------------------------------------------------

\* The COMMIT of w is written to its log: "to make the transaction commit
\* official".
BecomesOfficial(w) ==
  /\ pc[w] = "CommitLog" /\ pc'[w] # "CommitLog"
  /\ Len(logs'["commit"]) > Len(logs["commit"])

\* COMMIT closes f at the end of its block, in which it has the file's mutex.
Closes(f) ==
  \E w \in Workers : /\ pc[w] \in HoldsFileMtx /\ pc'[w] \notin HoldsFileMtx
                     /\ txn[call[w].h].file = f

\* Mutant: File does not sync.
NeverSynced(f) == Min({synced[f], Len(disk'[f])})

\* The destructor of File syncs the file before it closes it.
Synced(f) == IF Closes(f) THEN Len(disk'[f]) ELSE Min({synced[f], Len(disk'[f])})

\* A step of the running server.
Serve ==
  /\ mode = "up"
  /\ Next
  /\ \/ /\ \A w \in Workers : ~BecomesOfficial(w)
        /\ UNCHANGED <<official, officialIds>>
     \/ \E w \in Workers :
          LET h == call[w].h
          IN  /\ BecomesOfficial(w)
              /\ official' = [official EXCEPT ![txn[h].file] =
                                @ \o [k \in 1..maxSeq[h] |-> <<h, k>>]]
              /\ officialIds' = officialIds \cup {call[w].id}
  /\ acked' = IF reply'.cmd = "COMMIT" /\ reply'.out = "ACK"
              THEN acked \cup {reply'.id} ELSE acked
  /\ synced' = [f \in Files |-> Synced(f)]
  /\ UNCHANGED <<mode, loadVars, crashes, survivors, powerFailed>>

\* Transactions that a client was told of and that have not ended.
Open ==
  {id \in TxnIds : /\ txnMap[id] # None
                   /\ id \notin officialIds
                   /\ \A w \in Workers : pc[w] = "NewTxnLog" => call[w].id # id}

\* What is left of f when the power fails.
Remains(f) == {SubSeq(disk[f], 1, n) : n \in synced[f]..Len(disk[f])}

\* The process dies; its memory is as at the start, files and logs stay,
\* unless it was the power.  (Handles that were used stay used.)
Crash ==
  /\ crashes < MaxCrashes
  /\ mode = "up" \/ CrashInRecovery
  /\ crashes' = crashes + 1
  /\ mode' = "loading"
  /\ unread' = LogOrder
  /\ sizes' = NoSizes
  /\ restarts' = NoRestarts
  /\ survivors' = IF mode = "up" THEN Open ELSE survivors
  /\ txnMap' = [id \in TxnIds |-> None]
  /\ fileMap' = [f \in Files |-> None]
  /\ commits' = {}
  /\ timers' = {}
  /\ memberMtx' = None
  /\ txnMtx' = [h \in Handles |-> None]
  /\ fileMtx' = [h \in Handles |-> None]
  /\ pc' = [w \in Workers |-> "idle"]
  /\ call' = [w \in Workers |-> NoCall]
  /\ reply' = NoReply
  /\ \/ UNCHANGED <<disk, synced, powerFailed>>
     \/ /\ PowerFailures
        /\ disk' \in [Files -> UNION {Remains(f) : f \in Files}]
        /\ \A f \in Files : disk'[f] \in Remains(f)
        /\ synced' = [f \in Files |-> Len(disk'[f])]
        /\ powerFailed' = TRUE
  /\ UNCHANGED <<txn, bufferVars, fileSize, fate, exists, logs, failures, official,
                 officialIds, acked>>

-----------------------------------------------------------------------------
(* loadFilesAndTransactions.                                               *)

\* Mutant: the size of the last entry counts, not the largest.
LoadEntryLast(loaded, entry) ==
  [sizes    |-> [loaded.sizes EXCEPT ![entry.file] = entry.size],
   restarts |-> [loaded.restarts EXCEPT ![entry.id] =
                   IF @ = None THEN entry.file ELSE None]]

\* Mutant: transactions that ended are not taken out.
LoadEntryKeeping(loaded, entry) ==
  [sizes    |-> [loaded.sizes EXCEPT ![entry.file] =
                   IF entry.size > @ THEN entry.size ELSE @],
   restarts |-> [loaded.restarts EXCEPT ![entry.id] = entry.file]]

\* The largest size logged for a file counts; the second entry for an id
\* says that its transaction timed out, committed or aborted.
LoadEntry(loaded, entry) ==
  [sizes    |-> [loaded.sizes EXCEPT ![entry.file] =
                   IF entry.size > @ THEN entry.size ELSE @],
   restarts |-> [loaded.restarts EXCEPT ![entry.id] =
                   IF @ = None THEN entry.file ELSE None]]

\* What the maps are after the entries of a log.
Load(entries, before) ==
  LET after[n \in 0..Len(entries)] ==
        IF n = 0 THEN before ELSE LoadEntry(after[n - 1], entries[n])
  IN  after[Len(entries)]

\* A log is read to its end and deleted; its name is the bare name.
LoadFilesAndTransactions ==
  LET log    == Head(unread)
      loaded == Load(logs[log], [sizes |-> sizes, restarts |-> restarts])
  IN  /\ mode = "loading"
      /\ unread # <<>>
      /\ IF CwdIsDirectory
         THEN /\ sizes' = loaded.sizes
              /\ restarts' = loaded.restarts
              /\ logs' = [logs EXCEPT ![log] = <<>>]
         ELSE UNCHANGED <<sizes, restarts, logs>>
      /\ unread' = Tail(unread)
      /\ mode' = IF unread' = <<>> THEN "truncating" ELSE mode
      /\ UNCHANGED <<registryVars, entryVars, lockVars, disk, exists, failures,
                     threadVars, crashes, synced, historyVars>>

-----------------------------------------------------------------------------
(* truncateFiles and the restart of the transactions.                      *)

\* A file is cut or extended to its size, which is metadata and needs no
\* fsync(), or deleted if that is 0.
TruncateFiles(f) ==
  /\ mode = "truncating"
  /\ sizes[f] # -1
  /\ \/ /\ f \in exists /\ sizes[f] > 0
        /\ disk' = [disk EXCEPT ![f] = Truncate(@, sizes[f])]
        /\ UNCHANGED exists
     \/ /\ f \in exists /\ sizes[f] = 0
        /\ disk' = [disk EXCEPT ![f] = <<>>]
        /\ exists' = exists \ {f}
     \/ /\ f \notin exists
        /\ UNCHANGED <<disk, exists>>
  /\ synced' = [synced EXCEPT ![f] = IF @ = Len(disk[f]) THEN Len(disk'[f])
                                    ELSE Min({@, Len(disk'[f])})]
  /\ sizes' = [sizes EXCEPT ![f] = -1]
  /\ UNCHANGED <<registryVars, entryVars, lockVars, logs, failures, threadVars, mode,
                 unread, restarts, crashes, historyVars>>

\* addNewTransaction, log and timer included.
RestartTransaction(id, h) ==
  /\ mode = "truncating"
  /\ sizes = NoSizes
  /\ restarts[id] # None
  /\ txn[h].id = None
  /\ AddNewTransaction(h, id, restarts[id])
  /\ LogTransaction("transaction", id, restarts[id])
  /\ timers' = timers \cup {h}
  /\ restarts' = [restarts EXCEPT ![id] = None]
  /\ UNCHANGED <<commits, bufferVars, fate, lockVars, disk, exists, threadVars, mode,
                 unread, sizes, crashes, synced, historyVars>>

\* m_initialize becomes false.
Initialized ==
  /\ mode = "truncating"
  /\ sizes = NoSizes
  /\ restarts = NoRestarts
  /\ mode' = "up"
  /\ UNCHANGED <<vars, loadVars, crashes, synced, historyVars>>

Recover ==
  \/ LoadFilesAndTransactions
  \/ \E f \in Files : TruncateFiles(f)
  \/ \E id \in TxnIds, h \in Handles : RestartTransaction(id, h)
  \/ Initialized

RecoveryNext == Serve \/ Crash \/ Recover

RecoverySpec == RecoveryInit /\ [][RecoveryNext]_allVars

-----------------------------------------------------------------------------
(* Properties.                                                             *)

CommitsTo(w, f) ==
  /\ pc[w] \in HoldsFileMtx \cup {"CommitRollback", "CommitTruncate"}
  /\ txn[call[w].h].file = f

\* "so the server can reconstruct the last valid state of the file system prior
\* to a system crash or power failure" (README): while nobody commits to it, a
\* file holds the writes of the commits that were logged, in that order, and
\* nothing else.
RecoveredContents ==
  mode = "up" =>
    \A f \in Files : disk[f] = official[f] \/ \E w \in Workers : CommitsTo(w, f)

\* "This includes rolling back any writes flushed to disk as part of an
\* incomplete transaction" (README): nothing that a commit wrote before it was
\* logged is left, and a file has the writes of the logged commits - except that,
\* once the power has failed, NUL bytes may be in the place of what it took.
IncompleteRolledBack ==
  mode = "up" =>
    \A f \in Files :
      \/ /\ Len(disk[f]) = Len(official[f])
         /\ \A j \in 1..Len(disk[f]) :
              disk[f][j] = official[f][j] \/ (powerFailed /\ disk[f][j] = Nul)
      \/ \E w \in Workers : CommitsTo(w, f)

\* "the server logs transactions as they are created, committed, ... so the
\* server can reconstruct the last valid state" (README): a commit that a
\* client was told of is in the log, and all it wrote stays in its file where
\* it is, through crashes, power failures and recovery.
AckedCommitSurvives ==
  /\ acked \subseteq officialIds
  /\ \A f \in Files : \A j \in 1..Len(official[f]) :
       txn[official[f][j][1]].id \in acked =>
         j <= Len(disk[f]) /\ disk[f][j] = official[f][j]

\* "restart transactions" (initializeTransactions): the server comes up with
\* exactly the transactions that were open when it crashed.
TransactionsRestarted ==
  [][mode # "up" /\ mode' = "up" => {id \in TxnIds : txnMap'[id] # None} = survivors
    ]_allVars

-----------------------------------------------------------------------------
(* What makes the properties inductive.                                    *)

RecoveryTypes ==
  /\ mode \in {"up", "loading", "truncating"}
  /\ unread \in Seq(LogNames)
  /\ sizes \in [Files -> Nat \cup {-1}]
  /\ restarts \in [TxnIds -> Files \cup {None}]
  /\ crashes \in Nat
  /\ synced \in [Files -> Nat]
  /\ official \in [Files -> Seq(Units)]
  /\ officialIds \subseteq TxnIds
  /\ acked \subseteq TxnIds \cup {None}
  /\ survivors \subseteq TxnIds
  /\ powerFailed \in BOOLEAN

IsUnread(log) == \E j \in 1..Len(unread) : unread[j] = log

\* Recovery has an order: nothing runs before it is over, and no transaction is
\* restarted, and so logged, before all files have their sizes.
PhaseOK ==
  /\ mode = "loading" <=> unread # <<>>
  /\ mode = "up" => sizes = NoSizes /\ restarts = NoRestarts
  /\ \A id \in TxnIds : restarts[id] = None \/ txnMap[id] = None
  /\ mode # "up" => crashes > 0 /\ \A w \in Workers : pc[w] = "idle"
  /\ mode = "loading" \/ sizes # NoSizes =>
       /\ \A id \in TxnIds : txnMap[id] = None
       /\ \A f \in Files : fileMap[f] = None
       /\ \A log \in LogNames : logs[log] = <<>> \/ IsUnread(log)

NeverExpired == \A h \in Handles : ~expired[h]

\* The sizes of f that recovery would choose from, or has to choose from.
RecordedSizes(f) ==
  ({sizes[f]} \ {-1}) \cup
  UNION {{logs[log][j].size : j \in {i \in 1..Len(logs[log]) : logs[log][i].file = f}} :
           log \in LogNames}

\* The largest of them is that of the last logged commit.
SizesOK ==
  \A f \in Files :
    /\ \A n \in RecordedSizes(f) : n <= Len(official[f])
    /\ RecordedSizes(f) # {} => Len(official[f]) \in RecordedSizes(f)

\* f has what the logged commits wrote, or NUL bytes in its place.
Agrees(f) ==
  \A j \in 1..Len(disk[f]) : j <= Len(official[f]) =>
    disk[f][j] = official[f][j] \/ (powerFailed /\ disk[f][j] = Nul)

\* A file that is too long or too short is being committed to or going to be
\* truncated, and too short only if the power has failed.
ContentsOK ==
  \A f \in Files :
    /\ Agrees(f)
    /\ Len(disk[f]) < Len(official[f]) => mode # "up" /\ powerFailed
    /\ \/ Len(disk[f]) = Len(official[f])
       \/ mode = "up" /\ \E w \in Workers : CommitsTo(w, f)
       \/ mode = "loading" /\ RecordedSizes(f) # {}
       \/ mode = "truncating" /\ sizes[f] # -1
    /\ f \notin exists => disk[f] = <<>> /\ official[f] = <<>>

\* How many of its writes a COMMIT has appended.
Written(w) == IF pc[w] = "CommitWrite" THEN call[w].i - 1 ELSE maxSeq[call[w].h]

\* Where a COMMIT is, and what is behind the logged commits in its file.
CommitterOK(w) ==
  LET h == call[w].h
      f == txn[h].file
      n == Len(official[f])
  IN  /\ pc[w] \in {"CommitWrite", "CommitInsert", "CommitLog"} =>
           /\ f \in exists
           /\ Written(w) \in Nat
           /\ Len(disk[f]) = n + Written(w)
           /\ \A j \in 1..Written(w) : disk[f][n + j] = <<h, j>>
      /\ pc[w] = "CommitSize" => Len(disk[f]) = n
      /\ pc[w] \in {"CommitRollback", "CommitTruncate"} => Len(disk[f]) >= n
      /\ pc[w] = "CommitTruncate" => call[w].i = n

\* A command function works on an entry of the map.
LiveCall(w) ==
  /\ pc[w] \in {"NewTxnLog", "LockTxn"} \cup HoldsTxnMtx \cup UsesTxn =>
       txnMap[call[w].id] = call[w].h
  /\ pc[w] = "NewTxnLog" => txn[call[w].h].file = call[w].file

WorkersOK == \A w \in Workers : CommitterOK(w) /\ LiveCall(w)

\* The file of a transaction that a client was told of is in a log.
OpenRecorded ==
  \A id \in TxnIds, f \in Files : txnMap[id] # None /\ txn[txnMap[id]].file = f =>
    \/ RecordedSizes(f) # {}
    \/ \E w \in Workers : pc[w] = "NewTxnLog" /\ call[w].id = id

AtCommitSize(f) ==
  \E w \in Workers : pc[w] = "CommitSize" /\ txn[call[w].h].file = f

\* m_file_size is where the last logged commit ends ...
FileSizesOK ==
  \A f \in Files : fileMap[f] # None =>
    fileSize[fileMap[f]] = Len(official[f]) \/ AtCommitSize(f)

\* ... and so is the part of a file that is safe, until the first crash.
SyncedOK ==
  \A f \in Files :
    /\ synced[f] <= Len(disk[f])
    /\ crashes = 0 => synced[f] >= Len(official[f]) \/ AtCommitSize(f)

RecoveryInv ==
  /\ StateOK
  /\ RecoveryTypes
  /\ PhaseOK
  /\ FileAttributesShared
  /\ AttributesNamed
  /\ NeverExpired
  /\ SizesOK
  /\ ContentsOK
  /\ WorkersOK
  /\ OpenRecorded
  /\ FileSizesOK
  /\ SyncedOK
=============================================================================
