# A TLA+ model of the Client Server File System

The repository is a C++ file server. Clients hold a TCP connection and send
requests: `READ`, `NEW_TXN`, `WRITE`, `COMMIT`, `ABORT`. Writes are collected in
a transaction and reach the file when the transaction commits. The server runs
one thread per connection and one timer thread per transaction, logs what
happens to transactions, and rebuilds its state from the logs after a crash.

This directory holds TLA+ modules of the server, TLC configurations that check
them on small instances, and TLAPS proofs that hold for instances of any size.
Paths below are relative to the repository (`src/` here); `B` stands for
`Server/Server/server-backend.cpp`, `D` for
`Server/Server/server-dispatcher.h` and `T` for
`ClientServerTest/ClientServerTest/client-server-test.cpp`.

## 1. The system

### Components

| Component | State it keeps | Operations | Where |
|---|---|---|---|
| Transaction engine, `ServerBackend` | map id → entry (buffers, highest sequence number, timestamp, mutex, attributes of the file); map file name → attributes (size, mutex); set of committed ids; `m_member_mtx` | the five command functions, `m_txn_timer_function` | `server-backend.{h,cpp}` |
| Crash recovery | the four logs; sizes and ids collected from them | `initializeTransactions`, `loadFilesAndTransactions`, `truncateFiles`, `logTransaction` | `server-backend.cpp` |
| `File` | a descriptor | open, append, read, `fstat`, `stat`, `fsync` on close | `file.{h,cpp}` |
| Dispatcher, `ServerDispatcher` | `m_rfds`, `g_mtx`, a condition variable and a mutex per descriptor | `start` (accepts), `m_notifier` (selects and notifies), `m_processRequest` (one thread per connection) | `server-dispatcher.h` |
| Read/write helper | – | `readFileDescriptor`, `writeFileDescriptor` | `read-write-helper.h` |
| Wire protocol | – | regular expressions for headers, construction of responses | `wire-protocol.h`, `server-backend.cpp` |
| Constants, errors, exceptions | – | tables | `constants.h`, `errors.h`, `exceptions.h` |
| Start-up, arguments, signal handler | – | wiring, interactive clean-up on ctrl-C | `main.cpp`, `server.*`, `argument-helper.h`, `signal-handler.h` |
| Test client and tests | a socket; per test the rounds still to send, the transaction id | blocking or pipelined requests, eighteen test cases | `ClientServerTest/` |

### How the parts interact

The notifier thread runs `select` on a copy of `m_rfds` under `g_mtx` and then
notifies, without `g_mtx`, the condition variable of every descriptor it found
readable. The acceptor waits for the one of the listening socket, takes `g_mtx`
and calls `accept`. A handler waits before every `read`, with the connection
timeout; it reads a header, the announced payload, has the backend process the
request, writes the response and goes on until the backend's
`out_transaction_in_progress` is false. In the backend all handler threads and
all timer threads share the maps. The backend uses `m_member_mtx` for the maps,
one mutex per transaction for its buffers, and one per file for committing.
`g_mtx` is also taken around opening and closing of files, which every command
but `WRITE` does, so the notifier, the acceptor and the backend compete for it.

### What is hard

* A command function looks at its transaction under `m_member_mtx`, unlocks,
  waits for the transaction's mutex, and looks again. References into the map
  entry live on after `m_member_mtx` is released; timers erase entries under
  `m_member_mtx` alone; `ABORT` releases the transaction's mutex *before* it
  erases the entry.
* A commit is a sequence of system calls, each of which can fail; the file is
  rolled back by `truncate` to a size recorded by an earlier commit.
* Commits on one file exclude each other only if their transactions share one
  `FileAttributes` object, whose lifetime is that of a `shared_ptr`.
* The size logged with a transaction is the size the file has at that moment.
* A log entry is six `write` calls; commits on different files write the commit
  log at the same time; a failing call is swallowed and leaves half an entry.
* The log entry of a commit is on the disk before the data of the commit is.
* The notifier keeps `g_mtx` while it is in `select` and takes it again at once.
* Notifications are sent from a `select` result that may be out of date, and a
  notification that finds nobody waiting is lost. The waits have no predicate, and
  what follows them, `read` and `accept`, blocks.
* Clients cut headers and payloads into packets anywhere, pipeline them, repeat them and
  hang up.

`PROJECT.json` lists these as hazards, each at its line, with the properties
that cover it.

### What makes the components correct

* Engine: a request works on a transaction only while it exists; a transaction
  ends once; commits are whole, in order and not interleaved; what the client
  is told is true; every request is answered; abandoned transactions end.
* Recovery: files hold exactly the commits that were logged, and nothing of others;
  an acknowledged commit is one of them, complete, even after a loss of power;
  exactly the open transactions are restarted.
* Logs: what was written whole is read back, whatever was cut off or mixed up
  after it.
* Dispatcher: `m_rfds` and threads agree; handlers stay in step with their streams;
  every request gets one response; connections are accepted and, if silent or
  hung up, closed.
* Test suite: what the tests expect holds in every interleaving, not only in the
  one a test run happens to see. (It does, with two exceptions: section 3.)

## 2. Modules

| Module | Role |
|---|---|
| `TransactionalStore` | what the server promises: transactions collect writes, a commit appends them all in one step |
| `ServerBackend` | the transaction engine, with properties and the refinement mapping to `TransactionalStore` |
| `CrashRecovery` | extends `ServerBackend`: crash, power failure, loading of logs, truncation, restart |
| `TransactionLog` | one log file at the level of `write` calls, and the loop that reads it |
| `ClientServerTest` | extends `ServerBackend`: the tests of the repository as its clients |
| `ServerDispatcher` | acceptor, notifier, handlers, and `readFileDescriptor` |
| `MCServerBackend`, `MCCrashRecovery`, `MCTransactionLog`, `MCServerDispatcher`, `MCClientServerTest` | bounds, symmetry and fairness for TLC |
| `ServerBackendProofs` | type correctness |
| `ServerBackendLockProofs` | ownership of mutexes, sharing of file attributes; no request uses a transaction that is gone; one committer per file |
| `ServerBackendOutcomeProofs` | a transaction ends once; what clients are told is true |
| `ServerBackendFileProofs` | commits are whole, in order and not interleaved; recorded sizes |
| `ServerBackendRefinement` | the backend implements `TransactionalStore` |
| `CrashRecoveryProofs` | incomplete commits are rolled back, recovered files are the logged commits, acknowledged commits survive, open transactions are restarted |
| `TransactionLogProofs` | the loader finds the entries that were written |
| `ServerDispatcherProofs` | handlers in step with their streams; responses; descriptors |

### ServerBackend

A *worker* is a connection thread. A command function is cut into steps where
it locks or unlocks and where it touches state its locks do not protect; `pc`
says which step is next, `call` holds the request and the locals. A critical
section of `m_member_mtx` that ends in the same step is one action guarded by
`memberMtx = None`; where the code keeps a mutex across steps, the variable
records the holder.

| Action | Code (`B`) |
|---|---|
| `RefuseRequest` | a request whose header or command is refused (`getContentLength`, `processCommand`) |
| `ReadOpen`, `ReadData` | `READ`: open and `fstat`; read, which fails if the file was cut meanwhile |
| `NewTxnReject`, `NewTxnCreate`, `NewTxnLog` | `NEW_TXN`, `addNewTransaction` |
| `Lookup`, `LockTxn`, `RecheckGone`, `RecheckPresent` | the two looks of `WRITE`, `COMMIT` and `ABORT` and the wait in between |
| `WriteBuffer` | `WRITE` after its second look |
| `CommitVerify` … `CommitRemove` | `COMMIT`: check of sequence numbers, open, one step per write, insert into `m_commits`, log, size, removal; `CommitRollback` and `CommitTruncate` are its handler of `ErrorWritingFile` |
| `AbortUnlock`, `AbortRemove` | `ABORT` |
| `Expire`, `TimerFire`, `TimerExit` | the deadline passes; `m_txn_timer_function` |

A map entry is an object with an identity of its own, a *handle*, because
references outlive the entry. An erased entry keeps its contents for those who
still refer to it: the outcome of that undefined behaviour in which the freed
memory was not used again. The payload of the k-th write of a transaction `h`
is the unit `<<h, k>>`, so a file's contents say whose writes are where.
Constants switch the circumstances on and off: `Timeouts`, `TimerRaces` (a timer
may fire while a request uses the transaction), `InsertRaces` (concurrent inserts
into `m_commits` may lose one), `IdReuse` (`rand` may return an
id again), `CwdIsDirectory` (bare names resolve to the server's directory),
`FailureKinds` (which system calls may fail).

In the refinement mapping a transaction commits when its id enters `m_commits`.
A file of the store is the file up to its last unit of a committed transaction
(`CommittedPart`): what a `COMMIT` has appended before that moment, and a `READ`
can see, is not part of the store.

`fate` is a history variable: how a transaction ended. `reply` is the response
of the last step, so invariants can speak of what clients are told.

### CrashRecovery

`Crash` resets the memory of the process at any step and keeps logs and files -
or, if it was the power (`PowerFailures`), loses some of the end of each file
that was written since its last `fsync`. `synced` says how much of a file is
safe: `~File` syncs before it closes, so a commit's data is safe when `COMMIT`
leaves the block that holds the file's mutex, and a log entry, itself a `File`,
when `logTransaction` returns. `LoadFilesAndTransactions` reads one log (`Load`,
a recursive function over its entries) and deletes it, `TruncateFiles` treats one file, `RestartTransaction` one
transaction, and `Initialized` opens the server. Initialization holds
`m_member_mtx`, so no request runs meanwhile. A truncation changes the size,
which is metadata and taken to be durable, and syncs no data. History variables
record the commits that were logged and those that were acknowledged, and the
transactions that were open.

Two properties say what the files hold. `RecoveredContents` is the promise of
`src/README.md`: except in the middle of a commit or of recovery, a file has the
writes of the logged commits and nothing else. The code does not keep it when the
power fails (`power_failure`): a log entry is durable before the data it is about.
`IncompleteRolledBack` is what it does keep: until the power has failed, the promise
itself; after that the file has the length of the logged commits, none of its units
is that of another commit, and a place whose data was lost holds a NUL. `AckedCommitSurvives` adds that no such place belongs to a commit
a client was told of.

### TransactionLog

A log is a sequence of *pieces*: digits, a name, a blank. `OpenLog` and six
`WriteLog` steps write an entry; `WriteFails` ends it early, perhaps after a part
of a piece (`Cut`); `Restart` stops the server wherever its threads are, reads
the log and removes it. `Loaded` is the loop `ss >> txn_id && ss >> file_name
&& ss >> file_size`, as a recursive function over the pieces (`Reader`): numbers that touch are read as
one number, which may or may not fit its type (the parameter `fits`), a number
ends where a name begins and, if it is a size, completes its entry, a name runs on
into digits. `SerialLog` distinguishes
the three logs that are written under `m_member_mtx` from the commit log, where
only entries for the same file exclude each other.

### ClientServerTest

A *tester* runs one of the eighteen `TEST`s of `T`; all testers run at the same
time against one `ServerBackend`. A test is a sequence of rounds, each a set of
requests in no fixed order: one request where the test waits for the response,
all writes of the parallel test or of the shuffled one in a single round. A
request carries what the test `EXPECT`s of its response: an error, an `ACK`, an
`ASK_RESEND` of the right number, or the expected contents of the file. The
server closes a connection after an error and after `ABORT`; a request over a
closed connection can never be sent, so a test that tries does not finish. The
requests are processed by the actions of `ServerBackend` themselves (`Dispatch`
for the first step, `Continue` for the others), so this is a composition and not
a second model.

`unmet` collects the requests whose `EXPECT` failed. Two races make tests fail: the
timer thread may run later than the test that slept as long as its timeout (without
it `TimeoutNoticed` would hold), and two commits may lose an insert into `m_commits`
(`ExpectationsHold`). `FailuresExplained` says that nothing else does.

### ServerDispatcher

A client's stream is a sequence of units. The first of a request stands for what
its header says, the content length it announces or `Malformed`; `HeaderLen - 1`
more units complete the header, and payload units follow. All but the first are
units `Body`: a handler that is out of step and takes one for the beginning of a
header may find any header in it. `Read` returns any non-empty part of what has
arrived and is wanted, so headers and payloads are cut anywhere. Without
`FieldsFit`, a number in a header may be too large for `int` and the content length
be taken as 0. What the backend answers is left open, except for the flag that ends
the connection.

`Notify` works off the result of the last `select` and wakes whoever waits for a
descriptor at that moment, whether or not there is still something to read or
accept; a notification that finds nobody waiting is lost. `WakeSpuriously` ends a
wait without one (`SpuriousWakeups`). A woken thread goes on to `read` or `accept`,
as the code does, and blocks there if there is nothing. `TimeOut` may end any wait
of a handler. The notifier has `g_mtx` from `SelectBegin` to `SelectEnd`, the
acceptor from `AcceptorLock` to the end of `Accept`. A handler needs `g_mtx` to close
its connection and, after `UseFile`, for the files of the request.

## 3. Runs

Passing runs:

| Run | Instance | Shows |
|---|---|---|
| `competing_clients` | 2 threads, 2 transactions, 1 file, sequence numbers 1 and 2, 7 requests, one failing `open` | `TypeOK`, `MutexOwnership`, `FileAttributesShared`, `OneWriterPerFile`, `NotInterleaved`, `AllOrNothing`, `RollbackPoint`, `RepliesTruthful`, `RepeatedCommitKnown`, and the refinement `ImplementsStore` |
| `progress` | 2 threads, 2 transactions, sequence numbers 0 and 1, 4 requests, timeouts, fairness | `RequestUsesLiveTransaction`, `OneOutcome`, `RepliesTruthful` with timeouts; `EveryRequestAnswered`, `AbandonedTransactionsEnd` |
| `crash_and_recover` | 1 thread, 2 transactions, 6 requests, one failing write, two crashes, of which the first may be a power failure | `IncompleteRolledBack`, `AckedCommitSurvives`, `TransactionsRestarted` |
| `log_entries` | 3 commits on 2 files, one failing `write` between two starts, restarts at any moment | `TypeOK`, `FinishedEntriesLoaded`, `EarlierEntriesKept` |
| `framing` | 2 connections, one usable descriptor, 2 pipelined requests each, headers of 2 units, payloads of 0 and 2 units, late notifications, spurious wakeups | `TypeOK`, `InStep`, `ResponsesMatchRequests`, `DescriptorsTracked` |
| `connections` | 2 connections, descriptors 4 to 6 of which 6 is too large, one request each, late notifications, fairness | `ConnectionsEnd`, `ConnectionsAccepted` |
| `test_suite` | any 2 of the tests at the same time, `num_requests` 2, timers and inserts that race, deadlock checking, fairness | `FailuresExplained`, `TestsFinish` |

Runs in which TLC finds what the code does against what the repository says:

| Run | Violates | Because |
|---|---|---|
| `timer_races_commit` | `RequestUsesLiveTransaction` | `B`:227: a timer erases an entry that a `WRITE` or `COMMIT` past its second look still uses |
| `rollback_races_commit` | `AllOrNothing` | `B`:428: the handler of a failed write runs after `m_file_mtx` was released and cuts off another commit |
| `size_of_partial_commit` | `RecoveredContents` | `B`:613: a log entry records the size of a half-written file, and recovery keeps the half |
| `power_failure` | `RecoveredContents` | `B`:418: the log entry of a commit is durable before its data; recovery fills the file up with NULs |
| `stale_read` | `SilentConnectionsEnd` | `D`:247: a handler that was woken twice for the same input blocks in `read`, where no timeout applies |

In `stale_read` the client of the only connection has sent a part of a header and is
silent.

The passing runs are for circumstances the code copes with. `competing_clients` and
`progress` have `TimerRaces` and `IdReuse` off, no failing writes and one file (so
that inserts do not race). `crash_and_recover` has one thread and no timeouts (a
second thread or a timer can log a partial size), crashes only while the server is
up, a power failure only at the first of them, and log entries that are written.
`framing` has `FieldsFit`. `connections` and `test_suite` have every race; their
properties name the exceptions instead. (`connections` leaves spurious wakeups to
`framing` to stay small; both its properties hold with them as well.)

Other circumstances of the modules, in which TLC also finds the code to break what
the repository says:

| Property | With | Because |
|---|---|---|
| `RepliesTruthful` | `IdReuse` | `B`:279: a new id is checked against open transactions, not against `m_commits`; a transaction with the id of a committed one has its `COMMIT` acknowledged and nothing written |
| `AllOrNothing` | `CwdIsDirectory = FALSE`, a failing write, one worker | `B`:428: the rollback uses the bare file name, the commit `m_directory` + name |
| `RecoveredContents` | `CrashInRecovery`, `MaxCrashes = 2` | `B`:589: each log is deleted as soon as it is read; a second crash finds no sizes and keeps a half-written commit |
| `IncompleteRolledBack` | `MaxCrashes = 2`, without the bound `PowerFailsFirst` | `B`:667: recovery deletes the logs without syncing the files; a power failure after it leaves a file shorter than what was logged |
| `AckedCommitSurvives` | two workers | `B`:416: a repeated `COMMIT` is acknowledged between the insert into `m_commits` and the log entry |
| `AckedCommitSurvives` | `FailureKinds = {"log"}` | `B`:617: a commit whose log entry could not be written is acknowledged |
| `TransactionsRestarted` | `FailureKinds = {"log"}` | `B`:617: the same for a `NEW_TXN`, which is then not restarted |
| `RepeatedCommitKnown` | a crash | `B`:357: `m_commits` is empty after a restart, so a `COMMIT` repeated because its `ACK` was lost is refused |
| `EveryEntryLoaded` | `SerialLog = FALSE`, `MaxFailures = 0` | `B`:605: entries of commits on different files mix; an id can be read as part of a size and the rest of the log be ignored |
| `EveryEntryLoaded` | `SerialLog = TRUE`, `MaxFailures = 1` | `B`:626: what is left of an entry after a failing `write` runs into the next entry |
| `HungUpConnectionsEnd` | `FairSpec`, the instance of `connections` | `D`:160: the acceptor, woken for a connection it has accepted, blocks in `accept` with `g_mtx` held; a client has hung up, so that no `read` blocks, but its handler cannot close the connection |
| `InStep` | `FieldsFit = FALSE` | `D`:282: a `TXN_ID` or `SEQ_NUM` that does not fit `int` leaves the content length at 0, and the payload is taken for the next header |
| `TimeoutNoticed` | the instance of `test_suite` | `T`:362: the test that sleeps as long as the timeout runs before the timer thread |
| `ExpectationsHold` | the instance of `test_suite` | `B`:416: `m_commits` is modified without `m_member_mtx`; of two commits on different files one is forgotten, and the second `COMMIT` of `LostAck` refused |

One more deviation, seen in the code and not modelled: `server-backend.h`:138 says a
successful `COMMIT` clears `out_transaction_in_progress`; only errors and `ABORT`
do (`B`:440).

### Bounds

Two threads and two transactions are the least that can compete, for a
transaction (two threads on one id) and for a file (two commits). Seven
requests are the least with which commits can be seen to interleave: two
`NEW_TXN`, three `WRITE`s, two `COMMIT`s. Four are enough for a transaction with
a write to be committed by one thread while another commits or aborts it and its
timer runs. Sequence numbers 1 and 2 make
commits of several writes, out-of-order arrival and missing writes possible; 0
is the boundary `initial_seq_num`. `Handles` bounds transactions created:
recovery gets four, since it creates entries anew. A second crash (`MaxCrashes`) meets
logs that recovery itself has begun; `PowerFailsFirst` bounds what it may be. One failing call suffices
for every error path. In the dispatcher a second client meets a reused
descriptor or a full table; payloads of two units and two requests meet partial
reads and reads that span requests, and headers of two units are the least that can
be cut. `connections` has one request of one unit per client, so that two handlers,
notifier and acceptor can all be live under fairness; the second `select` that a late
notification needs is there with it. Three entries are the least with which one can be sound, one
disturbed and one come later. In `test_suite` two requests make one write
missing, out of order or concurrent with another, and two testers are the least
that share a server. `MaxRequests` is enforced in the guards of
the MC modules (`MCServerBackend`, `MCCrashRecovery`) or of the clients
(`ServerDispatcher`). Deadlock checking is off where clients send a bounded number
of requests: when all have been sent, everything rightly comes to rest, and that
nobody is stuck is what the liveness properties say. It is on in `test_suite`,
where only tests that have finished may rest.

Symmetry (threads, handles, ids, files; clients) is used for safety only.

### Fairness

`progress`: every thread that can take a step of its command function does so,
a deadline that is not moved passes, and a timer thread that can run does. This
is what threads of the operating system and `sleep_until` give. Beginning a
request is not fair: clients may fall silent. Fair mutexes are not needed, since
the number of requests is bounded.

`connections` and `stale_read`: weak fairness of the notifier, strong
fairness of the acceptor and of each handler, and none of the clients. A thread
is at one place at a time, so this is fairness of the step it is at, and
only where that step needs `g_mtx` does strong differ from weak: the notifier
releases `g_mtx` between two rounds, so it is free again and again but never for
good. That a waiting thread gets it in the end is what the code relies on; an
unfair mutex could starve it. Fairness of a handler includes its timeout while it
waits, and nothing while it is in a `read` that blocks.

`test_suite`: weak fairness of the whole next-state relation, since every test is
finite: somebody who can take a step does.

## 4. Proofs

### The transaction engine

These are theorems of `ServerBackend`'s `Spec` for arbitrary sets of workers,
handles, ids and files. They use `ConstantsAssumption` and the provisos named
below, which are values of constants that switch a circumstance off.

| Theorem | States | Provisos | Inductive invariant |
|---|---|---|---|
| `TypeCorrect` | `TypeOK` | – | `StateOK` |
| `MutexesOwned` | `MutexOwnership` | – | `StateOK` and itself |
| `AttributesShared` | `FileAttributesShared` | – | with `AttributesNamed` |
| `NoWindow` | `RequestUsesLiveTransaction` | no racing timer, no reused id | `Isolation` |
| `CommitsExclude` | `OneWriterPerFile` | the same | `Isolation` |
| `EndsOnce` | `OneOutcome` | the same | `OutcomesOK` |
| `ClientsToldTheTruth` | `RepliesTruthful` | the same, inserts kept | with `CommitsRemembered` |
| `RepeatedCommitsKnown` | `RepeatedCommitKnown` | the same, inserts kept | with `CommitsRemembered` |
| `CommitsNotInterleaved` | `NotInterleaved` | no racing timer, no reused id, no failing write | `ContentsOK` |
| `CommitsAllOrNothing` | `AllOrNothing` | the same | `ContentsOK` |
| `SizesRecorded` | `RollbackPoint` | the same, bare names in the server's directory | with `ContentsOK` |
| `BackendImplementsStore` | `ImplementsStore` | no racing timer, no reused id, no failing write | `ContentsOK` |

* `TypeCorrect` is not inductive alone: a step through a reference needs
  that the reference points to a complete entry. `StateOK` adds `EntriesOK`
  (entries are complete and found under their ids) and `CallOK` (the locals of a
  command function name an entry with its id).
* `MutexesOwned`: each step is examined for the mutexes it takes and leaves; a
  thread that does not move keeps what it has because a mutex is taken only when
  nobody holds it.
* `AttributesShared`: `AttributesNamed` says that an attributes object is named
  by a transaction on its file. The work is in `RemoveTransaction`: the map of
  attributes forgets a file exactly when the last transaction on it goes, and a
  new transaction's handle is not the name of an object in use.
* `NoWindow` is the claim of the comment at `B`:472–478, which argues that `ABORT`
  may release the transaction's mutex first. `Isolation` adds `UniqueIds` and
  `ExclusiveUse`: at most one thread is past its second look at a transaction.
  Between `AbortUnlock` and `AbortRemove` exclusion does not come from the
  transaction's mutex but from `m_member_mtx`, which the second look of everyone
  else needs: the proof has that case.
* `CommitsExclude`: two committers of one file use live transactions, which by
  `FileAttributesShared` have the same attributes object and therefore the same
  mutex, which `MutexOwnership` gives to one of them.
* `EndsOnce`: `fate` alone does not tell why a second ending is impossible.
  `FatesOK` ties it to the map: what is in the map has not ended, unless a
  `COMMIT` that has inserted its id is about to erase it; what was created and is
  no longer there has ended in exactly one way. `ExclusiveUse` gives that `COMMIT`
  the transaction alone.
* `ClientsToldTheTruth`, `RepeatedCommitsKnown`: the responses are derived from
  `m_commits`, so one needs that it has ids of committed transactions only
  (`CommitsSound`, without any proviso) and of all of them
  (`CommitsRemembered`). The latter is where inserts must not be lost
  (`InsertsKept`): either inserts do not race, or there is one file, whose mutex
  then orders them. `CommandsOK` says which command a response belongs to, and
  `FilesGrow` that `READ` finds what `fstat` announced unless a call failed.
* `CommitsNotInterleaved`, `CommitsAllOrNothing`: `FilesOK` describes a file at
  any moment. Either all its units are of committed transactions, or one thread
  commits to it and the file ends with the first units of that transaction, in
  order, behind units of committed ones (`PartWritten`). `BuffersOK` makes the
  step from "all numbers up to the last were written" to "all writes are there":
  after `CommitVerify` no number is missing and none is larger than `max_seq_num`.
* `SizesRecorded`: outside the mutex of a file its recorded size is its size. The
  proviso `CwdIsDirectory` is needed because the size is taken with a bare name.
* `BackendImplementsStore`: initial states map to initial states, `NewTxnCreate`
  to `Begin`, `WriteBuffer` to `Write` or a stutter, `CommitInsert` to `Commit`,
  `AbortRemove` and `TimerFire` to `Abort`, all else to stutters. A `CommitWrite`
  is a stutter since its unit is behind the last committed one; in `CommitInsert`
  the part of the file that counts grows to its end, which by `PartWritten` adds
  exactly the writes of the transaction.

The provisos are necessary: `timer_races_commit` is a run without the first,
`rollback_races_commit` one with failing writes; what happens without the others is
in the last table of section 3.

### The dispatcher

Theorems of `ServerDispatcher`'s `Spec` for every number of connections, every
set of descriptors and every set of content lengths. `DispatcherAssumption` says
that the listening descriptor is small enough for the arrays it indexes: it is
opened at start-up, and `max_sockfd` is 255 (`constants.h`).

| Theorem | States | Proviso |
|---|---|---|
| `DispatcherTypes` | `TypeOK` | – |
| `DescriptorsStayTracked` | `DescriptorsTracked` | – |
| `HandlersInStep` | `InStep` | header fields fit `int` |
| `RequestsAnsweredOnce` | `ResponsesMatchRequests` | header fields fit `int` |

Late notifications and spurious wakeups are included everywhere. The inductive
invariant of the first two is `DispatcherInv`, `TypeOK` and `DescriptorsTracked` with
`HandlersOK` and `ConnectionsOK`; that of the others, `StreamInv`, adds `StreamsOK`.

* `StreamsOK`: every stream is `Framed`. It begins with the payload its handler
  still expects; every header is followed by the payload it announces and then by
  a header, as far as they have arrived; and what has not arrived is what the
  client owes. `InStep` only looks at the beginning of the stream, so a `Read` of
  the last payload unit would lose it. The same conjunct counts headers in the
  stream, which `ResponsesMatchRequests` needs for connections that have no
  handler yet. Lemmas on sequences say what a header or payload at the end, and a
  read from the front, do to a framed stream and to the number of its headers.
* `HandlersOK`: a handler that reads a header lacks at most the whole of it, one
  that was not started lacks all of it, and one opens files only for a complete
  request.
* `ConnectionsOK`: connection, descriptor and handler go together, and the
  backlog has each pending connection once. `DescriptorsTracked` needs it for
  `Accept` (the connection that is accepted has no descriptor yet) and `Close`
  (the descriptor that is cleared is nobody else's).

Without the proviso `InStep` fails (section 3). That nobody waits for ever in `accept`
or `read` is not a theorem: it is false (`HungUpConnectionsEnd`, `stale_read`).

### The logs

Theorems of `TransactionLog`'s `Spec` for every number of writers, every entry
and logs of every length. They need `LogAssumption` and no proviso: failing
writes, partial writes, overlapping entries and restarts are all included.

| Theorem | States | Inductive invariant |
|---|---|---|
| `LogTypeCorrect` | `TypeOK` | itself |
| `ReaderKeepsStep` | `ReaderInStep` | itself, beside `TypeOK` |
| `FinishedEntriesAreLoaded` | `FinishedEntriesLoaded` | `ReaderInStep` |
| `EarlierEntriesAreKept` | `EarlierEntriesKept` | `ReaderInStep` |

Neither property is inductive: that the entries read so far are the finished
ones says nothing of the token the reader is in the middle of, and the next
piece may complete it. `ReaderInStep` states where the reader is after the whole
log: between two entries if nobody writes, and otherwise, while the log is
undisturbed, at the place of the one writer (`InStep`): after its number the
reader holds that number as its token, after its blank it wants the next field
with the id stored, and so on. Of a log that is disturbed it only says that the
entries from before come first, which holds because the reader adds entries at
the end and takes none back (`ExtractGoes`).

`Reader` is a recursive function over the length of the log, and what it computes
is shown by induction. The induction theorems of the library take a predicate as
a parameter and are of no use to the provers; here the induction goes over the
*set* of the places up to which a statement holds (`InductionTo`), which follows
from `WFMin`, the existence of a least element of a set of numbers. With it
`RunExists` and `RunUnique` show that the recursion defines a function, and
`ReaderAppend` that reading one more piece is one more `Extract`, which is the
only fact about `Reader` the rest of the proof uses.

### Recovery

Theorems of `CrashRecovery`'s `RecoverySpec` for every set of handles, ids and
files, every number of crashes and logs of every length. They use
`ConstantsAssumption`, `RecoveryAssumption` and the provisos named here.

| Theorem | States | Proviso | Inductive invariant |
|---|---|---|---|
| `RecoveryTypeCorrect` | `TypeOK`, `RecoveryTypes` | – | with `StateOK` |
| `IncompleteWritesRolledBack` | `IncompleteRolledBack` | `RecoveryProviso` | `RecoveryInv` |
| `FilesRecovered` | `RecoveredContents` | `RecoveryProviso`, no power failures | `RecoveryInv` |
| `OpenTransactionsRestarted` | `TransactionsRestarted`, an action property | `RestartProviso` | `ReloadInv` |
| `AcknowledgedCommitsSurvive` | `AckedCommitSurvives` | both | `AckInv` |

Both provisos have `CwdIsDirectory` (the recovery code uses bare names), no crash
before recovery is over, and log entries that can be written. `RecoveryProviso`
adds one thread, no timeouts, and one crash at most where the power may fail: it
is about the sizes that log entries record. `RestartProviso` adds no racing timer
and no reused id, and allows any number of threads, timeouts, crashes and power
failures: it is about which entries there are.

* `IncompleteWritesRolledBack`, `FilesRecovered`: what a file holds at a crash says nothing of what recovery
  will make of it; that depends on the sizes in the logs. `SizesOK` says that the
  largest size recorded for a file - in a log, or in `sizes` once the log is read -
  is that of the last logged commit, whichever logs have been read and deleted.
  `ContentsOK` says that a file agrees with the logged commits as far as both go
  and that a file of another length will be truncated: a `COMMIT` is at work on
  it, or a size is recorded for it. That needs `OpenRecorded` (the file of an
  open transaction is in a log), `CommitterOK` (what a `COMMIT` has appended, and
  that its rollback cuts exactly that), `FileSizesOK` (`m_file_size`, which the
  rollback uses, is where the last logged commit ends), and `PhaseOK` (recovery
  runs alone, and restarts nothing before all files have their sizes). `SyncedOK`
  bounds what the power can take: before the first crash, only units of a
  `COMMIT` that has logged its entry and not yet closed the file. `FileAtRest` derives
  both theorems: a file that nobody commits to has the length of the logged commits
  and agrees with them, except for NULs, which only a power failure leaves.
* `OpenTransactionsRestarted`: the loader toggles, so the theorem is a statement
  about parity. `EntriesOnce` says that no log has two entries for an id and that
  an id ends in one log; `LogsTell`, that while the server runs an id has a begin
  without an end exactly if its transaction is open, except between a log entry
  and the change of the map; `LoadTells` and `RestartTells`, that during recovery
  what was read together with what is still to be read tells the same.
  `ExclusiveUse` and `MutexOwnership` keep a second thread or the timer from
  ending a transaction that is being ended.
* `AcknowledgedCommitsSurvive`: `AckedCommitSurvives` does not say why a commit
  whose data the power took cannot be acknowledged later. `OfficialOK` adds that a
  unit that is not in its place is that of a transaction which is neither in the
  map nor in `m_commits`, so no client will hear of it (`Untold`), and that
  recovery does not bring back: the ids of logged commits are not among the
  survivors (`ReloadInv`). `AcksOK` orders the answer after the log entry.

What a log adds to the maps is shown by induction over its entries, like
`Reader` above: `LoadSizes` (the largest size wins) and `LoadToggles` (an id that
occurs once is toggled, others stay).

None of the provisos can be dropped for free. `size_of_partial_commit` is a run of
`FilesRecovered` with a second thread, and a timer does the same; `power_failure` is
one with power failures, and section 3 has the others. `crash_and_recover` checks
`TransactionsRestarted` for one thread without timeouts, the theorem states it for
any number of threads, with timeouts. With other working directories all these
properties fail; with `TimerRaces` a commit and a timeout of one transaction, and
with `IdReuse` two commits of one id, are entries that toggle once too often; and
with `IdReuse` an id whose first commit lost its data can be acknowledged for its
second. That `AcknowledgedCommitsSurvive` excludes timeouts and racing timers is a
convenience of its proof.

### Only model-checked

* The liveness properties and everything under fairness, which the prover does
  not handle.
* The test suite (`ClientServerTest`): `FailuresExplained` and `TestsFinish` are
  about a fixed set of finite tests, whose behaviours TLC enumerates.

## 5. What is not modelled

* **Bytes.** A write's payload is one unit; `File::write` appends it whole or
  fails before any of it. A part of one payload that was written before the
  failure is treated by the rollback like a whole one. `READ` returns what is
  before the first NUL byte (`File::read` builds a C string), so after a power
  failure that left NULs in a file it hides the commits behind them; contents
  here are what is on the disk.
* **Log entries in `CrashRecovery`** are whole. `TransactionLog` shows what the
  loader makes of entries that are not, and is not composed with it: what a
  misread entry does to files is arbitrary.
* **The order in which a power failure loses data.** It takes the end of a file.
  Sizes, directory entries and the deletion of logs are durable at once.
* **Readers of `m_commits` during an insert.** An insert that overlaps another
  may be lost; a lookup that overlaps an insert sees the set before or after it.
* **Freed memory that was used again**, after a timer erased an entry in use.
* **Characters of headers.** A request arrives at `ServerBackend` as a tuple; in
  `ServerDispatcher` a header is well formed or not, and its fields may be too large
  for `int` (`FieldsFit`). The regular expressions, the padding with zeros, and what
  the backend makes of the clamped values are left out. A `CONTENT_LEN` that is itself
  too large for `int`, or for the stack, is not modelled.
  `ErrorCreatingTransaction` needs `addNewTransaction` to throw, which nothing in
  it does short of memory running out.
* **Calls whose failure ends the process** (`accept`, `bind`, `fstat`, `truncate`
  and `remove` during recovery), and SIGPIPE on a write to a connection the
  client has closed: the effect is that of `Crash`, which may come at any step.
* **`g_mtx` around opening and closing files** in `ServerBackend`: it is taken
  and released within one step there. The hold-up it can cause is a matter of
  `ServerDispatcher`.
* **Argument parsing, start-up, ctrl-C handler**: no concurrent state of their
  own. That bare names are resolved in the working directory is the constant
  `CwdIsDirectory`.
* **Google Test**, whose headers are 22402 of the 25766 lines counted as source
  in the repository, is third-party code without a part in the server. The
  program's own code is about 3400 lines, license comments, includes and
  declarations included.
* Debug output.

## 6. Plan

Done: the transaction engine with its abstract store, recovery from process
crashes and power failures, the logs at the level of `write` calls, the
dispatcher with its competition for `g_mtx`, the test suite as clients, and the
proofs of section 4: all safety properties that a passing run checks, except
that of the test suite, and the refinement.

What could be added: the theorems on files after a crash for several threads, of
which `size_of_partial_commit` shows that they need a change of the code (a log
entry would have to record `m_file_size` instead of the size on the disk); and a
composition of `TransactionLog` with `CrashRecovery`, in which the entries that
recovery loads are those the log's reader finds.
