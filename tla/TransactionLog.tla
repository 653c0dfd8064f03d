--------------------------- MODULE TransactionLog ---------------------------
(***************************************************************************)
(* One log file at the level of write() calls: logTransaction              *)
(* (server-backend.cpp) puts an entry there in six of them, and            *)
(* loadFilesAndTransactions reads it back with operator>>.                 *)
(*                                                                         *)
(* m_member_mtx keeps the writers of three of the logs apart.  The commit  *)
(* log is written under the mutex of the committed file only, so entries   *)
(* for different files may be written at the same time.                    *)
(*                                                                         *)
(* A log is a sequence of pieces: digits (of an id or a size), a part of a *)
(* name, or a blank.  Numbers that touch are read as one number, so what   *)
(* operator>> returns is a sequence of pieces; a sound value has one.      *)
(***************************************************************************)
EXTENDS Integers, Sequences, SequencesExt

CONSTANTS
  Ids,          \* transactions, each with one entry in the log
  Files,        \* file names
  Sizes,        \* sizes getFileSize() may return
  Cut,          \* a proper part of a number or a name
  None,
  SerialLog,    \* is the log written under m_member_mtx?
  MaxFailures   \* bound: failing system calls between two starts

ASSUME LogAssumption ==
  /\ None \notin Ids \cup Files
  /\ SerialLog \in BOOLEAN
  /\ MaxFailures \in Nat

VARIABLES
  log,       \* the pieces in the file
  entry,     \* id -> the entry that logTransaction writes, or None
  at,        \* id -> its next write(): 1..6; 0 before the call, 7 after it
  failures,  \* system calls that failed
  finished,  \* history: the entries that were written to the end, in order
  sound      \* history: those before the first failure or overlap, if any

vars == <<log, entry, at, failures, finished, sound>>

Digits(v) == [kind |-> "digits", value |-> v]
Name(f)   == [kind |-> "name", value |-> f]
Blank     == [kind |-> "blank", value |-> None]

Pieces == {Blank} \cup {Digits(v) : v \in Ids \cup Sizes \cup {Cut}}
            \cup {Name(f) : f \in Files \cup {Cut}}

Entries == [id : Ids, file : Files, size : Sizes \cup {None}]

\* The log has pieces of entries; a thread in logTransaction has an entry.
TypeOK ==
  /\ log \in Seq(Pieces)
  /\ entry \in [Ids -> Entries \cup {None}]
  /\ at \in [Ids -> 0..7]
  /\ failures \in 0..MaxFailures
  /\ finished \in Seq(Entries)
  /\ sound \in Seq(Entries)
  /\ \A i \in Ids : at[i] \in 1..6 => entry[i] \in Entries

Init ==
  /\ log = <<>>
  /\ entry = [i \in Ids |-> None]
  /\ at = [i \in Ids |-> 0]
  /\ failures = 0
  /\ finished = <<>>
  /\ sound = <<>>

-----------------------------------------------------------------------------
(* logTransaction.                                                         *)

Writing == {i \in Ids : at[i] \in 1..6}

\* Mutant: the size comes before the name, and so before it is taken.
PiecesSwapped(e) ==
  <<Digits(e.id), Blank, Digits(e.size), Blank, Name(e.file), Blank>>

\* Mutant: an entry is not ended by a line feed.
PiecesUnterminated(e) ==
  <<Digits(e.id), Blank, Name(e.file), Blank, Digits(e.size), Name(Cut)>>

\* The six write() calls.
PiecesOf(e) ==
  <<Digits(e.id), Blank, Name(e.file), Blank, Digits(e.size), Blank>>

\* Mutant: the log is opened with O_TRUNC.
OpenedEmpty == <<>>

\* The contents after open() with O_APPEND.
Opened == log

\* Nothing has gone wrong so far: all that was written is an entry, or one is
\* being written.
Undisturbed == sound = finished /\ failures = 0 /\ \A i, j \in Writing : i = j

\* The commit of an id is logged once, and with the mutex of its file held.
OpenLog(i, f) ==
  /\ at[i] = 0
  /\ IF SerialLog THEN Writing = {} ELSE \A j \in Writing : entry[j].file # f
  /\ entry' = [entry EXCEPT ![i] = [id |-> i, file |-> f, size |-> None]]
  /\ at' = [at EXCEPT ![i] = 1]
  /\ log' = Opened
  /\ UNCHANGED <<failures, finished, sound>>

\* The size is taken with stat between the fourth write() and the fifth.
WriteLog(i) ==
  /\ i \in Writing
  /\ \E s \in Sizes :
       entry' = IF at[i] = 5 THEN [entry EXCEPT ![i].size = s] ELSE entry
  /\ log' = Append(log, PiecesOf(entry'[i])[at[i]])
  /\ at' = [at EXCEPT ![i] = @ + 1]
  /\ finished' = IF at[i] = 6 THEN Append(finished, entry[i]) ELSE finished
  /\ sound' = IF at[i] = 6 /\ Undisturbed THEN finished' ELSE sound
  /\ UNCHANGED failures

\* A write() fails, perhaps after a part of the piece went out; the exception
\* is caught, and the rest of the entry is not written.
WriteFails(i) ==
  /\ i \in Writing
  /\ failures < MaxFailures
  /\ failures' = failures + 1
  /\ LET piece == PiecesOf(entry[i])[at[i]]
     IN  \/ log' = log
         \/ piece # Blank /\ log' = Append(log, [piece EXCEPT !.value = Cut])
  /\ at' = [at EXCEPT ![i] = 7]
  /\ UNCHANGED <<entry, finished, sound>>

\* The server stops, is started again, reads the log and removes it.  What
\* the threads were about to write is lost with them.
Restart ==
  /\ log # <<>>
  /\ log' = <<>>
  /\ at' = [i \in Ids |-> IF i \in Writing THEN 7 ELSE at[i]]
  /\ finished' = <<>>
  /\ sound' = <<>>
  /\ failures' = 0
  /\ UNCHANGED entry

Next ==
  \/ \E i \in Ids : (\E f \in Files : OpenLog(i, f)) \/ WriteLog(i) \/ WriteFails(i)
  \/ Restart

Spec == Init /\ [][Next]_vars

-----------------------------------------------------------------------------
(* The loop of loadFilesAndTransactions: ss >> txn_id && ss >> file_name   *)
(* && ss >> file_size, one piece at a time.                                *)

\* want: what is read next; token: its pieces so far.
Start == [want |-> "id", token |-> <<>>, id |-> <<>>, file |-> <<>>, entries |-> <<>>]

Stop(r) == [r EXCEPT !.want = "stop"]

\* A token has ended.  A number of several pieces may be too large for its
\* type, which ends the loop.
EndToken(r, fits) ==
  LET next == [r EXCEPT !.token = <<>>]
  IN  IF r.token = <<>> \/ r.want = "stop" THEN r
      ELSE IF r.want # "file" /\ Len(r.token) > 1 /\ ~fits THEN Stop(r)
      ELSE CASE r.want = "id"   -> [next EXCEPT !.want = "file", !.id = r.token]
             [] r.want = "file" -> [next EXCEPT !.want = "size", !.file = r.token]
             [] r.want = "size" -> [next EXCEPT !.want = "id", !.entries =
                  Append(@, [id |-> r.id, file |-> r.file, size |-> r.token])]

\* A number ends where a name begins, and if it was a size it completes its
\* entry; a name does not end where a number begins; a number that begins with
\* a name is none, and ends the loop.
Extract(r, piece, fits) ==
  LET ended == IF r.want # "file" THEN EndToken(r, fits) ELSE r
      add(q) == [q EXCEPT !.token = Append(@, piece.value)]
  IN  CASE r.want = "stop"        -> r
        [] piece.kind = "blank"   -> EndToken(r, fits)
        [] piece.kind = "digits"  -> add(r)
        [] piece.kind = "name"    -> IF ended.want = "file" THEN add(ended) ELSE Stop(ended)

\* The reader after the pieces of s.
Reader(s, fits) ==
  LET after[n \in 0..Len(s)] ==
        IF n = 0 THEN Start ELSE Extract(after[n - 1], s[n], fits)
  IN  after[Len(s)]

\* The end of the file ends a token, too.
Loaded(fits) == EndToken(Reader(log, fits), fits).entries

-----------------------------------------------------------------------------
(* Properties.                                                             *)

Sound(e) == [id |-> <<e.id>>, file |-> <<e.file>>, size |-> <<e.size>>]

SoundAll(s) == [j \in 1..Len(s) |-> Sound(s[j])]

\* A crash between two write() calls does no harm by itself: as long as no
\* write failed and no two entries were written at once, the loader finds the
\* entries that were finished and, once its size is there, the one that lacks
\* its line feed.
FinishedEntriesLoaded ==
  Undisturbed =>
    \A fits \in BOOLEAN :
      LET pending == {i \in Writing : at[i] = 6}
      IN  Loaded(fits) = SoundAll(finished) \o
                         IF pending = {} THEN <<>>
                         ELSE <<Sound(entry[CHOOSE i \in pending : TRUE])>>

\* Whatever happens to later entries, those finished before the first failure
\* or overlap are read, in their order and with their sizes.
EarlierEntriesKept ==
  \A fits \in BOOLEAN : IsPrefix(SoundAll(sound), Loaded(fits))

\* "the server logs transactions as they are ... committed ... so the server
\* can reconstruct the last valid state" (README): every entry that was
\* written to its end is read.
EveryEntryLoaded ==
  \A fits \in BOOLEAN : \A j \in 1..Len(finished) :
    \E m \in 1..Len(Loaded(fits)) : Loaded(fits)[m] = Sound(finished[j])

-----------------------------------------------------------------------------
(* What makes the properties inductive.                                    *)

\* The reader r where the first n - 1 pieces of entry e are in the log.
InStep(r, e, n) ==
  /\ r.want = <<"id", "id", "file", "file", "size", "size">>[n]
  /\ r.token = <<<<>>, <<e.id>>, <<>>, <<e.file>>, <<>>, <<e.size>>>>[n]
  /\ n >= 3 => r.id = <<e.id>>
  /\ n >= 5 => r.file = <<e.file>>

\* While nothing has gone wrong, the loader of logTransaction's output keeps
\* step with it from one write() to the next; what it has read so far begins
\* with the entries before the first failure or overlap; and a disturbed log
\* stays one until the next start.
ReaderInStep ==
  \A fits \in BOOLEAN :
    LET r == Reader(log, fits)
    IN  /\ Len(sound) <= Len(finished)
        /\ IsPrefix(SoundAll(sound), r.entries)
        /\ Undisturbed =>
             /\ r.entries = SoundAll(finished)
             /\ Writing = {} => r.want = "id" /\ r.token = <<>>
             /\ \A i \in Writing : InStep(r, entry[i], at[i])
=============================================================================
