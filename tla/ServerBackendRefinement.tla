------------------------ MODULE ServerBackendRefinement ------------------------
(***************************************************************************)
(* The backend implements the transactional store while no write fails.    *)
(* A transaction commits in the step that inserts its id into m_commits;   *)
(* the units that COMMIT has appended to the file before are cut off by    *)
(* the mapping, and stop being cut off in that step.                       *)
(***************************************************************************)
EXTENDS ServerBackendFileProofs, SequenceTheorems

-----------------------------------------------------------------------------
(* Sequences of units.                                                     *)

\* There is only one last unit of a transaction in a set.
LEMMA UpToLastIs ==
  ASSUME NEW S, NEW s \in Seq(S), NEW ended, NEW n \in 0..Len(s), LastAt(s, ended, n)
  PROVE  UpToLast(s, ended) = SubSeq(s, 1, n)
  <1> DEFINE c == CHOOSE k \in 0..Len(s) : LastAt(s, ended, k)
  <1>1. c \in 0..Len(s) /\ LastAt(s, ended, c)
    OBVIOUS
  <1>2. Len(s) \in Nat
    OBVIOUS
  <1>3. c = n
    <2> HIDE DEF c
    <2>1. ~(c < n)
      BY <1>1, <1>2 DEF LastAt
    <2>2. ~(n < c)
      BY <1>1, <1>2 DEF LastAt
    <2> QED BY <1>1, <1>2, <2>1, <2>2
  <1> QED BY <1>3 DEF UpToLast

\* Sequences that agree up to a place have the same beginning.
LEMMA SameBeginning ==
  ASSUME NEW S, NEW s \in Seq(S), NEW t \in Seq(S), NEW n \in Nat, n <= Len(s), n <= Len(t),
         \A j \in 1..n : s[j] = t[j]
  PROVE  SubSeq(s, 1, n) = SubSeq(t, 1, n)
  <1>1. /\ SubSeq(s, 1, n) \in Seq(S) /\ Len(SubSeq(s, 1, n)) = n
        /\ \A j \in 1..n : SubSeq(s, 1, n)[j] = s[j]
    <2>1. \A j \in 1..n : s[j] \in S
      OBVIOUS
    <2> QED BY <2>1, SubSeqProperties
  <1>2. /\ SubSeq(t, 1, n) \in Seq(S) /\ Len(SubSeq(t, 1, n)) = n
        /\ \A j \in 1..n : SubSeq(t, 1, n)[j] = t[j]
    <2>1. \A j \in 1..n : t[j] \in S
      OBVIOUS
    <2> QED BY <2>1, SubSeqProperties
  <1>3. \A j \in 1..Len(SubSeq(s, 1, n)) : SubSeq(s, 1, n)[j] = SubSeq(t, 1, n)[j]
    BY <1>1, <1>2
  <1> QED BY <1>1, <1>2, <1>3, SeqEqual

\* A sequence is its beginning and the units at its end.
LEMMA BeginningAndEnd ==
  ASSUME NEW S, NEW s \in Seq(S), NEW m \in Nat, m <= Len(s), NEW e \in Seq(S), Len(e) = m,
         \A j \in 1..m : s[(Len(s) - m) + j] = e[j]
  PROVE  s = SubSeq(s, 1, Len(s) - m) \o e
  <1> DEFINE n == Len(s) - m
             b == SubSeq(s, 1, n)
  <1>1. n \in Nat /\ n + m = Len(s) /\ Len(s) \in Nat
    OBVIOUS
  <1>2. b \in Seq(S) /\ Len(b) = n /\ \A j \in 1..n : b[j] = s[j]
    <2>1. \A j \in 1..n : s[j] \in S
      OBVIOUS
    <2> HIDE DEF n
    <2> QED BY <1>1, <2>1, SubSeqProperties
  <1> HIDE DEF b
  <1>3. /\ b \o e \in Seq(S) /\ Len(b \o e) = Len(b) + Len(e)
        /\ \A i \in 1..Len(b) + Len(e) :
             (b \o e)[i] = IF i <= Len(b) THEN b[i] ELSE e[i - Len(b)]
    BY <1>2, ConcatProperties
  <1>4. ASSUME NEW j \in 1..Len(s) PROVE s[j] = (b \o e)[j]
    <2>1. CASE j <= n
      BY <1>1, <1>2, <1>3, <2>1
    <2>2. CASE j > n
      <3>1. j - n \in 1..m /\ n + (j - n) = j
        BY <1>1, <2>2
      <3>2. s[j] = e[j - n]
        BY <3>1
      <3> QED BY <1>1, <1>2, <1>3, <2>2, <3>2
    <2>3. j <= n \/ j > n
      <3> HIDE DEF n
      <3> QED BY <1>1
    <2> QED BY <2>1, <2>2, <2>3
  <1>5. Len(b \o e) = Len(s)
    BY <1>1, <1>2, <1>3
  <1>6. s = b \o e
    BY <1>3, <1>4, <1>5, SeqEqual
  <1> QED BY <1>6 DEF b
-----------------------------------------------------------------------------
(* The committed part of a file.                                           *)

\* COMMIT at work: its units are behind the committed part.
LEMMA PartOfWriter ==
  ASSUME Isolation, FatesOK, FilesOK, NEW w \in Workers, IsWriting(w), NEW f \in Files,
         f = txn[call[w].h].file
  PROVE  LET n == Len(disk[f]) - (call[w].i - 1)
         IN  n \in 0..Len(disk[f]) /\ LastAt(disk[f], Committed, n)
  <1>1. PICK h \in Handles, m \in Int :
          h = call[w].h /\ m = call[w].i - 1 /\ fate[h] = {}
    BY WriterFacts
  <1> DEFINE l == Len(disk[f])
             n == l - m
  <1>2. m >= 0 /\ EndsWith(f, h, m)
    BY <1>1 DEF FilesOK, WritersOK, PartWritten
  <1>3. l \in Nat
    BY DEF Isolation, StateOK, TypeOK
  <1>4. /\ n >= 0
        /\ \A j \in 1..m : disk[f][n + j] = <<h, j>>
        /\ \A j \in 1..n : "committed" \in fate[disk[f][j][1]]
    BY <1>2 DEF EndsWith
  <1>5. n \in 0..l /\ \A j \in (n + 1)..l : j - n \in 1..m /\ n + (j - n) = j
    <2>1. n \in 0..l
      <3> HIDE DEF l
      <3> QED BY <1>2, <1>3, <1>4
    <2>2. ASSUME NEW j \in (n + 1)..l PROVE j - n \in 1..m /\ n + (j - n) = j
      <3> HIDE DEF l
      <3> QED BY <1>2, <1>3, <1>4
    <2> QED BY <2>1, <2>2
  <1>6. n > 0 => disk[f][n][1] \in Committed
    <2> SUFFICES ASSUME n > 0 PROVE disk[f][n][1] \in Committed
      OBVIOUS
    <2>1. n \in 1..n /\ n \in 1..l
      <3> HIDE DEF n
      <3> QED BY <1>3, <1>5
    <2> QED BY <1>4, <2>1 DEF FilesOK, UnitsOK, Committed
  <1>7. ASSUME NEW j \in (n + 1)..l PROVE disk[f][j][1] \notin Committed
    <2> DEFINE k == j - n
    <2>1. k \in 1..m /\ n + k = j
      BY <1>5
    <2>2. disk[f][j] = <<h, k>>
      BY <1>4, <2>1
    <2>3. disk[f][j][1] = h
      BY <2>2
    <2> QED BY <1>1, <2>3 DEF Committed
  <1>8. LastAt(disk[f], Committed, n)
    BY <1>6, <1>7 DEF LastAt
  <1> QED BY <1>1, <1>5, <1>8

\* When nobody is writing, all of the file is committed.
LEMMA PartOfOther ==
  ASSUME Isolation, FilesOK, NEW f \in Files,
         \A j \in 1..Len(disk[f]) : "committed" \in fate[disk[f][j][1]]
  PROVE  Len(disk[f]) \in 0..Len(disk[f]) /\ LastAt(disk[f], Committed, Len(disk[f]))
  <1>1. Len(disk[f]) \in Nat
    BY DEF Isolation, StateOK, TypeOK
  <1>2. ASSUME NEW j \in 1..Len(disk[f]) PROVE disk[f][j][1] \in Committed
    BY DEF FilesOK, UnitsOK, Committed
  <1>3. \A j \in (Len(disk[f]) + 1)..Len(disk[f]) : FALSE
    BY <1>1
  <1>4. Len(disk[f]) > 0 => Len(disk[f]) \in 1..Len(disk[f])
    BY <1>1
  <1> QED BY <1>1, <1>2, <1>3, <1>4 DEF LastAt

\* There is a last committed unit in a file, or none at all.
LEMMA PartOf ==
  ASSUME Isolation, FatesOK, FilesOK, NEW f \in Files
  PROVE  \E n \in 0..Len(disk[f]) : LastAt(disk[f], Committed, n)
  <1>1. CASE \A j \in 1..Len(disk[f]) : "committed" \in fate[disk[f][j][1]]
    BY <1>1, PartOfOther
  <1>2. CASE \E w \in Workers : IsWriting(w) /\ txn[call[w].h].file = f
    BY <1>2, PartOfWriter
  <1> QED BY <1>1, <1>2 DEF FilesOK, WritersOK

\* A step after which the same units of f are committed.
LEMMA PartKeeps ==
  ASSUME Isolation, FatesOK, FilesOK, NEW f \in Files, disk'[f] = disk[f],
         \A j \in 1..Len(disk[f]) : disk[f][j][1] \in Committed' <=> disk[f][j][1] \in Committed
  PROVE  CommittedPart(f)' = CommittedPart(f)
  <1>1. PICK n \in 0..Len(disk[f]) : LastAt(disk[f], Committed, n)
    BY PartOf
  <1>2. disk[f] \in Seq(Units) /\ Len(disk[f]) \in Nat
    BY DEF Isolation, StateOK, TypeOK
  <1>3. LastAt(disk[f], Committed', n)
    <2>1. \A j \in (n + 1)..Len(disk[f]) : j \in 1..Len(disk[f])
      BY <1>2
    <2>2. n > 0 => n \in 1..Len(disk[f])
      BY <1>2
    <2> QED BY <1>1, <2>1, <2>2 DEF LastAt
  <1>4. UpToLast(disk[f], Committed) = SubSeq(disk[f], 1, n)
    BY <1>1, <1>2, UpToLastIs
  <1>5. UpToLast(disk[f], Committed') = SubSeq(disk[f], 1, n)
    BY <1>2, <1>3, UpToLastIs
  <1> QED BY <1>4, <1>5 DEF CommittedPart

\* A unit of a transaction that has not committed is not part of the store.
LEMMA AppendsUnseen ==
  ASSUME Isolation, FatesOK, FilesOK, Isolation', NEW w \in Workers, Appends(w),
         NEW f \in Files
  PROVE  CommittedPart(f)' = CommittedPart(f)
  <1>1. UNCHANGED Committed
    BY DEF Appends, Committed
  <1>2. CASE f # txn[call[w].h].file
    <2>1. disk'[f] = disk[f]
      BY <1>2 DEF Appends, Isolation, StateOK, TypeOK
    <2> QED BY <1>1, <2>1, PartKeeps
  <1>3. CASE f = txn[call[w].h].file
    <2>1. PICK h \in Handles, i \in Int : h = call[w].h /\ i = call[w].i /\ fate[h] = {}
      <3>1. IsWriting(w)
        BY DEF Appends, IsWriting
      <3> QED BY <3>1, WriterFacts
    <2>2. PICK n \in 0..Len(disk[f]) : LastAt(disk[f], Committed, n)
      BY PartOf
    <2>3. /\ Len(disk[f]) \in Nat
          /\ Len(disk'[f]) = Len(disk[f]) + 1
          /\ \A j \in 1..Len(disk[f]) : disk'[f][j] = disk[f][j]
          /\ disk'[f][Len(disk[f]) + 1] = <<h, i>>
      BY <1>3, <2>1, AppendsPlaces
    <2>4. disk[f] \in Seq(Units) /\ disk'[f] \in Seq(Units)
      BY DEF Isolation, StateOK, TypeOK
    <2>5. n \in Nat /\ n <= Len(disk[f]) /\ n <= Len(disk'[f]) /\ n \in 0..Len(disk'[f])
      BY <2>3
    <2>6. LastAt(disk'[f], Committed, n)
      <3>1. n > 0 => disk'[f][n][1] \in Committed
        <4>1. n > 0 => n \in 1..Len(disk[f])
          BY <2>3
        <4> QED BY <2>2, <2>3, <4>1 DEF LastAt
      <3>2. ASSUME NEW j \in (n + 1)..Len(disk'[f]) PROVE disk'[f][j][1] \notin Committed
        <4>1. CASE j = Len(disk[f]) + 1
          <5>1. disk'[f][j][1] = h
            BY <2>3, <4>1
          <5> QED BY <2>1, <5>1 DEF Committed
        <4>2. CASE j # Len(disk[f]) + 1
          <5>1. j \in (n + 1)..Len(disk[f]) /\ j \in 1..Len(disk[f])
            BY <2>3, <2>5, <4>2
          <5> QED BY <2>2, <2>3, <5>1 DEF LastAt
        <4> QED BY <4>1, <4>2
      <3> QED BY <3>1, <3>2 DEF LastAt
    <2>7. SubSeq(disk[f], 1, n) = SubSeq(disk'[f], 1, n)
      <3>1. \A j \in 1..n : disk[f][j] = disk'[f][j]
        BY <2>3, <2>5
      <3> QED BY <2>4, <2>5, <3>1, SameBeginning
    <2>8. UpToLast(disk[f], Committed) = SubSeq(disk[f], 1, n)
      BY <2>2, <2>4, UpToLastIs
    <2>9. UpToLast(disk'[f], Committed) = SubSeq(disk'[f], 1, n)
      BY <2>4, <2>5, <2>6, UpToLastIs
    <2> QED BY <1>1, <2>7, <2>8, <2>9 DEF CommittedPart
  <1> QED BY <1>2, <1>3

\* The step that commits h shows all of its units at once, and no others.
LEMMA InsertShows ==
  ASSUME Isolation, FatesOK, BuffersOK, FilesOK, NEW w \in Workers, CommitInsert(w),
         NEW h \in Handles, h = call[w].h, NEW f \in Files
  PROVE  CommittedPart(f)' = IF f = txn[h].file
                             THEN CommittedPart(f) \o [j \in 1..maxSeq[h] |-> <<h, j>>]
                             ELSE CommittedPart(f)
  <1>1. IsWriting(w) /\ pc[w] = "CommitInsert" /\ UNCHANGED disk
    BY DEF CommitInsert, IsWriting, diskVars
  <1>2. Committed' = Committed \cup {h}
    BY DEF CommitInsert, Committed, Isolation, StateOK, TypeOK
  <1>3. CASE f # txn[h].file
    <2>1. \A j \in 1..Len(disk[f]) : disk[f][j][1] # h
      BY <1>3 DEF FilesOK, UnitsOK
    <2>2. CommittedPart(f)' = CommittedPart(f)
      BY <1>1, <1>2, <2>1, PartKeeps
    <2> QED BY <1>3, <2>2
  <1>4. CASE f = txn[h].file
    <2> DEFINE m == maxSeq[h]
               n == Len(disk[f]) - m
               e == [j \in 1..m |-> <<h, j>>]
    <2>1. m \in Nat /\ m >= 1 /\ Len(disk[f]) \in Nat /\ disk[f] \in Seq(Units)
      BY DEF BuffersOK, Isolation, StateOK, TypeOK
    <2>2. call[w].i - 1 = m /\ EndsWith(f, h, m)
      BY <1>1, <1>4 DEF FilesOK, WritersOK, PartWritten
    <2>3. n \in 0..Len(disk[f]) /\ LastAt(disk[f], Committed, n)
      BY <1>1, <1>4, <2>2, PartOfWriter
    <2>4. UpToLast(disk[f], Committed) = SubSeq(disk[f], 1, n)
      <3> HIDE DEF n
      <3> QED BY <2>1, <2>3, UpToLastIs
    <2>5. e \in Seq(Units) /\ Len(e) = m /\ \A j \in 1..m : e[j] = <<h, j>>
      <3>1. \A j \in 1..m : <<h, j>> \in Units
        BY <2>1 DEF Units
      <3> HIDE DEF m
      <3> QED BY <2>1, <3>1
    <2>6. m <= Len(disk[f]) /\ \A j \in 1..m : disk[f][(Len(disk[f]) - m) + j] = e[j]
      <3>1. Len(disk[f]) - m >= 0
        BY <2>2 DEF EndsWith
      <3>2. \A j \in 1..m : disk[f][(Len(disk[f]) - m) + j] = <<h, j>>
        BY <2>2 DEF EndsWith
      <3>3. m <= Len(disk[f])
        <4> HIDE DEF m
        <4> QED BY <2>1, <3>1
      <3> QED BY <2>5, <3>2, <3>3
    <2>7. disk[f] = SubSeq(disk[f], 1, n) \o e
      <3> HIDE DEF m, e
      <3> QED BY <2>1, <2>5, <2>6, BeginningAndEnd
    <2>8. LastAt(disk[f], Committed', Len(disk[f]))
      <3>1. m \in 1..m /\ Len(disk[f]) = (Len(disk[f]) - m) + m
        <4> HIDE DEF m
        <4> QED BY <2>1
      <3>2. disk[f][Len(disk[f])] = <<h, m>>
        BY <2>5, <2>6, <3>1
      <3>3. disk[f][Len(disk[f])][1] = h
        BY <3>2
      <3>4. \A j \in (Len(disk[f]) + 1)..Len(disk[f]) : FALSE
        BY <2>1
      <3> QED BY <1>2, <3>3, <3>4 DEF LastAt
    <2>9. UpToLast(disk[f], Committed') = SubSeq(disk[f], 1, Len(disk[f]))
      <3>1. Len(disk[f]) \in 0..Len(disk[f])
        BY <2>1
      <3> QED BY <2>1, <2>8, <3>1, UpToLastIs
    <2>10. SubSeq(disk[f], 1, Len(disk[f])) = disk[f]
      BY <2>1, SubSeqFull
    <2>11. CommittedPart(f)' = UpToLast(disk[f], Committed')
      BY <1>1 DEF CommittedPart
    <2>12. CommittedPart(f)' = CommittedPart(f) \o e
      <3> HIDE DEF e, n
      <3> QED BY <2>4, <2>7, <2>9, <2>10, <2>11 DEF CommittedPart
    <2> QED BY <1>4, <2>12
  <1> QED BY <1>3, <1>4

-----------------------------------------------------------------------------
(* Every step is a step of the store or changes nothing in it.             *)

\* Steps that neither touch a transaction nor the committed part of a file
\* are stutters of the store.
LEMMA StoreKept ==
  ASSUME UNCHANGED <<txn, buffers, fate>>,
         \A f \in Files : CommittedPart(f)' = CommittedPart(f)
  PROVE  UNCHANGED Store!vars
  BY DEF Store!vars, Status

\* In particular those that leave files alone.
LEMMA StoreUntouched ==
  ASSUME UNCHANGED <<txn, buffers, fate, disk>>
  PROVE  UNCHANGED Store!vars
  BY StoreKept DEF CommittedPart, Committed

\* NEW_TXN begins a transaction of the store.
LEMMA CreateBegins ==
  ASSUME Isolation, FatesOK, NEW w \in Workers, NEW f \in Files, NEW id \in TxnIds,
         NEW h \in Handles, NewTxnCreate(w, f, id, h)
  PROVE  Store!Begin(h, f)
  <1>1. UNCHANGED <<buffers, fate, disk>> /\ txn[h].id = None /\ id # None
    BY ConstantsAssumption DEF NewTxnCreate, bufferVars, diskVars
  <1>2. /\ txn'[h].id = id /\ txn'[h].file = f
        /\ \A g \in Handles \ {h} : txn'[g] = txn[g]
    BY DEF NewTxnCreate, AddNewTransaction, Isolation, StateOK, TypeOK
  <1>3. fate[h] = {}
    BY <1>1 DEF FatesOK, FateOK
  <1>4. Status(h) = "none" /\ Status(h)' = "open"
    BY <1>1, <1>2, <1>3 DEF Status
  <1>5. \A g \in Handles \ {h} : Status(g)' = Status(g)
    BY <1>1, <1>2 DEF Status
  <1>6. \A e \in Files : CommittedPart(e)' = CommittedPart(e)
    BY <1>1 DEF CommittedPart, Committed
  <1> QED BY <1>1, <1>2, <1>4, <1>5, <1>6 DEF Store!Begin

\* WRITE writes there, or refuses a repeated number.
LEMMA BufferWrites ==
  ASSUME Isolation, FatesOK, NEW w \in Workers, WriteBuffer(w)
  PROVE  UNCHANGED Store!vars \/ \E h \in Handles, k \in SeqNums : Store!Write(h, k)
  <1>1. UNCHANGED <<txn, fate, disk>> /\ pc[w] = "WriteBuffer"
    BY DEF WriteBuffer, diskVars
  <1>2. CASE UNCHANGED buffers
    BY <1>1, <1>2, StoreUntouched
  <1>3. CASE ~UNCHANGED buffers
    <2>1. PICK h \in Handles, k \in SeqNums : h = call[w].h /\ k = call[w].k
      BY <1>1, CallEntry DEF Isolation, StateOK, CallOK, UsesTxn, HoldsTxnMtx
    <2>2. k \notin buffers[h] /\ buffers' = [buffers EXCEPT ![h] = @ \cup {k}]
      BY <1>3, <2>1 DEF WriteBuffer
    <2>3. \A g \in Handles : buffers'[g] = IF g = h THEN buffers[g] \cup {k} ELSE buffers[g]
      BY <2>2 DEF Isolation, StateOK, TypeOK
    <2>4. Status(h) = "open"
      BY <1>1, <2>1, FateOfUsed DEF Status, UsesTxn, HoldsTxnMtx, HasCommitted
    <2>5. \A g \in Handles : Status(g)' = Status(g)
      BY <1>1 DEF Status
    <2>6. \A e \in Files : CommittedPart(e)' = CommittedPart(e)
      BY <1>1 DEF CommittedPart, Committed
    <2>7. Store!Write(h, k)
      BY <1>1, <2>2, <2>3, <2>4, <2>5, <2>6 DEF Store!Write
    <2> QED BY <2>7
  <1> QED BY <1>2, <1>3

\* COMMIT commits in the step that inserts the id into m_commits: at that
\* moment all its units are at the end of the file.
LEMMA InsertCommits ==
  ASSUME Isolation, FatesOK, BuffersOK, FilesOK, NEW w \in Workers, CommitInsert(w)
  PROVE  \E h \in Handles, n \in SeqNums : n > 0 /\ Store!Commit(h, n)
  <1>1. /\ UNCHANGED <<txn, buffers>>
        /\ pc[w] = "CommitInsert" /\ pc[w] \in UsesTxn /\ IsWriting(w)
    BY DEF CommitInsert, bufferVars, UsesTxn, HoldsTxnMtx, IsWriting
  <1>2. PICK h \in Handles : h = call[w].h /\ fate[h] = {} /\ txn[h].id # None /\ txn[h].file \in Files
    BY <1>1, WriterFacts
  <1>3. PICK n \in SeqNums : n = maxSeq[h]
    BY <1>1, <1>2 DEF BuffersOK, Committing
  <1>4. /\ n >= 1 /\ n \in Int /\ 1..n \subseteq buffers[h]
        /\ \A k \in buffers[h] : k <= n
    BY <1>1, <1>2, <1>3, ConstantsAssumption DEF BuffersOK, Committing
  <1>5. \A g \in Handles : fate'[g] = IF g = h THEN {"committed"} ELSE fate[g]
    BY <1>2 DEF CommitInsert, Isolation, StateOK, TypeOK
  <1>6. Status(h) = "open" /\ Status(h)' = "committed"
    BY <1>1, <1>2, <1>5 DEF Status
  <1>7. \A g \in Handles \ {h} : Status(g)' = Status(g)
    BY <1>1, <1>5 DEF Status
  <1>8. \A f \in Files :
          CommittedPart(f)' = IF f = txn[h].file
                              THEN CommittedPart(f) \o [j \in 1..n |-> <<h, j>>]
                              ELSE CommittedPart(f)
    BY <1>2, <1>3, InsertShows
  <1>9. Store!Commit(h, n)
    BY <1>1, <1>2, <1>4, <1>6, <1>7, <1>8 DEF Store!Commit
  <1> QED BY <1>4, <1>9

\* An open transaction that ends in another way leaves the store alone.
LEMMA EndAborts ==
  ASSUME Isolation, FatesOK, FilesOK, NEW h \in Handles, NEW way \in {"aborted", "timedout"},
         txn[h].id # None, fate[h] = {}, UNCHANGED <<txn, buffers, disk>>,
         fate' = [fate EXCEPT ![h] = @ \cup {way}]
  PROVE  Store!Abort(h)
  <1>1. \A g \in Handles : fate'[g] = IF g = h THEN {way} ELSE fate[g]
    BY DEF Isolation, StateOK, TypeOK
  <1>2. Status(h) = "open" /\ Status(h)' = "aborted"
    BY <1>1 DEF Status
  <1>3. \A g \in Handles \ {h} : Status(g)' = Status(g)
    BY <1>1 DEF Status
  <1>4. UNCHANGED Committed
    BY <1>1 DEF Committed
  <1>5. \A f \in Files : CommittedPart(f)' = CommittedPart(f)
    BY <1>4 DEF CommittedPart
  <1> QED BY <1>2, <1>3, <1>5 DEF Store!Abort

\* ABORT aborts where it erases the transaction.
LEMMA RemoveAborts ==
  ASSUME Isolation, FatesOK, FilesOK, NEW w \in Workers, AbortRemove(w)
  PROVE  \E h \in Handles : Store!Abort(h)
  <1>1. pc[w] \in UsesTxn /\ pc[w] \notin HasCommitted
    BY DEF AbortRemove, UsesTxn, HasCommitted
  <1>2. PICK h \in Handles : h = call[w].h /\ fate[h] = {} /\ txn[h].id # None
    BY <1>1, FateOfUsed
  <1>3. UNCHANGED <<txn, buffers, disk>> /\ fate' = [fate EXCEPT ![h] = @ \cup {"aborted"}]
    BY <1>2 DEF AbortRemove, bufferVars
  <1> QED BY <1>2, <1>3, EndAborts

\* A timer aborts.
LEMMA TimerAborts ==
  ASSUME ~TimerRaces, Isolation, FatesOK, FilesOK, NEW t \in Handles, TimerFire(t)
  PROVE  \E h \in Handles : Store!Abort(h)
  <1>1. txn[t].id \in TxnIds
    BY DEF TimerFire, Isolation, StateOK, EntriesOK, TypeOK, TransactionAttributes
  <1>2. PICK h \in Handles : /\ h = txnMap[txn[t].id] /\ ~InUse(h)
                             /\ txn[h].id = txn[t].id /\ txn[h].id # None
    BY <1>1, LiveEntry DEF TimerFire, Isolation
  <1>3. ~Finishing(h)
    BY <1>2 DEF InUse, Finishing, HasCommitted, UsesTxn, HoldsTxnMtx
  <1>4. fate[h] = {}
    BY <1>2, <1>3 DEF FatesOK, FateOK
  <1>5. UNCHANGED <<txn, buffers, disk>> /\ fate' = [fate EXCEPT ![h] = @ \cup {"timedout"}]
    BY <1>2 DEF TimerFire, bufferVars
  <1> QED BY <1>2, <1>4, <1>5, EndAborts

\* Every step is a step or a stutter of the store.
LEMMA StepSimulates ==
  ASSUME ~TimerRaces, ~IdReuse, "write" \notin FailureKinds, ContentsOK, [Next]_vars
  PROVE  [Store!Next]_(Store!vars)
  <1>1. /\ Isolation /\ FatesOK /\ BuffersOK /\ FilesOK /\ StateOK
        /\ Isolation'
    BY IsolationStep DEF ContentsOK, OutcomesOK, Isolation
  <1>2. CASE Quiet
    BY <1>2, StoreUntouched DEF Quiet
  <1>3. ASSUME NEW w \in Workers, NEW f \in Files, NEW id \in TxnIds, NEW h \in Handles,
               NewTxnCreate(w, f, id, h)
        PROVE  Store!Next
    BY <1>1, <1>3, CreateBegins DEF Store!Next
  <1>4. ASSUME NEW w \in Workers, WriteBuffer(w) PROVE [Store!Next]_(Store!vars)
    BY <1>1, <1>4, BufferWrites DEF Store!Next
  <1>5. ASSUME NEW w \in Workers, CommitStepOf(w) PROVE [Store!Next]_(Store!vars)
    <2>1. ~CommitRollback(w) /\ ~CommitTruncate(w)
      BY <1>1 DEF CommitRollback, CommitTruncate, FilesOK, WritersOK
    <2>2. CASE CommitVerify(w) \/ CommitOpen(w) \/ CommitLog(w) \/ CommitSize(w) \/ CommitRemove(w)
      <3>1. UNCHANGED <<txn, buffers, fate, disk>>
        BY <2>2
        DEF CommitVerify, CommitOpen, CommitLog, CommitSize, CommitRemove, entryVars,
            bufferVars, diskVars
      <3> QED BY <3>1, StoreUntouched
    <2>3. CASE CommitWrite(w)
      <3>1. Appends(w)
        BY <2>3, WriteAppends
      <3>2. UNCHANGED <<txn, buffers, fate>>
        BY <3>1 DEF Appends
      <3> QED BY <1>1, <3>1, <3>2, AppendsUnseen, StoreKept
    <2>4. CASE CommitInsert(w)
      BY <1>1, <2>4, InsertCommits DEF Store!Next
    <2> QED BY <1>5, <2>1, <2>2, <2>3, <2>4 DEF CommitStepOf
  <1>6. ASSUME NEW w \in Workers, AbortRemove(w) PROVE Store!Next
    BY <1>1, <1>6, RemoveAborts DEF Store!Next
  <1>7. ASSUME NEW h \in Handles, TimerFire(h) PROVE Store!Next
    BY <1>1, <1>7, TimerAborts DEF Store!Next
  <1> QED BY <1>1, <1>2, <1>3, <1>4, <1>5, <1>6, <1>7, Steps

\* The server starts where the store starts.
LEMMA InitSimulates == Init => Store!Init
  <1> SUFFICES ASSUME Init PROVE Store!Init
    OBVIOUS
  <1>1. \A h \in Handles : Status(h) = "none" /\ txn[h].file = None /\ buffers[h] = {}
    BY DEF Init, Status, NoTransaction
  <1>2. ASSUME NEW f \in Files PROVE CommittedPart(f) = <<>>
    <2>1. disk[f] = <<>> /\ Len(disk[f]) = 0 /\ disk[f] \in Seq(Units)
      BY DEF Init
    <2>2. 0 \in 0..Len(disk[f]) /\ LastAt(disk[f], Committed, 0)
      BY <2>1 DEF LastAt
    <2>3. CommittedPart(f) = SubSeq(disk[f], 1, 0)
      BY <2>1, <2>2, UpToLastIs DEF CommittedPart
    <2> QED BY <2>3, SubSeqEmpty
  <1> QED BY <1>1, <1>2 DEF Store!Init

\* Every behaviour of the threads is one of the store: a client that does not
\* look into a file while a COMMIT is at work on it cannot tell the server
\* from one that commits in a single step.  It takes that no write() fails, no
\* timer fires at a transaction in use and no id is handed out twice: the runs
\* rollback_races_commit and timer_races_commit show the first two broken.
THEOREM BackendImplementsStore ==
  ASSUME ~TimerRaces, ~IdReuse, "write" \notin FailureKinds
  PROVE  Spec => ImplementsStore
  <1>1. ContentsOK /\ [Next]_vars => [Store!Next]_(Store!vars)
    BY StepSimulates
  <1> QED BY <1>1, InitSimulates, ContentsInvariant, PTL DEF Spec, ImplementsStore, Store!Spec

=============================================================================
