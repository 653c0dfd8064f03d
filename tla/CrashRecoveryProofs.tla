------------------------ MODULE CrashRecoveryProofs ------------------------
(***************************************************************************)
(* Theorems about CrashRecovery: what is in the files, which commits are   *)
(* there and which transactions are open when the server has recovered.    *)
(***************************************************************************)
EXTENDS CrashRecovery, ServerBackendOutcomeProofs, WellFoundedInduction

-----------------------------------------------------------------------------
(* Induction.                                                              *)

\* A set of natural numbers that is not empty has a least element.
LEMMA LeastElement ==
  ASSUME NEW T, T \subseteq Nat, T # {}
  PROVE  \E x \in T : \A y \in T : x <= y
  <1> DEFINE R == OpToRel(<, Nat)
  <1>1. IsWellFoundedOn(R, Nat)
    BY NatLessThanWellFounded
  <1>2. \E x \in T : \A y \in T : ~ (<<y, x>> \in R)
    <2> HIDE DEF R
    <2> QED BY <1>1, WFMin
  <1>3. ASSUME NEW x \in Nat, NEW y \in Nat, ~ (<<y, x>> \in R)
        PROVE  x <= y
    BY <1>3 DEF OpToRel
  <1> HIDE DEF R
  <1> QED BY <1>2, <1>3

\* What holds at 0 and goes on from n - 1 to n holds up to m: G is the set of
\* the places where it holds.
LEMMA InductionTo ==
  ASSUME NEW m \in Nat, NEW G, 0 \in G, \A n \in 1..m : n - 1 \in G => n \in G
  PROVE  \A n \in 0..m : n \in G
  <1> DEFINE T == {n \in 0..m : n \notin G}
  <1>1. ASSUME T # {} PROVE FALSE
    <2>1. T \subseteq Nat
      OBVIOUS
    <2>2. PICK x \in T : \A y \in T : x <= y
      <3> HIDE DEF T
      <3> QED BY <1>1, <2>1, LeastElement
    <2>3. x \in 1..m /\ x \notin G
      OBVIOUS
    <2>4. x - 1 \in 0..m /\ x - 1 \notin T
      BY <2>2, <2>3
    <2> QED BY <2>3, <2>4
  <1> QED BY <1>1

-----------------------------------------------------------------------------
(* The loop of loadFilesAndTransactions.                                   *)

\* g[k] is what the maps are after the first k of the first n entries.
LoadTo(g, s, n, before) ==
  g = [k \in 0..n |-> IF k = 0 THEN before ELSE LoadEntry(g[k - 1], s[k])]

LEMMA LoadSteps ==
  ASSUME NEW g, NEW s, NEW n \in Nat, NEW before, LoadTo(g, s, n, before)
  PROVE  /\ g[0] = before
         /\ \A k \in 1..n : g[k] = LoadEntry(g[k - 1], s[k])
  <1> DEFINE F(x) == [k \in 0..n |-> IF k = 0 THEN before ELSE LoadEntry(x[k - 1], s[k])]
  <1>1. g = F(g)
    BY DEF LoadTo
  <1>2. F(g)[0] = before /\ \A k \in 1..n : F(g)[k] = LoadEntry(g[k - 1], s[k])
    OBVIOUS
  <1> HIDE DEF F
  <1> QED BY <1>1, <1>2

\* The loop ends: it has an outcome.
LEMMA LoadExists ==
  ASSUME NEW s, NEW m \in Nat, NEW before
  PROVE  \E g : LoadTo(g, s, m, before)
  <1> DEFINE G == {n \in 0..m : \E g : LoadTo(g, s, n, before)}
  <1>1. 0 \in G
    <2> DEFINE g == [k \in 0..0 |-> before]
    <2>1. LoadTo(g, s, 0, before)
      BY DEF LoadTo
    <2> QED BY <2>1
  <1>2. ASSUME NEW n \in 1..m, n - 1 \in G PROVE n \in G
    <2>1. PICK g : LoadTo(g, s, n - 1, before)
      BY <1>2
    <2> DEFINE h == [k \in 0..n |-> IF k = n THEN LoadEntry(g[n - 1], s[n]) ELSE g[k]]
               F == [k \in 0..n |-> IF k = 0 THEN before ELSE LoadEntry(h[k - 1], s[k])]
    <2>2. g[0] = before /\ \A k \in 1..(n - 1) : g[k] = LoadEntry(g[k - 1], s[k])
      BY <2>1, LoadSteps
    <2>3. \A k \in 0..(n - 1) : h[k] = g[k]
      OBVIOUS
    <2>4. h[n] = LoadEntry(g[n - 1], s[n])
      OBVIOUS
    <2>5. ASSUME NEW k \in 0..n
          PROVE  h[k] = IF k = 0 THEN before ELSE LoadEntry(h[k - 1], s[k])
      <3> HIDE DEF h
      <3>1. CASE k = 0
        BY <2>2, <2>3, <3>1
      <3>2. CASE k \in 1..(n - 1)
        BY <2>2, <2>3, <3>2
      <3>3. CASE k = n
        BY <2>3, <2>4, <3>3
      <3> QED BY <3>1, <3>2, <3>3
    <2>6. h = F
      <3>1. h = [k \in 0..n |-> h[k]]
        OBVIOUS
      <3> HIDE DEF h
      <3> QED BY <2>5, <3>1
    <2>7. LoadTo(h, s, n, before)
      BY <2>6 DEF LoadTo
    <2> QED BY <2>7
  <1>3. \A n \in 0..m : n \in G
    <2> HIDE DEF G
    <2> QED BY <1>1, <1>2, InductionTo
  <1> QED BY <1>3

\* Loading a log is one round of the loop per entry.
LEMMA LoadRounds ==
  ASSUME NEW s, Len(s) \in Nat, NEW before
  PROVE  \E g : /\ g[0] = before
                /\ \A k \in 1..Len(s) : g[k] = LoadEntry(g[k - 1], s[k])
                /\ Load(s, before) = g[Len(s)]
  <1> DEFINE c == CHOOSE g : LoadTo(g, s, Len(s), before)
  <1>1. Load(s, before) = c[Len(s)]
    BY DEF Load, LoadTo
  <1>2. \E g : LoadTo(g, s, Len(s), before)
    BY LoadExists
  <1>3. LoadTo(c, s, Len(s), before)
    BY <1>2
  <1> HIDE DEF c
  <1>4. c[0] = before /\ \A k \in 1..Len(s) : c[k] = LoadEntry(c[k - 1], s[k])
    BY <1>3, LoadSteps
  <1> QED BY <1>1, <1>4

Maps == [sizes : [Files -> Nat \cup {-1}], restarts : [TxnIds -> Files \cup {None}]]

\* What one entry does to the maps.
LEMMA LoadEntryGoes ==
  ASSUME NEW m \in Maps, NEW e \in LogEntry
  PROVE  /\ LoadEntry(m, e) \in Maps
         /\ \A f \in Files : f # e.file => LoadEntry(m, e).sizes[f] = m.sizes[f]
         /\ e.size > m.sizes[e.file] => LoadEntry(m, e).sizes[e.file] = e.size
         /\ ~(e.size > m.sizes[e.file]) => LoadEntry(m, e).sizes[e.file] = m.sizes[e.file]
         /\ \A id \in TxnIds : id # e.id => LoadEntry(m, e).restarts[id] = m.restarts[id]
         /\ m.restarts[e.id] = None => LoadEntry(m, e).restarts[e.id] = e.file
         /\ m.restarts[e.id] # None => LoadEntry(m, e).restarts[e.id] = None
  BY DEF LoadEntry, Maps, LogEntry

LEMMA EntryFields ==
  ASSUME NEW s \in Seq(LogEntry), NEW k \in 1..Len(s)
  PROVE  s[k] \in LogEntry /\ s[k].id \in TxnIds /\ s[k].file \in Files /\ s[k].size \in Nat
  <1>1. s[k] \in LogEntry
    OBVIOUS
  <1> QED BY <1>1 DEF LogEntry

LEMMA LoadType ==
  ASSUME NEW s \in Seq(LogEntry), NEW before \in Maps
  PROVE  Load(s, before) \in Maps
  <1>0. Len(s) \in Nat
    OBVIOUS
  <1>1. PICK g : /\ g[0] = before
                 /\ \A k \in 1..Len(s) : g[k] = LoadEntry(g[k - 1], s[k])
                 /\ Load(s, before) = g[Len(s)]
    BY <1>0, LoadRounds
  <1> DEFINE G == {n \in 0..Len(s) : g[n] \in Maps}
  <1>2. 0 \in G
    BY <1>0, <1>1
  <1>3. ASSUME NEW n \in 1..Len(s), n - 1 \in G PROVE n \in G
    <2>1. g[n - 1] \in Maps /\ s[n] \in LogEntry /\ g[n] = LoadEntry(g[n - 1], s[n])
      BY <1>1, <1>3
    <2>2. g[n] \in Maps
      BY <2>1, LoadEntryGoes
    <2> QED BY <2>2
  <1>4. \A n \in 0..Len(s) : n \in G
    <2> HIDE DEF G
    <2> QED BY <1>0, <1>2, <1>3, InductionTo
  <1>5. Len(s) \in 0..Len(s)
    BY <1>0
  <1> QED BY <1>1, <1>4, <1>5

\* The largest size counts.
LEMMA LoadSizes ==
  ASSUME NEW s \in Seq(LogEntry), NEW before \in Maps, NEW f \in Files
  PROVE  /\ Load(s, before) \in Maps
         /\ Load(s, before).sizes[f] >= before.sizes[f]
         /\ \A k \in 1..Len(s) : s[k].file = f => Load(s, before).sizes[f] >= s[k].size
         /\ \/ Load(s, before).sizes[f] = before.sizes[f]
            \/ \E k \in 1..Len(s) : s[k].file = f /\ Load(s, before).sizes[f] = s[k].size
  <1>1. PICK g : /\ g[0] = before
                 /\ \A k \in 1..Len(s) : g[k] = LoadEntry(g[k - 1], s[k])
                 /\ Load(s, before) = g[Len(s)]
    BY LoadRounds
  <1> DEFINE Good(n) ==
               /\ g[n] \in Maps
               /\ g[n].sizes[f] >= before.sizes[f]
               /\ \A k \in 1..n : s[k].file = f => g[n].sizes[f] >= s[k].size
               /\ \/ g[n].sizes[f] = before.sizes[f]
                  \/ \E k \in 1..n : s[k].file = f /\ g[n].sizes[f] = s[k].size
             G == {n \in 0..Len(s) : Good(n)}
  <1>0. Len(s) \in Nat /\ before.sizes[f] \in Int
    BY DEF Maps
  <1>2. 0 \in G
    BY <1>0, <1>1
  <1>3. ASSUME NEW n \in 1..Len(s), n - 1 \in G PROVE n \in G
    <2> DEFINE e == s[n]
               m == g[n - 1]
    <2>1. Good(n - 1)
      BY <1>3
    <2>9. e \in LogEntry /\ m \in Maps /\ g[n] = LoadEntry(m, e)
      BY <1>1, <2>1
    <2>10. \A k \in 1..Len(s) : s[k].size \in Int
      BY EntryFields
    <2> HIDE DEF m, e, G, Good
    <2>2. m.sizes[f] \in Int /\ e.size \in Int /\ e.file \in Files
      BY <2>9 DEF Maps, LogEntry
    <2>3. /\ g[n] \in Maps
          /\ f # e.file => g[n].sizes[f] = m.sizes[f]
          /\ e.size > m.sizes[e.file] => g[n].sizes[e.file] = e.size
          /\ ~(e.size > m.sizes[e.file]) => g[n].sizes[e.file] = m.sizes[e.file]
      BY <2>9, LoadEntryGoes
    <2>4. /\ g[n].sizes[f] \in {m.sizes[f], e.size}
          /\ g[n].sizes[f] >= m.sizes[f]
          /\ e.file = f => g[n].sizes[f] >= e.size
          /\ e.file # f => g[n].sizes[f] = m.sizes[f]
      BY <2>2, <2>3
    <2> USE DEF m, e, G, Good
    <2>5. \A k \in 1..n : k = n \/ k \in 1..(n - 1)
      OBVIOUS
    <2>6. \A k \in 1..n : s[k].file = f => g[n].sizes[f] >= s[k].size
      BY <2>1, <2>2, <2>4, <2>5, <2>10
    <2>7. \/ g[n].sizes[f] = before.sizes[f]
          \/ \E k \in 1..n : s[k].file = f /\ g[n].sizes[f] = s[k].size
      BY <2>1, <2>4, <2>5
    <2>8. g[n].sizes[f] >= before.sizes[f]
      BY <1>0, <2>1, <2>2, <2>4
    <2> QED BY <2>3, <2>6, <2>7, <2>8
  <1>4. \A n \in 0..Len(s) : n \in G
    <2> HIDE DEF G
    <2> QED BY <1>0, <1>2, <1>3, InductionTo
  <1>5. Len(s) \in 0..Len(s)
    OBVIOUS
  <1>6. Good(Len(s))
    BY <1>4, <1>5
  <1> QED BY <1>1, <1>6

-----------------------------------------------------------------------------
(* Recorded sizes.                                                         *)

\* A log has an entry for f with the size n.
Logged(f, n) ==
  \E log \in LogNames : \E j \in 1..Len(logs[log]) :
    logs[log][j].file = f /\ logs[log][j].size = n

LEMMA RecordedAre ==
  ASSUME NEW f, NEW n
  PROVE  /\ n \in RecordedSizes(f) <=> (n = sizes[f] /\ n # -1) \/ Logged(f, n)
         /\ n \in RecordedSizes(f)' <=> (n = sizes'[f] /\ n # -1) \/ Logged(f, n)'
  BY DEF RecordedSizes, Logged

LEMMA RecordedNumbers ==
  ASSUME TypeOK, sizes \in [Files -> Nat \cup {-1}], NEW f \in Files,
         NEW n \in RecordedSizes(f)
  PROVE  n \in Nat
  <1>1. CASE n = sizes[f] /\ n # -1
    BY <1>1
  <1>2. CASE Logged(f, n)
    <2>1. PICK l \in LogNames : \E j \in 1..Len(logs[l]) :
            logs[l][j].file = f /\ logs[l][j].size = n
      BY <1>2 DEF Logged
    <2>2. logs[l] \in Seq(LogEntry)
      BY DEF TypeOK
    <2> QED BY <2>1, <2>2, EntryFields
  <1> QED BY <1>1, <1>2, RecordedAre

LEMMA RecordedKept ==
  ASSUME UNCHANGED <<sizes, logs>>
  PROVE  \A f \in Files : RecordedSizes(f)' = RecordedSizes(f)
  BY DEF RecordedSizes

\* What an entry adds.
LEMMA LoggedAppend ==
  ASSUME TypeOK, NEW log \in LogNames, NEW e \in LogEntry,
         logs' = [logs EXCEPT ![log] = Append(@, e)], NEW f, NEW n
  PROVE  Logged(f, n)' <=> Logged(f, n) \/ (f = e.file /\ n = e.size)
  <1>1. /\ \A l \in LogNames : logs[l] \in Seq(LogEntry)
        /\ \A l \in LogNames \ {log} : logs'[l] = logs[l]
        /\ logs'[log] = Append(logs[log], e)
    BY DEF TypeOK
  <1>2. /\ Len(logs'[log]) = Len(logs[log]) + 1
        /\ Len(logs[log]) \in Nat
        /\ \A j \in 1..Len(logs[log]) : logs'[log][j] = logs[log][j]
        /\ logs'[log][Len(logs[log]) + 1] = e
    BY <1>1
  <1>3. ASSUME Logged(f, n)' PROVE Logged(f, n) \/ (f = e.file /\ n = e.size)
    <2>1. PICK l \in LogNames : \E j \in 1..Len(logs'[l]) :
            logs'[l][j].file = f /\ logs'[l][j].size = n
      BY <1>3 DEF Logged
    <2>2. CASE l # log
      BY <1>1, <2>1, <2>2 DEF Logged
    <2>3. CASE l = log
      <3>0. PICK j \in 1..Len(logs'[l]) : logs'[l][j].file = f /\ logs'[l][j].size = n
        BY <2>1
      <3>1. j \in 1..Len(logs[log]) \/ j = Len(logs[log]) + 1
        BY <1>2, <2>3, <3>0
      <3> QED BY <1>2, <2>3, <3>0, <3>1 DEF Logged
    <2> QED BY <2>2, <2>3
  <1>4. ASSUME Logged(f, n) PROVE Logged(f, n)'
    <2>1. PICK l \in LogNames : \E j \in 1..Len(logs[l]) :
            logs[l][j].file = f /\ logs[l][j].size = n
      BY <1>4 DEF Logged
    <2>2. \A j \in 1..Len(logs[l]) : j \in 1..Len(logs'[l]) /\ logs'[l][j] = logs[l][j]
      BY <1>1, <1>2
    <2> QED BY <2>1, <2>2 DEF Logged
  <1>5. ASSUME f = e.file, n = e.size PROVE Logged(f, n)'
    <2>1. Len(logs[log]) + 1 \in 1..Len(logs'[log])
      BY <1>2
    <2> QED BY <1>2, <1>5, <2>1 DEF Logged
  <1> QED BY <1>3, <1>4, <1>5

\* An entry with the size up to which commits are logged keeps the records in
\* order, also when it is that of the commit itself.
LEMMA SizesAppend ==
  ASSUME TypeOK, SizesOK, NEW log \in LogNames, NEW e \in LogEntry,
         logs' = [logs EXCEPT ![log] = Append(@, e)], UNCHANGED sizes,
         sizes \in [Files -> Nat \cup {-1}], official \in [Files -> Seq(Units)],
         e.size = Len(official'[e.file]),
         e.size >= Len(official[e.file]),
         \A f \in Files \ {e.file} : official'[f] = official[f]
  PROVE  /\ SizesOK'
         /\ \A f \in Files : RecordedSizes(f) \subseteq RecordedSizes(f)'
         /\ RecordedSizes(e.file)' # {}
  <1>0. e.size \in Nat /\ e.file \in Files
    BY DEF LogEntry
  <1>1. ASSUME NEW f, NEW n
        PROVE  n \in RecordedSizes(f)' <=> n \in RecordedSizes(f) \/ (f = e.file /\ n = e.size)
    <2>1. Logged(f, n)' <=> Logged(f, n) \/ (f = e.file /\ n = e.size)
      BY LoggedAppend
    <2>2. n = e.size => n # -1
      BY <1>0
    <2> QED BY <2>1, <2>2, RecordedAre
  <1>2. ASSUME NEW f \in Files
        PROVE  /\ \A n \in RecordedSizes(f)' : n <= Len(official'[f])
               /\ RecordedSizes(f)' # {} => Len(official'[f]) \in RecordedSizes(f)'
    <2>1. CASE f = e.file
      <3>1. ASSUME NEW n \in RecordedSizes(f)' PROVE n <= Len(official'[f])
        <4>1. CASE n = e.size
          BY <1>0, <2>1, <4>1
        <4>2. CASE n \in RecordedSizes(f)
          <5>1. n <= Len(official[f])
            BY <4>2 DEF SizesOK
          <5>2. n \in Int
            BY <4>2, RecordedNumbers
          <5> QED BY <1>0, <2>1, <5>1, <5>2
        <4> QED BY <1>1, <3>1, <4>1, <4>2
      <3> QED BY <1>1, <2>1, <3>1
    <2>2. CASE f # e.file
      BY <1>1, <2>2 DEF SizesOK
    <2> QED BY <2>1, <2>2
  <1> QED BY <1>0, <1>1, <1>2 DEF SizesOK

-----------------------------------------------------------------------------
(* Types, through crashes and recovery.                                    *)

Typed == StateOK /\ RecoveryTypes

LEMMA LogOrderType == LogOrder \in Seq(LogNames) /\ LogOrder # <<>> /\
                      \A log \in LogNames : \E j \in 1..Len(LogOrder) : LogOrder[j] = log
  BY DEF LogOrder, LogNames

LEMMA TruncateIs ==
  ASSUME NEW s \in Seq(Units), NEW n \in Nat
  PROVE  /\ Truncate(s, n) \in Seq(Units)
         /\ Len(Truncate(s, n)) = n
         /\ \A j \in 1..n : Truncate(s, n)[j] = IF j <= Len(s) THEN s[j] ELSE Nul
  <1>1. Truncate(s, n) \in Seq(Units)
    BY TruncateType
  <1>2. DOMAIN Truncate(s, n) = 1..n
    BY DEF Truncate
  <1>3. Len(Truncate(s, n)) = n
    BY <1>1, <1>2
  <1> QED BY <1>1, <1>3 DEF Truncate

LEMMA MinOfTwo ==
  ASSUME NEW m \in Nat, NEW n \in Nat
  PROVE  /\ Min({m, n}) \in {m, n}
         /\ Min({m, n}) <= m /\ Min({m, n}) <= n
  <1>1. \E x \in {m, n} : \A y \in {m, n} : x <= y
    OBVIOUS
  <1>2. /\ Min({m, n}) \in {m, n}
        /\ \A y \in {m, n} : Min({m, n}) <= y
    BY <1>1 DEF Min
  <1> QED BY <1>2

LEMMA AddEntries ==
  ASSUME StateOK, NEW f \in Files, NEW id \in TxnIds, NEW h \in Handles,
         txn[h].id = None, AddNewTransaction(h, id, f)
  PROVE  /\ txnMap' \in [TxnIds -> Handles \cup {None}]
         /\ txnMap'[id] = h /\ \A i \in TxnIds \ {id} : txnMap'[i] = txnMap[i]
         /\ fileMap' \in [Files -> Handles \cup {None}]
         /\ fileSize' \in [Handles -> Nat]
         /\ txn' \in [Handles -> TransactionAttributes]
         /\ txn'[h].id = id /\ txn'[h].file = f /\ txn'[h].attrs \in Handles
         /\ \A k \in Handles \ {h} : txn'[k] = txn[k]
         /\ \A i \in TxnIds : txnMap[i] # h
  <1> DEFINE a == IF fileMap[f] = None THEN h ELSE fileMap[f]
  <1>1. TypeOK /\ EntriesOK
    BY DEF StateOK
  <1>2. a \in Handles
    BY <1>1 DEF TypeOK
  <1>3. /\ txnMap' = [txnMap EXCEPT ![id] = h]
        /\ fileMap' = [fileMap EXCEPT ![f] = a]
        /\ txn' = [txn EXCEPT ![h] = [id |-> id, file |-> f, attrs |-> a]]
    BY DEF AddNewTransaction
  <1>4. fileSize' \in [Handles -> Nat]
    <2>1. GetFileSize(f) \in Nat
      BY <1>1, GetFileSizeType
    <2> QED BY <1>1, <2>1 DEF TypeOK, AddNewTransaction
  <1> HIDE DEF a
  <1>5. [id |-> id, file |-> f, attrs |-> a] \in TransactionAttributes
    BY <1>2 DEF TransactionAttributes
  <1>6. \A i \in TxnIds : txnMap[i] # h
    <2> SUFFICES ASSUME NEW i \in TxnIds, txnMap[i] = h PROVE FALSE
      OBVIOUS
    <2>1. h # None /\ i # None
      BY ConstantsAssumption
    <2> QED BY <1>1, <2>1 DEF EntriesOK
  <1> QED BY <1>1, <1>2, <1>3, <1>4, <1>5, <1>6 DEF TypeOK

LEMMA InitTyped == RecoveryInit => Typed
  <1> SUFFICES ASSUME RecoveryInit PROVE Typed
    OBVIOUS
  <1>1. StateOK
    BY InitStateOK DEF RecoveryInit
  <1>2. <<>> \in Seq(LogNames) /\ <<>> \in Seq(Units)
    OBVIOUS
  <1> QED BY <1>1, <1>2 DEF RecoveryInit, Typed, RecoveryTypes, NoSizes, NoRestarts

\* The writes that a logged commit adds.
LEMMA UnitsOf ==
  ASSUME NEW h \in Handles, NEW m \in Int
  PROVE  [k \in 1..m |-> <<h, k>>] \in Seq(Units)
  <1>1. \A k \in 1..m : <<h, k>> \in Units
    BY DEF Units
  <1>2. PICK n \in Nat : 1..n = 1..m
    <2>1. CASE m \in Nat
      BY <2>1
    <2>2. CASE m \notin Nat
      <3>1. 1..0 = 1..m
        BY <2>2
      <3> QED BY <3>1
    <2> QED BY <2>1, <2>2
  <1>3. PICK u : u = [k \in 1..n |-> <<h, k>>]
    OBVIOUS
  <1>4. u \in Seq(Units)
    BY <1>1, <1>2, <1>3
  <1> QED BY <1>2, <1>3, <1>4

LEMMA ServeTyped ==
  ASSUME Typed, Serve
  PROVE  Typed'
  <1>1. /\ mode' = mode /\ Next
        /\ UNCHANGED <<unread, sizes, restarts, crashes, survivors, powerFailed>>
    BY DEF Serve, loadVars
  <1>2. StateOK'
    BY <1>1, StateStep DEF Typed
  <1>3. acked' \subseteq TxnIds \cup {None}
    <2>1. reply' \in Replies
      BY <1>2 DEF StateOK, TypeOK
    <2>2. reply'.id \in TxnIds \cup {None}
      BY <2>1 DEF Replies
    <2> QED BY <2>2 DEF Typed, RecoveryTypes, Serve
  <1>4. synced' \in [Files -> Nat]
    <2>1. ASSUME NEW f \in Files PROVE Synced(f) \in Nat
      <3>1. synced[f] \in Nat /\ Len(disk'[f]) \in Nat
        BY <1>2 DEF Typed, RecoveryTypes, StateOK, TypeOK
      <3>2. Min({synced[f], Len(disk'[f])}) \in Nat
        BY <3>1, MinOfTwo
      <3> QED BY <3>1, <3>2 DEF Synced
    <2> QED BY <2>1 DEF Serve
  <1>5. official' \in [Files -> Seq(Units)] /\ officialIds' \subseteq TxnIds
    <2>1. official \in [Files -> Seq(Units)] /\ officialIds \subseteq TxnIds
      BY DEF Typed, RecoveryTypes
    <2>2. CASE UNCHANGED <<official, officialIds>>
      BY <2>1, <2>2
    <2>3. ASSUME NEW w \in Workers, pc[w] = "CommitLog",
                 official' = [official EXCEPT ![txn[call[w].h].file] =
                                @ \o [k \in 1..maxSeq[call[w].h] |-> <<call[w].h, k>>]],
                 officialIds' = officialIds \cup {call[w].id}
          PROVE  official' \in [Files -> Seq(Units)] /\ officialIds' \subseteq TxnIds
      <3>1. call[w].h \in Handles /\ call[w].id \in TxnIds /\ txn[call[w].h].file \in Files
        BY <2>3, CallEntry DEF Typed, HoldsTxnMtx
      <3>2. maxSeq[call[w].h] \in Int
        BY <3>1 DEF Typed, StateOK, TypeOK
      <3>3. PICK u : u = [k \in 1..maxSeq[call[w].h] |-> <<call[w].h, k>>]
        OBVIOUS
      <3>4. u \in Seq(Units)
        BY <3>1, <3>2, <3>3, UnitsOf
      <3>5. official[txn[call[w].h].file] \o u \in Seq(Units)
        BY <2>1, <3>1, <3>4
      <3>6. official' = [official EXCEPT ![txn[call[w].h].file] = @ \o u]
        BY <2>3, <3>3
      <3> QED BY <2>1, <2>3, <3>1, <3>5, <3>6
    <2> QED BY <2>2, <2>3 DEF Serve, BecomesOfficial
  <1>6. RecoveryTypes'
    BY <1>1, <1>3, <1>4, <1>5 DEF Typed, RecoveryTypes
  <1> QED BY <1>2, <1>6 DEF Typed

LEMMA CrashTyped ==
  ASSUME Typed, Crash
  PROVE  Typed'
  <1>0. StateOK /\ TypeOK /\ EntriesOK /\ RecoveryTypes
    BY DEF Typed, StateOK
  <1>1. disk' \in [Files -> Seq(Units)] /\ synced' \in [Files -> Nat]
    <2>1. ASSUME NEW f \in Files, NEW s \in Remains(f)
          PROVE  s \in Seq(Units) /\ Len(s) \in Nat
      <3>1. disk[f] \in Seq(Units) /\ synced[f] \in Nat
        BY <1>0 DEF TypeOK, RecoveryTypes
      <3>2. PICK n \in synced[f]..Len(disk[f]) : s = SubSeq(disk[f], 1, n)
        BY <2>1 DEF Remains
      <3>3. n \in Nat /\ n <= Len(disk[f])
        BY <3>1, <3>2
      <3>4. \A j \in 1..n : disk[f][j] \in Units
        BY <3>1, <3>3
      <3> QED BY <3>1, <3>2, <3>3, <3>4
    <2>2. CASE UNCHANGED <<disk, synced>>
      BY <1>0, <2>2 DEF TypeOK, RecoveryTypes
    <2>3. CASE /\ disk' \in [Files -> UNION {Remains(f) : f \in Files}]
               /\ synced' = [f \in Files |-> Len(disk'[f])]
      <3>1. \A f \in Files : disk'[f] \in Seq(Units) /\ Len(disk'[f]) \in Nat
        BY <2>1, <2>3
      <3> QED BY <2>3, <3>1
    <2> QED BY <2>2, <2>3 DEF Crash
  <1>2. TypeOK'
    <2>1. NoCall \in Calls /\ NoReply \in Replies /\ "idle" \in Labels
      BY DEF NoCall, Call, Calls, NoReply, Replies, Labels
    <2> QED BY <1>0, <1>1, <2>1 DEF Crash, TypeOK, bufferVars
  <1>3. EntriesOK'
    BY <1>0 DEF EntriesOK, Crash
  <1>4. \A w \in Workers : CallOK(w)'
    BY DEF Crash, CallOK, NoCall, Call, HoldsTxnMtx, UsesTxn
  <1>5. RecoveryTypes'
    <2>1. powerFailed' \in BOOLEAN /\ survivors' \subseteq TxnIds
      BY <1>0 DEF Crash, RecoveryTypes, Open
    <2> QED BY <1>0, <1>1, <2>1, LogOrderType DEF Crash, RecoveryTypes, NoSizes, NoRestarts
  <1> QED BY <1>2, <1>3, <1>4, <1>5 DEF StateOK, Typed

LEMMA LoadTyped ==
  ASSUME Typed, LoadFilesAndTransactions
  PROVE  Typed'
  <1>l. PICK log : log = Head(unread)
    OBVIOUS
  <1>b. PICK before : before = [sizes |-> sizes, restarts |-> restarts]
    OBVIOUS
  <1>1. /\ StateOK /\ TypeOK /\ RecoveryTypes
        /\ unread # <<>> /\ unread \in Seq(LogNames)
        /\ logs \in [LogNames -> Seq(LogEntry)]
    BY DEF Typed, RecoveryTypes, StateOK, TypeOK, LoadFilesAndTransactions
  <1>2. log \in LogNames /\ logs[log] \in Seq(LogEntry) /\ Tail(unread) \in Seq(LogNames)
    BY <1>1, <1>l
  <1>3. Load(logs[log], before) \in Maps
    <2>1. before \in Maps
      BY <1>1, <1>b DEF RecoveryTypes, Maps
    <2> QED BY <1>2, <2>1, LoadType
  <1>4. /\ sizes' \in [Files -> Nat \cup {-1}]
        /\ restarts' \in [TxnIds -> Files \cup {None}]
        /\ logs' \in [LogNames -> Seq(LogEntry)]
    <2>1. CASE CwdIsDirectory
      <3>1. /\ sizes' = Load(logs[log], before).sizes
            /\ restarts' = Load(logs[log], before).restarts
            /\ logs' = [logs EXCEPT ![log] = <<>>]
        BY <2>1, <1>l, <1>b DEF LoadFilesAndTransactions
      <3>2. <<>> \in Seq(LogEntry)
        OBVIOUS
      <3> QED BY <1>1, <1>2, <1>3, <3>1, <3>2 DEF Maps
    <2>2. CASE ~CwdIsDirectory
      BY <1>1, <2>2 DEF LoadFilesAndTransactions, RecoveryTypes
    <2> QED BY <2>1, <2>2
  <1>5. /\ unread' = Tail(unread) /\ mode' \in {mode, "truncating"}
        /\ UNCHANGED <<txnMap, fileMap, commits, txn, buffers, maxSeq, expired, fileSize, timers,
                       fate, memberMtx, txnMtx, fileMtx, disk, exists, failures, pc, call, reply,
                       crashes, synced, official, officialIds, acked, survivors, powerFailed>>
    BY DEF LoadFilesAndTransactions, registryVars, entryVars, bufferVars, lockVars, threadVars,
           historyVars
  <1>6. TypeOK'
    BY <1>1, <1>4, <1>5 DEF TypeOK
  <1>7. EntriesOK' /\ \A w \in Workers : CallOK(w)'
    BY <1>1, <1>5 DEF StateOK, EntriesOK, CallOK
  <1>8. RecoveryTypes'
    BY <1>1, <1>2, <1>4, <1>5 DEF RecoveryTypes
  <1> QED BY <1>6, <1>7, <1>8 DEF StateOK, Typed

LEMMA TruncateTyped ==
  ASSUME Typed, NEW f \in Files, TruncateFiles(f)
  PROVE  Typed'
  <1>1. /\ StateOK /\ TypeOK /\ RecoveryTypes
        /\ disk \in [Files -> Seq(Units)] /\ sizes \in [Files -> Nat \cup {-1}]
        /\ synced \in [Files -> Nat] /\ sizes[f] \in Nat
    BY DEF Typed, RecoveryTypes, StateOK, TypeOK, TruncateFiles
  <1>2. UNCHANGED <<txnMap, fileMap, commits, txn, buffers, maxSeq, expired, fileSize, timers,
                    fate, memberMtx, txnMtx, fileMtx, logs, failures, pc, call, reply, mode,
                    unread, restarts, crashes, official, officialIds, acked, survivors,
                    powerFailed>>
    BY DEF TruncateFiles, registryVars, entryVars, bufferVars, lockVars, threadVars, historyVars
  <1>3. disk' \in [Files -> Seq(Units)] /\ exists' \subseteq exists
    <2>1. PICK t : t = Truncate(disk[f], sizes[f])
      OBVIOUS
    <2>2. t \in Seq(Units) /\ <<>> \in Seq(Units)
      BY <1>1, <2>1, TruncateIs
    <2>3. \/ disk' = [disk EXCEPT ![f] = t] \/ disk' = [disk EXCEPT ![f] = <<>>]
          \/ disk' = disk
      BY <2>1 DEF TruncateFiles
    <2>4. exists' \subseteq exists
      BY DEF TruncateFiles
    <2> QED BY <1>1, <2>2, <2>3, <2>4
  <1>4. synced' \in [Files -> Nat] /\ sizes' \in [Files -> Nat \cup {-1}]
    <2>1. Len(disk'[f]) \in Nat /\ synced[f] \in Nat
      BY <1>1, <1>3
    <2>2. Min({synced[f], Len(disk'[f])}) \in Nat
      BY <2>1, MinOfTwo
    <2>3. PICK m : m = IF synced[f] = Len(disk[f]) THEN Len(disk'[f])
                       ELSE Min({synced[f], Len(disk'[f])})
      OBVIOUS
    <2>4. m \in Nat
      BY <2>1, <2>2, <2>3
    <2>5. synced' = [synced EXCEPT ![f] = m] /\ sizes' = [sizes EXCEPT ![f] = -1]
      BY <2>3 DEF TruncateFiles
    <2> QED BY <1>1, <2>4, <2>5
  <1>5. TypeOK'
    BY <1>1, <1>2, <1>3 DEF TypeOK
  <1>6. EntriesOK' /\ \A w \in Workers : CallOK(w)'
    BY <1>1, <1>2 DEF StateOK, EntriesOK, CallOK
  <1>7. RecoveryTypes'
    BY <1>1, <1>2, <1>4 DEF RecoveryTypes
  <1> QED BY <1>5, <1>6, <1>7 DEF StateOK, Typed

LEMMA RestartTyped ==
  ASSUME Typed, NEW id \in TxnIds, NEW h \in Handles, RestartTransaction(id, h)
  PROVE  Typed'
  <1>f. PICK f : f = restarts[id]
    OBVIOUS
  <1>1. /\ f \in Files /\ txn[h].id = None
        /\ AddNewTransaction(h, id, f)
        /\ LogTransaction("transaction", id, f)
        /\ timers' = timers \cup {h}
        /\ restarts' = [restarts EXCEPT ![id] = None]
    BY <1>f DEF RestartTransaction, Typed, RecoveryTypes
  <1>2. UNCHANGED <<commits, buffers, maxSeq, expired, fate, memberMtx, txnMtx, fileMtx, disk,
                    exists, pc, call, reply, mode, unread, sizes, crashes, synced, official,
                    officialIds, acked, survivors, powerFailed>>
    BY DEF RestartTransaction, bufferVars, lockVars, threadVars, historyVars
  <1>3. StateOK /\ TypeOK /\ EntriesOK /\ RecoveryTypes
    BY DEF Typed, StateOK
  <1>4. logs' \in [LogNames -> Seq(LogEntry)] /\ failures' \in Nat
    BY <1>1, <1>3, LogTransactionType DEF LogNames
  <1>5. /\ txnMap' \in [TxnIds -> Handles \cup {None}]
        /\ txnMap'[id] = h /\ \A i \in TxnIds \ {id} : txnMap'[i] = txnMap[i]
        /\ fileMap' \in [Files -> Handles \cup {None}]
        /\ fileSize' \in [Handles -> Nat]
        /\ txn' \in [Handles -> TransactionAttributes]
        /\ txn'[h].id = id /\ txn'[h].file = f /\ txn'[h].attrs \in Handles
        /\ \A k \in Handles \ {h} : txn'[k] = txn[k]
        /\ \A i \in TxnIds : txnMap[i] # h
    BY <1>1, <1>3, AddEntries
  <1>6. TypeOK'
    <2>1. timers' \subseteq Handles
      BY <1>1, <1>3 DEF TypeOK
    <2> QED BY <1>2, <1>3, <1>4, <1>5, <2>1 DEF TypeOK
  <1>7. EntriesOK'
    <2>1. \A k \in Handles : txn'[k].id # None => txn'[k].file \in Files /\ txn'[k].attrs \in Handles
      BY <1>1, <1>3, <1>5 DEF EntriesOK
    <2>2. \A i \in TxnIds : txnMap'[i] # None => txn'[txnMap'[i]].id = i
      <3>1. \A i \in TxnIds : txnMap[i] \in Handles \cup {None}
        BY <1>3 DEF TypeOK
      <3> QED BY <1>3, <1>5, <3>1 DEF EntriesOK
    <2>3. \A k \in timers' : txn'[k].id # None
      <3>1. timers \subseteq Handles /\ id # None
        BY <1>3, ConstantsAssumption DEF TypeOK
      <3> QED BY <1>1, <1>3, <1>5, <3>1 DEF EntriesOK
    <2> QED BY <2>1, <2>2, <2>3 DEF EntriesOK
  <1>8. \A w \in Workers : CallOK(w)'
    <2> SUFFICES ASSUME NEW w \in Workers PROVE CallOK(w)'
      OBVIOUS
    <2>1. CallOK(w) /\ pc'[w] = pc[w] /\ call'[w] = call[w]
      BY <1>2, <1>3 DEF StateOK
    <2>2. call[w].id \in TxnIds => call[w].id # None
      BY ConstantsAssumption
    <2> QED BY <1>1, <1>5, <2>1, <2>2 DEF CallOK
  <1>9. RecoveryTypes'
    BY <1>1, <1>2, <1>3 DEF RecoveryTypes
  <1> QED BY <1>6, <1>7, <1>8, <1>9 DEF StateOK, Typed

LEMMA TypedStep ==
  ASSUME Typed, [RecoveryNext]_allVars
  PROVE  Typed'
  <1>1. CASE UNCHANGED allVars
    <2>1. UNCHANGED vars /\ UNCHANGED <<mode, unread, sizes, restarts, crashes, synced, official,
                                        officialIds, acked, survivors, powerFailed>>
      BY <1>1 DEF allVars, loadVars, historyVars
    <2> QED BY <2>1, StateStep DEF Typed, RecoveryTypes
  <1>2. CASE Initialized
    <2>1. /\ UNCHANGED vars /\ mode' = "up"
          /\ UNCHANGED <<unread, sizes, restarts, crashes, synced, official, officialIds, acked,
                         survivors, powerFailed>>
      BY <1>2 DEF Initialized, loadVars, historyVars
    <2> QED BY <2>1, StateStep DEF Typed, RecoveryTypes
  <1> QED BY <1>1, <1>2, ServeTyped, CrashTyped, LoadTyped, TruncateTyped, RestartTyped
          DEF RecoveryNext, Recover

\* The members of ServerBackend, the maps that recovery fills and the logs have
\* their shapes at all times, through crashes, power failures and recovery,
\* whatever fails: no proviso.
THEOREM RecoveryTypeCorrect == RecoverySpec => [](TypeOK /\ RecoveryTypes)
  <1>1. Typed /\ [RecoveryNext]_allVars => Typed'
    BY TypedStep
  <1>2. RecoveryInit => Typed
    BY InitTyped
  <1>3. Typed => TypeOK /\ RecoveryTypes
    BY DEF Typed, StateOK
  <1> QED BY <1>1, <1>2, <1>3, PTL DEF RecoverySpec

-----------------------------------------------------------------------------
(* Contents of files.  The proviso: one connection thread, no timeouts,    *)
(* bare names that name the files of the directory, no crash before        *)
(* recovery is over, no log entry that cannot be written, and at most one  *)
(* crash if it may be the power.                                           *)

RecoveryProviso ==
  /\ \A v, w \in Workers : v = w
  /\ ~Timeouts
  /\ CwdIsDirectory
  /\ ~CrashInRecovery
  /\ "log" \notin FailureKinds
  /\ PowerFailures => MaxCrashes <= 1

\* The server is started for the first time.
LEMMA RecoveryInitInv == RecoveryInit => RecoveryInv
  <1> SUFFICES ASSUME RecoveryInit PROVE RecoveryInv
    OBVIOUS
  <1>1. Init
    BY DEF RecoveryInit
  <1>2. StateOK
    BY <1>1, InitStateOK
  <1>3. RecoveryTypes
    <2>1. <<>> \in Seq(LogNames) /\ <<>> \in Seq(Units)
      OBVIOUS
    <2>2. official \in [Files -> Seq(Units)] /\ synced \in [Files -> Nat]
      BY <2>1 DEF RecoveryInit
    <2>3. sizes \in [Files -> Nat \cup {-1}] /\ restarts \in [TxnIds -> Files \cup {None}]
      BY DEF RecoveryInit, NoSizes, NoRestarts
    <2> QED BY <2>1, <2>2, <2>3 DEF RecoveryInit, RecoveryTypes
  <1>4. PhaseOK
    BY <1>1 DEF RecoveryInit, PhaseOK, Init
  <1>5. FileAttributesShared /\ AttributesNamed /\ NeverExpired /\ OpenRecorded /\ FileSizesOK
    BY <1>1 DEF FileAttributesShared, AttributesNamed, NeverExpired, OpenRecorded, FileSizesOK, Init
  <1>6. \A f \in Files : RecordedSizes(f) = {}
    BY <1>1 DEF RecoveryInit, Init, RecordedSizes, NoSizes
  <1>7. SizesOK
    BY <1>6 DEF SizesOK
  <1>8. /\ \A f \in Files : disk[f] = <<>> /\ official[f] = <<>> /\ synced[f] = 0
        /\ \A w \in Workers : pc[w] = "idle"
    BY <1>1 DEF RecoveryInit, Init
  <1>9. ContentsOK
    BY <1>8 DEF ContentsOK, Agrees
  <1>10. WorkersOK
    BY <1>8 DEF WorkersOK, CommitterOK, LiveCall, HoldsTxnMtx, UsesTxn
  <1>11. SyncedOK
    BY <1>8 DEF SyncedOK
  <1> QED BY <1>2, <1>3, <1>4, <1>5, <1>7, <1>9, <1>10, <1>11 DEF RecoveryInv

\* What the power leaves of a file.
LEMMA RemainsAre ==
  ASSUME TypeOK, NEW f \in Files, synced[f] \in Nat, synced[f] <= Len(disk[f]),
         NEW s \in Remains(f)
  PROVE  /\ s \in Seq(Units)
         /\ Len(s) \in synced[f]..Len(disk[f])
         /\ \A j \in 1..Len(s) : s[j] = disk[f][j]
  <1>1. disk[f] \in Seq(Units)
    BY DEF TypeOK
  <1>2. PICK n \in synced[f]..Len(disk[f]) : s = SubSeq(disk[f], 1, n)
    BY DEF Remains
  <1>3. n \in Nat /\ n <= Len(disk[f])
    BY <1>1, <1>2
  <1>4. \A j \in 1..n : disk[f][j] \in Units
    BY <1>1, <1>3
  <1> QED BY <1>1, <1>2, <1>3, <1>4

LEMMA CrashDisk ==
  ASSUME RecoveryInv, Crash, NEW f \in Files
  PROVE  /\ disk'[f] \in Seq(Units)
         /\ Len(disk'[f]) \in synced[f]..Len(disk[f])
         /\ \A j \in 1..Len(disk'[f]) : disk'[f][j] = disk[f][j]
         /\ Len(disk'[f]) # Len(disk[f]) => PowerFailures /\ powerFailed'
         /\ synced'[f] \in Nat /\ synced'[f] <= Len(disk'[f])
         /\ powerFailed => powerFailed'
  <1>1. TypeOK /\ disk[f] \in Seq(Units) /\ synced[f] \in Nat /\ synced[f] <= Len(disk[f])
    BY DEF RecoveryInv, StateOK, TypeOK, RecoveryTypes, SyncedOK
  <1>2. CASE UNCHANGED <<disk, synced, powerFailed>>
    BY <1>1, <1>2
  <1>3. CASE /\ PowerFailures
             /\ \A g \in Files : disk'[g] \in Remains(g)
             /\ synced' = [g \in Files |-> Len(disk'[g])]
             /\ powerFailed' = TRUE
    <2>1. disk'[f] \in Remains(f) /\ synced'[f] = Len(disk'[f])
      BY <1>3
    <2>2. /\ disk'[f] \in Seq(Units)
          /\ Len(disk'[f]) \in synced[f]..Len(disk[f])
          /\ \A j \in 1..Len(disk'[f]) : disk'[f][j] = disk[f][j]
      BY <1>1, <2>1, RemainsAre
    <2> QED BY <1>1, <1>3, <2>1, <2>2
  <1> QED BY <1>2, <1>3 DEF Crash

LEMMA CrashDiskType ==
  ASSUME RecoveryInv, Crash
  PROVE  disk' \in [Files -> Seq(Units)] /\ synced' \in [Files -> Nat]
  <1>1. \A f \in Files : disk'[f] \in Seq(Units) /\ synced'[f] \in Nat
    BY CrashDisk
  <1>2. disk' = [f \in Files |-> disk'[f]]
    BY DEF Crash, RecoveryInv, StateOK, TypeOK
  <1>3. synced' = [f \in Files |-> synced'[f]]
    BY DEF Crash, RecoveryInv, RecoveryTypes
  <1> QED BY <1>1, <1>2, <1>3

\* A crash leaves a state from which recovery goes on.
LEMMA CrashState ==
  ASSUME RecoveryInv, Crash
  PROVE  StateOK' /\ RecoveryTypes' /\ PhaseOK'
  <1>1. TypeOK'
    <2>1. TypeOK
      BY DEF RecoveryInv, StateOK
    <2>2. disk' \in [Files -> Seq(Units)]
      BY CrashDiskType
    <2>3. NoCall \in Calls /\ NoReply \in Replies /\ "idle" \in Labels
      BY DEF NoCall, Call, Calls, NoReply, Replies, Labels
    <2> QED BY <2>1, <2>2, <2>3 DEF Crash, TypeOK, bufferVars
  <1>2. EntriesOK'
    <2>1. EntriesOK
      BY DEF RecoveryInv, StateOK
    <2> QED BY <2>1 DEF EntriesOK, Crash
  <1>3. \A w \in Workers : CallOK(w)'
    BY DEF Crash, CallOK, NoCall, Call, HoldsTxnMtx, UsesTxn
  <1>4. RecoveryTypes'
    <2>1. RecoveryTypes
      BY DEF RecoveryInv
    <2>2. synced' \in [Files -> Nat]
      BY CrashDiskType
    <2>3. powerFailed' \in BOOLEAN
      BY <2>1 DEF Crash, RecoveryTypes
    <2>4. survivors' \subseteq TxnIds
      BY <2>1 DEF Crash, RecoveryTypes, Open
    <2> QED BY <2>1, <2>2, <2>3, <2>4, LogOrderType
            DEF Crash, RecoveryTypes, NoSizes, NoRestarts
  <1>5. PhaseOK'
    <2>1. crashes' > 0
      BY DEF RecoveryInv, RecoveryTypes, Crash
    <2> QED BY <2>1, LogOrderType DEF Crash, PhaseOK, IsUnread
  <1> QED BY <1>1, <1>2, <1>3, <1>4, <1>5 DEF StateOK

\* A file that is not as long as the commits that were logged is mentioned in
\* a log: it is the file of a COMMIT.
LEMMA CommitterRecorded ==
  ASSUME RecoveryInv, NEW w \in Workers, pc[w] \in HoldsTxnMtx
  PROVE  /\ call[w].h \in Handles /\ txn[call[w].h].file \in Files
         /\ RecordedSizes(txn[call[w].h].file) # {} \/ \E v \in Workers : pc[v] = "NewTxnLog"
  <1>1. /\ StateOK /\ LiveCall(w) /\ OpenRecorded
    BY DEF RecoveryInv, WorkersOK
  <1>2. /\ call[w].h \in Handles /\ call[w].id \in TxnIds
        /\ txn[call[w].h].file \in Files
    BY <1>1, CallEntry
  <1>3. txnMap[call[w].id] = call[w].h /\ call[w].h # None
    BY <1>1, <1>2, ConstantsAssumption DEF LiveCall
  <1> QED BY <1>1, <1>2, <1>3 DEF OpenRecorded

LEMMA CrashContents ==
  ASSUME RecoveryProviso, RecoveryInv, Crash
  PROVE  SizesOK' /\ ContentsOK' /\ SyncedOK'
  <1>0. mode = "up" /\ mode' = "loading" /\ crashes \in Nat /\ crashes' = crashes + 1
    BY DEF RecoveryProviso, RecoveryInv, RecoveryTypes, Crash
  <1>1. UNCHANGED <<sizes, logs, official, exists>>
    BY <1>0 DEF RecoveryInv, PhaseOK, Crash
  <1>2. \A f \in Files : RecordedSizes(f)' = RecordedSizes(f)
    BY <1>1, RecordedKept
  <1>3. SizesOK'
    BY <1>1, <1>2 DEF RecoveryInv, SizesOK
  <1>4. \A f \in Files : synced'[f] <= Len(disk'[f])
    BY CrashDisk
  <1>5. SyncedOK'
    BY <1>0, <1>4 DEF SyncedOK
  <1>6. ASSUME NEW f \in Files
        PROVE  /\ Agrees(f)'
               /\ Len(disk'[f]) < Len(official'[f]) => powerFailed'
               /\ Len(disk'[f]) = Len(official'[f]) \/ RecordedSizes(f)' # {}
               /\ f \notin exists' => disk'[f] = <<>> /\ official'[f] = <<>>
    <2> DEFINE d == Len(disk[f])
               e == Len(disk'[f])
               n == Len(official[f])
    <2>1. /\ disk'[f] \in Seq(Units) /\ disk[f] \in Seq(Units) /\ official[f] \in Seq(Units)
          /\ e \in synced[f]..d
          /\ \A j \in 1..e : disk'[f][j] = disk[f][j]
          /\ e # d => PowerFailures /\ powerFailed'
          /\ powerFailed => powerFailed'
      BY CrashDisk DEF RecoveryInv, StateOK, TypeOK, RecoveryTypes
    <2>2. d \in Nat /\ e \in Nat /\ n \in Nat /\ synced[f] \in Nat /\ e <= d
      BY <2>1 DEF RecoveryInv, RecoveryTypes
    <2>3. /\ Agrees(f) /\ d >= n
          /\ d # n => \E w \in Workers : CommitsTo(w, f)
          /\ f \notin exists => disk[f] = <<>> /\ official[f] = <<>>
      BY <1>0, <2>2 DEF RecoveryInv, ContentsOK
    <2>4. Agrees(f)'
      BY <1>1, <2>1, <2>2, <2>3 DEF Agrees
    <2>5. e < n => powerFailed'
      BY <2>1, <2>2, <2>3
    <2>6. ASSUME e # n PROVE \E w \in Workers : CommitsTo(w, f)
      <3>1. CASE d # n
        BY <2>3, <3>1
      <3>2. CASE d = n
        <4>1. PowerFailures /\ e < n
          BY <2>1, <2>2, <2>6, <3>2
        <4>2. crashes = 0
          <5>1. MaxCrashes \in Nat /\ MaxCrashes <= 1 /\ crashes < MaxCrashes
            BY <4>1, RecoveryAssumption DEF RecoveryProviso, Crash
          <5> QED BY <1>0, <5>1
        <4>3. synced[f] < n
          BY <2>1, <2>2, <4>1
        <4>4. AtCommitSize(f)
          BY <2>2, <4>2, <4>3 DEF RecoveryInv, SyncedOK
        <4> QED BY <4>4 DEF AtCommitSize, CommitsTo, HoldsFileMtx
      <3> QED BY <3>1, <3>2
    <2>7. e # n => RecordedSizes(f) # {}
      <3> SUFFICES ASSUME e # n PROVE RecordedSizes(f) # {}
        OBVIOUS
      <3>1. PICK w \in Workers : CommitsTo(w, f)
        BY <2>6
      <3>2. pc[w] \in HoldsTxnMtx /\ pc[w] # "NewTxnLog" /\ txn[call[w].h].file = f
        BY <3>1 DEF CommitsTo, HoldsFileMtx, HoldsTxnMtx
      <3>3. \A v \in Workers : pc[v] # "NewTxnLog"
        BY <3>2 DEF RecoveryProviso
      <3> QED BY <3>2, <3>3, CommitterRecorded
    <2>8. f \notin exists' => disk'[f] = <<>> /\ official'[f] = <<>>
      <3> SUFFICES ASSUME f \notin exists PROVE disk'[f] = <<>> /\ official'[f] = <<>>
        BY <1>1
      <3>1. d = 0 /\ official[f] = <<>>
        BY <2>3
      <3>2. e = 0
        BY <2>2, <3>1
      <3> QED BY <1>1, <2>1, <3>1, <3>2
    <2> QED BY <1>1, <1>2, <2>4, <2>5, <2>7, <2>8
  <1>7. ContentsOK'
    BY <1>0, <1>6 DEF ContentsOK
  <1> QED BY <1>3, <1>5, <1>7

LEMMA CrashInv ==
  ASSUME RecoveryProviso, RecoveryInv, Crash
  PROVE  RecoveryInv'
  <1>1. StateOK' /\ RecoveryTypes' /\ PhaseOK'
    BY CrashState
  <1>2. SizesOK' /\ ContentsOK' /\ SyncedOK'
    BY CrashContents
  <1>3. /\ \A id \in TxnIds : txnMap'[id] = None
        /\ \A f \in Files : fileMap'[f] = None
        /\ \A w \in Workers : pc'[w] = "idle"
        /\ UNCHANGED expired
    BY DEF Crash, bufferVars
  <1>4. FileAttributesShared' /\ AttributesNamed' /\ OpenRecorded' /\ FileSizesOK'
    BY <1>3 DEF FileAttributesShared, AttributesNamed, OpenRecorded, FileSizesOK
  <1>5. NeverExpired'
    BY <1>3 DEF RecoveryInv, NeverExpired
  <1>6. WorkersOK'
    BY <1>3 DEF WorkersOK, CommitterOK, LiveCall, HoldsTxnMtx, UsesTxn
  <1> QED BY <1>1, <1>2, <1>4, <1>5, <1>6 DEF RecoveryInv

-----------------------------------------------------------------------------
(* Loading.                                                                *)

LEMMA LoadTypes ==
  ASSUME RecoveryProviso, RecoveryInv, LoadFilesAndTransactions
  PROVE  /\ sizes' \in [Files -> Nat \cup {-1}]
         /\ restarts' \in [TxnIds -> Files \cup {None}]
  <1> DEFINE log    == Head(unread)
             before == [sizes |-> sizes, restarts |-> restarts]
  <1>1. /\ unread # <<>> /\ unread \in Seq(LogNames)
        /\ logs \in [LogNames -> Seq(LogEntry)]
        /\ sizes \in [Files -> Nat \cup {-1}]
        /\ restarts \in [TxnIds -> Files \cup {None}]
    BY DEF RecoveryInv, RecoveryTypes, StateOK, TypeOK, LoadFilesAndTransactions
  <1>2. logs[log] \in Seq(LogEntry)
    BY <1>1
  <1>3. before \in Maps
    BY <1>1 DEF Maps
  <1>4. sizes' = Load(logs[log], before).sizes /\ restarts' = Load(logs[log], before).restarts
    BY DEF LoadFilesAndTransactions, RecoveryProviso
  <1> HIDE DEF log, before
  <1>5. Load(logs[log], before) \in Maps
    BY <1>2, <1>3, LoadType
  <1> QED BY <1>4, <1>5 DEF Maps

\* What is recorded after a log was read was recorded before, and nothing
\* larger is lost.
LEMMA LoadRecorded ==
  ASSUME RecoveryProviso, RecoveryInv, LoadFilesAndTransactions, NEW f \in Files
  PROVE  /\ RecordedSizes(f)' \subseteq RecordedSizes(f)
         /\ \A n \in RecordedSizes(f) : \E m \in RecordedSizes(f)' : m >= n
  <1> DEFINE log    == Head(unread)
             before == [sizes |-> sizes, restarts |-> restarts]
             loaded == Load(logs[log], before)
  <1>1. /\ unread # <<>> /\ unread \in Seq(LogNames)
        /\ logs \in [LogNames -> Seq(LogEntry)]
        /\ sizes \in [Files -> Nat \cup {-1}]
        /\ restarts \in [TxnIds -> Files \cup {None}]
    BY DEF RecoveryInv, RecoveryTypes, StateOK, TypeOK, LoadFilesAndTransactions
  <1>2. log \in LogNames /\ logs[log] \in Seq(LogEntry)
    BY <1>1
  <1>3. before \in Maps
    BY <1>1 DEF Maps
  <1>4. /\ sizes' = loaded.sizes /\ restarts' = loaded.restarts
        /\ logs' = [logs EXCEPT ![log] = <<>>]
    BY DEF LoadFilesAndTransactions, RecoveryProviso
  <1>5. before.sizes = sizes
    OBVIOUS
  <1> HIDE DEF log, before
  <1>6. /\ loaded \in Maps
        /\ sizes'[f] >= sizes[f]
        /\ \A k \in 1..Len(logs[log]) :
             logs[log][k].file = f => sizes'[f] >= logs[log][k].size
        /\ \/ sizes'[f] = sizes[f]
           \/ \E k \in 1..Len(logs[log]) :
                logs[log][k].file = f /\ sizes'[f] = logs[log][k].size
    BY <1>2, <1>3, <1>4, <1>5, LoadSizes, LoadType
  <1> HIDE DEF loaded
  <1>7. /\ sizes' \in [Files -> Nat \cup {-1}]
        /\ restarts' \in [TxnIds -> Files \cup {None}]
    BY LoadTypes
  <1>8. ASSUME NEW n PROVE Logged(f, n)' => Logged(f, n)
    <2> SUFFICES ASSUME Logged(f, n)' PROVE Logged(f, n)
      OBVIOUS
    <2>1. PICK l \in LogNames : \E j \in 1..Len(logs'[l]) :
            logs'[l][j].file = f /\ logs'[l][j].size = n
      BY DEF Logged
    <2>2. l # log
      BY <1>1, <1>2, <1>4, <2>1
    <2> QED BY <1>1, <1>4, <2>1, <2>2 DEF Logged
  <1>9. ASSUME NEW n \in RecordedSizes(f)' PROVE n \in RecordedSizes(f)
    <2>1. CASE Logged(f, n)'
      BY <1>8, <2>1, RecordedAre
    <2>2. CASE n = sizes'[f] /\ n # -1
      BY <1>2, <1>6, <2>2, RecordedAre DEF Logged
    <2> QED BY <1>9, <2>1, <2>2, RecordedAre
  <1>10. ASSUME NEW n \in RecordedSizes(f) PROVE \E m \in RecordedSizes(f)' : m >= n
    <2>0. n \in Nat
      BY <1>1, RecordedNumbers DEF RecoveryInv, StateOK
    <2>1. CASE sizes'[f] >= n
      <3>1. sizes'[f] # -1
        BY <1>7, <2>0, <2>1
      <3> QED BY <2>1, <3>1, RecordedAre
    <2>2. CASE Logged(f, n)'
      BY <2>0, <2>2, RecordedAre
    <2>3. CASE Logged(f, n)
      <3>1. PICK l \in LogNames : \E j \in 1..Len(logs[l]) :
              logs[l][j].file = f /\ logs[l][j].size = n
        BY <2>3 DEF Logged
      <3>2. CASE l = log
        BY <1>6, <2>1, <3>1, <3>2
      <3>3. CASE l # log
        <4>1. logs'[l] = logs[l]
          BY <1>1, <1>4, <3>3
        <4> QED BY <2>2, <3>1, <4>1 DEF Logged
      <3> QED BY <3>2, <3>3
    <2>4. CASE n = sizes[f]
      BY <1>6, <2>1, <2>4
    <2> QED BY <1>10, <2>3, <2>4, RecordedAre
  <1> QED BY <1>9, <1>10

LEMMA LoadInv ==
  ASSUME RecoveryProviso, RecoveryInv, LoadFilesAndTransactions
  PROVE  RecoveryInv'
  <1> DEFINE log == Head(unread)
  <1>1. /\ mode = "loading" /\ unread # <<>> /\ unread \in Seq(LogNames)
        /\ logs \in [LogNames -> Seq(LogEntry)]
        /\ logs' = [logs EXCEPT ![log] = <<>>]
        /\ unread' = Tail(unread)
        /\ mode' = IF unread' = <<>> THEN "truncating" ELSE "loading"
        /\ UNCHANGED <<registryVars, entryVars, lockVars, disk, exists, failures,
                       threadVars, crashes, synced, historyVars>>
    BY DEF RecoveryInv, RecoveryTypes, StateOK, TypeOK, LoadFilesAndTransactions,
           RecoveryProviso
  <1>2. log \in LogNames /\ Tail(unread) \in Seq(LogNames)
    BY <1>1
  <1>3. logs' \in [LogNames -> Seq(LogEntry)]
    <2>1. <<>> \in Seq(LogEntry)
      OBVIOUS
    <2> QED BY <1>1, <1>2, <2>1
  <1>4. UNCHANGED <<txnMap, fileMap, commits, txn, buffers, maxSeq, expired, fileSize, timers,
                    fate, memberMtx, txnMtx, fileMtx, disk, exists, failures, pc, call, reply,
                    crashes, synced, official, officialIds, acked, survivors, powerFailed>>
    BY <1>1 DEF registryVars, entryVars, bufferVars, lockVars, threadVars, historyVars
  <1>5. StateOK'
    <2>1. TypeOK'
      BY <1>3, <1>4 DEF RecoveryInv, StateOK, TypeOK
    <2>2. EntriesOK' /\ \A w \in Workers : CallOK(w)'
      BY <1>4 DEF RecoveryInv, StateOK, EntriesOK, CallOK
    <2> QED BY <2>1, <2>2 DEF StateOK
  <1>6. RecoveryTypes'
    <2>1. /\ sizes' \in [Files -> Nat \cup {-1}]
          /\ restarts' \in [TxnIds -> Files \cup {None}]
      BY LoadTypes
    <2> QED BY <1>1, <1>2, <1>4, <2>1 DEF RecoveryInv, RecoveryTypes
  <1>14. ASSUME NEW l \in LogNames PROVE logs'[l] = <<>> \/ IsUnread(l)'
    <2>0. logs[l] = <<>> \/ IsUnread(l)
      BY <1>1 DEF RecoveryInv, PhaseOK
    <2>1. CASE l = log
      BY <1>1, <2>1
    <2>2. CASE l # log /\ logs[l] = <<>>
      BY <1>1, <2>2
    <2>3. CASE l # log /\ IsUnread(l)
      <3>1. PICK j \in 1..Len(unread) : unread[j] = l
        BY <2>3 DEF IsUnread
      <3>2. j # 1
        BY <1>1, <2>3, <3>1
      <3>3. j - 1 \in 1..Len(Tail(unread)) /\ Tail(unread)[j - 1] = l
        BY <1>1, <3>1, <3>2
      <3> QED BY <1>1, <3>3 DEF IsUnread
    <2> QED BY <2>0, <2>1, <2>2, <2>3
  <1>7. PhaseOK'
    <2>1. /\ \A id \in TxnIds : txnMap'[id] = None
          /\ \A f \in Files : fileMap'[f] = None
          /\ \A w \in Workers : pc'[w] = "idle"
      BY <1>1, <1>4 DEF RecoveryInv, PhaseOK
    <2>3. mode' # "up" /\ (mode' = "loading" <=> unread' # <<>>)
      BY <1>1
    <2>4. crashes' > 0
      BY <1>1, <1>4 DEF RecoveryInv, PhaseOK
    <2> QED BY <1>14, <2>1, <2>3, <2>4 DEF PhaseOK
  <1>8. SizesOK'
    <2> SUFFICES ASSUME NEW f \in Files
                 PROVE  /\ \A n \in RecordedSizes(f)' : n <= Len(official'[f])
                        /\ RecordedSizes(f)' # {} => Len(official'[f]) \in RecordedSizes(f)'
      BY DEF SizesOK
    <2>1. /\ RecordedSizes(f)' \subseteq RecordedSizes(f)
          /\ \A n \in RecordedSizes(f) : \E m \in RecordedSizes(f)' : m >= n
      BY LoadRecorded
    <2>2. /\ \A n \in RecordedSizes(f) : n <= Len(official[f]) /\ n \in Nat
          /\ RecordedSizes(f) # {} => Len(official[f]) \in RecordedSizes(f)
          /\ official' = official
      BY <1>4, RecordedNumbers DEF RecoveryInv, SizesOK, StateOK, RecoveryTypes
    <2> QED BY <2>1, <2>2
  <1>9. ContentsOK'
    <2>1. ASSUME NEW f \in Files
          PROVE  \/ Len(disk'[f]) = Len(official'[f])
                 \/ mode' = "loading" /\ RecordedSizes(f)' # {}
                 \/ mode' = "truncating" /\ sizes'[f] # -1
      <3>1. Len(disk[f]) = Len(official[f]) \/ RecordedSizes(f) # {}
        BY <1>1 DEF RecoveryInv, ContentsOK
      <3>2. RecordedSizes(f) # {} => RecordedSizes(f)' # {}
        BY LoadRecorded
      <3>3. CASE mode' = "truncating"
        <4>1. unread' = <<>>
          BY <1>1, <3>3
        <4>2. \A l \in LogNames : logs'[l] = <<>>
          <5>1. \A l \in LogNames : ~IsUnread(l)'
            BY <4>1 DEF IsUnread
          <5> QED BY <1>14, <5>1
        <4>3. \A n : ~Logged(f, n)'
          BY <4>2 DEF Logged
        <4>4. RecordedSizes(f)' # {} => sizes'[f] # -1
          BY <4>3, RecordedAre
        <4> QED BY <1>4, <3>1, <3>2, <3>3, <4>4
      <3>4. CASE mode' = "loading"
        BY <1>4, <3>1, <3>2, <3>4
      <3> QED BY <1>1, <3>3, <3>4
    <2>2. \A f \in Files : /\ Agrees(f)'
                           /\ Len(disk'[f]) < Len(official'[f]) => powerFailed'
                           /\ f \notin exists' => disk'[f] = <<>> /\ official'[f] = <<>>
      BY <1>4 DEF RecoveryInv, ContentsOK, Agrees
    <2>3. mode' # "up"
      BY <1>1
    <2> QED BY <2>1, <2>2, <2>3 DEF ContentsOK
  <1>10. /\ \A id \in TxnIds : txnMap'[id] = None
         /\ \A f \in Files : fileMap'[f] = None
         /\ \A w \in Workers : pc'[w] = "idle"
    BY <1>1, <1>4 DEF RecoveryInv, PhaseOK
  <1>11. FileAttributesShared' /\ AttributesNamed' /\ OpenRecorded' /\ FileSizesOK'
    BY <1>10 DEF FileAttributesShared, AttributesNamed, OpenRecorded, FileSizesOK
  <1>12. NeverExpired' /\ SyncedOK'
    BY <1>4 DEF RecoveryInv, NeverExpired, SyncedOK, AtCommitSize
  <1>13. WorkersOK'
    BY <1>10 DEF WorkersOK, CommitterOK, LiveCall, HoldsTxnMtx, UsesTxn
  <1> QED BY <1>5, <1>6, <1>7, <1>8, <1>9, <1>11, <1>12, <1>13 DEF RecoveryInv

-----------------------------------------------------------------------------
(* Truncating files and restarting transactions.                           *)

\* While files are truncated the logs are empty, so a size that is in the map
\* is where the last logged commit ends.
LEMMA SizesToCome ==
  ASSUME RecoveryInv, mode = "truncating", NEW f \in Files, sizes[f] # -1
  PROVE  /\ sizes # NoSizes
         /\ \A log \in LogNames : logs[log] = <<>>
         /\ sizes[f] = Len(official[f])
  <1>1. sizes # NoSizes
    BY DEF NoSizes
  <1>2. unread = <<>>
    BY DEF RecoveryInv, PhaseOK
  <1>3. \A log \in LogNames : logs[log] = <<>>
    BY <1>1, <1>2 DEF RecoveryInv, PhaseOK, IsUnread
  <1>4. \A n : n \in RecordedSizes(f) <=> n = sizes[f] /\ n # -1
    BY <1>3, RecordedAre DEF Logged
  <1>5. sizes[f] \in RecordedSizes(f)
    BY <1>4
  <1>6. Len(official[f]) \in RecordedSizes(f)
    BY <1>5 DEF RecoveryInv, SizesOK
  <1> QED BY <1>1, <1>3, <1>4, <1>6

LEMMA TruncateDisk ==
  ASSUME RecoveryInv, NEW f \in Files, TruncateFiles(f)
  PROVE  /\ disk' \in [Files -> Seq(Units)]
         /\ Len(disk'[f]) = Len(official[f])
         /\ \A j \in 1..Len(disk'[f]) :
              IF j <= Len(disk[f]) THEN disk'[f][j] = disk[f][j]
              ELSE disk'[f][j] = Nul /\ powerFailed
         /\ \A g \in Files \ {f} : disk'[g] = disk[g] /\ (g \in exists' <=> g \in exists)
         /\ exists' \subseteq Files
         /\ f \notin exists' => disk'[f] = <<>> /\ official[f] = <<>>
  <1>1. /\ mode = "truncating" /\ sizes[f] # -1 /\ disk \in [Files -> Seq(Units)]
        /\ disk[f] \in Seq(Units) /\ official[f] \in Seq(Units) /\ exists \subseteq Files
        /\ Len(disk[f]) \in Nat /\ Len(official[f]) \in Nat
    BY DEF RecoveryInv, RecoveryTypes, StateOK, TypeOK, TruncateFiles
  <1>2. sizes[f] = Len(official[f])
    BY <1>1, SizesToCome
  <1>3. /\ Len(disk[f]) < Len(official[f]) => powerFailed
        /\ f \notin exists => disk[f] = <<>> /\ official[f] = <<>>
    BY DEF RecoveryInv, ContentsOK
  <1>4. CASE /\ f \in exists /\ sizes[f] > 0
             /\ disk' = [disk EXCEPT ![f] = Truncate(@, sizes[f])]
             /\ UNCHANGED exists
    <2> DEFINE n == Len(official[f])
               t == Truncate(disk[f], n)
    <2>1. disk' = [disk EXCEPT ![f] = t]
      BY <1>2, <1>4
    <2>2. /\ t \in Seq(Units) /\ Len(t) = n
          /\ \A j \in 1..n : t[j] = IF j <= Len(disk[f]) THEN disk[f][j] ELSE Nul
      BY <1>1, TruncateIs
    <2> HIDE DEF t
    <2>3. disk' \in [Files -> Seq(Units)] /\ disk'[f] = t /\ \A g \in Files \ {f} : disk'[g] = disk[g]
      BY <1>1, <2>1, <2>2
    <2>4. \A j \in 1..n : IF j <= Len(disk[f]) THEN disk'[f][j] = disk[f][j]
                          ELSE disk'[f][j] = Nul /\ powerFailed
      <3> SUFFICES ASSUME NEW j \in 1..n
                   PROVE  IF j <= Len(disk[f]) THEN disk'[f][j] = disk[f][j]
                          ELSE disk'[f][j] = Nul /\ powerFailed
        OBVIOUS
      <3>1. CASE j <= Len(disk[f])
        BY <2>2, <2>3, <3>1
      <3>2. CASE ~(j <= Len(disk[f]))
        <4>1. Len(disk[f]) < n
          BY <1>1, <3>2
        <4> QED BY <1>3, <2>2, <2>3, <3>2, <4>1
      <3> QED BY <3>1, <3>2
    <2> QED BY <1>1, <1>4, <2>2, <2>3, <2>4
  <1>5. CASE /\ f \in exists /\ sizes[f] = 0
             /\ disk' = [disk EXCEPT ![f] = <<>>]
             /\ exists' = exists \ {f}
    <2>0. Len(official[f]) = 0
      BY <1>2, <1>5
    <2>1. official[f] = <<>>
      BY <1>1, <2>0
    <2>2. <<>> \in Seq(Units)
      OBVIOUS
    <2> QED BY <1>1, <1>5, <2>1, <2>2
  <1>6. CASE f \notin exists /\ UNCHANGED <<disk, exists>>
    BY <1>1, <1>3, <1>6
  <1> QED BY <1>4, <1>5, <1>6 DEF TruncateFiles

LEMMA TruncateInv ==
  ASSUME RecoveryProviso, RecoveryInv, NEW f \in Files, TruncateFiles(f)
  PROVE  RecoveryInv'
  <1>1. /\ mode = "truncating" /\ sizes[f] # -1
        /\ sizes' = [sizes EXCEPT ![f] = -1]
        /\ sizes \in [Files -> Nat \cup {-1}] /\ synced \in [Files -> Nat]
        /\ \A g \in Files : synced[g] <= Len(disk[g])
    BY DEF RecoveryInv, RecoveryTypes, TruncateFiles, SyncedOK
  <1>2. UNCHANGED <<txnMap, fileMap, commits, txn, buffers, maxSeq, expired, fileSize, timers,
                    fate, memberMtx, txnMtx, fileMtx, logs, failures, pc, call, reply, mode,
                    unread, restarts, crashes, official, officialIds, acked, survivors,
                    powerFailed>>
    BY DEF TruncateFiles, registryVars, entryVars, bufferVars, lockVars, threadVars, historyVars
  <1>3. /\ disk' \in [Files -> Seq(Units)]
        /\ Len(disk'[f]) = Len(official[f])
        /\ \A g \in Files \ {f} : disk'[g] = disk[g] /\ (g \in exists' <=> g \in exists)
        /\ exists' \subseteq Files
        /\ f \notin exists' => disk'[f] = <<>> /\ official[f] = <<>>
    BY TruncateDisk
  <1>4. /\ sizes # NoSizes
        /\ \A log \in LogNames : logs[log] = <<>>
        /\ sizes[f] = Len(official[f])
    BY <1>1, SizesToCome
  <1>5. StateOK'
    <2>1. TypeOK'
      BY <1>2, <1>3 DEF RecoveryInv, StateOK, TypeOK
    <2>2. EntriesOK' /\ \A w \in Workers : CallOK(w)'
      BY <1>2 DEF RecoveryInv, StateOK, EntriesOK, CallOK
    <2> QED BY <2>1, <2>2 DEF StateOK
  <1>6. /\ synced' \in [Files -> Nat]
        /\ \A g \in Files : synced'[g] <= Len(disk'[g])
    <2> DEFINE m == IF synced[f] = Len(disk[f]) THEN Len(disk'[f])
                    ELSE Min({synced[f], Len(disk'[f])})
    <2>1. synced' = [synced EXCEPT ![f] = m]
      BY DEF TruncateFiles
    <2>2. Len(disk'[f]) \in Nat /\ synced[f] \in Nat
      BY <1>1, <1>3
    <2>3. m \in Nat /\ m <= Len(disk'[f])
      <3>1. Min({synced[f], Len(disk'[f])}) \in Nat /\ Min({synced[f], Len(disk'[f])}) <= Len(disk'[f])
        BY <2>2, MinOfTwo
      <3> QED BY <2>2, <3>1
    <2> HIDE DEF m
    <2> QED BY <1>1, <1>3, <2>1, <2>3
  <1>7. RecoveryTypes'
    <2>1. sizes' \in [Files -> Nat \cup {-1}]
      BY <1>1
    <2> QED BY <1>2, <1>6, <2>1 DEF RecoveryInv, RecoveryTypes
  <1>8. /\ \A id \in TxnIds : txnMap'[id] = None
        /\ \A g \in Files : fileMap'[g] = None
        /\ \A w \in Workers : pc'[w] = "idle"
        /\ \A log \in LogNames : logs'[log] = <<>>
    BY <1>1, <1>2, <1>4 DEF RecoveryInv, PhaseOK
  <1>9. PhaseOK'
    BY <1>1, <1>2, <1>8 DEF RecoveryInv, PhaseOK
  <1>10. /\ \A n : n \notin RecordedSizes(f)'
         /\ \A g \in Files \ {f} : \A n : n \in RecordedSizes(g)' <=> n \in RecordedSizes(g)
    <2>1. /\ sizes'[f] = -1 /\ \A g \in Files \ {f} : sizes'[g] = sizes[g]
          /\ \A g, n : ~Logged(g, n) /\ ~Logged(g, n)'
      BY <1>1, <1>4, <1>8 DEF Logged
    <2> QED BY <2>1, RecordedAre
  <1>11. SizesOK'
    BY <1>2, <1>10 DEF RecoveryInv, SizesOK
  <1>12. ContentsOK'
    <2>1. \A g \in Files : Agrees(g)'
      <3>1. \A g \in Files \ {f} : Agrees(g)'
        BY <1>2, <1>3 DEF RecoveryInv, ContentsOK, Agrees
      <3>2. ASSUME NEW j \in 1..Len(disk'[f]), j <= Len(official[f])
            PROVE  disk'[f][j] = official[f][j] \/ (powerFailed /\ disk'[f][j] = Nul)
        <4>1. \/ j <= Len(disk[f]) /\ disk'[f][j] = disk[f][j]
              \/ disk'[f][j] = Nul /\ powerFailed
          BY TruncateDisk
        <4>2. j <= Len(disk[f]) => j \in 1..Len(disk[f])
          BY <1>3 DEF RecoveryInv, StateOK, TypeOK
        <4>3. Agrees(f)
          BY DEF RecoveryInv, ContentsOK
        <4> QED BY <3>2, <4>1, <4>2, <4>3 DEF Agrees
      <3>3. Agrees(f)'
        BY <1>2, <3>2 DEF Agrees
      <3> QED BY <3>1, <3>3
    <2>2. ASSUME NEW g \in Files
          PROVE  /\ Len(disk'[g]) < Len(official'[g]) => powerFailed'
                 /\ Len(disk'[g]) = Len(official'[g]) \/ sizes'[g] # -1
                 /\ g \notin exists' => disk'[g] = <<>> /\ official'[g] = <<>>
      <3>1. CASE g = f
        BY <1>2, <1>3, <3>1 DEF RecoveryInv, RecoveryTypes
      <3>2. CASE g # f
        <4>1. disk'[g] = disk[g] /\ sizes'[g] = sizes[g] /\ (g \in exists' <=> g \in exists)
          BY <1>1, <1>3, <3>2
        <4>2. /\ Len(disk[g]) < Len(official[g]) => powerFailed
              /\ Len(disk[g]) = Len(official[g]) \/ sizes[g] # -1
              /\ g \notin exists => disk[g] = <<>> /\ official[g] = <<>>
          BY <1>1 DEF RecoveryInv, ContentsOK
        <4> QED BY <1>2, <4>1, <4>2
      <3> QED BY <3>1, <3>2
    <2> QED BY <1>1, <1>2, <2>1, <2>2 DEF ContentsOK
  <1>13. FileAttributesShared' /\ AttributesNamed' /\ OpenRecorded' /\ FileSizesOK'
    BY <1>8 DEF FileAttributesShared, AttributesNamed, OpenRecorded, FileSizesOK
  <1>14. NeverExpired'
    BY <1>2 DEF RecoveryInv, NeverExpired
  <1>15. WorkersOK'
    BY <1>8 DEF WorkersOK, CommitterOK, LiveCall, HoldsTxnMtx, UsesTxn
  <1>16. SyncedOK'
    <2>1. crashes' # 0
      BY <1>1, <1>2 DEF RecoveryInv, PhaseOK, RecoveryTypes
    <2> QED BY <1>6, <2>1 DEF SyncedOK
  <1> QED BY <1>5, <1>7, <1>9, <1>11, <1>12, <1>13, <1>14, <1>15, <1>16 DEF RecoveryInv

\* A transaction that is added records a size only for a new FileAttributes
\* object, and that is the size of the file.
LEMMA AddFileSizes ==
  ASSUME StateOK, AttributesNamed, NEW f \in Files, NEW id, NEW h \in Handles,
         txn[h].id = None, AddNewTransaction(h, id, f),
         CwdIsDirectory, Len(disk[f]) = Len(official[f]), UNCHANGED official,
         \A g \in Files : fileMap[g] # None => fileSize[fileMap[g]] = Len(official[g])
  PROVE  FileSizesOK'
  <1>1. /\ fileMap \in [Files -> Handles \cup {None}] /\ fileSize \in [Handles -> Nat]
        /\ \A g \in Files : fileMap[g] # None => fileMap[g] # h
    BY DEF StateOK, TypeOK, AttributesNamed
  <1>2. CASE fileMap[f] = None
    <2>1. /\ fileMap' = [fileMap EXCEPT ![f] = h]
          /\ fileSize' = [fileSize EXCEPT ![h] = Len(disk[f])]
      BY <1>2 DEF AddNewTransaction, GetFileSize
    <2>2. fileSize'[h] = Len(disk[f]) /\ \A k \in Handles \ {h} : fileSize'[k] = fileSize[k]
      BY <1>1, <2>1
    <2>3. fileMap'[f] = h /\ \A g \in Files \ {f} : fileMap'[g] = fileMap[g]
      BY <1>1, <2>1
    <2>4. \A g \in Files : fileMap'[g] # None => fileSize'[fileMap'[g]] = Len(official'[g])
      BY <1>1, <2>2, <2>3
    <2> QED BY <2>4 DEF FileSizesOK
  <1>3. CASE fileMap[f] # None
    <2>1. fileMap' = [fileMap EXCEPT ![f] = fileMap[f]] /\ UNCHANGED fileSize
      BY <1>3 DEF AddNewTransaction
    <2>2. fileMap' = fileMap
      BY <1>1, <2>1
    <2> QED BY <2>1, <2>2 DEF FileSizesOK
  <1> QED BY <1>2, <1>3

LEMMA RestartInv ==
  ASSUME RecoveryProviso, RecoveryInv, NEW id \in TxnIds, NEW h \in Handles,
         RestartTransaction(id, h)
  PROVE  RecoveryInv'
  <1>f. PICK f : f = restarts[id]
    OBVIOUS
  <1>e. PICK e : e = [id |-> id, file |-> f, size |-> Len(disk[f])]
    OBVIOUS
  <1>1. /\ mode = "truncating" /\ sizes = NoSizes /\ f # None /\ txn[h].id = None
        /\ AddNewTransaction(h, id, f)
        /\ LogTransaction("transaction", id, f)
        /\ timers' = timers \cup {h}
        /\ restarts' = [restarts EXCEPT ![id] = None]
    BY <1>f DEF RestartTransaction
  <1>2. UNCHANGED <<commits, buffers, maxSeq, expired, fate, memberMtx, txnMtx, fileMtx, disk,
                    exists, pc, call, reply, mode, unread, sizes, crashes, synced, official,
                    officialIds, acked, survivors, powerFailed>>
    BY DEF RestartTransaction, bufferVars, lockVars, threadVars, historyVars
  <1>3. f \in Files /\ disk[f] \in Seq(Units) /\ StateOK /\ TypeOK /\ EntriesOK /\ RecoveryTypes
    BY <1>1, <1>f DEF RecoveryInv, RecoveryTypes, StateOK, TypeOK
  <1>4. /\ logs' = [logs EXCEPT !["transaction"] = Append(@, e)]
        /\ UNCHANGED failures
    BY <1>1, <1>e DEF LogTransaction, RecoveryProviso, Fails, GetFileSize
  <1>5. e \in LogEntry /\ "transaction" \in LogNames
    BY <1>3, <1>e DEF LogEntry, LogNames
  <1>6. \A g \in Files : Len(disk[g]) = Len(official[g])
    BY <1>1 DEF RecoveryInv, ContentsOK, NoSizes
  <1>7. /\ txnMap' \in [TxnIds -> Handles \cup {None}]
        /\ txnMap'[id] = h /\ \A i \in TxnIds \ {id} : txnMap'[i] = txnMap[i]
        /\ fileMap' \in [Files -> Handles \cup {None}]
        /\ fileSize' \in [Handles -> Nat]
        /\ txn' \in [Handles -> TransactionAttributes]
        /\ txn'[h].id = id /\ txn'[h].file = f /\ txn'[h].attrs \in Handles
        /\ \A k \in Handles \ {h} : txn'[k] = txn[k]
        /\ \A i \in TxnIds : txnMap[i] # h
    BY <1>1, <1>3, AddEntries
  <1>8. /\ \A w \in Workers : pc[w] = "idle" /\ pc'[w] = "idle"
        /\ txnMap[id] = None /\ unread = <<>> /\ crashes > 0
    BY <1>1, <1>2, <1>f DEF RecoveryInv, PhaseOK
  <1>9. /\ SizesOK'
        /\ \A g \in Files : RecordedSizes(g) \subseteq RecordedSizes(g)'
        /\ RecordedSizes(f)' # {}
    <2>1. e.size = Len(official'[e.file]) /\ e.size >= Len(official[e.file]) /\ e.file = f
      BY <1>2, <1>3, <1>6, <1>e
    <2> QED BY <1>2, <1>3, <1>4, <1>5, <2>1, SizesAppend DEF RecoveryInv, RecoveryTypes
  <1>10. StateOK'
    <2>1. TypeOK'
      <3>1. logs' \in [LogNames -> Seq(LogEntry)]
        BY <1>3, <1>4, <1>5 DEF TypeOK
      <3>2. timers' \subseteq Handles
        BY <1>1, <1>3 DEF TypeOK
      <3> QED BY <1>2, <1>3, <1>4, <1>7, <3>1, <3>2 DEF TypeOK
    <2>2. EntriesOK'
      <3>1. \A k \in Handles : txn'[k].id # None => txn'[k].file \in Files /\ txn'[k].attrs \in Handles
        BY <1>3, <1>7 DEF EntriesOK
      <3>2. \A i \in TxnIds : txnMap'[i] # None => txn'[txnMap'[i]].id = i
        <4>1. \A i \in TxnIds : txnMap[i] \in Handles \cup {None}
          BY <1>3 DEF TypeOK
        <4> QED BY <1>3, <1>7, <4>1 DEF EntriesOK
      <3>3. \A k \in timers' : txn'[k].id # None
        <4>1. timers \subseteq Handles /\ id # None
          BY <1>3, ConstantsAssumption DEF TypeOK
        <4> QED BY <1>1, <1>3, <1>7, <4>1 DEF EntriesOK
      <3> QED BY <3>1, <3>2, <3>3 DEF EntriesOK
    <2>3. \A w \in Workers : CallOK(w)'
      BY <1>2, <1>3, <1>8 DEF StateOK, CallOK, HoldsTxnMtx, UsesTxn
    <2> QED BY <2>1, <2>2, <2>3 DEF StateOK
  <1>11. RecoveryTypes'
    BY <1>1, <1>2, <1>3 DEF RecoveryTypes
  <1>12. PhaseOK'
    <2>1. \A i \in TxnIds : restarts'[i] = None \/ txnMap'[i] = None
      BY <1>1, <1>3, <1>7 DEF RecoveryInv, PhaseOK, RecoveryTypes
    <2> QED BY <1>1, <1>2, <1>8, <2>1 DEF PhaseOK
  <1>13. FileAttributesShared' /\ AttributesNamed'
    BY <1>1, <1>3, <1>8, AddShared DEF RecoveryInv
  <1>14. NeverExpired'
    BY <1>2 DEF RecoveryInv, NeverExpired
  <1>15. ContentsOK'
    <2>1. \A g \in Files : Agrees(g)' /\ (g \notin exists' => disk'[g] = <<>> /\ official'[g] = <<>>)
      BY <1>2 DEF RecoveryInv, ContentsOK, Agrees
    <2>2. \A g \in Files : Len(disk'[g]) = Len(official'[g]) /\ Len(disk'[g]) \in Nat
      BY <1>2, <1>6, <1>3, DiskType
    <2> QED BY <2>1, <2>2 DEF ContentsOK
  <1>16. WorkersOK'
    BY <1>8 DEF WorkersOK, CommitterOK, LiveCall, HoldsTxnMtx, UsesTxn
  <1>17. OpenRecorded'
    <2> SUFFICES ASSUME NEW i \in TxnIds, NEW g \in Files, txnMap'[i] # None,
                        txn'[txnMap'[i]].file = g
                 PROVE  RecordedSizes(g)' # {}
      BY DEF OpenRecorded
    <2>1. CASE i = id
      BY <1>7, <1>9, <2>1
    <2>2. CASE i # id
      <3>1. txnMap'[i] = txnMap[i] /\ txnMap[i] # None
        BY <1>7, <2>2
      <3>2. txnMap[i] \in Handles \ {h}
        BY <1>3, <1>7, <3>1, LiveEntry
      <3>3. txn[txnMap[i]].file = g
        BY <1>7, <3>1, <3>2
      <3>4. RecordedSizes(g) # {}
        BY <1>8, <3>1, <3>3 DEF RecoveryInv, OpenRecorded
      <3> QED BY <1>9, <3>4
    <2> QED BY <2>1, <2>2
  <1>18. FileSizesOK'
    <2>1. \A g \in Files : fileMap[g] # None => fileSize[fileMap[g]] = Len(official[g])
      BY <1>8 DEF RecoveryInv, FileSizesOK, AtCommitSize
    <2> QED BY <1>1, <1>2, <1>3, <1>6, <2>1, AddFileSizes DEF RecoveryInv, RecoveryProviso
  <1>19. SyncedOK'
    BY <1>2, <1>8 DEF RecoveryInv, SyncedOK, RecoveryTypes
  <1> QED BY <1>9, <1>10, <1>11, <1>12, <1>13, <1>14, <1>15, <1>16, <1>17, <1>18, <1>19
          DEF RecoveryInv

LEMMA InitializedInv ==
  ASSUME RecoveryInv, Initialized
  PROVE  RecoveryInv'
  <1>1. /\ mode = "truncating" /\ sizes = NoSizes /\ restarts = NoRestarts /\ mode' = "up"
        /\ UNCHANGED <<vars, unread, sizes, restarts, crashes, synced, official, officialIds,
                       acked, survivors, powerFailed>>
    BY DEF Initialized, loadVars, historyVars
  <1>2. UNCHANGED <<txnMap, fileMap, commits, txn, buffers, maxSeq, expired, fileSize, timers,
                    fate, memberMtx, txnMtx, fileMtx, disk, exists, logs, failures, pc, call,
                    reply>>
    BY <1>1 DEF vars, registryVars, entryVars, bufferVars, lockVars, diskVars, threadVars
  <1>3. StateOK'
    BY <1>1, StateStep DEF RecoveryInv
  <1>4. RecoveryTypes' /\ PhaseOK'
    BY <1>1, <1>2 DEF RecoveryInv, RecoveryTypes, PhaseOK, IsUnread
  <1>5. FileAttributesShared' /\ AttributesNamed' /\ NeverExpired'
    BY <1>2 DEF RecoveryInv, FileAttributesShared, AttributesNamed, NeverExpired
  <1>6. \A f \in Files : RecordedSizes(f)' = RecordedSizes(f)
    BY <1>1, <1>2, RecordedKept
  <1>7. SizesOK' /\ OpenRecorded'
    <2>1. SizesOK'
      BY <1>1, <1>6 DEF RecoveryInv, SizesOK
    <2>2. \A id \in TxnIds : txnMap[id] # None => txn[txnMap[id]].file \in Files
      BY LiveEntry DEF RecoveryInv
    <2> QED BY <1>2, <1>6, <2>1, <2>2 DEF RecoveryInv, OpenRecorded
  <1>8. ContentsOK'
    <2>1. \A f \in Files : Len(disk[f]) = Len(official[f])
      BY <1>1 DEF RecoveryInv, ContentsOK, NoSizes
    <2>2. \A f \in Files : Len(disk[f]) \in Nat
      BY DiskType DEF RecoveryInv, StateOK
    <2> QED BY <1>1, <1>2, <2>1, <2>2 DEF RecoveryInv, ContentsOK, Agrees
  <1>9. WorkersOK'
    BY <1>1, <1>2 DEF RecoveryInv, WorkersOK, CommitterOK, LiveCall, Written
  <1>10. FileSizesOK' /\ SyncedOK'
    BY <1>1, <1>2 DEF RecoveryInv, FileSizesOK, SyncedOK, AtCommitSize
  <1> QED BY <1>3, <1>4, <1>5, <1>7, <1>8, <1>9, <1>10 DEF RecoveryInv

-----------------------------------------------------------------------------
(* Steps of the running server.                                            *)

\* What every such step has in common.
LEMMA ServeParts ==
  ASSUME RecoveryInv, Serve
  PROVE  /\ mode = "up" /\ mode' = "up" /\ Next
         /\ UNCHANGED <<unread, sizes, restarts, crashes, survivors, powerFailed>>
         /\ StateOK /\ StateOK' /\ TypeOK /\ TypeOK'
         /\ FileAttributesShared' /\ AttributesNamed' /\ PhaseOK'
         /\ acked' \subseteq TxnIds \cup {None}
  <1>1. /\ mode = "up" /\ mode' = "up" /\ Next
        /\ UNCHANGED <<unread, sizes, restarts, crashes, survivors, powerFailed>>
    BY DEF Serve, loadVars
  <1>2. StateOK /\ FileAttributesShared /\ AttributesNamed
    BY DEF RecoveryInv
  <1>3. StateOK'
    BY <1>1, <1>2, StateStep
  <1>4. FileAttributesShared' /\ AttributesNamed'
    BY <1>1, <1>2, SharedInductive
  <1>5. PhaseOK'
    <2>1. /\ unread = <<>> /\ sizes = NoSizes
          /\ \A id \in TxnIds : restarts[id] = None
          /\ restarts = NoRestarts
      BY <1>1 DEF RecoveryInv, PhaseOK, NoRestarts
    <2> QED BY <1>1, <2>1 DEF PhaseOK
  <1>6. acked' \subseteq TxnIds \cup {None}
    <2>1. reply' \in Replies
      BY <1>3 DEF StateOK, TypeOK
    <2>2. reply'.id \in TxnIds \cup {None}
      BY <2>1 DEF Replies
    <2> QED BY <2>2 DEF RecoveryInv, RecoveryTypes, Serve
  <1> QED BY <1>1, <1>2, <1>3, <1>4, <1>5, <1>6 DEF StateOK

LEMMA ServeSynced ==
  ASSUME RecoveryInv, Serve, NEW f \in Files
  PROVE  /\ synced' \in [Files -> Nat]
         /\ synced'[f] <= Len(disk'[f])
         /\ synced'[f] \in {synced[f], Len(disk'[f])}
         /\ Closes(f) => synced'[f] = Len(disk'[f])
  <1>1. ASSUME NEW g \in Files
        PROVE  /\ synced'[g] \in Nat
               /\ synced'[g] <= Len(disk'[g])
               /\ synced'[g] \in {synced[g], Len(disk'[g])}
               /\ Closes(g) => synced'[g] = Len(disk'[g])
    <2>1. synced'[g] = Synced(g)
      BY DEF Serve
    <2>2. synced[g] \in Nat
      BY DEF RecoveryInv, RecoveryTypes
    <2>3. Len(disk'[g]) \in Nat
      BY ServeParts DEF TypeOK
    <2>4. CASE Closes(g)
      BY <2>1, <2>3, <2>4 DEF Synced
    <2>5. CASE ~Closes(g)
      <3>1. synced'[g] = Min({synced[g], Len(disk'[g])})
        BY <2>1, <2>5 DEF Synced
      <3> QED BY <2>2, <2>3, <2>5, <3>1, MinOfTwo
    <2> QED BY <2>4, <2>5
  <1>2. synced' = [g \in Files |-> synced'[g]]
    BY DEF Serve
  <1> QED BY <1>1, <1>2

\* Only CommitLog makes a commit official.
LEMMA NothingOfficial ==
  ASSUME RecoveryInv, Serve,
         \/ UNCHANGED logs
         \/ \A w \in Workers : pc[w] # "CommitLog"
  PROVE  UNCHANGED <<official, officialIds>>
  <1>1. \A w \in Workers : ~BecomesOfficial(w)
    <2>1. Len(logs["commit"]) \in Nat
      BY DEF RecoveryInv, StateOK, TypeOK, LogNames
    <2> QED BY <2>1 DEF BecomesOfficial
  <1> QED BY <1>1 DEF Serve

\* A running server has no file that is too short.
FileOK(f) ==
  /\ Agrees(f)
  /\ Len(disk[f]) >= Len(official[f])
  /\ f \notin exists => disk[f] = <<>> /\ official[f] = <<>>

LEMMA FilesOKUp ==
  ASSUME RecoveryInv, mode = "up", NEW f \in Files
  PROVE  /\ FileOK(f)
         /\ Len(disk[f]) = Len(official[f]) \/ \E w \in Workers : CommitsTo(w, f)
         /\ Len(disk[f]) \in Nat /\ Len(official[f]) \in Nat
  <1>1. Len(disk[f]) \in Nat /\ Len(official[f]) \in Nat
    BY DEF RecoveryInv, StateOK, TypeOK, RecoveryTypes
  <1> QED BY <1>1 DEF RecoveryInv, ContentsOK, FileOK

LEMMA ContentsNext ==
  ASSUME mode' = "up",
         \A f \in Files :
           /\ FileOK(f)' /\ Len(disk'[f]) \in Nat /\ Len(official'[f]) \in Nat
           /\ Len(disk'[f]) = Len(official'[f]) \/ \E w \in Workers : CommitsTo(w, f)'
  PROVE  ContentsOK'
  BY DEF ContentsOK, FileOK

\* What is left to show of a step of the server.
LEMMA ServeAll ==
  ASSUME RecoveryInv, Serve, official' \in [Files -> Seq(Units)], officialIds' \subseteq TxnIds,
         NeverExpired', SizesOK', WorkersOK', OpenRecorded', FileSizesOK',
         \A f \in Files :
           /\ FileOK(f)'
           /\ Len(disk'[f]) = Len(official'[f]) \/ \E w \in Workers : CommitsTo(w, f)'
           /\ crashes' = 0 => synced'[f] >= Len(official'[f]) \/ AtCommitSize(f)'
  PROVE  RecoveryInv'
  <1>1. /\ mode' = "up"
        /\ UNCHANGED <<unread, sizes, restarts, crashes, survivors, powerFailed>>
        /\ StateOK' /\ TypeOK' /\ FileAttributesShared' /\ AttributesNamed' /\ PhaseOK'
        /\ acked' \subseteq TxnIds \cup {None}
    BY ServeParts
  <1>2. \A f \in Files : Len(disk'[f]) \in Nat /\ Len(official'[f]) \in Nat
    BY <1>1 DEF TypeOK
  <1>3. ContentsOK'
    BY <1>1, <1>2, ContentsNext
  <1>4. SyncedOK'
    BY ServeSynced DEF SyncedOK
  <1>5. synced' \in [Files -> Nat]
    <2>1. synced' = [f \in Files |-> synced'[f]]
      BY DEF Serve
    <2>2. \A f \in Files : synced'[f] \in Nat
      BY ServeSynced
    <2> QED BY <2>1, <2>2
  <1>6. RecoveryTypes'
    BY <1>1, <1>5 DEF RecoveryInv, RecoveryTypes
  <1> QED BY <1>1, <1>3, <1>4, <1>6 DEF RecoveryInv

\* A file whose contents and commits stay stays as it is.
LEMMA FileKept ==
  ASSUME RecoveryInv, Serve, NEW f \in Files,
         disk'[f] = disk[f], official'[f] = official[f], f \in exists => f \in exists'
  PROVE  FileOK(f)'
  BY FilesOKUp, ServeParts DEF FileOK, Agrees

LEMMA SyncedKept ==
  ASSUME RecoveryInv, Serve, NEW f \in Files, official'[f] = official[f],
         Len(disk'[f]) >= Len(official[f]), crashes' = 0,
         AtCommitSize(f) => AtCommitSize(f)' \/ Closes(f)
  PROVE  synced'[f] >= Len(official'[f]) \/ AtCommitSize(f)'
  <1>1. synced'[f] \in {synced[f], Len(disk'[f])} /\ (Closes(f) => synced'[f] = Len(disk'[f]))
    BY ServeSynced
  <1>2. crashes = 0
    BY ServeParts
  <1>3. synced[f] >= Len(official[f]) \/ AtCommitSize(f)
    BY <1>2 DEF RecoveryInv, SyncedOK
  <1> QED BY <1>1, <1>3

CommitPlaces == HoldsFileMtx \cup {"CommitRollback", "CommitTruncate"}

\* A step that changes neither files nor logs nor the transaction map, and in
\* which no COMMIT enters or leaves the part that works on a file.
LEMMA CalmInv ==
  ASSUME RecoveryInv, Serve, NeverExpired',
         UNCHANGED <<disk, exists, logs, txnMap, fileMap, txn, fileSize, official, officialIds>>,
         \A w \in Workers :
           \/ pc'[w] = pc[w] /\ call'[w] = call[w] /\ UNCHANGED maxSeq
           \/ /\ pc[w] \notin CommitPlaces \cup {"NewTxnLog"}
              /\ pc'[w] \notin CommitPlaces \cup {"NewTxnLog"}
              /\ LiveCall(w)'
  PROVE  RecoveryInv'
  <1>1. official' \in [Files -> Seq(Units)] /\ officialIds' \subseteq TxnIds
    BY DEF RecoveryInv, RecoveryTypes
  <1>2. UNCHANGED sizes
    BY ServeParts
  <1>3. \A f \in Files : RecordedSizes(f)' = RecordedSizes(f)
    BY <1>2, RecordedKept
  <1>4. SizesOK'
    BY <1>3 DEF RecoveryInv, SizesOK
  <1>5. \A f \in Files : AtCommitSize(f) => AtCommitSize(f)'
    BY DEF AtCommitSize, CommitPlaces, HoldsFileMtx
  <1>6. WorkersOK'
    <2> SUFFICES ASSUME NEW w \in Workers PROVE CommitterOK(w)' /\ LiveCall(w)'
      BY DEF WorkersOK
    <2>1. CASE pc'[w] = pc[w] /\ call'[w] = call[w] /\ UNCHANGED maxSeq
      <3>1. CommitterOK(w) /\ LiveCall(w)
        BY DEF RecoveryInv, WorkersOK
      <3>2. Written(w)' = Written(w)
        BY <2>1 DEF Written
      <3>3. CommitterOK(w)'
        BY <2>1, <3>1, <3>2 DEF CommitterOK
      <3>4. LiveCall(w)'
        BY <2>1, <3>1 DEF LiveCall
      <3> QED BY <3>3, <3>4
    <2>2. CASE pc'[w] \notin CommitPlaces /\ LiveCall(w)'
      BY <2>2 DEF CommitterOK, CommitPlaces, HoldsFileMtx
    <2> QED BY <2>1, <2>2
  <1>7. OpenRecorded'
    BY <1>3 DEF RecoveryInv, OpenRecorded
  <1>8. FileSizesOK'
    BY <1>5 DEF RecoveryInv, FileSizesOK
  <1>9. ASSUME NEW f \in Files
        PROVE  /\ FileOK(f)'
               /\ Len(disk'[f]) = Len(official'[f]) \/ \E w \in Workers : CommitsTo(w, f)'
               /\ crashes' = 0 => synced'[f] >= Len(official'[f]) \/ AtCommitSize(f)'
    <2>1. /\ FileOK(f)
          /\ Len(disk[f]) = Len(official[f]) \/ \E w \in Workers : CommitsTo(w, f)
      BY FilesOKUp, ServeParts
    <2>2. FileOK(f)'
      BY FileKept
    <2>3. \A w \in Workers : CommitsTo(w, f) => CommitsTo(w, f)'
      BY DEF CommitsTo, CommitPlaces
    <2>4. crashes' = 0 => synced'[f] >= Len(official'[f]) \/ AtCommitSize(f)'
      BY <1>5, <2>1, SyncedKept DEF FileOK
    <2> QED BY <2>1, <2>2, <2>3, <2>4
  <1> QED BY <1>1, <1>4, <1>6, <1>7, <1>8, <1>9, ServeAll

\* With one thread, nobody commits to a file that it does not commit to.
LEMMA QuietFile ==
  ASSUME RecoveryProviso, RecoveryInv, Serve, NEW w \in Workers, NEW f \in Files,
         ~CommitsTo(w, f), disk'[f] = disk[f], official'[f] = official[f],
         f \in exists => f \in exists'
  PROVE  /\ FileOK(f)'
         /\ Len(disk'[f]) = Len(official'[f])
         /\ crashes' = 0 => synced'[f] >= Len(official'[f]) \/ AtCommitSize(f)'
  <1>1. \A v \in Workers : v = w
    BY DEF RecoveryProviso
  <1>2. ~AtCommitSize(f)
    BY <1>1 DEF AtCommitSize, CommitsTo, HoldsFileMtx
  <1>3. Len(disk[f]) = Len(official[f]) /\ Len(disk[f]) \in Nat
    BY <1>1, FilesOKUp, ServeParts
  <1> QED BY <1>2, <1>3, FileKept, SyncedKept

LEMMA SoloWorkers ==
  ASSUME RecoveryProviso, NEW w \in Workers, CommitterOK(w)', LiveCall(w)'
  PROVE  WorkersOK'
  BY DEF RecoveryProviso, WorkersOK

\* What is left to show of a step of COMMIT up to CommitLog.
LEMMA CommitInv ==
  ASSUME RecoveryProviso, RecoveryInv, Serve, NEW w \in Workers, NEW f \in Files,
         pc[w] \in (CommitPlaces \cup {"CommitOpen"}) \ {"CommitSize"},
         f = txn[call[w].h].file,
         UNCHANGED <<logs, txnMap, fileMap, txn, fileSize, expired>>,
         exists \subseteq exists', \A g \in Files \ {f} : disk'[g] = disk[g],
         UNCHANGED official => FileOK(f)',
         UNCHANGED official => Len(disk'[f]) = Len(official'[f]) \/ CommitsTo(w, f)',
         UNCHANGED official => CommitterOK(w)',
         LiveCall(w)'
  PROVE  RecoveryInv'
  <1>1. UNCHANGED <<official, officialIds>>
    BY NothingOfficial
  <1>2. \A v \in Workers : v = w
    BY DEF RecoveryProviso
  <1>3. UNCHANGED <<sizes, crashes>>
    BY ServeParts
  <1>4. \A g \in Files : RecordedSizes(g)' = RecordedSizes(g)
    BY <1>3, RecordedKept
  <1>5. SizesOK'
    BY <1>1, <1>4 DEF RecoveryInv, SizesOK
  <1>6. WorkersOK'
    BY <1>1, SoloWorkers
  <1>7. OpenRecorded'
    <2>1. \A v \in Workers : pc[v] # "NewTxnLog"
      BY <1>2 DEF CommitPlaces, HoldsFileMtx
    <2> QED BY <1>4, <2>1 DEF RecoveryInv, OpenRecorded
  <1>8. \A g \in Files : ~AtCommitSize(g)
    BY <1>2 DEF AtCommitSize
  <1>9. FileSizesOK'
    BY <1>1, <1>8 DEF RecoveryInv, FileSizesOK
  <1>10. NeverExpired'
    BY DEF RecoveryInv, NeverExpired
  <1>11. official' \in [Files -> Seq(Units)] /\ officialIds' \subseteq TxnIds
    BY <1>1 DEF RecoveryInv, RecoveryTypes
  <1>12. ASSUME NEW g \in Files
         PROVE  /\ FileOK(g)'
                /\ Len(disk'[g]) = Len(official'[g]) \/ \E v \in Workers : CommitsTo(v, g)'
                /\ crashes' = 0 => synced'[g] >= Len(official'[g]) \/ AtCommitSize(g)'
    <2>1. CASE g = f
      <3>1. FileOK(f)'
        BY <1>1
      <3>2. Len(disk'[f]) >= Len(official[f])
        BY <1>1, <3>1 DEF FileOK
      <3> QED BY <1>1, <1>8, <2>1, <3>1, <3>2, SyncedKept
    <2>2. CASE g # f
      <3>1. ~CommitsTo(w, g)
        BY <2>2 DEF CommitsTo
      <3> QED BY <1>1, <2>2, <3>1, QuietFile
    <2> QED BY <2>1, <2>2
  <1> QED BY <1>5, <1>6, <1>7, <1>9, <1>10, <1>11, <1>12, ServeAll

\* The transaction of a command function that has its mutex.
LEMMA CommitFacts ==
  ASSUME RecoveryInv, NEW w \in Workers, pc[w] \in HoldsTxnMtx
  PROVE  /\ call[w].h \in Handles /\ call[w].id \in TxnIds
         /\ txn[call[w].h].file \in Files /\ txn[call[w].h].attrs \in Handles
         /\ txnMap[call[w].id] = call[w].h
         /\ fileMap[txn[call[w].h].file] = txn[call[w].h].attrs
         /\ CommitterOK(w) /\ maxSeq[call[w].h] \in Int /\ call[w].i \in Int
         /\ disk[txn[call[w].h].file] \in Seq(Units)
         /\ official[txn[call[w].h].file] \in Seq(Units)
  <1>1. StateOK /\ TypeOK /\ FileAttributesShared /\ CommitterOK(w) /\ LiveCall(w)
    BY DEF RecoveryInv, StateOK, WorkersOK
  <1>2. /\ call[w].h \in Handles /\ call[w].id \in TxnIds
        /\ txn[call[w].h].file \in Files /\ txn[call[w].h].attrs \in Handles
    BY <1>1, CallEntry
  <1>3. txnMap[call[w].id] = call[w].h
    BY <1>1 DEF LiveCall
  <1>4. call[w].h # None
    BY <1>2, ConstantsAssumption
  <1>5. fileMap[txn[call[w].h].file] = txn[call[w].h].attrs
    BY <1>1, <1>2, <1>3, <1>4 DEF FileAttributesShared
  <1>6. call[w] \in Calls /\ maxSeq[call[w].h] \in Int
    BY <1>1, <1>2 DEF TypeOK
  <1>7. call[w].i \in Int
    BY <1>6 DEF Calls
  <1>8. /\ disk[txn[call[w].h].file] \in Seq(Units)
        /\ official[txn[call[w].h].file] \in Seq(Units)
    BY <1>1, <1>2 DEF TypeOK, RecoveryInv, RecoveryTypes
  <1> QED BY <1>1, <1>2, <1>3, <1>5, <1>6, <1>7, <1>8

\* The loop variable is set, the rest of the call stays.
LEMMA SetI ==
  ASSUME TypeOK, NEW w \in Workers, NEW n, call' = [call EXCEPT ![w].i = n]
  PROVE  /\ call'[w].i = n /\ call'[w].h = call[w].h /\ call'[w].id = call[w].id
  BY DEF TypeOK, Calls

\* A step after which the thread is idle and nothing but its own variables has
\* changed.
LEMMA CalmReturn ==
  ASSUME RecoveryProviso, RecoveryInv, Serve, NeverExpired', NEW w \in Workers,
         pc[w] \notin CommitPlaces \cup {"NewTxnLog"}, pc'[w] = "idle",
         UNCHANGED <<disk, exists, logs, txnMap, fileMap, txn, fileSize>>
  PROVE  RecoveryInv'
  <1>1. UNCHANGED <<official, officialIds>>
    BY NothingOfficial
  <1>2. LiveCall(w)'
    BY DEF LiveCall, HoldsTxnMtx, UsesTxn
  <1>3. pc'[w] \notin CommitPlaces \cup {"NewTxnLog"}
    BY DEF CommitPlaces, HoldsFileMtx
  <1>4. \A v \in Workers : v = w
    BY DEF RecoveryProviso
  <1> QED BY <1>1, <1>2, <1>3, <1>4, CalmInv

LEMMA CommitOpenInv ==
  ASSUME RecoveryProviso, RecoveryInv, Serve, NEW w \in Workers, CommitOpen(w)
  PROVE  RecoveryInv'
  <1>h. PICK h : h = call[w].h
    OBVIOUS
  <1>f. PICK f : f = txn[h].file
    OBVIOUS
  <1>1. /\ pc[w] = "CommitOpen"
        /\ UNCHANGED <<txnMap, fileMap, txn, buffers, maxSeq, expired, fileSize, disk, logs>>
    BY DEF CommitOpen, registryVars, entryVars, bufferVars
  <1>2. pc[w] \in HoldsTxnMtx /\ pc[w] \notin CommitPlaces \cup {"NewTxnLog", "CommitSize"}
    BY <1>1 DEF HoldsTxnMtx, CommitPlaces, HoldsFileMtx
  <1>3. /\ h \in Handles /\ call[w].id \in TxnIds /\ f \in Files
        /\ txnMap[call[w].id] = h /\ disk[f] \in Seq(Units) /\ official[f] \in Seq(Units)
    BY <1>2, <1>h, <1>f, CommitFacts
  <1>4. TypeOK
    BY DEF RecoveryInv, StateOK
  <1>5. CASE /\ exists' = exists \cup {f}
             /\ pc' = [pc EXCEPT ![w] = "CommitWrite"]
             /\ call' = [call EXCEPT ![w].i = 1]
    <2>1. call'[w].i = 1 /\ call'[w].h = h /\ call'[w].id = call[w].id /\ pc'[w] = "CommitWrite"
      BY <1>4, <1>5, <1>h, SetI DEF TypeOK
    <2>2. ~CommitsTo(w, f)
      BY <1>2 DEF CommitsTo, CommitPlaces
    <2>3. FileOK(f) /\ Len(disk[f]) = Len(official[f])
      <3>1. \A v \in Workers : v = w
        BY DEF RecoveryProviso
      <3> QED BY <1>3, <2>2, <3>1, FilesOKUp, ServeParts
    <2>4. LiveCall(w)'
      BY <1>1, <1>3, <2>1 DEF LiveCall
    <2>5. UNCHANGED official => FileOK(f)'
      BY <1>1, <1>5, <2>3, ServeParts DEF FileOK, Agrees
    <2>6. CommitsTo(w, f)'
      BY <1>1, <1>f, <2>1 DEF CommitsTo, HoldsFileMtx
    <2>7. ASSUME UNCHANGED official PROVE CommitterOK(w)'
      <3>1. Written(w)' = 0
        BY <2>1 DEF Written
      <3>2. /\ f \in exists' /\ Len(disk'[f]) = Len(official'[f]) + 0
            /\ \A j \in 1..0 : disk'[f][Len(official'[f]) + j] = <<h, j>>
        BY <1>1, <1>3, <1>5, <2>3, <2>7
      <3>3. txn'[call'[w].h].file = f
        BY <1>1, <1>f, <2>1
      <3> QED BY <2>1, <3>1, <3>2, <3>3 DEF CommitterOK
    <2>8. exists \subseteq exists'
      BY <1>5
    <2> QED BY <1>1, <1>3, <1>h, <1>f, <2>4, <2>5, <2>6, <2>7, <2>8, CommitInv
  <1>6. CASE Answer(w, "ErrorOpeningFile") /\ UNCHANGED exists
    <2>1. pc'[w] = "idle"
      BY <1>4, <1>6 DEF Answer, Return, TypeOK
    <2>2. NeverExpired'
      BY <1>1 DEF RecoveryInv, NeverExpired
    <2> QED BY <1>1, <1>2, <1>6, <2>1, <2>2, CalmReturn
  <1> QED BY <1>5, <1>6, <1>h, <1>f DEF CommitOpen

LEMMA CommitWriteInv ==
  ASSUME RecoveryProviso, RecoveryInv, Serve, NEW w \in Workers, CommitWrite(w)
  PROVE  RecoveryInv'
  <1>h. PICK h : h = call[w].h
    OBVIOUS
  <1>f. PICK f : f = txn[h].file
    OBVIOUS
  <1>n. PICK n : n = Len(official[f])
    OBVIOUS
  <1>i. PICK i : i = call[w].i
    OBVIOUS
  <1>m. PICK m : m = maxSeq[h]
    OBVIOUS
  <1>1. /\ pc[w] = "CommitWrite" /\ i <= m
        /\ UNCHANGED <<txnMap, fileMap, txn, buffers, maxSeq, expired, fileSize, exists, logs>>
    BY <1>h, <1>i, <1>m DEF CommitWrite, registryVars, entryVars, bufferVars
  <1>2. pc[w] \in HoldsTxnMtx /\ pc[w] \in CommitPlaces \ {"CommitSize"}
    BY <1>1 DEF HoldsTxnMtx, CommitPlaces, HoldsFileMtx
  <1>3. /\ h \in Handles /\ call[w].id \in TxnIds /\ f \in Files
        /\ txnMap[call[w].id] = h /\ disk[f] \in Seq(Units) /\ official[f] \in Seq(Units)
        /\ i \in Int /\ m \in Int /\ CommitterOK(w)
    BY <1>2, <1>h, <1>f, <1>i, <1>m, CommitFacts
  <1>4. TypeOK
    BY DEF RecoveryInv, StateOK
  <1>5. /\ i - 1 \in Nat /\ f \in exists /\ n \in Nat
        /\ Len(disk[f]) = n + (i - 1)
        /\ \A j \in 1..(i - 1) : disk[f][n + j] = <<h, j>>
    <2>1. Written(w) = i - 1
      BY <1>1, <1>i DEF Written
    <2>2. /\ f \in exists /\ Written(w) \in Nat
          /\ Len(disk[f]) = n + Written(w)
          /\ \A j \in 1..Written(w) : disk[f][n + j] = <<h, j>>
      BY <1>1, <1>3, <1>h, <1>f, <1>n DEF CommitterOK
    <2>3. n \in Nat
      BY <1>3, <1>n
    <2> QED BY <2>1, <2>2, <2>3
  <1>6. FileOK(f)
    BY <1>3, FilesOKUp, ServeParts
  <1>7. CASE /\ disk' = [disk EXCEPT ![f] = Append(@, <<h, i>>)]
             /\ pc' = [pc EXCEPT ![w] = IF i < m THEN "CommitWrite" ELSE "CommitInsert"]
             /\ call' = [call EXCEPT ![w].i = i + 1]
    <2>1. call'[w].i = i + 1 /\ call'[w].h = h /\ call'[w].id = call[w].id
      BY <1>4, <1>7, <1>h, SetI
    <2>2. pc'[w] = IF i < m THEN "CommitWrite" ELSE "CommitInsert"
      BY <1>4, <1>7 DEF TypeOK
    <2>3. /\ disk'[f] = Append(disk[f], <<h, i>>)
          /\ \A g \in Files \ {f} : disk'[g] = disk[g]
      BY <1>3, <1>4, <1>7 DEF TypeOK
    <2>4. /\ Len(disk'[f]) = n + i
          /\ \A j \in 1..Len(disk[f]) : disk'[f][j] = disk[f][j]
          /\ disk'[f][n + i] = <<h, i>>
      <3>1. <<h, i>> \in Units
        BY <1>3 DEF Units
      <3>2. /\ Len(disk'[f]) = Len(disk[f]) + 1
            /\ \A j \in 1..Len(disk[f]) : disk'[f][j] = disk[f][j]
            /\ disk'[f][Len(disk[f]) + 1] = <<h, i>>
        BY <1>3, <2>3, <3>1
      <3>3. Len(disk[f]) + 1 = n + i
        BY <1>3, <1>5
      <3> QED BY <3>2, <3>3
    <2>5. LiveCall(w)'
      BY <1>1, <1>3, <2>1, <2>2 DEF LiveCall
    <2>6. ASSUME UNCHANGED official PROVE FileOK(f)'
      <3>1. Agrees(f)'
        <4> SUFFICES ASSUME NEW j \in 1..Len(disk'[f]), j <= n
                     PROVE  disk'[f][j] = official[f][j] \/ (powerFailed /\ disk'[f][j] = Nul)
          BY <1>n, <2>6, ServeParts DEF Agrees
        <4>1. j \in 1..Len(disk[f])
          BY <1>5, <2>4
        <4> QED BY <1>6, <1>n, <2>4, <4>1 DEF FileOK, Agrees
      <3>2. Len(disk'[f]) >= Len(official'[f])
        <4>1. Len(official'[f]) = n
          BY <1>n, <2>6
        <4>2. n + i >= n
          BY <1>3, <1>5
        <4> QED BY <2>4, <4>1, <4>2
      <3> QED BY <1>1, <1>5, <3>1, <3>2 DEF FileOK
    <2>7. CommitsTo(w, f)'
      BY <1>1, <1>f, <2>1, <2>2 DEF CommitsTo, HoldsFileMtx
    <2>8. ASSUME UNCHANGED official PROVE CommitterOK(w)'
      <3>1. Written(w)' = i
        BY <1>1, <1>3, <1>m, <2>1, <2>2 DEF Written
      <3>2. ASSUME NEW j \in 1..i PROVE disk'[f][n + j] = <<h, j>>
        <4>1. CASE j = i
          BY <2>4, <4>1
        <4>2. CASE j # i
          <5>1. j \in 1..(i - 1) /\ n + j \in 1..Len(disk[f])
            BY <1>3, <1>5, <4>2
          <5> QED BY <1>5, <2>4, <5>1
        <4> QED BY <4>1, <4>2
      <3>3. txn'[call'[w].h].file = f /\ Len(official'[f]) = n /\ i \in Nat
        BY <1>1, <1>3, <1>5, <1>f, <1>n, <2>1, <2>8
      <3> QED BY <1>1, <1>5, <2>1, <2>2, <2>4, <3>1, <3>2, <3>3 DEF CommitterOK
    <2> QED BY <1>1, <1>2, <1>3, <1>h, <1>f, <2>3, <2>5, <2>6, <2>7, <2>8, CommitInv
  <1>8. CASE Goto(w, "CommitRollback") /\ UNCHANGED disk
    <2>1. pc'[w] = "CommitRollback" /\ call'[w] = call[w]
      BY <1>4, <1>8, GotoCall
    <2>2. LiveCall(w)'
      BY <1>1, <1>3, <1>h, <2>1 DEF LiveCall
    <2>3. UNCHANGED official => FileOK(f)'
      BY <1>1, <1>6, <1>8, ServeParts DEF FileOK, Agrees
    <2>4. CommitsTo(w, f)'
      BY <1>1, <1>f, <1>h, <2>1 DEF CommitsTo
    <2>5. ASSUME UNCHANGED official PROVE CommitterOK(w)'
      <3>1. txn'[call'[w].h].file = f /\ Len(disk'[f]) >= Len(official'[f])
        BY <1>1, <1>6, <1>8, <1>f, <1>h, <2>1, <2>5 DEF FileOK
      <3> QED BY <2>1, <3>1 DEF CommitterOK
    <2> QED BY <1>1, <1>2, <1>3, <1>h, <1>f, <1>8, <2>2, <2>3, <2>4, <2>5, CommitInv
  <1> QED BY <1>7, <1>8, <1>h, <1>f, <1>i, <1>m DEF CommitWrite

LEMMA CommitRollbackInv ==
  ASSUME RecoveryProviso, RecoveryInv, Serve, NEW w \in Workers, CommitRollback(w)
  PROVE  RecoveryInv'
  <1>h. PICK h : h = call[w].h
    OBVIOUS
  <1>f. PICK f : f = txn[h].file
    OBVIOUS
  <1>1. /\ pc[w] = "CommitRollback"
        /\ pc' = [pc EXCEPT ![w] = "CommitTruncate"]
        /\ call' = [call EXCEPT ![w].i = fileSize[txn[h].attrs]]
        /\ UNCHANGED <<txnMap, fileMap, txn, buffers, maxSeq, expired, fileSize, exists, logs,
                       disk>>
    BY <1>h DEF CommitRollback, registryVars, entryVars, bufferVars, diskVars
  <1>2. pc[w] \in HoldsTxnMtx /\ pc[w] \in CommitPlaces \ {"CommitSize"}
    BY <1>1 DEF HoldsTxnMtx, CommitPlaces, HoldsFileMtx
  <1>3. /\ h \in Handles /\ call[w].id \in TxnIds /\ f \in Files /\ txn[h].attrs \in Handles
        /\ txnMap[call[w].id] = h /\ disk[f] \in Seq(Units) /\ official[f] \in Seq(Units)
        /\ fileMap[f] = txn[h].attrs
    BY <1>2, <1>h, <1>f, CommitFacts
  <1>4. TypeOK
    BY DEF RecoveryInv, StateOK
  <1>5. fileSize[txn[h].attrs] = Len(official[f])
    <2>1. ~AtCommitSize(f)
      BY <1>1 DEF RecoveryProviso, AtCommitSize
    <2>2. fileMap[f] # None
      BY <1>3, ConstantsAssumption
    <2> QED BY <1>3, <2>1, <2>2 DEF RecoveryInv, FileSizesOK
  <1>6. FileOK(f)
    BY <1>3, FilesOKUp, ServeParts
  <1>7. /\ call'[w].i = Len(official[f]) /\ call'[w].h = h /\ call'[w].id = call[w].id
        /\ pc'[w] = "CommitTruncate"
    BY <1>1, <1>4, <1>5, <1>h, SetI DEF TypeOK
  <1>8. LiveCall(w)'
    BY <1>1, <1>3, <1>7 DEF LiveCall
  <1>9. UNCHANGED official => FileOK(f)'
    BY <1>1, <1>6, ServeParts DEF FileOK, Agrees
  <1>10. CommitsTo(w, f)'
    BY <1>1, <1>f, <1>7 DEF CommitsTo
  <1>11. ASSUME UNCHANGED official PROVE CommitterOK(w)'
    <2>1. txn'[call'[w].h].file = f /\ Len(disk'[f]) >= Len(official'[f])
      BY <1>1, <1>6, <1>f, <1>7, <1>11 DEF FileOK
    <2> QED BY <1>7, <1>11, <2>1 DEF CommitterOK
  <1> QED BY <1>1, <1>2, <1>3, <1>h, <1>f, <1>8, <1>9, <1>10, <1>11, CommitInv

LEMMA CommitTruncateInv ==
  ASSUME RecoveryProviso, RecoveryInv, Serve, NEW w \in Workers, CommitTruncate(w)
  PROVE  RecoveryInv'
  <1>h. PICK h : h = call[w].h
    OBVIOUS
  <1>f. PICK f : f = txn[h].file
    OBVIOUS
  <1>n. PICK n : n = Len(official[f])
    OBVIOUS
  <1>1. /\ pc[w] = "CommitTruncate"
        /\ disk' = [disk EXCEPT ![f] = Truncate(@, call[w].i)]
        /\ Answer(w, "ErrorWritingFile")
        /\ UNCHANGED <<txnMap, fileMap, txn, buffers, maxSeq, expired, fileSize, exists, logs>>
    BY <1>h, <1>f DEF CommitTruncate, registryVars, entryVars, bufferVars, RecoveryProviso
  <1>2. pc[w] \in HoldsTxnMtx /\ pc[w] \in CommitPlaces \ {"CommitSize"}
    BY <1>1 DEF HoldsTxnMtx, CommitPlaces, HoldsFileMtx
  <1>3. /\ h \in Handles /\ f \in Files
        /\ disk[f] \in Seq(Units) /\ official[f] \in Seq(Units) /\ CommitterOK(w)
    BY <1>2, <1>h, <1>f, CommitFacts
  <1>4. TypeOK
    BY DEF RecoveryInv, StateOK
  <1>5. call[w].i = n /\ n \in Nat /\ n <= Len(disk[f]) /\ Len(disk[f]) \in Nat
    <2>1. call[w].i = n /\ Len(disk[f]) >= n
      BY <1>1, <1>3, <1>h, <1>f, <1>n DEF CommitterOK
    <2>2. n \in Nat /\ Len(disk[f]) \in Nat
      BY <1>3, <1>n
    <2> QED BY <2>1, <2>2
  <1>6. FileOK(f)
    BY <1>3, FilesOKUp, ServeParts
  <1>7. /\ disk'[f] = Truncate(disk[f], n)
        /\ \A g \in Files \ {f} : disk'[g] = disk[g]
    BY <1>1, <1>3, <1>4, <1>5 DEF TypeOK
  <1>8. /\ disk'[f] \in Seq(Units) /\ Len(disk'[f]) = n
        /\ \A j \in 1..n : disk'[f][j] = disk[f][j]
    <2>1. /\ disk'[f] \in Seq(Units) /\ Len(disk'[f]) = n
          /\ \A j \in 1..n : disk'[f][j] = IF j <= Len(disk[f]) THEN disk[f][j] ELSE Nul
      <3>1. disk[f] \in Seq(Units) /\ n \in Nat
        BY <1>3, <1>5
      <3>2. /\ Truncate(disk[f], n) \in Seq(Units)
            /\ Len(Truncate(disk[f], n)) = n
            /\ \A j \in 1..n : Truncate(disk[f], n)[j] =
                                 IF j <= Len(disk[f]) THEN disk[f][j] ELSE Nul
        BY <3>1, TruncateIs
      <3> QED BY <1>7, <3>2, Zenon
    <2>2. \A j \in 1..n : j <= Len(disk[f])
      BY <1>5
    <2> QED BY <2>1, <2>2
  <1>9. pc'[w] = "idle"
    BY <1>1, <1>4 DEF Answer, Return, TypeOK
  <1>10. LiveCall(w)' /\ CommitterOK(w)'
    BY <1>9 DEF LiveCall, CommitterOK, HoldsTxnMtx, UsesTxn
  <1>11. ASSUME UNCHANGED official PROVE FileOK(f)'
    <2>1. Agrees(f)'
      <3> SUFFICES ASSUME NEW j \in 1..n
                   PROVE  disk'[f][j] = official[f][j] \/ (powerFailed /\ disk'[f][j] = Nul)
        BY <1>8, <1>11, ServeParts DEF Agrees
      <3>1. j \in 1..Len(disk[f]) /\ j <= Len(official[f])
        BY <1>5, <1>n
      <3> QED BY <1>6, <1>8, <3>1 DEF FileOK, Agrees
    <2>2. Len(disk'[f]) >= Len(official'[f])
      BY <1>5, <1>8, <1>11, <1>n
    <2>3. f \notin exists => n = 0 /\ official[f] = <<>>
      BY <1>6, <1>n DEF FileOK
    <2>4. n = 0 => disk'[f] = <<>>
      BY <1>8
    <2> QED BY <1>1, <1>11, <2>1, <2>2, <2>3, <2>4 DEF FileOK
  <1>12. UNCHANGED official => Len(disk'[f]) = Len(official'[f])
    BY <1>8, <1>n
  <1> QED BY <1>1, <1>2, <1>3, <1>h, <1>f, <1>7, <1>10, <1>11, <1>12, CommitInv

LEMMA CommitInsertInv ==
  ASSUME RecoveryProviso, RecoveryInv, Serve, NEW w \in Workers, CommitInsert(w)
  PROVE  RecoveryInv'
  <1>h. PICK h : h = call[w].h
    OBVIOUS
  <1>f. PICK f : f = txn[h].file
    OBVIOUS
  <1>1. /\ pc[w] = "CommitInsert" /\ Goto(w, "CommitLog")
        /\ UNCHANGED <<txnMap, fileMap, txn, buffers, maxSeq, expired, fileSize, exists, logs,
                       disk>>
    BY DEF CommitInsert, bufferVars, diskVars
  <1>2. pc[w] \in HoldsTxnMtx /\ pc[w] \in CommitPlaces \ {"CommitSize"}
    BY <1>1 DEF HoldsTxnMtx, CommitPlaces, HoldsFileMtx
  <1>3. /\ h \in Handles /\ f \in Files /\ txnMap[call[w].id] = h /\ CommitterOK(w)
    BY <1>2, <1>h, <1>f, CommitFacts
  <1>4. pc'[w] = "CommitLog" /\ call'[w] = call[w]
    BY <1>1, GotoCall DEF RecoveryInv, StateOK
  <1>5. LiveCall(w)'
    BY <1>1, <1>3, <1>4, <1>h DEF LiveCall
  <1>6. UNCHANGED official => FileOK(f)'
    BY <1>1, <1>3, FilesOKUp, ServeParts DEF FileOK, Agrees
  <1>7. CommitsTo(w, f)'
    BY <1>1, <1>f, <1>h, <1>4 DEF CommitsTo, HoldsFileMtx
  <1>8. ASSUME UNCHANGED official PROVE CommitterOK(w)'
    <2>1. Written(w)' = Written(w)
      BY <1>1, <1>4 DEF Written
    <2> QED BY <1>1, <1>3, <1>4, <1>8, <2>1 DEF CommitterOK
  <1> QED BY <1>1, <1>2, <1>3, <1>h, <1>f, <1>5, <1>6, <1>7, <1>8, CommitInv

\* What is left to show of a step that is not part of a COMMIT's work on a file.
LEMMA QuietInv ==
  ASSUME RecoveryProviso, RecoveryInv, Serve, NEW w \in Workers,
         pc[w] \notin CommitPlaces, pc'[w] \notin CommitPlaces,
         UNCHANGED <<disk, exists, expired>>, LiveCall(w)',
         UNCHANGED official => SizesOK' /\ OpenRecorded' /\ FileSizesOK'
  PROVE  RecoveryInv'
  <1>1. \A v \in Workers : v = w
    BY DEF RecoveryProviso
  <1>2. UNCHANGED <<official, officialIds>>
    <2>1. \A v \in Workers : pc[v] # "CommitLog"
      BY <1>1 DEF CommitPlaces, HoldsFileMtx
    <2> QED BY <2>1, NothingOfficial
  <1>3. CommitterOK(w)'
    BY DEF CommitterOK, CommitPlaces, HoldsFileMtx
  <1>4. WorkersOK'
    BY <1>3, SoloWorkers
  <1>5. NeverExpired'
    BY DEF RecoveryInv, NeverExpired
  <1>6. official' \in [Files -> Seq(Units)] /\ officialIds' \subseteq TxnIds
    BY <1>2 DEF RecoveryInv, RecoveryTypes
  <1>7. \A f \in Files :
          /\ FileOK(f)'
          /\ Len(disk'[f]) = Len(official'[f])
          /\ crashes' = 0 => synced'[f] >= Len(official'[f]) \/ AtCommitSize(f)'
    <2>1. \A f \in Files : ~CommitsTo(w, f)
      BY DEF CommitsTo, CommitPlaces
    <2> QED BY <1>2, <2>1, QuietFile
  <1> QED BY <1>2, <1>4, <1>5, <1>6, <1>7, ServeAll

\* While no COMMIT works on a file, every file has its size.
LEMMA QuietSizes ==
  ASSUME RecoveryProviso, RecoveryInv, mode = "up", NEW w \in Workers, pc[w] \notin CommitPlaces
  PROVE  /\ \A f \in Files : Len(disk[f]) = Len(official[f])
         /\ \A f \in Files : fileMap[f] # None => fileSize[fileMap[f]] = Len(official[f])
  <1>1. \A v \in Workers : v = w
    BY DEF RecoveryProviso
  <1>2. \A f \in Files, v \in Workers : ~CommitsTo(v, f)
    BY <1>1 DEF CommitsTo, CommitPlaces
  <1>3. \A f \in Files : ~AtCommitSize(f)
    BY <1>1 DEF AtCommitSize, CommitPlaces, HoldsFileMtx
  <1> QED BY <1>2, <1>3, FilesOKUp DEF RecoveryInv, FileSizesOK

LEMMA NewTxnCreateInv ==
  ASSUME RecoveryProviso, RecoveryInv, Serve, NEW w \in Workers, NEW f \in Files,
         NEW id \in TxnIds, NEW h \in Handles, NewTxnCreate(w, f, id, h)
  PROVE  RecoveryInv'
  <1>c. PICK c : c = Call("NEW_TXN", id, 0, f, h, 0)
    OBVIOUS
  <1>1. /\ txn[h].id = None /\ AddNewTransaction(h, id, f) /\ Begin(w, "NewTxnLog", c)
        /\ UNCHANGED <<disk, exists, logs, expired>>
    BY <1>c DEF NewTxnCreate, bufferVars, diskVars
  <1>2. StateOK /\ TypeOK /\ mode = "up" /\ UNCHANGED sizes
    BY ServeParts
  <1>3. pc[w] = "idle" /\ pc'[w] = "NewTxnLog" /\ call'[w] = c
    BY <1>1, <1>2 DEF Begin, TypeOK
  <1>4. pc[w] \notin CommitPlaces /\ pc'[w] \notin CommitPlaces
    BY <1>3 DEF CommitPlaces, HoldsFileMtx
  <1>5. /\ txnMap'[id] = h /\ \A i \in TxnIds \ {id} : txnMap'[i] = txnMap[i]
        /\ txn'[h].file = f
        /\ \A k \in Handles \ {h} : txn'[k] = txn[k]
        /\ \A i \in TxnIds : txnMap[i] # h
    BY <1>1, <1>2, AddEntries
  <1>6. c.id = id /\ c.h = h /\ c.file = f
    BY <1>c DEF Call
  <1>7. LiveCall(w)'
    BY <1>3, <1>5, <1>6 DEF LiveCall
  <1>8. \A g \in Files : RecordedSizes(g)' = RecordedSizes(g)
    BY <1>1, <1>2, RecordedKept
  <1>9. ASSUME UNCHANGED official PROVE SizesOK' /\ OpenRecorded' /\ FileSizesOK'
    <2>1. SizesOK'
      BY <1>8, <1>9 DEF RecoveryInv, SizesOK
    <2>2. OpenRecorded'
      <3> SUFFICES ASSUME NEW i \in TxnIds, NEW g \in Files, txnMap'[i] # None, i # id,
                          txn'[txnMap'[i]].file = g
                   PROVE  RecordedSizes(g)' # {}
        BY <1>3, <1>6 DEF OpenRecorded
      <3>1. txnMap'[i] = txnMap[i] /\ txnMap[i] # None
        BY <1>5
      <3>2. txnMap[i] \in Handles \ {h}
        BY <1>2, <1>5, <3>1, LiveEntry
      <3>3. txn[txnMap[i]].file = g
        BY <1>5, <3>1, <3>2
      <3>4. \A v \in Workers : pc[v] # "NewTxnLog"
        BY <1>3 DEF RecoveryProviso
      <3> QED BY <1>8, <3>1, <3>3, <3>4 DEF RecoveryInv, OpenRecorded
    <2>3. FileSizesOK'
      <3>1. /\ Len(disk[f]) = Len(official[f])
            /\ \A g \in Files : fileMap[g] # None => fileSize[fileMap[g]] = Len(official[g])
        BY <1>2, <1>4, QuietSizes
      <3> QED BY <1>1, <1>2, <1>9, <3>1, AddFileSizes DEF RecoveryInv, RecoveryProviso
    <2> QED BY <2>1, <2>2, <2>3
  <1> QED BY <1>1, <1>4, <1>7, <1>9, QuietInv

\* An entry in a log other than that of the commits.
LEMMA QuietLog ==
  ASSUME RecoveryProviso, RecoveryInv, mode = "up", NEW w \in Workers,
         pc[w] \notin CommitPlaces, NEW log \in LogNames, NEW id \in TxnIds,
         NEW f \in Files, LogTransaction(log, id, f), UNCHANGED <<sizes, official>>
  PROVE  /\ SizesOK'
         /\ \A g \in Files : RecordedSizes(g) \subseteq RecordedSizes(g)'
         /\ RecordedSizes(f)' # {}
  <1>e. PICK e : e = [id |-> id, file |-> f, size |-> Len(disk[f])]
    OBVIOUS
  <1>1. Len(disk[f]) = Len(official[f]) /\ Len(disk[f]) \in Nat
    BY QuietSizes, FilesOKUp
  <1>2. logs' = [logs EXCEPT ![log] = Append(@, e)]
    BY <1>e DEF LogTransaction, RecoveryProviso, Fails, GetFileSize
  <1>3. e \in LogEntry /\ e.file = f /\ e.size = Len(official[f])
    BY <1>1, <1>e DEF LogEntry
  <1>4. TypeOK /\ SizesOK /\ RecoveryTypes
    BY DEF RecoveryInv, StateOK
  <1>5. e.size >= Len(official[f]) /\ e.size = Len(official'[f])
    BY <1>1, <1>3
  <1> QED BY <1>2, <1>3, <1>4, <1>5, SizesAppend DEF RecoveryTypes

LEMMA NewTxnLogInv ==
  ASSUME RecoveryProviso, RecoveryInv, Serve, NEW w \in Workers, NewTxnLog(w)
  PROVE  RecoveryInv'
  <1>f. PICK f : f = call[w].file
    OBVIOUS
  <1>1. /\ pc[w] = "NewTxnLog" /\ LogTransaction("transaction", call[w].id, f)
        /\ Answer(w, "ACK")
        /\ UNCHANGED <<disk, exists, expired, txnMap, fileMap, txn, fileSize>>
    BY <1>f DEF NewTxnLog, bufferVars, registryVars
  <1>2. StateOK /\ TypeOK /\ mode = "up" /\ UNCHANGED sizes
    BY ServeParts
  <1>3. pc'[w] = "idle"
    BY <1>1, <1>2 DEF Answer, Return, TypeOK
  <1>4. pc[w] \notin CommitPlaces /\ pc'[w] \notin CommitPlaces
    BY <1>1, <1>3 DEF CommitPlaces, HoldsFileMtx
  <1>5. LiveCall(w)'
    BY <1>3 DEF LiveCall, HoldsTxnMtx, UsesTxn
  <1>6. call[w].id \in TxnIds /\ call[w].h \in Handles /\ f \in Files
    BY <1>1, <1>2, <1>f DEF StateOK, CallOK
  <1>7. txnMap[call[w].id] = call[w].h /\ txn[call[w].h].file = f
    BY <1>1, <1>f DEF RecoveryInv, WorkersOK, LiveCall
  <1>8. ASSUME UNCHANGED official PROVE SizesOK' /\ OpenRecorded' /\ FileSizesOK'
    <2>1. /\ SizesOK'
          /\ \A g \in Files : RecordedSizes(g) \subseteq RecordedSizes(g)'
          /\ RecordedSizes(f)' # {}
      <3>1. "transaction" \in LogNames
        BY DEF LogNames
      <3> QED BY <1>1, <1>2, <1>4, <1>6, <1>8, <3>1, QuietLog
    <2>2. OpenRecorded'
      <3> SUFFICES ASSUME NEW i \in TxnIds, NEW g \in Files, txnMap[i] # None,
                          txn[txnMap[i]].file = g
                   PROVE  RecordedSizes(g)' # {}
        BY <1>1 DEF OpenRecorded
      <3>1. CASE i = call[w].id
        BY <1>7, <2>1, <3>1
      <3>2. CASE i # call[w].id
        <4>1. \A v \in Workers : call[v].id # i
          BY <3>2 DEF RecoveryProviso
        <4>2. RecordedSizes(g) # {}
          BY <4>1 DEF RecoveryInv, OpenRecorded
        <4> QED BY <2>1, <4>2
      <3> QED BY <3>1, <3>2
    <2>3. FileSizesOK'
      BY <1>1, <1>2, <1>4, <1>8, QuietSizes DEF FileSizesOK
    <2> QED BY <2>1, <2>2, <2>3
  <1> QED BY <1>1, <1>4, <1>5, <1>8, QuietInv

\* The transaction of the thread leaves the map.
LEMMA RemoveKeeps ==
  ASSUME RecoveryInv, mode = "up", NEW id \in TxnIds, RemoveTransaction(id),
         UNCHANGED <<txn, fileSize, official>>,
         \A f \in Files : fileMap[f] # None => fileSize[fileMap[f]] = Len(official[f]),
         \A f \in Files : RecordedSizes(f) \subseteq RecordedSizes(f)',
         \A v \in Workers : pc[v] # "NewTxnLog"
  PROVE  OpenRecorded' /\ FileSizesOK'
  <1>1. TypeOK /\ EntriesOK
    BY DEF RecoveryInv, StateOK
  <1>2. \A i \in TxnIds : txnMap'[i] \in {txnMap[i], None}
    BY <1>1, RemoveTransactionType
  <1>3. \A f \in Files : fileMap'[f] \in {fileMap[f], None}
    BY <1>1 DEF RemoveTransaction, TypeOK
  <1>4. OpenRecorded'
    <2> SUFFICES ASSUME NEW i \in TxnIds, NEW f \in Files, txnMap'[i] # None,
                        txn[txnMap'[i]].file = f
                 PROVE  RecordedSizes(f)' # {}
      BY DEF OpenRecorded
    <2>1. txnMap[i] # None /\ txn[txnMap[i]].file = f
      BY <1>2
    <2> QED BY <2>1 DEF RecoveryInv, OpenRecorded
  <1>5. FileSizesOK'
    BY <1>3 DEF FileSizesOK
  <1> QED BY <1>4, <1>5

LEMMA CommitRemoveInv ==
  ASSUME RecoveryProviso, RecoveryInv, Serve, NEW w \in Workers, CommitRemove(w)
  PROVE  RecoveryInv'
  <1>1. /\ pc[w] = "CommitRemove" /\ RemoveTransaction(call[w].id) /\ Answer(w, "ACK")
        /\ UNCHANGED <<disk, exists, expired, logs, txn, fileSize>>
    BY DEF CommitRemove, entryVars, bufferVars, diskVars
  <1>2. StateOK /\ TypeOK /\ mode = "up" /\ UNCHANGED sizes
    BY ServeParts
  <1>3. pc'[w] = "idle"
    BY <1>1, <1>2 DEF Answer, Return, TypeOK
  <1>4. pc[w] \notin CommitPlaces /\ pc'[w] \notin CommitPlaces
    BY <1>1, <1>3 DEF CommitPlaces, HoldsFileMtx
  <1>5. LiveCall(w)'
    BY <1>3 DEF LiveCall, HoldsTxnMtx, UsesTxn
  <1>6. call[w].id \in TxnIds
    BY <1>1, CommitFacts DEF HoldsTxnMtx
  <1>7. \A g \in Files : RecordedSizes(g)' = RecordedSizes(g)
    BY <1>1, <1>2, RecordedKept
  <1>8. ASSUME UNCHANGED official PROVE SizesOK' /\ OpenRecorded' /\ FileSizesOK'
    <2>1. SizesOK'
      BY <1>7, <1>8 DEF RecoveryInv, SizesOK
    <2>2. \A v \in Workers : pc[v] # "NewTxnLog"
      BY <1>1 DEF RecoveryProviso
    <2>3. \A f \in Files : fileMap[f] # None => fileSize[fileMap[f]] = Len(official[f])
      BY <1>2, <1>4, QuietSizes
    <2> QED BY <1>1, <1>2, <1>6, <1>7, <1>8, <2>1, <2>2, <2>3, RemoveKeeps
  <1> QED BY <1>1, <1>4, <1>5, <1>8, QuietInv

LEMMA AbortRemoveInv ==
  ASSUME RecoveryProviso, RecoveryInv, Serve, NEW w \in Workers, AbortRemove(w)
  PROVE  RecoveryInv'
  <1>f. PICK f : f = txn[call[w].h].file
    OBVIOUS
  <1>1. /\ pc[w] = "AbortRemove" /\ LogTransaction("abort", call[w].id, f)
        /\ RemoveTransaction(call[w].id) /\ Answer(w, "ACK")
        /\ UNCHANGED <<disk, exists, expired, txn, fileSize>>
    BY <1>f DEF AbortRemove, bufferVars
  <1>2. StateOK /\ TypeOK /\ mode = "up" /\ UNCHANGED sizes
    BY ServeParts
  <1>3. pc'[w] = "idle"
    BY <1>1, <1>2 DEF Answer, Return, TypeOK
  <1>4. pc[w] \notin CommitPlaces /\ pc'[w] \notin CommitPlaces
    BY <1>1, <1>3 DEF CommitPlaces, HoldsFileMtx
  <1>5. LiveCall(w)'
    BY <1>3 DEF LiveCall, HoldsTxnMtx, UsesTxn
  <1>6. call[w].id \in TxnIds /\ f \in Files
    BY <1>1, <1>2, <1>f, CallEntry DEF UsesTxn
  <1>7. ASSUME UNCHANGED official PROVE SizesOK' /\ OpenRecorded' /\ FileSizesOK'
    <2>1. /\ SizesOK'
          /\ \A g \in Files : RecordedSizes(g) \subseteq RecordedSizes(g)'
      <3>1. "abort" \in LogNames
        BY DEF LogNames
      <3> QED BY <1>1, <1>2, <1>4, <1>6, <1>7, <3>1, QuietLog
    <2>2. \A v \in Workers : pc[v] # "NewTxnLog"
      BY <1>1 DEF RecoveryProviso
    <2>3. \A g \in Files : fileMap[g] # None => fileSize[fileMap[g]] = Len(official[g])
      BY <1>2, <1>4, QuietSizes
    <2> QED BY <1>1, <1>2, <1>6, <1>7, <2>1, <2>2, <2>3, RemoveKeeps
  <1> QED BY <1>1, <1>4, <1>5, <1>7, QuietInv

LEMMA CommitSizeInv ==
  ASSUME RecoveryProviso, RecoveryInv, Serve, NEW w \in Workers, CommitSize(w)
  PROVE  RecoveryInv'
  <1>h. PICK h : h = call[w].h
    OBVIOUS
  <1>f. PICK f : f = txn[h].file
    OBVIOUS
  <1>a. PICK a : a = txn[h].attrs
    OBVIOUS
  <1>1. /\ pc[w] = "CommitSize" /\ Goto(w, "CommitRemove")
        /\ fileSize' = [fileSize EXCEPT ![a] = Len(disk[f])]
        /\ UNCHANGED <<txnMap, fileMap, txn, expired, disk, exists, logs>>
    BY <1>h, <1>f, <1>a DEF CommitSize, registryVars, bufferVars, diskVars
  <1>2. StateOK /\ TypeOK /\ mode = "up" /\ UNCHANGED <<sizes, crashes>>
    BY ServeParts
  <1>3. pc[w] \in HoldsTxnMtx /\ pc[w] \in HoldsFileMtx
    BY <1>1 DEF HoldsTxnMtx, HoldsFileMtx
  <1>4. /\ h \in Handles /\ f \in Files /\ a \in Handles /\ call[w].id \in TxnIds
        /\ txnMap[call[w].id] = h /\ fileMap[f] = a /\ CommitterOK(w)
    BY <1>3, <1>h, <1>f, <1>a, CommitFacts
  <1>5. Len(disk[f]) = Len(official[f])
    BY <1>1, <1>4, <1>h, <1>f DEF CommitterOK
  <1>6. pc'[w] = "CommitRemove" /\ call'[w] = call[w]
    BY <1>1, <1>2, GotoCall
  <1>7. UNCHANGED <<official, officialIds>>
    BY <1>1, NothingOfficial
  <1>8. \A g \in Files : RecordedSizes(g)' = RecordedSizes(g)
    BY <1>1, <1>2, RecordedKept
  <1>9. SizesOK'
    BY <1>7, <1>8 DEF RecoveryInv, SizesOK
  <1>10. \A v \in Workers : v = w
    BY DEF RecoveryProviso
  <1>11. OpenRecorded'
    BY <1>1, <1>8, <1>10 DEF RecoveryInv, OpenRecorded
  <1>12. CommitterOK(w)' /\ LiveCall(w)'
    BY <1>1, <1>4, <1>6, <1>h DEF CommitterOK, LiveCall
  <1>13. FileSizesOK'
    <2> SUFFICES ASSUME NEW g \in Files, fileMap[g] # None
                 PROVE  fileSize'[fileMap[g]] = Len(official[g])
      BY <1>1, <1>7 DEF FileSizesOK
    <2>1. CASE g = f
      BY <1>1, <1>2, <1>4, <1>5, <2>1 DEF TypeOK
    <2>2. CASE g # f
      <3>1. ~AtCommitSize(g)
        BY <1>10, <1>f, <1>h, <2>2 DEF AtCommitSize
      <3>2. fileSize[fileMap[g]] = Len(official[g])
        BY <3>1 DEF RecoveryInv, FileSizesOK
      <3>3. fileMap[g] # a
        <4>1. a # None
          BY <1>4, ConstantsAssumption
        <4>2. txn[fileMap[g]].file = g /\ txn[a].file = f
          BY <1>4, <4>1 DEF RecoveryInv, AttributesNamed
        <4> QED BY <2>2, <4>2
      <3>4. fileMap[g] \in Handles
        BY <1>2 DEF TypeOK
      <3> QED BY <1>1, <1>2, <3>2, <3>3, <3>4 DEF TypeOK
    <2> QED BY <2>1, <2>2
  <1>14. NeverExpired'
    BY <1>1 DEF RecoveryInv, NeverExpired
  <1>15. official' \in [Files -> Seq(Units)] /\ officialIds' \subseteq TxnIds
    BY <1>7 DEF RecoveryInv, RecoveryTypes
  <1>16. ASSUME NEW g \in Files
         PROVE  /\ FileOK(g)'
                /\ Len(disk'[g]) = Len(official'[g])
                /\ crashes' = 0 => synced'[g] >= Len(official'[g]) \/ AtCommitSize(g)'
    <2>1. CASE g = f
      <3>1. FileOK(f)' /\ Len(disk'[f]) = Len(official'[f])
        BY <1>1, <1>4, <1>5, <1>7, FileKept
      <3>2. Closes(f)
        BY <1>3, <1>6, <1>f, <1>h DEF Closes, HoldsFileMtx
      <3>3. synced'[f] = Len(disk'[f]) /\ Len(disk[f]) \in Nat
        BY <1>2, <1>4, <3>2, ServeSynced, FilesOKUp
      <3> QED BY <1>1, <2>1, <3>1, <3>3
    <2>2. CASE g # f
      <3>1. ~CommitsTo(w, g)
        BY <1>f, <1>h, <2>2 DEF CommitsTo
      <3> QED BY <1>1, <1>7, <3>1, QuietFile
    <2> QED BY <2>1, <2>2
  <1>17. WorkersOK'
    BY <1>12, SoloWorkers
  <1> QED BY <1>9, <1>11, <1>13, <1>14, <1>15, <1>16, <1>17, ServeAll

\* What CommitLog adds to the history.
LEMMA LoggedCommit ==
  ASSUME RecoveryProviso, RecoveryInv, Serve, NEW w \in Workers, CommitLog(w)
  PROVE  /\ logs' = [logs EXCEPT !["commit"] =
                       Append(@, [id |-> call[w].id, file |-> txn[call[w].h].file,
                                  size |-> Len(disk[txn[call[w].h].file])])]
         /\ official' = [official EXCEPT ![txn[call[w].h].file] =
                           @ \o [k \in 1..maxSeq[call[w].h] |-> <<call[w].h, k>>]]
         /\ officialIds' = officialIds \cup {call[w].id}
  <1>h. PICK h : h = call[w].h
    OBVIOUS
  <1>e. PICK e : e = [id |-> call[w].id, file |-> txn[h].file, size |-> Len(disk[txn[h].file])]
    OBVIOUS
  <1>1. pc[w] = "CommitLog" /\ LogTransaction("commit", call[w].id, txn[h].file)
    BY <1>h DEF CommitLog
  <1>2. logs' = [logs EXCEPT !["commit"] = Append(@, e)]
    BY <1>1, <1>e DEF LogTransaction, RecoveryProviso, Fails, GetFileSize
  <1>3. e \in LogEntry
    <2>1. /\ call[w].id \in TxnIds /\ txn[h].file \in Files
          /\ disk[txn[h].file] \in Seq(Units)
      BY <1>1, <1>h, CommitFacts DEF HoldsTxnMtx
    <2> QED BY <1>e, <2>1 DEF LogEntry
  <1>4. logs["commit"] \in Seq(LogEntry) /\ logs'["commit"] = Append(logs["commit"], e)
    BY <1>2 DEF RecoveryInv, StateOK, TypeOK, LogNames
  <1>5. Len(logs'["commit"]) > Len(logs["commit"])
    BY <1>3, <1>4
  <1>6. pc'[w] # "CommitLog"
    BY <1>4 DEF CommitLog, Goto, RecoveryInv, StateOK, TypeOK
  <1>7. BecomesOfficial(w) /\ \A v \in Workers : v = w
    BY <1>1, <1>5, <1>6 DEF RecoveryProviso, BecomesOfficial
  <1>8. /\ official' = [official EXCEPT ![txn[call[w].h].file] =
                          @ \o [k \in 1..maxSeq[call[w].h] |-> <<call[w].h, k>>]]
        /\ officialIds' = officialIds \cup {call[w].id}
    BY <1>7 DEF Serve
  <1> QED BY <1>2, <1>8, <1>h, <1>e

LEMMA ConcatIs ==
  ASSUME NEW s \in Seq(Units), NEW t \in Seq(Units)
  PROVE  /\ Len(s \o t) = Len(s) + Len(t) /\ Len(s) \in Nat
         /\ \A j \in 1..Len(s) : (s \o t)[j] = s[j]
         /\ \A j \in 1..Len(t) : (s \o t)[Len(s) + j] = t[j]
  OBVIOUS

LEMMA CommitLogInv ==
  ASSUME RecoveryProviso, RecoveryInv, Serve, NEW w \in Workers, CommitLog(w)
  PROVE  RecoveryInv'
  <1>h. PICK h : h = call[w].h
    OBVIOUS
  <1>f. PICK f : f = txn[h].file
    OBVIOUS
  <1>n. PICK n : n = Len(official[f])
    OBVIOUS
  <1>m. PICK m : m = maxSeq[h]
    OBVIOUS
  <1>e. PICK e : e = [id |-> call[w].id, file |-> f, size |-> Len(disk[f])]
    OBVIOUS
  <1>u. PICK u : u = [k \in 1..m |-> <<h, k>>]
    OBVIOUS
  <1>1. /\ pc[w] = "CommitLog" /\ Goto(w, "CommitSize")
        /\ UNCHANGED <<txnMap, fileMap, txn, maxSeq, expired, fileSize, disk, exists>>
    BY DEF CommitLog, registryVars, entryVars, bufferVars
  <1>2. StateOK /\ TypeOK /\ mode = "up" /\ UNCHANGED <<sizes, crashes, powerFailed>>
    BY ServeParts
  <1>3. pc[w] \in HoldsTxnMtx /\ pc[w] \in HoldsFileMtx
    BY <1>1 DEF HoldsTxnMtx, HoldsFileMtx
  <1>4. /\ h \in Handles /\ f \in Files /\ call[w].id \in TxnIds
        /\ txnMap[call[w].id] = h /\ CommitterOK(w)
        /\ disk[f] \in Seq(Units) /\ official[f] \in Seq(Units)
    BY <1>3, <1>h, <1>f, CommitFacts
  <1>5. /\ f \in exists /\ m \in Nat /\ Len(disk[f]) = n + m
        /\ \A j \in 1..m : disk[f][n + j] = <<h, j>>
    <2>1. Written(w) = m
      BY <1>1, <1>h, <1>m DEF Written
    <2> QED BY <1>1, <1>4, <1>h, <1>f, <1>n, <2>1 DEF CommitterOK
  <1>6. /\ logs' = [logs EXCEPT !["commit"] = Append(@, e)]
        /\ official' = [official EXCEPT ![f] = @ \o u]
        /\ officialIds' = officialIds \cup {call[w].id}
    <2>1. /\ e = [id |-> call[w].id, file |-> txn[call[w].h].file,
                  size |-> Len(disk[txn[call[w].h].file])]
          /\ u = [k \in 1..maxSeq[call[w].h] |-> <<call[w].h, k>>]
      BY <1>h, <1>f, <1>m, <1>e, <1>u
    <2> QED BY <1>h, <1>f, <2>1, LoggedCommit, Zenon
  <1>7. u \in Seq(Units) /\ Len(u) = m /\ \A j \in 1..m : u[j] = <<h, j>>
    <2>1. \A j \in 1..m : <<h, j>> \in Units
      BY <1>4 DEF Units
    <2> QED BY <1>5, <1>u, <2>1
  <1>8. /\ official'[f] = official[f] \o u
        /\ \A g \in Files \ {f} : official'[g] = official[g]
        /\ official' \in [Files -> Seq(Units)]
    <2>1. official \in [Files -> Seq(Units)]
      BY DEF RecoveryInv, RecoveryTypes
    <2>2. official[f] \o u \in Seq(Units)
      BY <1>4, <1>7
    <2> QED BY <1>4, <1>6, <2>1, <2>2
  <1>9. /\ n \in Nat /\ Len(official'[f]) = n + m
        /\ \A j \in 1..n : official'[f][j] = official[f][j]
        /\ \A j \in 1..m : official'[f][n + j] = <<h, j>>
    <2>1. /\ Len(official[f] \o u) = Len(official[f]) + Len(u) /\ Len(official[f]) \in Nat
          /\ \A j \in 1..Len(official[f]) : (official[f] \o u)[j] = official[f][j]
          /\ \A j \in 1..Len(u) : (official[f] \o u)[Len(official[f]) + j] = u[j]
      BY <1>4, <1>7, ConcatIs
    <2> QED BY <1>7, <1>8, <1>n, <2>1, Zenon
  <1>10. /\ SizesOK'
         /\ \A g \in Files : RecordedSizes(g) \subseteq RecordedSizes(g)'
    <2>1. e \in LogEntry /\ e.file = f /\ e.size = n + m /\ "commit" \in LogNames
      BY <1>4, <1>5, <1>9, <1>e DEF LogEntry, LogNames
    <2>2. e.size = Len(official'[f]) /\ e.size >= Len(official[f])
      BY <1>5, <1>9, <1>n, <2>1
    <2>3. /\ SizesOK /\ sizes \in [Files -> Nat \cup {-1}]
          /\ official \in [Files -> Seq(Units)]
      BY DEF RecoveryInv, RecoveryTypes
    <2> QED BY <1>2, <1>6, <1>8, <2>1, <2>2, <2>3, SizesAppend
  <1>11. pc'[w] = "CommitSize" /\ call'[w] = call[w]
    BY <1>1, <1>2, GotoCall
  <1>12. \A v \in Workers : v = w
    BY DEF RecoveryProviso
  <1>13. OpenRecorded'
    <2> SUFFICES ASSUME NEW i \in TxnIds, NEW g \in Files, txnMap[i] # None,
                        txn[txnMap[i]].file = g
                 PROVE  RecordedSizes(g)' # {}
      BY <1>1 DEF OpenRecorded
    <2>1. RecordedSizes(g) # {}
      BY <1>1, <1>12 DEF RecoveryInv, OpenRecorded
    <2> QED BY <1>10, <2>1
  <1>14. AtCommitSize(f)' /\ CommitsTo(w, f)'
    BY <1>1, <1>11, <1>f, <1>h DEF AtCommitSize, CommitsTo, HoldsFileMtx
  <1>15. FileSizesOK'
    <2> SUFFICES ASSUME NEW g \in Files, fileMap[g] # None, g # f
                 PROVE  fileSize[fileMap[g]] = Len(official'[g])
      BY <1>1, <1>14 DEF FileSizesOK
    <2>1. ~AtCommitSize(g)
      BY <1>1, <1>12 DEF AtCommitSize
    <2> QED BY <1>8, <2>1 DEF RecoveryInv, FileSizesOK
  <1>16. NeverExpired' /\ officialIds' \subseteq TxnIds
    BY <1>1, <1>4, <1>6 DEF RecoveryInv, NeverExpired, RecoveryTypes
  <1>17. CommitterOK(w)' /\ LiveCall(w)'
    <2>1. txn'[call'[w].h].file = f /\ Len(disk'[f]) = Len(official'[f])
      BY <1>1, <1>5, <1>9, <1>11, <1>f, <1>h
    <2>2. CommitterOK(w)'
      BY <1>11, <2>1 DEF CommitterOK
    <2> QED BY <1>1, <1>4, <1>11, <1>h, <2>2 DEF LiveCall
  <1>18. FileOK(f)'
    <2>1. Agrees(f)'
      <3> SUFFICES ASSUME NEW j \in 1..Len(disk[f])
                   PROVE  disk[f][j] = official'[f][j] \/ (powerFailed /\ disk[f][j] = Nul)
        BY <1>1, <1>2 DEF Agrees
      <3>1. CASE j <= n
        <4>1. j \in 1..n
          BY <1>9, <3>1
        <4>2. Agrees(f)
          BY <1>4 DEF RecoveryInv, ContentsOK
        <4> QED BY <1>9, <1>n, <3>1, <4>1, <4>2 DEF Agrees
      <3>2. CASE j > n
        <4>1. j - n \in 1..m /\ n + (j - n) = j
          BY <1>5, <1>9, <3>2
        <4> QED BY <1>5, <1>9, <4>1
      <3> QED BY <1>9, <3>1, <3>2
    <2>2. Len(disk'[f]) >= Len(official'[f])
      BY <1>1, <1>5, <1>9
    <2> QED BY <1>1, <1>5, <2>1, <2>2 DEF FileOK
  <1>19. ASSUME NEW g \in Files
         PROVE  /\ FileOK(g)'
                /\ Len(disk'[g]) = Len(official'[g]) \/ \E v \in Workers : CommitsTo(v, g)'
                /\ crashes' = 0 => synced'[g] >= Len(official'[g]) \/ AtCommitSize(g)'
    <2>1. CASE g = f
      BY <1>14, <1>18, <2>1
    <2>2. CASE g # f
      <3>1. ~CommitsTo(w, g)
        BY <1>f, <1>h, <2>2 DEF CommitsTo
      <3> QED BY <1>1, <1>8, <2>2, <3>1, QuietFile
    <2> QED BY <2>1, <2>2
  <1>20. WorkersOK'
    BY <1>17, SoloWorkers
  <1> QED BY <1>8, <1>10, <1>13, <1>15, <1>16, <1>19, <1>20, ServeAll

\* A step that leaves files, logs and maps alone and ends where a command
\* function works on an entry of the map, or on none.
LEMMA CalmMove ==
  ASSUME RecoveryProviso, RecoveryInv, Serve, NeverExpired', NEW w \in Workers,
         pc[w] \notin CommitPlaces \cup {"NewTxnLog"},
         pc'[w] \notin CommitPlaces \cup {"NewTxnLog"},
         UNCHANGED <<disk, exists, logs, txnMap, fileMap, txn, fileSize>>,
         pc'[w] = "ReadData" \/ txnMap[call'[w].id] = call'[w].h
  PROVE  RecoveryInv'
  <1>1. UNCHANGED <<official, officialIds>>
    BY NothingOfficial
  <1>2. LiveCall(w)'
    BY DEF LiveCall, HoldsTxnMtx, UsesTxn
  <1>3. \A v \in Workers : v = w
    BY DEF RecoveryProviso
  <1> QED BY <1>1, <1>2, <1>3, CalmInv

LEMMA CalmGoto ==
  ASSUME RecoveryProviso, RecoveryInv, Serve, NeverExpired', NEW w \in Workers,
         pc[w] \in ({"LockTxn"} \cup HoldsTxnMtx) \ CommitPlaces,
         NEW label, label \notin CommitPlaces \cup {"NewTxnLog"}, Goto(w, label),
         UNCHANGED <<disk, exists, logs, txnMap, fileMap, txn, fileSize>>
  PROVE  RecoveryInv'
  <1>1. pc'[w] = label /\ call'[w] = call[w]
    BY GotoCall DEF RecoveryInv, StateOK
  <1>2. txnMap[call[w].id] = call[w].h
    BY DEF RecoveryInv, WorkersOK, LiveCall
  <1>3. pc[w] # "NewTxnLog"
    BY DEF HoldsTxnMtx
  <1> QED BY <1>1, <1>2, <1>3, CalmMove

LEMMA ReadInv ==
  ASSUME RecoveryProviso, RecoveryInv, Serve, NEW w \in Workers, READ(w)
  PROVE  RecoveryInv'
  <1>1. /\ pc[w] \in {"idle", "ReadData"}
        /\ UNCHANGED <<disk, exists, logs, txnMap, fileMap, txn, fileSize, expired>>
    BY DEF READ, ReadOpen, ReadData, registryVars, entryVars, bufferVars, diskVars
  <1>2. pc \in [Workers -> Labels]
    BY DEF RecoveryInv, StateOK, TypeOK
  <1>3. pc'[w] \in {"idle", "ReadData"}
    BY <1>2 DEF READ, ReadOpen, ReadData, Begin, Return, Answer
  <1>4. /\ pc[w] \notin CommitPlaces \cup {"NewTxnLog"}
        /\ pc'[w] \notin CommitPlaces \cup {"NewTxnLog"}
    BY <1>1, <1>3 DEF CommitPlaces, HoldsFileMtx
  <1>5. NeverExpired'
    BY <1>1 DEF RecoveryInv, NeverExpired
  <1> QED BY <1>1, <1>3, <1>4, <1>5, CalmMove, CalmReturn

LEMMA NewTxnInv ==
  ASSUME RecoveryProviso, RecoveryInv, Serve, NEW w \in Workers, NEW_TXN(w)
  PROVE  RecoveryInv'
  <1>1. ASSUME NEW k \in SeqNums, NewTxnReject(w, k) PROVE RecoveryInv'
    <2>1. /\ pc[w] = "idle"
          /\ UNCHANGED <<disk, exists, logs, txnMap, fileMap, txn, fileSize, expired>>
      BY <1>1 DEF NewTxnReject, registryVars, entryVars, bufferVars, diskVars
    <2>2. pc'[w] = "idle"
      BY <1>1 DEF NewTxnReject, Return, RecoveryInv, StateOK, TypeOK
    <2>3. pc[w] \notin CommitPlaces \cup {"NewTxnLog"}
      BY <2>1 DEF CommitPlaces, HoldsFileMtx
    <2>4. NeverExpired'
      BY <2>1 DEF RecoveryInv, NeverExpired
    <2> QED BY <2>1, <2>2, <2>3, <2>4, CalmReturn
  <1> QED BY <1>1, NewTxnCreateInv, NewTxnLogInv DEF NEW_TXN

LEMMA RefuseInv ==
  ASSUME RecoveryProviso, RecoveryInv, Serve, NEW w \in Workers, Refuse(w)
  PROVE  RecoveryInv'
  <1>1. /\ pc[w] = "idle"
        /\ UNCHANGED <<disk, exists, logs, txnMap, fileMap, txn, fileSize, expired>>
    BY DEF Refuse, RefuseRequest, registryVars, entryVars, bufferVars, diskVars
  <1>2. pc'[w] = "idle"
    BY DEF Refuse, RefuseRequest, Return, RecoveryInv, StateOK, TypeOK
  <1>3. pc[w] \notin CommitPlaces \cup {"NewTxnLog"}
    BY <1>1 DEF CommitPlaces, HoldsFileMtx
  <1>4. NeverExpired'
    BY <1>1 DEF RecoveryInv, NeverExpired
  <1> QED BY <1>1, <1>2, <1>3, <1>4, CalmReturn

LEMMA LookupInv ==
  ASSUME RecoveryProviso, RecoveryInv, Serve, NEW w \in Workers, NEW cmd, NEW id \in TxnIds,
         NEW k, NEW out, Lookup(w, cmd, id, k, out)
  PROVE  RecoveryInv'
  <1>1. /\ pc[w] = "idle"
        /\ UNCHANGED <<disk, exists, logs, txnMap, fileMap, txn, fileSize, expired>>
    BY DEF Lookup, registryVars, entryVars, bufferVars, diskVars
  <1>2. pc[w] \notin CommitPlaces \cup {"NewTxnLog"}
    BY <1>1 DEF CommitPlaces, HoldsFileMtx
  <1>3. NeverExpired'
    BY <1>1 DEF RecoveryInv, NeverExpired
  <1>4. pc \in [Workers -> Labels] /\ call \in [Workers -> Calls]
    BY DEF RecoveryInv, StateOK, TypeOK
  <1>5. CASE pc'[w] = "idle"
    BY <1>1, <1>2, <1>3, <1>5, CalmReturn
  <1>6. CASE Begin(w, "LockTxn", Call(cmd, id, k, None, txnMap[id], 0))
    <2>1. pc'[w] = "LockTxn" /\ call'[w].id = id /\ call'[w].h = txnMap[id]
      BY <1>4, <1>6 DEF Begin, Call
    <2>2. pc'[w] \notin CommitPlaces \cup {"NewTxnLog"}
      BY <2>1 DEF CommitPlaces, HoldsFileMtx
    <2> QED BY <1>1, <1>2, <1>3, <2>1, <2>2, CalmMove
  <1>7. pc'[w] = "idle" \/ Begin(w, "LockTxn", Call(cmd, id, k, None, txnMap[id], 0))
    BY <1>4 DEF Lookup, Return
  <1> QED BY <1>5, <1>6, <1>7

LEMMA LockInv ==
  ASSUME RecoveryProviso, RecoveryInv, Serve, NEW w \in Workers, NEW cmd,
         LockTxn(w, cmd) \/ RecheckGone(w, cmd)
  PROVE  RecoveryInv'
  <1>1. UNCHANGED <<disk, exists, logs, txnMap, fileMap, txn, fileSize, expired>>
    BY DEF LockTxn, RecheckGone, registryVars, entryVars, bufferVars, diskVars
  <1>2. NeverExpired'
    BY <1>1 DEF RecoveryInv, NeverExpired
  <1>3. CASE LockTxn(w, cmd)
    <2>1. pc[w] = "LockTxn" /\ Goto(w, "Recheck")
      BY <1>3 DEF LockTxn
    <2>2. /\ pc[w] \in ({"LockTxn"} \cup HoldsTxnMtx) \ CommitPlaces
          /\ "Recheck" \notin CommitPlaces \cup {"NewTxnLog"}
      BY <2>1 DEF CommitPlaces, HoldsFileMtx
    <2> QED BY <1>1, <1>2, <2>1, <2>2, CalmGoto
  <1>4. CASE RecheckGone(w, cmd)
    <2>1. pc[w] = "Recheck" /\ pc'[w] = "idle"
      BY <1>4 DEF RecheckGone, Answer, Return, RecoveryInv, StateOK, TypeOK
    <2>2. pc[w] \notin CommitPlaces \cup {"NewTxnLog"}
      BY <2>1 DEF CommitPlaces, HoldsFileMtx
    <2> QED BY <1>1, <1>2, <2>1, <2>2, CalmReturn
  <1> QED BY <1>3, <1>4

LEMMA RecheckInv ==
  ASSUME RecoveryProviso, RecoveryInv, Serve, NEW w \in Workers,
         WriteRecheck(w) \/ CommitRecheck(w) \/ AbortRecheck(w)
  PROVE  RecoveryInv'
  <1>1. UNCHANGED <<disk, exists, logs, txnMap, fileMap, txn, fileSize, expired>>
    BY DEF WriteRecheck, CommitRecheck, AbortRecheck, registryVars, entryVars, bufferVars,
           diskVars
  <1>2. NeverExpired'
    BY <1>1 DEF RecoveryInv, NeverExpired
  <1>3. PICK label \in {"WriteBuffer", "CommitVerify", "AbortUnlock"} :
          pc[w] = "Recheck" /\ Goto(w, label)
    BY DEF WriteRecheck, CommitRecheck, AbortRecheck, RecheckPresent
  <1>4. /\ pc[w] \in ({"LockTxn"} \cup HoldsTxnMtx) \ CommitPlaces
        /\ label \notin CommitPlaces \cup {"NewTxnLog"}
    BY <1>3 DEF CommitPlaces, HoldsFileMtx, HoldsTxnMtx
  <1> QED BY <1>1, <1>2, <1>3, <1>4, CalmGoto

LEMMA WriteInv ==
  ASSUME RecoveryProviso, RecoveryInv, Serve, NEW w \in Workers, WRITE(w)
  PROVE  RecoveryInv'
  <1>1. CASE WriteBuffer(w)
    <2>1. /\ pc[w] = "WriteBuffer"
          /\ UNCHANGED <<disk, exists, logs, txnMap, fileMap, txn, fileSize>>
      BY <1>1 DEF WriteBuffer, registryVars, diskVars
    <2>2. pc'[w] = "idle"
      BY <1>1 DEF WriteBuffer, Answer, Return, RecoveryInv, StateOK, TypeOK
    <2>3. pc[w] \notin CommitPlaces \cup {"NewTxnLog"}
      BY <2>1 DEF CommitPlaces, HoldsFileMtx
    <2>4. NeverExpired'
      BY <1>1 DEF WriteBuffer, RecoveryInv, NeverExpired, StateOK, TypeOK
    <2> QED BY <2>1, <2>2, <2>3, <2>4, CalmReturn
  <1> QED BY <1>1, LookupInv, LockInv, RecheckInv DEF WRITE, WriteLookup

LEMMA CommitVerifyInv ==
  ASSUME RecoveryProviso, RecoveryInv, Serve, NEW w \in Workers, CommitVerify(w)
  PROVE  RecoveryInv'
  <1>1. /\ pc[w] = "CommitVerify"
        /\ UNCHANGED <<disk, exists, logs, txnMap, fileMap, txn, fileSize>>
    BY DEF CommitVerify, registryVars, diskVars
  <1>2. NeverExpired'
    BY DEF CommitVerify, RecoveryInv, NeverExpired, StateOK, TypeOK
  <1>3. /\ pc[w] \in ({"LockTxn"} \cup HoldsTxnMtx) \ CommitPlaces /\ pc[w] # "NewTxnLog"
        /\ "CommitOpen" \notin CommitPlaces \cup {"NewTxnLog"}
    BY <1>1 DEF CommitPlaces, HoldsFileMtx, HoldsTxnMtx
  <1>4. CASE Goto(w, "CommitOpen")
    BY <1>1, <1>2, <1>3, <1>4, CalmGoto
  <1>5. CASE pc'[w] = "idle"
    BY <1>1, <1>2, <1>3, <1>5, CalmReturn
  <1>6. Goto(w, "CommitOpen") \/ \E out : Answer(w, out)
    BY DEF CommitVerify
  <1>7. Goto(w, "CommitOpen") \/ pc'[w] = "idle"
    BY <1>6 DEF Answer, Return, RecoveryInv, StateOK, TypeOK
  <1> QED BY <1>4, <1>5, <1>7

LEMMA CommitAllInv ==
  ASSUME RecoveryProviso, RecoveryInv, Serve, NEW w \in Workers, COMMIT(w)
  PROVE  RecoveryInv'
  BY LookupInv, LockInv, RecheckInv, CommitVerifyInv, CommitOpenInv, CommitWriteInv,
     CommitRollbackInv, CommitTruncateInv, CommitInsertInv, CommitLogInv, CommitSizeInv,
     CommitRemoveInv
  DEF COMMIT, CommitLookup

LEMMA AbortInv ==
  ASSUME RecoveryProviso, RecoveryInv, Serve, NEW w \in Workers, ABORT(w)
  PROVE  RecoveryInv'
  <1>1. CASE AbortUnlock(w)
    <2>1. /\ pc[w] = "AbortUnlock" /\ Goto(w, "AbortRemove")
          /\ UNCHANGED <<disk, exists, logs, txnMap, fileMap, txn, fileSize, expired>>
      BY <1>1 DEF AbortUnlock, registryVars, entryVars, bufferVars, diskVars
    <2>2. NeverExpired'
      BY <2>1 DEF RecoveryInv, NeverExpired
    <2>3. /\ pc[w] \in ({"LockTxn"} \cup HoldsTxnMtx) \ CommitPlaces
          /\ "AbortRemove" \notin CommitPlaces \cup {"NewTxnLog"}
      BY <2>1 DEF CommitPlaces, HoldsFileMtx, HoldsTxnMtx
    <2> QED BY <2>1, <2>2, <2>3, CalmGoto
  <1> QED BY <1>1, LookupInv, LockInv, RecheckInv, AbortRemoveInv DEF ABORT, AbortLookup

\* No deadline passes, so the timers only find that their transactions are gone.
LEMMA TimerInv ==
  ASSUME RecoveryProviso, RecoveryInv, Serve, NEW h \in Handles, Expire(h) \/ Timer(h)
  PROVE  RecoveryInv'
  <1>1. ~Expire(h)
    BY DEF Expire, RecoveryProviso
  <1>2. ~TimerFire(h)
    <2> SUFFICES ASSUME TimerFire(h) PROVE FALSE
      OBVIOUS
    <2>1. txn[h].id \in TxnIds
      <3>1. h \in timers /\ TypeOK /\ EntriesOK
        BY DEF TimerFire, RecoveryInv, StateOK
      <3>2. txn[h].id # None /\ txn[h] \in TransactionAttributes
        BY <3>1 DEF EntriesOK, TypeOK
      <3> QED BY <3>2 DEF TransactionAttributes
    <2>2. txnMap[txn[h].id] # None /\ expired[txnMap[txn[h].id]]
      BY DEF TimerFire
    <2>3. txnMap[txn[h].id] \in Handles
      BY <2>1, <2>2, LiveEntry DEF RecoveryInv
    <2> QED BY <2>2, <2>3 DEF RecoveryInv, NeverExpired
  <1>3. TimerExit(h)
    BY <1>1, <1>2 DEF Timer
  <1>4. UNCHANGED <<disk, exists, logs, txnMap, fileMap, txn, fileSize, maxSeq, expired, pc, call>>
    BY <1>3 DEF TimerExit, registryVars, bufferVars, diskVars
  <1>5. NeverExpired'
    BY <1>4 DEF RecoveryInv, NeverExpired
  <1>6. UNCHANGED <<official, officialIds>>
    BY <1>4, NothingOfficial
  <1> QED BY <1>4, <1>5, <1>6, CalmInv

LEMMA ServeInv ==
  ASSUME RecoveryProviso, RecoveryInv, Serve
  PROVE  RecoveryInv'
  <1>1. Next
    BY ServeParts
  <1> QED BY <1>1, ReadInv, NewTxnInv, WriteInv, CommitAllInv, AbortInv, RefuseInv, TimerInv
          DEF Next

LEMMA RecoveryStutters ==
  ASSUME RecoveryInv, UNCHANGED allVars
  PROVE  RecoveryInv'
  <1>1. UNCHANGED <<vars, mode, unread, sizes, restarts, crashes, synced, official, officialIds,
                    acked, survivors, powerFailed>>
    BY DEF allVars, loadVars, historyVars
  <1>2. UNCHANGED <<txnMap, fileMap, commits, txn, buffers, maxSeq, expired, fileSize, timers,
                    fate, memberMtx, txnMtx, fileMtx, disk, exists, logs, failures, pc, call,
                    reply>>
    BY <1>1 DEF vars, registryVars, entryVars, bufferVars, lockVars, diskVars, threadVars
  <1>3. StateOK'
    BY <1>1, StateStep DEF RecoveryInv
  <1>4. RecoveryTypes' /\ PhaseOK'
    BY <1>1, <1>2 DEF RecoveryInv, RecoveryTypes, PhaseOK, IsUnread
  <1>5. FileAttributesShared' /\ AttributesNamed' /\ NeverExpired'
    BY <1>2 DEF RecoveryInv, FileAttributesShared, AttributesNamed, NeverExpired
  <1>6. \A f \in Files : RecordedSizes(f)' = RecordedSizes(f)
    BY <1>1, <1>2, RecordedKept
  <1>7. SizesOK' /\ OpenRecorded'
    BY <1>1, <1>2, <1>6 DEF RecoveryInv, SizesOK, OpenRecorded
  <1>8. ContentsOK'
    <2>1. \A f \in Files : (\E w \in Workers : CommitsTo(w, f))' <=> \E w \in Workers : CommitsTo(w, f)
      BY <1>2 DEF CommitsTo
    <2> QED BY <1>1, <1>2, <1>6, <2>1 DEF RecoveryInv, ContentsOK, Agrees
  <1>9. WorkersOK'
    BY <1>1, <1>2 DEF RecoveryInv, WorkersOK, CommitterOK, LiveCall, Written
  <1>10. FileSizesOK' /\ SyncedOK'
    BY <1>1, <1>2 DEF RecoveryInv, FileSizesOK, SyncedOK, AtCommitSize
  <1> QED BY <1>3, <1>4, <1>5, <1>7, <1>8, <1>9, <1>10 DEF RecoveryInv

LEMMA RecoveryStep ==
  ASSUME RecoveryProviso
  PROVE  RecoveryInv /\ [RecoveryNext]_allVars => RecoveryInv'
  BY ServeInv, CrashInv, LoadInv, TruncateInv, RestartInv, InitializedInv, RecoveryStutters
  DEF RecoveryNext, Recover

LEMMA RecoveryInvariant ==
  ASSUME RecoveryProviso
  PROVE  RecoverySpec => []RecoveryInv
  BY RecoveryInitInv, RecoveryStep, PTL DEF RecoverySpec

\* A file that nobody commits to.
LEMMA FileAtRest ==
  ASSUME RecoveryInv, mode = "up", NEW f \in Files, ~\E w \in Workers : CommitsTo(w, f)
  PROVE  /\ Len(disk[f]) = Len(official[f])
         /\ \A j \in 1..Len(disk[f]) :
              disk[f][j] = official[f][j] \/ (powerFailed /\ disk[f][j] = Nul)
  <1>1. Len(disk[f]) = Len(official[f]) /\ FileOK(f) /\ Len(disk[f]) \in Nat
    BY FilesOKUp
  <1> QED BY <1>1 DEF FileOK, Agrees

\* truncateFiles rolls back every incomplete commit: one connection thread, any
\* number of files and transactions, crashes and power failures.  The proviso
\* names what it rests on: bare names resolve, log entries are written, recovery
\* is not interrupted, nothing logs the size of a file while a COMMIT writes to
\* it (a second thread or a timer does: run size_of_partial_commit), and there is
\* one crash at most where the power may fail.
THEOREM IncompleteWritesRolledBack ==
  ASSUME RecoveryProviso
  PROVE  RecoverySpec => []IncompleteRolledBack
  <1>1. RecoveryInv => IncompleteRolledBack
    BY FileAtRest DEF IncompleteRolledBack
  <1> QED BY <1>1, RecoveryInvariant, PTL

\* initializeTransactions puts every file back: whenever the server is up and no
\* COMMIT is at work on it, a file is exactly the writes of the commits that
\* reached the commit log, in that order, through any number of crashes of the
\* process.  The power must not fail: then it is not true (run power_failure).
THEOREM FilesRecovered ==
  ASSUME RecoveryProviso, ~PowerFailures
  PROVE  RecoverySpec => []RecoveredContents
  <1>1. RecoverySpec => []~powerFailed
    <2>1. RecoveryInit => ~powerFailed
      BY DEF RecoveryInit
    <2>2. ~powerFailed /\ [RecoveryNext]_allVars => ~powerFailed'
      BY DEF RecoveryNext, Serve, Crash, Recover, LoadFilesAndTransactions, TruncateFiles,
             RestartTransaction, Initialized, allVars, historyVars
    <2> QED BY <2>1, <2>2, PTL DEF RecoverySpec
  <1>2. RecoveryInv /\ ~powerFailed => RecoveredContents
    <2> SUFFICES ASSUME RecoveryInv, ~powerFailed, mode = "up", NEW f \in Files,
                        ~\E w \in Workers : CommitsTo(w, f)
                 PROVE  disk[f] = official[f]
      BY DEF RecoveredContents
    <2>1. disk[f] \in Seq(Units) /\ official[f] \in Seq(Units)
      BY DEF RecoveryInv, StateOK, TypeOK, RecoveryTypes
    <2>2. Len(disk[f]) = Len(official[f])
          /\ \A j \in 1..Len(disk[f]) : disk[f][j] = official[f][j]
      BY FileAtRest
    <2> QED BY <2>1, <2>2
  <1> QED BY <1>1, <1>2, RecoveryInvariant, PTL

-----------------------------------------------------------------------------
(* The transactions that are restarted.  The proviso: no timer fires while *)
(* a request works on the transaction, no id is used twice, bare names     *)
(* name the files of the directory, no crash before recovery is over and   *)
(* no log entry that cannot be written.  There may be any number of        *)
(* threads, timeouts, crashes and power failures.                          *)

RestartProviso ==
  /\ ~TimerRaces
  /\ ~IdReuse
  /\ CwdIsDirectory
  /\ ~CrashInRecovery
  /\ "log" \notin FailureKinds

\* The logs in which a transaction ends.
EndLogs == {"timeout", "commit", "abort"}

HasEntry(log, id) == \E j \in 1..Len(logs[log]) : logs[log][j].id = id

HasBegun(id) == HasEntry("transaction", id)

HasEnded(id) == \E log \in EndLogs : HasEntry(log, id)

\* No log has two entries for an id, and it ends in one log.
EntriesOnce ==
  /\ \A log \in LogNames : \A i, j \in 1..Len(logs[log]) :
       logs[log][i].id = logs[log][j].id => i = j
  /\ \A id \in TxnIds : \A k, l \in EndLogs :
       HasEntry(k, id) /\ HasEntry(l, id) => k = l

\* An id that was never handed out is in no log.
IdsUsed ==
  \A id \in TxnIds :
    id \in officialIds \/ HasBegun(id) \/ HasEnded(id) => \E h \in Handles : txn[h].id = id

\* Where a command function has a transaction.
AtTxn == {"NewTxnLog", "LockTxn"} \cup HoldsTxnMtx \cup UsesTxn

\* Where COMMIT has written its log entry.
AfterLog == {"CommitSize", "CommitRemove"}

\* The map has the transaction of a command function, or has lost it between
\* the two looks.
TxnCall(w) ==
  /\ pc[w] \in {"LockTxn", "Recheck"} => txnMap[call[w].id] \in {call[w].h, None}
  /\ pc[w] \in UsesTxn \cup {"NewTxnLog"} => txnMap[call[w].id] = call[w].h
  /\ pc[w] \in AfterLog => call[w].id \in officialIds
  /\ pc[w] = "NewTxnLog" =>
       \A v \in Workers \ {w} : pc[v] \in AtTxn => call[v].id # call[w].id

TxnCalls == \A w \in Workers : TxnCall(w)

Starting(id) == \E w \in Workers : pc[w] = "NewTxnLog" /\ call[w].id = id

Finished(id) == \E w \in Workers : pc[w] \in AfterLog /\ call[w].id = id

\* While the server runs, the logs have a begin without an end exactly for the
\* open transactions ...
LogsTell(id) ==
  /\ txnMap[id] = None => (HasBegun(id) <=> HasEnded(id))
  /\ txnMap[id] # None /\ Starting(id) =>
       ~HasBegun(id) /\ ~HasEnded(id) /\ id \notin officialIds
  /\ txnMap[id] # None /\ ~Starting(id) =>
       /\ HasBegun(id)
       /\ HasEnded(id) <=> id \in officialIds
       /\ id \in officialIds => Finished(id)

\* ... while they are read, what was read and what is left tell it ...
LoadTells(id) ==
  restarts[id] # None <=> (id \in survivors <=> (HasBegun(id) <=> HasEnded(id)))

\* ... and while the transactions are restarted, the map and what is left.
RestartTells(id) ==
  /\ ~HasEnded(id)
  /\ HasBegun(id) <=> txnMap[id] # None
  /\ restarts[id] # None \/ txnMap[id] # None <=> id \in survivors

ReloadPhase ==
  /\ mode = "loading" <=> unread # <<>>
  /\ mode # "up" => /\ \A w \in Workers : pc[w] = "idle"
                    /\ survivors \cap officialIds = {}
  /\ \A id \in TxnIds : mode # "up" => restarts[id] = None \/ txnMap[id] = None
  /\ mode = "loading" =>
       /\ \A id \in TxnIds : txnMap[id] = None
       /\ \A log \in LogNames : logs[log] = <<>> \/ IsUnread(log)

ReloadInv ==
  /\ StateOK
  /\ RecoveryTypes
  /\ MutexOwnership
  /\ ExclusiveUse
  /\ ReloadPhase
  /\ EntriesOnce
  /\ IdsUsed
  /\ TxnCalls
  /\ mode = "up" => \A id \in TxnIds : LogsTell(id)
  /\ mode = "loading" => \A id \in TxnIds : LoadTells(id)
  /\ mode = "truncating" => \A id \in TxnIds : RestartTells(id)

LEMMA LogSets ==
  /\ EndLogs \subseteq LogNames /\ "transaction" \in LogNames /\ "transaction" \notin EndLogs
  /\ \A log \in LogNames : log = "transaction" \/ log \in EndLogs
  BY DEF EndLogs, LogNames

LEMMA EntriesKept ==
  ASSUME UNCHANGED logs
  PROVE  /\ \A log, id : HasEntry(log, id)' <=> HasEntry(log, id)
         /\ \A id : HasBegun(id)' <=> HasBegun(id)
         /\ \A id : HasEnded(id)' <=> HasEnded(id)
         /\ EntriesOnce => EntriesOnce'
  BY DEF HasEntry, HasBegun, HasEnded, EntriesOnce

\* What an entry adds.
LEMMA EntryAppend ==
  ASSUME TypeOK, NEW log \in LogNames, NEW e \in LogEntry,
         logs' = [logs EXCEPT ![log] = Append(@, e)]
  PROVE  /\ \A l \in LogNames, i \in TxnIds :
              HasEntry(l, i)' <=> HasEntry(l, i) \/ (l = log /\ i = e.id)
         /\ /\ EntriesOnce
            /\ ~HasEntry(log, e.id)
            /\ log \in EndLogs => ~HasEnded(e.id)
            => EntriesOnce'
  <1>1. /\ \A l \in LogNames : logs[l] \in Seq(LogEntry)
        /\ \A l \in LogNames \ {log} : logs'[l] = logs[l]
        /\ logs'[log] = Append(logs[log], e)
    BY DEF TypeOK
  <1>n. PICK n : n = Len(logs[log])
    OBVIOUS
  <1>2. /\ Len(logs'[log]) = n + 1 /\ n \in Nat
        /\ \A j \in 1..n : logs'[log][j] = logs[log][j]
        /\ logs'[log][n + 1] = e
    BY <1>1, <1>n
  <1>3. \A j \in 1..Len(logs'[log]) : j \in 1..n \/ j = n + 1
    BY <1>2
  <1>4. ASSUME NEW l \in LogNames, NEW i \in TxnIds
        PROVE  HasEntry(l, i)' <=> HasEntry(l, i) \/ (l = log /\ i = e.id)
    <2>1. CASE l # log
      BY <1>1, <2>1 DEF HasEntry
    <2>2. CASE l = log
      <3>1. \A j \in 1..n : j \in 1..Len(logs'[log])
        BY <1>2
      <3>2. n + 1 \in 1..Len(logs'[log])
        BY <1>2
      <3> QED BY <1>2, <1>3, <1>n, <2>2, <3>1, <3>2 DEF HasEntry
    <2> QED BY <2>1, <2>2
  <1>5. ASSUME EntriesOnce, ~HasEntry(log, e.id), log \in EndLogs => ~HasEnded(e.id)
        PROVE  EntriesOnce'
    <2>1. ASSUME NEW l \in LogNames, NEW i \in 1..Len(logs'[l]), NEW j \in 1..Len(logs'[l]),
                 logs'[l][i].id = logs'[l][j].id
          PROVE  i = j
      <3>1. CASE l # log
        BY <1>1, <1>5, <2>1, <3>1 DEF EntriesOnce
      <3>2. CASE l = log
        <4>1. \A k \in 1..n : logs[log][k].id # e.id
          BY <1>5, <1>n DEF HasEntry
        <4>2. \A k, m \in 1..n : logs[log][k].id = logs[log][m].id => k = m
          BY <1>5, <1>n DEF EntriesOnce
        <4> QED BY <1>2, <1>3, <2>1, <3>2, <4>1, <4>2
      <3> QED BY <3>1, <3>2
    <2>2. ASSUME NEW i \in TxnIds, NEW k \in EndLogs, NEW l \in EndLogs,
                 HasEntry(k, i)', HasEntry(l, i)'
          PROVE  k = l
      <3>1. k \in LogNames /\ l \in LogNames
        BY LogSets
      <3>2. /\ HasEntry(k, i) \/ (k = log /\ i = e.id)
            /\ HasEntry(l, i) \/ (l = log /\ i = e.id)
        BY <1>4, <2>2, <3>1
      <3> QED BY <1>5, <3>2 DEF EntriesOnce, HasEnded
    <2> QED BY <2>1, <2>2 DEF EntriesOnce
  <1> QED BY <1>4, <1>5

\* A transaction of which a log has one entry changes sides when the log is
\* loaded; the others stay.
LEMMA LoadToggles ==
  ASSUME NEW s \in Seq(LogEntry), NEW before \in Maps, NEW id \in TxnIds,
         \A i, j \in 1..Len(s) : s[i].id = s[j].id => i = j
  PROVE  Load(s, before).restarts[id] # None <=>
           ((before.restarts[id] # None) <=> ~\E k \in 1..Len(s) : s[k].id = id)
  <1>0. Len(s) \in Nat
    OBVIOUS
  <1>1. PICK g : /\ g[0] = before
                 /\ \A k \in 1..Len(s) : g[k] = LoadEntry(g[k - 1], s[k])
                 /\ Load(s, before) = g[Len(s)]
    BY <1>0, LoadRounds
  <1> DEFINE Seen(n) == \E k \in 1..n : s[k].id = id
             Good(n) == /\ g[n] \in Maps
                        /\ (g[n].restarts[id] # None) <=> ((before.restarts[id] # None) <=> ~Seen(n))
             G == {n \in 0..Len(s) : Good(n)}
  <1>2. 0 \in G
    <2>1. ~Seen(0)
      OBVIOUS
    <2> HIDE DEF Seen
    <2> QED BY <1>0, <1>1, <2>1
  <1>3. ASSUME NEW n \in 1..Len(s), n - 1 \in G PROVE n \in G
    <2>m. PICK m : m = g[n - 1]
      OBVIOUS
    <2>e. PICK e : e = s[n]
      OBVIOUS
    <2>1. Good(n - 1)
      BY <1>3
    <2>2. e \in LogEntry /\ m \in Maps /\ g[n] = LoadEntry(m, e) /\ e.id \in TxnIds /\ e.file \in Files
      BY <1>1, <2>1, <2>m, <2>e, EntryFields
    <2>3. /\ g[n] \in Maps
          /\ id # e.id => g[n].restarts[id] = m.restarts[id]
          /\ m.restarts[e.id] = None => g[n].restarts[e.id] = e.file
          /\ m.restarts[e.id] # None => g[n].restarts[e.id] = None
      BY <2>2, LoadEntryGoes
    <2>4. \A k \in 1..n : k = n \/ k \in 1..(n - 1)
      OBVIOUS
    <2>5. \A k \in 1..(n - 1) : k \in 1..Len(s) /\ k \in 1..n /\ k # n
      BY <1>0
    <2>6. n \in 1..n
      OBVIOUS
    <2>7. CASE e.id # id
      <3>1. Seen(n) <=> Seen(n - 1)
        BY <2>4, <2>5, <2>7, <2>e
      <3> HIDE DEF Seen
      <3> QED BY <2>1, <2>3, <2>7, <2>m, <3>1
    <2>8. CASE e.id = id
      <3>1. Seen(n)
        BY <2>6, <2>8, <2>e
      <3>2. ~Seen(n - 1)
        BY <2>5, <2>8, <2>e
      <3>3. e.file # None
        BY <2>2, ConstantsAssumption
      <3> HIDE DEF Seen
      <3> QED BY <2>1, <2>3, <2>8, <2>m, <3>1, <3>2, <3>3
    <2> QED BY <2>7, <2>8
  <1>4. \A n \in 0..Len(s) : n \in G
    <2> HIDE DEF G
    <2> QED BY <1>0, <1>2, <1>3, InductionTo
  <1>5. Len(s) \in 0..Len(s)
    BY <1>0
  <1>6. Good(Len(s))
    BY <1>4, <1>5
  <1> QED BY <1>1, <1>6

LEMMA ReloadInitInv == RecoveryInit => ReloadInv
  <1> SUFFICES ASSUME RecoveryInit PROVE ReloadInv
    OBVIOUS
  <1>1. Typed
    BY InitTyped
  <1>2. MutexOwnership
    BY InitOwnership DEF RecoveryInit
  <1>3. /\ mode = "up" /\ unread = <<>> /\ officialIds = {} /\ \A w \in Workers : pc[w] = "idle"
        /\ \A id \in TxnIds : txnMap[id] = None
        /\ \A log \in LogNames : logs[log] = <<>>
    BY DEF RecoveryInit, Init
  <1>4. \A id \in TxnIds, log \in LogNames : ~HasEntry(log, id)
    BY <1>3 DEF HasEntry
  <1>5. \A id \in TxnIds : ~HasBegun(id) /\ ~HasEnded(id)
    BY <1>4, LogSets DEF HasBegun, HasEnded
  <1>6. ExclusiveUse /\ TxnCalls
    BY <1>3 DEF ExclusiveUse, TxnCalls, TxnCall, UsesTxn, HoldsTxnMtx, AfterLog
  <1>7. EntriesOnce
    BY <1>3, <1>4, LogSets DEF EntriesOnce
  <1>8. IdsUsed /\ \A id \in TxnIds : LogsTell(id)
    BY <1>3, <1>5 DEF IdsUsed, LogsTell
  <1> QED BY <1>1, <1>2, <1>3, <1>6, <1>7, <1>8 DEF ReloadInv, Typed, ReloadPhase

\* While no command function runs, nobody has a mutex or a transaction.
LEMMA NobodyRuns ==
  ASSUME StateOK', MutexOwnership, UNCHANGED <<memberMtx, txnMtx, fileMtx, pc>>,
         \A w \in Workers : pc[w] = "idle"
  PROVE  MutexOwnership' /\ ExclusiveUse' /\ TxnCalls'
  <1>1. \A w \in Workers :
          /\ pc'[w] = "idle"
          /\ memberMtx' # w
          /\ \A h \in Handles : txnMtx'[h] # w /\ fileMtx'[h] # w
    BY DEF MutexOwnership, Owns, HoldsMemberMtx, HoldsTxnMtx, HoldsFileMtx
  <1>2. MutexOwnership'
    BY <1>1 DEF MutexOwnership, Owns, HoldsMemberMtx, HoldsTxnMtx, HoldsFileMtx
  <1>3. ExclusiveUse' /\ TxnCalls'
    BY <1>1 DEF ExclusiveUse, TxnCalls, TxnCall, UsesTxn, HoldsTxnMtx, AfterLog
  <1> QED BY <1>2, <1>3

\* A crash: the logs have a begin without an end for the open transactions.
LEMMA CrashReload ==
  ASSUME RestartProviso, ReloadInv, Crash
  PROVE  ReloadInv'
  <1>1. Typed /\ Typed' /\ StateOK'
    BY CrashTyped DEF ReloadInv, Typed
  <1>2. /\ mode = "up" /\ mode' = "loading" /\ unread' = LogOrder
        /\ survivors' = Open /\ UNCHANGED <<txn, logs, officialIds>>
        /\ \A id \in TxnIds : txnMap'[id] = None /\ restarts'[id] = None
        /\ \A w \in Workers : pc'[w] = "idle"
        /\ memberMtx' = None /\ \A h \in Handles : txnMtx'[h] = None /\ fileMtx'[h] = None
    BY DEF Crash, RestartProviso, NoRestarts
  <1>3. MutexOwnership' /\ ExclusiveUse' /\ TxnCalls'
    <2>1. \A w \in Workers : w # None
      BY ConstantsAssumption
    <2>2. MutexOwnership'
      BY <1>2, <2>1 DEF MutexOwnership, Owns, HoldsMemberMtx, HoldsTxnMtx, HoldsFileMtx
    <2>3. ExclusiveUse' /\ TxnCalls'
      BY <1>2 DEF ExclusiveUse, TxnCalls, TxnCall, UsesTxn, HoldsTxnMtx, AfterLog
    <2> QED BY <2>2, <2>3
  <1>4. ReloadPhase'
    <2>1. unread' # <<>> /\ \A log \in LogNames : IsUnread(log)'
      BY <1>2, LogOrderType DEF IsUnread
    <2>2. survivors' \cap officialIds' = {}
      BY <1>2 DEF Open
    <2> QED BY <1>2, <2>1, <2>2 DEF ReloadPhase
  <1>5. EntriesOnce'
    BY <1>2, EntriesKept DEF ReloadInv
  <1>6. IdsUsed'
    BY <1>2, EntriesKept DEF ReloadInv, IdsUsed
  <1>7. ASSUME NEW id \in TxnIds PROVE LoadTells(id)'
    <2>1. LogsTell(id)
      BY <1>2 DEF ReloadInv
    <2>2. id \in Open <=> txnMap[id] # None /\ id \notin officialIds /\ ~Starting(id)
      BY DEF Open, Starting
    <2>3. ~(id \in Open <=> (HasBegun(id) <=> HasEnded(id)))
      BY <2>1, <2>2 DEF LogsTell
    <2> QED BY <1>2, <2>3, EntriesKept DEF LoadTells
  <1> QED BY <1>1, <1>2, <1>3, <1>4, <1>5, <1>6, <1>7 DEF ReloadInv, Typed

LEMMA LoadReload ==
  ASSUME RestartProviso, ReloadInv, LoadFilesAndTransactions
  PROVE  ReloadInv'
  <1>l. PICK log : log = Head(unread)
    OBVIOUS
  <1>b. PICK before : before = [sizes |-> sizes, restarts |-> restarts]
    OBVIOUS
  <1>1. Typed /\ Typed' /\ StateOK'
    BY LoadTyped DEF ReloadInv, Typed
  <1>2. /\ mode = "loading" /\ unread # <<>> /\ unread \in Seq(LogNames)
        /\ logs \in [LogNames -> Seq(LogEntry)]
        /\ restarts' = Load(logs[log], before).restarts
        /\ logs' = [logs EXCEPT ![log] = <<>>]
        /\ unread' = Tail(unread)
        /\ mode' = IF unread' = <<>> THEN "truncating" ELSE "loading"
    BY <1>1, <1>l, <1>b DEF Typed, RecoveryTypes, StateOK, TypeOK, LoadFilesAndTransactions,
       RestartProviso
  <1>3. UNCHANGED <<txnMap, txn, memberMtx, txnMtx, fileMtx, pc, call, officialIds, survivors>>
    BY DEF LoadFilesAndTransactions, registryVars, entryVars, lockVars, threadVars, historyVars
  <1>4. log \in LogNames /\ logs[log] \in Seq(LogEntry) /\ before \in Maps
        /\ before.restarts = restarts
    BY <1>1, <1>2, <1>l, <1>b DEF Typed, RecoveryTypes, Maps
  <1>5. /\ \A w \in Workers : pc[w] = "idle"
        /\ survivors \cap officialIds = {}
        /\ \A id \in TxnIds : txnMap[id] = None
        /\ \A l \in LogNames : logs[l] = <<>> \/ IsUnread(l)
    BY <1>2 DEF ReloadInv, ReloadPhase
  <1>6. MutexOwnership' /\ ExclusiveUse' /\ TxnCalls'
    BY <1>1, <1>3, <1>5, NobodyRuns DEF ReloadInv
  <1>7. ASSUME NEW l \in LogNames PROVE logs'[l] = <<>> \/ IsUnread(l)'
    <2>1. CASE l = log
      BY <1>2, <2>1
    <2>2. CASE l # log /\ logs[l] = <<>>
      BY <1>2, <2>2
    <2>3. CASE l # log /\ IsUnread(l)
      <3>1. PICK j \in 1..Len(unread) : unread[j] = l
        BY <2>3 DEF IsUnread
      <3>2. j # 1
        BY <1>2, <1>l, <2>3, <3>1
      <3>3. j - 1 \in 1..Len(Tail(unread)) /\ Tail(unread)[j - 1] = l
        BY <1>2, <3>1, <3>2
      <3> QED BY <1>2, <3>3 DEF IsUnread
    <2> QED BY <1>5, <2>1, <2>2, <2>3
  <1>8. ReloadPhase'
    BY <1>2, <1>3, <1>5, <1>7 DEF ReloadPhase
  <1>9. \A l \in LogNames, id \in TxnIds : HasEntry(l, id)' <=> l # log /\ HasEntry(l, id)
    <2>1. logs'[log] = <<>> /\ \A l \in LogNames \ {log} : logs'[l] = logs[l]
      BY <1>2, <1>4
    <2> QED BY <2>1 DEF HasEntry
  <1>10. EntriesOnce'
    <2>1. \A l \in LogNames : logs'[l] = <<>> \/ logs'[l] = logs[l]
      BY <1>2
    <2>2. \A l \in LogNames : \A i, j \in 1..Len(logs'[l]) :
            logs'[l][i].id = logs'[l][j].id => i = j
      BY <2>1 DEF ReloadInv, EntriesOnce
    <2>3. \A id \in TxnIds : \A k, l \in EndLogs : HasEntry(k, id)' /\ HasEntry(l, id)' => k = l
      BY <1>9, LogSets DEF ReloadInv, EntriesOnce
    <2> QED BY <2>2, <2>3 DEF EntriesOnce
  <1>11. IdsUsed'
    <2>1. \A id \in TxnIds : /\ HasBegun(id)' => HasBegun(id)
                             /\ HasEnded(id)' => HasEnded(id)
      BY <1>9, LogSets DEF HasBegun, HasEnded
    <2> QED BY <1>3, <2>1 DEF ReloadInv, IdsUsed
  <1>12. ASSUME NEW id \in TxnIds PROVE LoadTells(id)'
    <2>1. restarts'[id] # None <=> ((restarts[id] # None) <=> ~HasEntry(log, id))
      <3>1. \A i, j \in 1..Len(logs[log]) : logs[log][i].id = logs[log][j].id => i = j
        BY <1>4 DEF ReloadInv, EntriesOnce
      <3> QED BY <1>2, <1>4, <3>1, LoadToggles DEF HasEntry
    <2>2. restarts[id] # None <=> (id \in survivors <=> (HasBegun(id) <=> HasEnded(id)))
      BY <1>2 DEF ReloadInv, LoadTells
    <2>3. (HasBegun(id)' <=> HasEnded(id)') <=>
            ((HasBegun(id) <=> HasEnded(id)) <=> ~HasEntry(log, id))
      <3>1. CASE log = "transaction"
        <4>1. ~HasBegun(id)' /\ (HasEnded(id)' <=> HasEnded(id))
          BY <1>9, <3>1, LogSets DEF HasBegun, HasEnded
        <4> QED BY <3>1, <4>1 DEF HasBegun
      <3>2. CASE log # "transaction"
        <4>1. log \in EndLogs
          BY <1>4, <3>2, LogSets
        <4>2. HasBegun(id)' <=> HasBegun(id)
          BY <1>9, <3>2, LogSets DEF HasBegun
        <4>3. CASE HasEntry(log, id)
          <5>1. \A k \in EndLogs : HasEntry(k, id) => k = log
            BY <4>1, <4>3 DEF ReloadInv, EntriesOnce
          <5>2. HasEnded(id) /\ ~HasEnded(id)'
            BY <1>9, <4>1, <4>3, <5>1, LogSets DEF HasEnded
          <5> QED BY <4>2, <4>3, <5>2
        <4>4. CASE ~HasEntry(log, id)
          <5>1. HasEnded(id)' <=> HasEnded(id)
            BY <1>9, <4>4, LogSets DEF HasEnded
          <5> QED BY <4>2, <4>4, <5>1
        <4> QED BY <4>3, <4>4
      <3> QED BY <3>1, <3>2
    <2> QED BY <1>3, <2>1, <2>2, <2>3 DEF LoadTells
  <1>13. ASSUME mode' = "truncating", NEW id \in TxnIds PROVE RestartTells(id)'
    <2>1. \A l \in LogNames : logs'[l] = <<>>
      <3>1. unread' = <<>>
        BY <1>2, <1>13
      <3>2. \A l \in LogNames : ~IsUnread(l)'
        BY <3>1 DEF IsUnread
      <3> QED BY <1>7, <3>2
    <2>2. \A l \in LogNames : ~HasEntry(l, id)'
      BY <2>1 DEF HasEntry
    <2>3. ~HasBegun(id)' /\ ~HasEnded(id)'
      BY <2>2, LogSets DEF HasBegun, HasEnded
    <2> QED BY <1>3, <1>5, <1>12, <2>3 DEF LoadTells, RestartTells
  <1>14. mode' # "up"
    BY <1>2
  <1> QED BY <1>1, <1>6, <1>8, <1>10, <1>11, <1>12, <1>13, <1>14 DEF ReloadInv, Typed

LEMMA TruncateReload ==
  ASSUME ReloadInv, NEW f \in Files, TruncateFiles(f)
  PROVE  ReloadInv'
  <1>1. Typed /\ Typed' /\ StateOK'
    BY TruncateTyped DEF ReloadInv, Typed
  <1>2. mode = "truncating" /\ mode' = mode /\
        UNCHANGED <<txnMap, txn, memberMtx, txnMtx, fileMtx, logs, pc, call, unread, restarts,
                    officialIds, survivors>>
    BY DEF TruncateFiles, registryVars, entryVars, lockVars, threadVars, historyVars
  <1>3. \A w \in Workers : pc[w] = "idle"
    BY <1>2 DEF ReloadInv, ReloadPhase
  <1>4. MutexOwnership' /\ ExclusiveUse' /\ TxnCalls'
    BY <1>1, <1>2, <1>3, NobodyRuns DEF ReloadInv
  <1>5. ReloadPhase'
    BY <1>2 DEF ReloadInv, ReloadPhase
  <1>6. EntriesOnce' /\ IdsUsed' /\ \A id \in TxnIds : RestartTells(id)'
    BY <1>2, EntriesKept DEF ReloadInv, IdsUsed, RestartTells
  <1> QED BY <1>1, <1>2, <1>4, <1>5, <1>6 DEF ReloadInv, Typed

\* What LogTransaction adds when no log entry fails.
LEMMA LoggedIs ==
  ASSUME TypeOK, "log" \notin FailureKinds, NEW log \in LogNames, NEW id \in TxnIds,
         NEW f \in Files, LogTransaction(log, id, f)
  PROVE  \E e \in LogEntry : /\ e.id = id
                             /\ logs' = [logs EXCEPT ![log] = Append(@, e)]
  <1>e. PICK e : e = [id |-> id, file |-> f, size |-> GetFileSize(f)]
    OBVIOUS
  <1>1. GetFileSize(f) \in Nat
    BY GetFileSizeType
  <1>2. e \in LogEntry /\ e.id = id
    BY <1>1, <1>e DEF LogEntry
  <1>3. logs' = [logs EXCEPT ![log] = Append(@, e)]
    BY <1>e DEF LogTransaction, Fails
  <1> QED BY <1>2, <1>3

LEMMA RestartReload ==
  ASSUME RestartProviso, ReloadInv, NEW id \in TxnIds, NEW h \in Handles,
         RestartTransaction(id, h)
  PROVE  ReloadInv'
  <1>f. PICK f : f = restarts[id]
    OBVIOUS
  <1>1. Typed /\ Typed' /\ StateOK' /\ StateOK /\ TypeOK
    BY RestartTyped DEF ReloadInv, Typed, StateOK
  <1>2. /\ f \in Files /\ txn[h].id = None /\ restarts[id] # None
        /\ AddNewTransaction(h, id, f)
        /\ LogTransaction("transaction", id, f)
        /\ restarts'[id] = None /\ \A i \in TxnIds \ {id} : restarts'[i] = restarts[i]
    BY <1>1, <1>f DEF RestartTransaction, Typed, RecoveryTypes
  <1>3. mode = "truncating" /\ UNCHANGED <<memberMtx, txnMtx, fileMtx, pc, call, mode, unread,
                                           officialIds, survivors>>
    BY DEF RestartTransaction, lockVars, threadVars, historyVars
  <1>4. PICK e \in LogEntry : e.id = id /\ logs' = [logs EXCEPT !["transaction"] = Append(@, e)]
    BY <1>1, <1>2, LoggedIs, LogSets DEF RestartProviso
  <1>5. /\ txnMap'[id] = h /\ \A i \in TxnIds \ {id} : txnMap'[i] = txnMap[i]
        /\ txn'[h].id = id
        /\ \A k \in Handles \ {h} : txn'[k] = txn[k]
    BY <1>1, <1>2, AddEntries
  <1>6. /\ \A w \in Workers : pc[w] = "idle"
        /\ txnMap[id] = None /\ ~HasEnded(id) /\ ~HasBegun(id) /\ id \in survivors
    BY <1>2, <1>3 DEF ReloadInv, ReloadPhase, RestartTells
  <1>7. MutexOwnership' /\ ExclusiveUse' /\ TxnCalls'
    BY <1>1, <1>3, <1>6, NobodyRuns DEF ReloadInv
  <1>8. ReloadPhase'
    BY <1>2, <1>3, <1>5 DEF ReloadInv, ReloadPhase
  <1>9. \A l \in LogNames, i \in TxnIds :
          HasEntry(l, i)' <=> HasEntry(l, i) \/ (l = "transaction" /\ i = id)
    BY <1>1, <1>4, EntryAppend, LogSets
  <1>10. EntriesOnce'
    BY <1>1, <1>4, <1>6, EntryAppend, LogSets DEF ReloadInv, HasBegun
  <1>11. \A i \in TxnIds : /\ HasBegun(i)' <=> HasBegun(i) \/ i = id
                           /\ HasEnded(i)' <=> HasEnded(i)
    BY <1>9, LogSets DEF HasBegun, HasEnded
  <1>12. IdsUsed'
    <2>1. \A k \in Handles, i \in TxnIds : txn[k].id = i => txn'[k].id = i
      BY <1>2, <1>5, ConstantsAssumption
    <2> QED BY <1>3, <1>5, <1>11, <2>1 DEF ReloadInv, IdsUsed
  <1>13. ASSUME NEW i \in TxnIds PROVE RestartTells(i)'
    <2>1. RestartTells(i)
      BY <1>3 DEF ReloadInv
    <2>2. h # None
      BY ConstantsAssumption
    <2> QED BY <1>2, <1>3, <1>5, <1>6, <1>11, <2>1, <2>2 DEF RestartTells
  <1> QED BY <1>1, <1>3, <1>7, <1>8, <1>10, <1>12, <1>13 DEF ReloadInv, Typed

\* What Initialized finds.
LEMMA InitializedTells ==
  ASSUME ReloadInv, Initialized
  PROVE  {id \in TxnIds : txnMap'[id] # None} = survivors
  <1>1. /\ mode = "truncating" /\ \A id \in TxnIds : restarts[id] = None
        /\ UNCHANGED txnMap
    BY DEF Initialized, NoRestarts, vars, registryVars
  <1>2. survivors \subseteq TxnIds
    BY DEF ReloadInv, RecoveryTypes
  <1> QED BY <1>1, <1>2 DEF ReloadInv, RestartTells

LEMMA InitializedReload ==
  ASSUME ReloadInv, Initialized
  PROVE  ReloadInv'
  <1>1. Typed /\ Typed' /\ StateOK'
    BY TypedStep DEF ReloadInv, Typed, RecoveryNext, Recover
  <1>2. mode = "truncating" /\ mode' = "up" /\
        UNCHANGED <<txnMap, txn, memberMtx, txnMtx, fileMtx, logs, pc, call, unread, restarts,
                    officialIds, survivors>>
    BY DEF Initialized, vars, registryVars, entryVars, lockVars, diskVars, threadVars,
           loadVars, historyVars
  <1>3. \A w \in Workers : pc[w] = "idle"
    BY <1>2 DEF ReloadInv, ReloadPhase
  <1>4. MutexOwnership' /\ ExclusiveUse' /\ TxnCalls'
    BY <1>1, <1>2, <1>3, NobodyRuns DEF ReloadInv
  <1>5. ReloadPhase'
    BY <1>2 DEF ReloadInv, ReloadPhase
  <1>6. EntriesOnce' /\ IdsUsed'
    BY <1>2, EntriesKept DEF ReloadInv, IdsUsed
  <1>7. ASSUME NEW id \in TxnIds PROVE LogsTell(id)'
    <2>1. RestartTells(id) /\ survivors \cap officialIds = {}
      BY <1>2 DEF ReloadInv, ReloadPhase
    <2>2. txnMap[id] # None <=> id \in survivors
      BY <1>2, InitializedTells
    <2>3. ~Starting(id)'
      BY <1>2, <1>3 DEF Starting
    <2> QED BY <1>2, <2>1, <2>2, <2>3, EntriesKept DEF RestartTells, LogsTell
  <1> QED BY <1>1, <1>2, <1>4, <1>5, <1>6, <1>7 DEF ReloadInv, Typed


-----------------------------------------------------------------------------
(* The running server and its logs.                                        *)

\* v goes on with its transaction, which is in the map if v passes the second
\* look, or is done with it; it neither begins nor ends one.
Keeps(v) ==
  /\ pc'[v] \in AtTxn =>
       pc[v] \in AtTxn /\ call'[v].id = call[v].id /\ call'[v].h = call[v].h
  /\ pc'[v] = "NewTxnLog" <=> pc[v] = "NewTxnLog"
  /\ pc'[v] \in AfterLog <=> pc[v] \in AfterLog
  /\ pc'[v] \in {"LockTxn", "Recheck"} => pc[v] \in {"LockTxn", "Recheck"}
  /\ pc'[v] \in UsesTxn =>
       pc[v] \in UsesTxn \/ (pc[v] = "Recheck" /\ txnMap[call[v].id] # None)

\* w finds a transaction in the map.
Looks(w) ==
  /\ pc[w] = "idle" /\ pc'[w] = "LockTxn"
  /\ memberMtx = None
  /\ call'[w].h = txnMap[call'[w].id]

\* A step that no log tells of.
Still ==
  /\ UNCHANGED <<txnMap, txn, logs>>
  /\ \A v \in Workers : Keeps(v) \/ Looks(v)

LEMMA OthersKeep ==
  ASSUME NEW v \in Workers, pc'[v] = pc[v], call'[v] = call[v]
  PROVE  Keeps(v)
  BY DEF Keeps

LEMMA StillMove ==
  ASSUME NEW w \in Workers, UNCHANGED <<txnMap, txn, logs>>, Keeps(w) \/ Looks(w),
         \A v \in Workers \ {w} : pc'[v] = pc[v] /\ call'[v] = call[v]
  PROVE  Still
  BY OthersKeep DEF Still

LEMMA StillReturn ==
  ASSUME StateOK, NEW w \in Workers, NEW cmd, NEW id, NEW h, NEW out,
         Return(w, cmd, id, h, out), pc[w] \notin AfterLog \cup {"NewTxnLog"},
         UNCHANGED <<txnMap, txn, logs>>
  PROVE  Still
  <1>1. /\ pc'[w] = "idle"
        /\ \A v \in Workers \ {w} : pc'[v] = pc[v] /\ call'[v] = call[v]
    BY DEF Return, StateOK, TypeOK
  <1>2. Keeps(w)
    BY <1>1 DEF Keeps, AtTxn, AfterLog, UsesTxn, HoldsTxnMtx
  <1> QED BY <1>1, <1>2, StillMove

LEMMA StillGoto ==
  ASSUME StateOK, NEW w \in Workers, NEW label,
         pc[w] \in AtTxn \ (AfterLog \cup {"NewTxnLog"}),
         label \in AtTxn \ (AfterLog \cup {"NewTxnLog"}),
         label \in {"LockTxn", "Recheck"} => pc[w] = "LockTxn",
         label \in UsesTxn => pc[w] \in UsesTxn \/ (pc[w] = "Recheck" /\ txnMap[call[w].id] # None),
         pc'[w] = label, call'[w].id = call[w].id, call'[w].h = call[w].h,
         \A v \in Workers \ {w} : pc'[v] = pc[v] /\ call'[v] = call[v],
         UNCHANGED <<txnMap, txn, logs>>
  PROVE  Still
  <1>1. Keeps(w)
    BY DEF Keeps
  <1> QED BY <1>1, StillMove

LEMMA LookupStill ==
  ASSUME StateOK, NEW w \in Workers, NEW cmd, NEW id, NEW k, NEW out,
         Lookup(w, cmd, id, k, out)
  PROVE  Still
  <1>1. UNCHANGED <<txnMap, txn, logs>> /\ pc[w] = "idle" /\ memberMtx = None
    BY DEF Lookup, registryVars, entryVars, diskVars
  <1>2. CASE \E o : Return(w, cmd, id, None, o)
    BY <1>1, <1>2, StillReturn DEF AfterLog
  <1>3. CASE Begin(w, "LockTxn", Call(cmd, id, k, None, txnMap[id], 0))
    <2>1. /\ pc'[w] = "LockTxn" /\ call'[w].id = id /\ call'[w].h = txnMap[id]
          /\ \A v \in Workers \ {w} : pc'[v] = pc[v] /\ call'[v] = call[v]
      BY <1>3 DEF Begin, Call, StateOK, TypeOK
    <2>2. Looks(w)
      BY <1>1, <2>1 DEF Looks
    <2> QED BY <1>1, <2>1, <2>2, StillMove
  <1> QED BY <1>2, <1>3 DEF Lookup

LEMMA LockStill ==
  ASSUME StateOK, NEW w \in Workers, NEW cmd, LockTxn(w, cmd) \/ RecheckGone(w, cmd)
  PROVE  Still
  <1>1. UNCHANGED <<txnMap, txn, logs>>
    BY DEF LockTxn, RecheckGone, registryVars, entryVars, diskVars
  <1>2. CASE LockTxn(w, cmd)
    <2>1. /\ pc[w] = "LockTxn" /\ pc'[w] = "Recheck" /\ call' = call
          /\ \A v \in Workers \ {w} : pc'[v] = pc[v]
      BY <1>2 DEF LockTxn, Goto, StateOK, TypeOK
    <2> QED BY <1>1, <2>1, StillGoto DEF AtTxn, AfterLog, UsesTxn, HoldsTxnMtx
  <1>3. CASE RecheckGone(w, cmd)
    <2>1. pc[w] = "Recheck" /\ \E o : Answer(w, o)
      BY <1>3 DEF RecheckGone
    <2> QED BY <1>1, <2>1, StillReturn DEF Answer, AfterLog
  <1> QED BY <1>2, <1>3

LEMMA RecheckStill ==
  ASSUME StateOK, NEW w \in Workers,
         WriteRecheck(w) \/ CommitRecheck(w) \/ AbortRecheck(w)
  PROVE  Still
  <1>1. UNCHANGED <<txnMap, txn, logs>>
    BY DEF WriteRecheck, CommitRecheck, AbortRecheck, registryVars, entryVars, diskVars
  <1>2. /\ pc[w] = "Recheck" /\ pc'[w] \in {"WriteBuffer", "CommitVerify", "AbortUnlock"}
        /\ call' = call /\ txnMap[call[w].id] # None
        /\ \A v \in Workers \ {w} : pc'[v] = pc[v]
    BY DEF WriteRecheck, CommitRecheck, AbortRecheck, RecheckPresent, Gone, Goto, StateOK, TypeOK
  <1> QED BY <1>1, <1>2, StillGoto DEF AtTxn, AfterLog, UsesTxn, HoldsTxnMtx

LEMMA CommitStill ==
  ASSUME StateOK, NEW w \in Workers,
         CommitStepOf(w), ~CommitLog(w), ~CommitRemove(w)
  PROVE  Still
  <1> USE DEF AtTxn, AfterLog, UsesTxn, HoldsTxnMtx
  <1>1. UNCHANGED <<txnMap, txn, logs>>
    BY DEF CommitStepOf, CommitVerify, CommitOpen, CommitWrite, CommitRollback, CommitTruncate,
           CommitInsert, CommitSize, registryVars, entryVars, diskVars
  <1>2. ASSUME NEW out, Answer(w, out), pc[w] \in {"CommitVerify", "CommitOpen", "CommitTruncate"}
        PROVE  Still
    BY <1>1, <1>2, StillReturn DEF Answer
  <1>3. ASSUME NEW label \in {"CommitOpen", "CommitRollback", "CommitLog"}, Goto(w, label),
               pc[w] \in {"CommitVerify", "CommitWrite", "CommitInsert"}
        PROVE  Still
    <2>1. pc'[w] = label /\ call' = call /\ \A v \in Workers \ {w} : pc'[v] = pc[v]
      BY <1>3 DEF Goto, StateOK, TypeOK
    <2> QED BY <1>1, <1>3, <2>1, StillGoto
  <1>4. ASSUME NEW label \in {"CommitWrite", "CommitInsert", "CommitTruncate"}, NEW n,
               pc' = [pc EXCEPT ![w] = label], call' = [call EXCEPT ![w].i = n],
               pc[w] \in {"CommitOpen", "CommitWrite", "CommitRollback"}
        PROVE  Still
    <2>1. /\ pc'[w] = label /\ call'[w].id = call[w].id /\ call'[w].h = call[w].h
          /\ \A v \in Workers \ {w} : pc'[v] = pc[v] /\ call'[v] = call[v]
      BY <1>4 DEF StateOK, TypeOK, Calls
    <2> QED BY <1>1, <1>4, <2>1, StillGoto
  <1>5. CASE CommitVerify(w)
    BY <1>2, <1>3, <1>5 DEF CommitVerify
  <1>6. CASE CommitOpen(w)
    BY <1>2, <1>4, <1>6 DEF CommitOpen
  <1>7. CASE CommitWrite(w)
    BY <1>3, <1>4, <1>7 DEF CommitWrite
  <1>8. CASE CommitRollback(w)
    BY <1>4, <1>8 DEF CommitRollback
  <1>9. CASE CommitTruncate(w)
    BY <1>2, <1>9 DEF CommitTruncate
  <1>10. CASE CommitInsert(w)
    BY <1>3, <1>10 DEF CommitInsert
  <1>11. CASE CommitSize(w)
    <2>1. /\ pc[w] = "CommitSize" /\ pc'[w] = "CommitRemove" /\ call' = call
          /\ \A v \in Workers \ {w} : pc'[v] = pc[v]
      BY <1>11 DEF CommitSize, Goto, StateOK, TypeOK
    <2>2. Keeps(w)
      BY <2>1 DEF Keeps
    <2> QED BY <1>1, <2>1, <2>2, StillMove
  <1> QED BY <1>5, <1>6, <1>7, <1>8, <1>9, <1>10, <1>11 DEF CommitStepOf

LEMMA OtherStill ==
  ASSUME StateOK, NEW w \in Workers,
         READ(w) \/ Refuse(w) \/ (\E k \in SeqNums : NewTxnReject(w, k)) \/ WriteBuffer(w)
         \/ AbortUnlock(w)
  PROVE  Still
  <1> USE DEF AtTxn, AfterLog, UsesTxn, HoldsTxnMtx
  <1>1. CASE READ(w) \/ Refuse(w)
    <2>1. /\ UNCHANGED <<txnMap, txn, logs>>
          /\ pc[w] \in {"idle", "ReadData"} /\ pc'[w] \in {"idle", "ReadData"}
          /\ \A v \in Workers \ {w} : pc'[v] = pc[v] /\ call'[v] = call[v]
      BY <1>1
      DEF READ, ReadOpen, ReadData, Refuse, RefuseRequest, Begin, Answer, Return,
          StateOK, TypeOK, registryVars, entryVars, diskVars
    <2>2. Keeps(w)
      BY <2>1 DEF Keeps
    <2> QED BY <2>1, <2>2, StillMove
  <1>2. ASSUME NEW k \in SeqNums, NewTxnReject(w, k) PROVE Still
    <2>1. UNCHANGED <<txnMap, txn, logs>> /\ pc[w] = "idle"
      BY <1>2 DEF NewTxnReject, registryVars, entryVars, diskVars
    <2> QED BY <1>2, <2>1, StillReturn DEF NewTxnReject
  <1>3. CASE WriteBuffer(w)
    <2>1. UNCHANGED <<txnMap, txn, logs>> /\ pc[w] = "WriteBuffer" /\ \E o : Answer(w, o)
      BY <1>3 DEF WriteBuffer, registryVars, diskVars
    <2> QED BY <2>1, StillReturn DEF Answer
  <1>4. CASE AbortUnlock(w)
    <2>1. /\ UNCHANGED <<txnMap, txn, logs>> /\ pc[w] = "AbortUnlock" /\ pc'[w] = "AbortRemove"
          /\ call' = call /\ \A v \in Workers \ {w} : pc'[v] = pc[v]
      BY <1>4 DEF AbortUnlock, Goto, registryVars, entryVars, diskVars, StateOK, TypeOK
    <2> QED BY <2>1, StillGoto
  <1> QED BY <1>1, <1>2, <1>3, <1>4

\* The steps that the logs tell of, and those that erase a transaction.
LEMMA ReloadSteps ==
  ASSUME StateOK, [Next]_vars
  PROVE  \/ Still
         \/ \E w \in Workers :
              \/ \E f \in Files, id \in TxnIds, h \in Handles : NewTxnCreate(w, f, id, h)
              \/ NewTxnLog(w) \/ CommitLog(w) \/ CommitRemove(w) \/ AbortRemove(w)
         \/ \E h \in Handles : TimerFire(h)
  <1>1. CASE UNCHANGED vars
    BY <1>1, OthersKeep DEF vars, registryVars, entryVars, diskVars, threadVars, Still
  <1>2. ASSUME NEW w \in Workers, READ(w) \/ Refuse(w) PROVE Still
    BY <1>2, OtherStill
  <1>3. ASSUME NEW w \in Workers, NEW_TXN(w)
        PROVE  \/ Still \/ NewTxnLog(w)
               \/ \E f \in Files, id \in TxnIds, h \in Handles : NewTxnCreate(w, f, id, h)
    BY <1>3, OtherStill DEF NEW_TXN
  <1>4. ASSUME NEW w \in Workers, WRITE(w) PROVE Still
    BY <1>4, LookupStill, LockStill, RecheckStill, OtherStill DEF WRITE, WriteLookup
  <1>5. ASSUME NEW w \in Workers, COMMIT(w)
        PROVE  Still \/ CommitLog(w) \/ CommitRemove(w)
    BY <1>5, LookupStill, LockStill, RecheckStill, CommitStill
    DEF COMMIT, CommitLookup, CommitStepOf
  <1>6. ASSUME NEW w \in Workers, ABORT(w) PROVE Still \/ AbortRemove(w)
    BY <1>6, LookupStill, LockStill, RecheckStill, OtherStill DEF ABORT, AbortLookup
  <1>7. ASSUME NEW h \in Handles, Expire(h) \/ Timer(h) PROVE Still \/ TimerFire(h)
    <2>1. CASE ~TimerFire(h)
      <3>1. UNCHANGED <<txnMap, txn, logs, pc, call>>
        BY <1>7, <2>1 DEF Expire, Timer, TimerExit, registryVars, diskVars
      <3> QED BY <3>1, OthersKeep DEF Still
    <2> QED BY <2>1
  <1> QED BY <1>1, <1>2, <1>3, <1>4, <1>5, <1>6, <1>7 DEF Next

\* What a step of the running server has to keep.
LEMMA ServeReloads ==
  ASSUME RestartProviso, ReloadInv, Serve,
         EntriesOnce', IdsUsed', TxnCalls', \A id \in TxnIds : LogsTell(id)'
  PROVE  ReloadInv'
  <1>1. mode = "up" /\ mode' = "up" /\ Next /\ UNCHANGED unread
    BY DEF Serve, loadVars
  <1>2. Typed'
    BY ServeTyped DEF ReloadInv, Typed
  <1>3. MutexOwnership' /\ ExclusiveUse'
    BY <1>1, OwnershipInductive, ExclusiveInductive DEF ReloadInv, RestartProviso
  <1>4. ReloadPhase'
    BY <1>1 DEF ReloadInv, ReloadPhase
  <1> QED BY <1>1, <1>2, <1>3, <1>4 DEF ReloadInv, Typed

\* A commit becomes official with its log entry.
LEMMA OfficialKept ==
  ASSUME StateOK, Serve, logs'["commit"] = logs["commit"]
  PROVE  UNCHANGED officialIds
  <1>1. Len(logs["commit"]) \in Nat
    BY DEF StateOK, TypeOK, LogNames
  <1>2. \A w \in Workers : ~BecomesOfficial(w)
    BY <1>1 DEF BecomesOfficial
  <1> QED BY <1>2 DEF Serve

LEMMA UpFacts ==
  ASSUME ReloadInv, Serve
  PROVE  /\ StateOK /\ TypeOK /\ TypeOK' /\ StateOK' /\ MutexOwnership /\ ExclusiveUse
         /\ EntriesOnce /\ IdsUsed
         /\ \A w \in Workers : TxnCall(w)
         /\ \A id \in TxnIds : LogsTell(id)
  <1>1. Typed'
    BY ServeTyped DEF ReloadInv, Typed
  <1>2. mode = "up"
    BY DEF Serve
  <1> QED BY <1>1, <1>2 DEF ReloadInv, Typed, StateOK, TxnCalls

\* Where m_member_mtx is free nobody is starting a transaction.
LEMMA NobodyStarts ==
  ASSUME MutexOwnership, memberMtx = None
  PROVE  \A v \in Workers : pc[v] # "NewTxnLog"
  BY ConstantsAssumption DEF MutexOwnership, Owns, HoldsMemberMtx

\* A transaction that somebody uses is not starting, nor has anybody else
\* written its commit to the log.
LEMMA UserAlone ==
  ASSUME ReloadInv, Serve, NEW w \in Workers, pc[w] \in UsesTxn
  PROVE  /\ call[w].id \in TxnIds /\ call[w].h \in Handles /\ call[w].h # None
         /\ txn[call[w].h].id = call[w].id
         /\ txn[call[w].h].file \in Files
         /\ txnMap[call[w].id] = call[w].h
         /\ ~Starting(call[w].id)
         /\ Finished(call[w].id) => pc[w] \in AfterLog
         /\ \A v \in Workers \ {w} : pc[v] \in UsesTxn \cup {"NewTxnLog"} =>
              call[v].id # call[w].id
  <1>1. /\ StateOK /\ ExclusiveUse /\ \A v \in Workers : TxnCall(v)
    BY UpFacts
  <1>2. /\ call[w].id \in TxnIds /\ call[w].h \in Handles
        /\ txn[call[w].h].id = call[w].id /\ txn[call[w].h].file \in Files
    BY <1>1, CallEntry
  <1>3. call[w].h # None
    BY <1>2, ConstantsAssumption
  <1>4. txnMap[call[w].id] = call[w].h
    BY <1>1 DEF TxnCall
  <1>5. ASSUME NEW v \in Workers \ {w}, pc[v] \in UsesTxn PROVE call[v].id # call[w].id
    BY <1>1, <1>4, <1>5 DEF TxnCall, ExclusiveUse
  <1>6. ASSUME NEW v \in Workers, pc[v] = "NewTxnLog" PROVE call[v].id # call[w].id
    <2>1. pc[w] \in AtTxn /\ v # w
      BY <1>6 DEF AtTxn, UsesTxn, HoldsTxnMtx
    <2> QED BY <1>1, <1>6, <2>1 DEF TxnCall
  <1>7. AfterLog \subseteq UsesTxn
    BY DEF AfterLog, UsesTxn, HoldsTxnMtx
  <1>8. ~Starting(call[w].id)
    BY <1>6 DEF Starting
  <1>9. Finished(call[w].id) => pc[w] \in AfterLog
    BY <1>5, <1>7 DEF Finished
  <1> QED BY <1>2, <1>3, <1>4, <1>5, <1>6, <1>8, <1>9

LEMMA StillReload ==
  ASSUME RestartProviso, ReloadInv, Serve, Still
  PROVE  ReloadInv'
  <1>1. /\ StateOK /\ EntriesOnce /\ IdsUsed /\ MutexOwnership
        /\ \A w \in Workers : TxnCall(w)
        /\ \A id \in TxnIds : LogsTell(id)
    BY UpFacts
  <1>2. UNCHANGED <<txnMap, txn, logs, officialIds>>
    BY <1>1, OfficialKept DEF Still
  <1>3. AfterLog \subseteq AtTxn /\ "NewTxnLog" \in AtTxn /\ UsesTxn \subseteq AtTxn
        /\ {"LockTxn", "Recheck"} \subseteq AtTxn
        /\ \A v \in Workers : Looks(v) =>
             /\ pc'[v] \notin AfterLog \cup UsesTxn \cup {"NewTxnLog"}
             /\ pc[v] \notin AfterLog \cup UsesTxn \cup {"NewTxnLog"}
    BY DEF AfterLog, AtTxn, UsesTxn, HoldsTxnMtx, Looks
  <1>4. ASSUME NEW v \in Workers
        PROVE  /\ pc'[v] = "NewTxnLog" <=> pc[v] = "NewTxnLog"
               /\ pc'[v] \in AfterLog <=> pc[v] \in AfterLog
               /\ pc'[v] \in AfterLog \cup {"NewTxnLog"} => call'[v].id = call[v].id /\ call'[v].h = call[v].h
    <2>1. CASE Keeps(v)
      BY <1>3, <2>1 DEF Keeps
    <2>2. CASE Looks(v)
      BY <1>3, <2>2
    <2> QED BY <2>1, <2>2 DEF Still
  <1>5. ASSUME NEW id \in TxnIds PROVE LogsTell(id)'
    <2>1. Starting(id)' <=> Starting(id)
      BY <1>4 DEF Starting
    <2>2. Finished(id)' <=> Finished(id)
      BY <1>4 DEF Finished
    <2>3. LogsTell(id)
      BY <1>1
    <2> QED BY <1>2, <2>1, <2>2, <2>3, EntriesKept DEF LogsTell
  <1>6. ASSUME NEW w \in Workers PROVE TxnCall(w)'
    <2>1. pc'[w] \in {"LockTxn", "Recheck"} => txnMap'[call'[w].id] \in {call'[w].h, None}
      <3>1. CASE Keeps(w)
        BY <1>1, <1>2, <1>3, <3>1 DEF Keeps, TxnCall
      <3>2. CASE Looks(w)
        BY <1>2, <3>2 DEF Looks
      <3> QED BY <3>1, <3>2 DEF Still
    <2>2. pc'[w] \in UsesTxn \cup {"NewTxnLog"} => txnMap'[call'[w].id] = call'[w].h
      <3>1. CASE Keeps(w)
        BY <1>1, <1>2, <1>3, <3>1 DEF Keeps, TxnCall
      <3>2. CASE Looks(w)
        BY <1>3, <3>2
      <3> QED BY <3>1, <3>2 DEF Still
    <2>3. pc'[w] \in AfterLog => call'[w].id \in officialIds'
      BY <1>1, <1>2, <1>4 DEF TxnCall
    <2>4. ASSUME pc'[w] = "NewTxnLog", NEW v \in Workers \ {w}, pc'[v] \in AtTxn
          PROVE  call'[v].id # call'[w].id
      <3>1. pc[w] = "NewTxnLog" /\ call'[w].id = call[w].id
        BY <1>4, <2>4
      <3>2. memberMtx # None
        BY <1>1, <3>1, NobodyStarts
      <3>3. Keeps(v)
        BY <3>2 DEF Still, Looks
      <3> QED BY <1>1, <2>4, <3>1, <3>3 DEF Keeps, TxnCall
    <2> QED BY <2>1, <2>2, <2>3, <2>4 DEF TxnCall
  <1>7. EntriesOnce' /\ IdsUsed'
    BY <1>1, <1>2, EntriesKept DEF IdsUsed
  <1>8. TxnCalls'
    BY <1>6 DEF TxnCalls
  <1> QED BY <1>5, <1>7, <1>8, ServeReloads

\* NEW_TXN takes an id that no log knows ...
LEMMA CreateReload ==
  ASSUME RestartProviso, ReloadInv, Serve, NEW w \in Workers, NEW f \in Files,
         NEW id \in TxnIds, NEW h \in Handles, NewTxnCreate(w, f, id, h)
  PROVE  ReloadInv'
  <1>1. /\ StateOK /\ EntriesOnce /\ IdsUsed /\ MutexOwnership
        /\ \A v \in Workers : TxnCall(v)
        /\ \A i \in TxnIds : LogsTell(i)
    BY UpFacts
  <1>2. /\ memberMtx = None /\ txnMap[id] = None /\ txn[h].id = None
        /\ \A g \in Handles : txn[g].id # id
        /\ AddNewTransaction(h, id, f) /\ UNCHANGED logs
        /\ pc[w] = "idle"
    BY DEF NewTxnCreate, Candidate, RestartProviso, Begin, diskVars
  <1>3. /\ pc'[w] = "NewTxnLog" /\ call'[w].id = id /\ call'[w].h = h
        /\ \A v \in Workers \ {w} : pc'[v] = pc[v] /\ call'[v] = call[v]
    BY <1>1 DEF NewTxnCreate, Begin, Call, StateOK, TypeOK
  <1>4. UNCHANGED officialIds
    BY <1>1, <1>2, OfficialKept
  <1>5. /\ txnMap'[id] = h /\ \A i \in TxnIds \ {id} : txnMap'[i] = txnMap[i]
        /\ txn'[h].id = id
        /\ \A k \in Handles \ {h} : txn'[k] = txn[k]
    BY <1>1, <1>2, AddEntries
  <1>6. id \notin officialIds /\ ~HasBegun(id) /\ ~HasEnded(id)
    BY <1>1, <1>2 DEF IdsUsed
  <1>7. ASSUME NEW v \in Workers, pc[v] \in AtTxn
        PROVE  call[v].id \in TxnIds /\ call[v].id # id
    <2>1. call[v].id \in TxnIds /\ call[v].h \in Handles /\ txn[call[v].h].id = call[v].id
      BY <1>1, <1>7 DEF StateOK, CallOK, AtTxn
    <2> QED BY <1>2, <2>1
  <1>8. pc[w] \notin AtTxn /\ AfterLog \subseteq AtTxn /\ UsesTxn \subseteq AtTxn
        /\ {"LockTxn", "Recheck", "NewTxnLog"} \subseteq AtTxn
        /\ "NewTxnLog" \notin AfterLog \cup UsesTxn \cup {"LockTxn", "Recheck"}
    BY <1>2 DEF AtTxn, AfterLog, UsesTxn, HoldsTxnMtx
  <1>9. ASSUME NEW i \in TxnIds PROVE LogsTell(i)'
    <2>1. CASE i = id
      <3>1. Starting(id)' /\ h # None
        BY <1>3, ConstantsAssumption DEF Starting
      <3> QED BY <1>2, <1>4, <1>5, <1>6, <2>1, <3>1, EntriesKept DEF LogsTell
    <2>2. CASE i # id
      <3>1. Starting(i)' <=> Starting(i)
        BY <1>3, <1>8, <2>2 DEF Starting
      <3>2. Finished(i)' <=> Finished(i)
        BY <1>3, <1>8 DEF Finished
      <3>3. LogsTell(i)
        BY <1>1
      <3> QED BY <1>2, <1>4, <1>5, <2>2, <3>1, <3>2, <3>3, EntriesKept DEF LogsTell
    <2> QED BY <2>1, <2>2
  <1>10. ASSUME NEW v \in Workers PROVE TxnCall(v)'
    <2>1. CASE v = w
      <3>1. \A u \in Workers \ {w} : pc'[u] \in AtTxn => call'[u].id # id
        BY <1>3, <1>7
      <3> QED BY <1>3, <1>5, <1>8, <2>1, <3>1 DEF TxnCall
    <2>2. CASE v # w
      <3>1. TxnCall(v) /\ pc'[v] = pc[v] /\ call'[v] = call[v]
        BY <1>1, <1>3, <2>2
      <3>2. pc[v] # "NewTxnLog"
        BY <1>1, <1>2, NobodyStarts
      <3>3. pc[v] \in AtTxn => txnMap'[call[v].id] = txnMap[call[v].id]
        BY <1>5, <1>7
      <3> QED BY <1>4, <1>8, <3>1, <3>2, <3>3 DEF TxnCall
    <2> QED BY <2>1, <2>2
  <1>11. EntriesOnce' /\ IdsUsed'
    <2>1. \A k \in Handles, i \in TxnIds : txn[k].id = i => txn'[k].id = i
      BY <1>2, <1>5, ConstantsAssumption
    <2> QED BY <1>1, <1>2, <1>4, <2>1, EntriesKept DEF IdsUsed
  <1>12. TxnCalls'
    BY <1>10 DEF TxnCalls
  <1> QED BY <1>9, <1>11, <1>12, ServeReloads

\* ... and logs it before anybody else can come across it.
LEMMA NewTxnLogReload ==
  ASSUME RestartProviso, ReloadInv, Serve, NEW w \in Workers, NewTxnLog(w)
  PROVE  ReloadInv'
  <1>d. PICK id : id = call[w].id
    OBVIOUS
  <1>1. /\ StateOK /\ TypeOK /\ EntriesOnce /\ IdsUsed /\ MutexOwnership
        /\ \A v \in Workers : TxnCall(v)
        /\ \A i \in TxnIds : LogsTell(i)
    BY UpFacts
  <1>2. /\ pc[w] = "NewTxnLog" /\ LogTransaction("transaction", id, call[w].file)
        /\ UNCHANGED <<txnMap, txn>> /\ Answer(w, "ACK")
    BY <1>d DEF NewTxnLog, registryVars
  <1>3. /\ pc'[w] = "idle"
        /\ \A v \in Workers \ {w} : pc'[v] = pc[v] /\ call'[v] = call[v]
    BY <1>1, <1>2 DEF Answer, Return, StateOK, TypeOK
  <1>4. /\ id \in TxnIds /\ call[w].h \in Handles /\ txn[call[w].h].id = id
        /\ call[w].file \in Files /\ call[w].h # None
    BY <1>1, <1>2, <1>d, ConstantsAssumption DEF StateOK, CallOK
  <1>5. PICK e \in LogEntry : e.id = id /\ logs' = [logs EXCEPT !["transaction"] = Append(@, e)]
    BY <1>1, <1>2, <1>4, LoggedIs, LogSets DEF RestartProviso
  <1>6. UNCHANGED officialIds
    <2>1. logs'["commit"] = logs["commit"]
      BY <1>1, <1>5 DEF TypeOK, LogNames
    <2> QED BY <1>1, <2>1, OfficialKept
  <1>7. /\ txnMap[id] # None /\ ~HasBegun(id) /\ ~HasEnded(id) /\ id \notin officialIds
    <2>1. txnMap[id] = call[w].h
      BY <1>1, <1>2, <1>d DEF TxnCall
    <2>2. Starting(id)
      BY <1>2, <1>d DEF Starting
    <2> QED BY <1>1, <1>4, <2>1, <2>2 DEF LogsTell
  <1>8. \A l \in LogNames, i \in TxnIds :
          HasEntry(l, i)' <=> HasEntry(l, i) \/ (l = "transaction" /\ i = id)
    BY <1>1, <1>5, EntryAppend, LogSets
  <1>9. EntriesOnce'
    BY <1>1, <1>5, <1>7, EntryAppend, LogSets DEF HasBegun
  <1>10. \A i \in TxnIds : /\ HasBegun(i)' <=> HasBegun(i) \/ i = id
                           /\ HasEnded(i)' <=> HasEnded(i)
    BY <1>8, LogSets DEF HasBegun, HasEnded
  <1>11. IdsUsed'
    BY <1>1, <1>2, <1>4, <1>6, <1>10 DEF IdsUsed
  <1>12. "NewTxnLog" \in AtTxn /\ "idle" \notin AtTxn \cup AfterLog \cup UsesTxn
         /\ "NewTxnLog" \notin AfterLog
    BY DEF AtTxn, AfterLog, UsesTxn, HoldsTxnMtx
  <1>13. ASSUME NEW i \in TxnIds PROVE LogsTell(i)'
    <2>1. Finished(i)' <=> Finished(i)
      BY <1>2, <1>3, <1>12 DEF Finished
    <2>2. CASE i = id
      <3>1. ~Starting(id)'
        <4> SUFFICES ASSUME NEW v \in Workers, pc'[v] = "NewTxnLog", call'[v].id = id PROVE FALSE
          BY DEF Starting
        <4>1. v # w /\ pc[v] = "NewTxnLog" /\ call[v].id = id
          BY <1>3
        <4> QED BY <1>1, <1>2, <1>12, <1>d, <4>1 DEF TxnCall
      <3> QED BY <1>2, <1>6, <1>7, <1>10, <2>2, <3>1 DEF LogsTell
    <2>3. CASE i # id
      <3>1. Starting(i)' <=> Starting(i)
        BY <1>2, <1>3, <1>d, <2>3 DEF Starting
      <3>2. LogsTell(i)
        BY <1>1
      <3> QED BY <1>2, <1>6, <1>10, <2>1, <2>3, <3>1, <3>2 DEF LogsTell
    <2> QED BY <2>2, <2>3
  <1>14. ASSUME NEW v \in Workers PROVE TxnCall(v)'
    <2>1. CASE v = w
      BY <1>3, <1>12, <2>1 DEF TxnCall
    <2>2. CASE v # w
      <3>1. TxnCall(v) /\ pc'[v] = pc[v] /\ call'[v] = call[v]
        BY <1>1, <1>3, <2>2
      <3>2. \A u \in Workers \ {v} : pc'[u] \in AtTxn => pc[u] \in AtTxn /\ call'[u] = call[u]
        BY <1>3, <1>12
      <3> QED BY <1>2, <1>6, <3>1, <3>2 DEF TxnCall
    <2> QED BY <2>1, <2>2
  <1>15. TxnCalls'
    BY <1>14 DEF TxnCalls
  <1> QED BY <1>9, <1>11, <1>13, <1>15, ServeReloads

\* The commit is logged.
LEMMA CommitLogReload ==
  ASSUME RestartProviso, ReloadInv, Serve, NEW w \in Workers, CommitLog(w)
  PROVE  ReloadInv'
  <1>d. PICK id : id = call[w].id
    OBVIOUS
  <1>1. /\ StateOK /\ TypeOK /\ EntriesOnce /\ IdsUsed
        /\ \A v \in Workers : TxnCall(v)
        /\ \A i \in TxnIds : LogsTell(i)
    BY UpFacts
  <1>2. /\ pc[w] = "CommitLog" /\ LogTransaction("commit", id, txn[call[w].h].file)
        /\ UNCHANGED <<txnMap, txn>> /\ Goto(w, "CommitSize")
    BY <1>d DEF CommitLog, registryVars, entryVars
  <1>3. /\ pc'[w] = "CommitSize" /\ call' = call
        /\ \A v \in Workers \ {w} : pc'[v] = pc[v]
    BY <1>1, <1>2 DEF Goto, StateOK, TypeOK
  <1>4. /\ pc[w] \in UsesTxn /\ pc[w] \notin AfterLog /\ "CommitSize" \in AfterLog
        /\ "CommitSize" \in UsesTxn /\ "CommitSize" \notin {"LockTxn", "Recheck", "NewTxnLog"}
        /\ "commit" \in EndLogs /\ pc[w] \in AtTxn
    BY <1>2 DEF UsesTxn, HoldsTxnMtx, AfterLog, EndLogs, AtTxn
  <1>5. /\ id \in TxnIds /\ call[w].h \in Handles /\ txn[call[w].h].id = id
        /\ txn[call[w].h].file \in Files /\ txnMap[id] = call[w].h /\ txnMap[id] # None
        /\ ~Starting(id) /\ ~Finished(id)
        /\ \A v \in Workers \ {w} : pc[v] \in UsesTxn \cup {"NewTxnLog"} => call[v].id # id
    BY <1>4, <1>d, UserAlone
  <1>6. PICK e \in LogEntry : e.id = id /\ logs' = [logs EXCEPT !["commit"] = Append(@, e)]
    BY <1>1, <1>2, <1>4, <1>5, LoggedIs, LogSets DEF RestartProviso
  <1>7. officialIds' = officialIds \cup {id}
    <2>1. logs["commit"] \in Seq(LogEntry) /\ logs'["commit"] = Append(logs["commit"], e)
      BY <1>1, <1>6 DEF TypeOK, LogNames
    <2>2. Len(logs'["commit"]) > Len(logs["commit"])
      BY <2>1
    <2>3. BecomesOfficial(w)
      BY <1>2, <1>3, <2>2 DEF BecomesOfficial
    <2>4. \A v \in Workers \ {w} : ~BecomesOfficial(v)
      BY <1>3 DEF BecomesOfficial
    <2> QED BY <1>d, <2>3, <2>4 DEF Serve
  <1>8. HasBegun(id) /\ ~HasEnded(id) /\ id \notin officialIds
    BY <1>1, <1>5 DEF LogsTell
  <1>9. \A l \in LogNames, i \in TxnIds :
          HasEntry(l, i)' <=> HasEntry(l, i) \/ (l = "commit" /\ i = id)
    BY <1>1, <1>4, <1>6, EntryAppend, LogSets
  <1>10. EntriesOnce'
    <2>1. ~HasEntry("commit", id)
      BY <1>4, <1>8 DEF HasEnded
    <2> QED BY <1>1, <1>4, <1>6, <1>8, <2>1, EntryAppend, LogSets
  <1>11. \A i \in TxnIds : /\ HasBegun(i)' <=> HasBegun(i)
                           /\ HasEnded(i)' <=> HasEnded(i) \/ i = id
    BY <1>4, <1>9, LogSets DEF HasBegun, HasEnded
  <1>12. IdsUsed'
    BY <1>1, <1>2, <1>5, <1>7, <1>11 DEF IdsUsed
  <1>13. ASSUME NEW i \in TxnIds PROVE LogsTell(i)'
    <2>1. Starting(i)' <=> Starting(i)
      BY <1>2, <1>3, <1>4 DEF Starting
    <2>2. CASE i = id
      <3>1. Finished(id)'
        BY <1>3, <1>4, <1>d DEF Finished
      <3> QED BY <1>2, <1>5, <1>7, <1>8, <1>11, <2>1, <2>2, <3>1 DEF LogsTell
    <2>3. CASE i # id
      <3>1. Finished(i)' <=> Finished(i)
        BY <1>2, <1>3, <1>4, <1>d, <2>3 DEF Finished
      <3>2. LogsTell(i) /\ (i \in officialIds' <=> i \in officialIds)
        BY <1>1, <1>7, <2>3
      <3> QED BY <1>2, <1>11, <2>1, <2>3, <3>1, <3>2 DEF LogsTell
    <2> QED BY <2>2, <2>3
  <1>14. ASSUME NEW v \in Workers PROVE TxnCall(v)'
    <2>1. CASE v = w
      <3>1. txnMap'[call'[w].id] = call'[w].h /\ call'[w].id \in officialIds'
        BY <1>2, <1>3, <1>5, <1>7, <1>d
      <3> QED BY <1>3, <1>4, <2>1, <3>1 DEF TxnCall
    <2>2. CASE v # w
      <3>1. TxnCall(v) /\ pc'[v] = pc[v] /\ call'[v] = call[v]
        BY <1>1, <1>3, <2>2
      <3>2. \A u \in Workers : pc'[u] \in AtTxn => pc[u] \in AtTxn /\ call'[u] = call[u]
        BY <1>3, <1>4
      <3> QED BY <1>2, <1>7, <3>1, <3>2 DEF TxnCall
    <2> QED BY <2>1, <2>2
  <1>15. TxnCalls'
    BY <1>14 DEF TxnCalls
  <1> QED BY <1>10, <1>12, <1>13, <1>15, ServeReloads

\* A transaction whose end is in the logs is erased, and nobody uses it.
LEMMA ErasedReload ==
  ASSUME RestartProviso, ReloadInv, Serve, NEW id \in TxnIds, RemoveTransaction(id),
         UNCHANGED <<txn, officialIds>>, EntriesOnce',
         \A i \in TxnIds : /\ HasBegun(i)' <=> HasBegun(i)
                           /\ HasEnded(i)' <=> HasEnded(i) \/ i = id,
         HasBegun(id), \E h \in Handles : txn[h].id = id,
         \A v \in Workers : Keeps(v) \/ (pc'[v] = "idle" /\ pc[v] \in UsesTxn /\ call[v].id = id),
         \A v \in Workers : pc'[v] \in UsesTxn \cup {"NewTxnLog"} => call'[v].id # id
  PROVE  ReloadInv'
  <1>1. /\ StateOK /\ IdsUsed
        /\ \A v \in Workers : TxnCall(v)
        /\ \A i \in TxnIds : LogsTell(i)
    BY UpFacts
  <1>2. txnMap'[id] = None /\ \A i \in TxnIds \ {id} : txnMap'[i] = txnMap[i]
    BY <1>1, RemoveMap
  <1>3. AfterLog \subseteq AtTxn /\ "NewTxnLog" \in AtTxn /\ UsesTxn \subseteq AtTxn
        /\ {"LockTxn", "Recheck"} \subseteq AtTxn /\ "idle" \notin AtTxn
        /\ "NewTxnLog" \notin UsesTxn /\ AfterLog \subseteq UsesTxn
    BY DEF AfterLog, AtTxn, UsesTxn, HoldsTxnMtx
  <1>4. ASSUME NEW v \in Workers, pc'[v] \in AtTxn
        PROVE  /\ Keeps(v) /\ pc[v] \in AtTxn
               /\ call'[v].id = call[v].id /\ call'[v].h = call[v].h
               /\ call[v].id \in TxnIds
    <2>1. Keeps(v)
      BY <1>3, <1>4
    <2>2. pc[v] \in AtTxn /\ call'[v].id = call[v].id /\ call'[v].h = call[v].h
      BY <1>4, <2>1 DEF Keeps
    <2>3. call[v].id \in TxnIds
      BY <1>1, <2>2 DEF StateOK, CallOK, AtTxn
    <2> QED BY <2>1, <2>2, <2>3
  <1>5. ASSUME NEW i \in TxnIds \ {id}
        PROVE  (Starting(i)' <=> Starting(i)) /\ (Finished(i)' <=> Finished(i))
    <2>1. ASSUME NEW v \in Workers
          PROVE  /\ pc'[v] = "NewTxnLog" /\ call'[v].id = i <=> pc[v] = "NewTxnLog" /\ call[v].id = i
                 /\ pc'[v] \in AfterLog /\ call'[v].id = i <=> pc[v] \in AfterLog /\ call[v].id = i
      <3>1. CASE Keeps(v)
        BY <1>3, <1>4, <3>1 DEF Keeps
      <3>2. CASE pc'[v] = "idle" /\ pc[v] \in UsesTxn /\ call[v].id = id
        BY <1>3, <3>2
      <3> QED BY <3>1, <3>2
    <2> QED BY <2>1 DEF Starting, Finished
  <1>6. ASSUME NEW i \in TxnIds PROVE LogsTell(i)'
    <2>1. CASE i = id
      BY <1>2, <2>1 DEF LogsTell
    <2>2. CASE i # id
      <3>1. LogsTell(i)
        BY <1>1
      <3> QED BY <1>2, <1>5, <2>2, <3>1 DEF LogsTell
    <2> QED BY <2>1, <2>2
  <1>7. ASSUME NEW v \in Workers PROVE TxnCall(v)'
    <2>0. TxnCall(v)
      BY <1>1
    <2>1. pc'[v] \in {"LockTxn", "Recheck"} => txnMap'[call'[v].id] \in {call'[v].h, None}
      BY <1>2, <1>3, <1>4, <2>0 DEF Keeps, TxnCall
    <2>2. pc'[v] \in UsesTxn \cup {"NewTxnLog"} => txnMap'[call'[v].id] = call'[v].h
      <3> SUFFICES ASSUME pc'[v] \in UsesTxn \cup {"NewTxnLog"}
                   PROVE  txnMap'[call'[v].id] = call'[v].h
        OBVIOUS
      <3>1. /\ Keeps(v) /\ call'[v].id = call[v].id /\ call'[v].h = call[v].h
            /\ call[v].id \in TxnIds /\ call[v].id # id
        BY <1>3, <1>4
      <3>2. txnMap[call[v].id] = call[v].h
        BY <2>0, <3>1 DEF Keeps, TxnCall
      <3> QED BY <1>2, <3>1, <3>2
    <2>3. pc'[v] \in AfterLog => call'[v].id \in officialIds'
      BY <1>3, <1>4, <2>0 DEF Keeps, TxnCall
    <2>4. ASSUME pc'[v] = "NewTxnLog", NEW u \in Workers \ {v}, pc'[u] \in AtTxn
          PROVE  call'[u].id # call'[v].id
      BY <1>3, <1>4, <2>0, <2>4 DEF Keeps, TxnCall
    <2> QED BY <2>1, <2>2, <2>3, <2>4 DEF TxnCall
  <1>8. IdsUsed'
    BY <1>1 DEF IdsUsed
  <1>9. TxnCalls'
    BY <1>7 DEF TxnCalls
  <1> QED BY <1>6, <1>8, <1>9, ServeReloads

\* A user that answers leaves its transaction to nobody.
LEMMA AnswerLeaves ==
  ASSUME ReloadInv, Serve, NEW w \in Workers, pc[w] \in UsesTxn, NEW out, Answer(w, out)
  PROVE  /\ \A v \in Workers :
              Keeps(v) \/ (pc'[v] = "idle" /\ pc[v] \in UsesTxn /\ call[v].id = call[w].id)
         /\ \A v \in Workers : pc'[v] \in UsesTxn \cup {"NewTxnLog"} => call'[v].id # call[w].id
  <1>1. /\ pc'[w] = "idle"
        /\ \A v \in Workers \ {w} : pc'[v] = pc[v] /\ call'[v] = call[v]
    BY DEF Answer, Return, ReloadInv, StateOK, TypeOK
  <1>2. "idle" \notin UsesTxn
    BY DEF UsesTxn, HoldsTxnMtx
  <1>3. \A v \in Workers \ {w} : pc[v] \in UsesTxn \cup {"NewTxnLog"} => call[v].id # call[w].id
    BY UserAlone
  <1> QED BY <1>1, <1>2, <1>3, OthersKeep

LEMMA CommitRemoveReload ==
  ASSUME RestartProviso, ReloadInv, Serve, NEW w \in Workers, CommitRemove(w)
  PROVE  ReloadInv'
  <1>d. PICK id : id = call[w].id
    OBVIOUS
  <1>1. /\ StateOK /\ EntriesOnce /\ TxnCall(w)
        /\ \A i \in TxnIds : LogsTell(i)
    BY UpFacts
  <1>2. /\ pc[w] = "CommitRemove" /\ RemoveTransaction(id)
        /\ UNCHANGED <<txn, logs>> /\ Answer(w, "ACK")
    BY <1>d DEF CommitRemove, entryVars, diskVars
  <1>3. pc[w] \in UsesTxn /\ pc[w] \in AfterLog
    BY <1>2 DEF UsesTxn, HoldsTxnMtx, AfterLog
  <1>4. UNCHANGED officialIds
    BY <1>1, <1>2, OfficialKept
  <1>5. /\ id \in TxnIds /\ txnMap[id] # None /\ ~Starting(id)
        /\ \E h \in Handles : txn[h].id = id
    BY <1>3, <1>d, UserAlone
  <1>6. id \in officialIds
    BY <1>1, <1>3, <1>d DEF TxnCall
  <1>7. HasBegun(id) /\ HasEnded(id)
    BY <1>1, <1>5, <1>6 DEF LogsTell
  <1>8. /\ EntriesOnce'
        /\ \A i \in TxnIds : /\ HasBegun(i)' <=> HasBegun(i)
                             /\ HasEnded(i)' <=> HasEnded(i) \/ i = id
    BY <1>1, <1>2, <1>7, EntriesKept
  <1>9. /\ \A v \in Workers :
             Keeps(v) \/ (pc'[v] = "idle" /\ pc[v] \in UsesTxn /\ call[v].id = id)
        /\ \A v \in Workers : pc'[v] \in UsesTxn \cup {"NewTxnLog"} => call'[v].id # id
    BY <1>2, <1>3, <1>d, AnswerLeaves
  <1>10. RemoveTransaction(id) /\ UNCHANGED <<txn, officialIds>>
    BY <1>2, <1>4
  <1> QED BY <1>5, <1>7, <1>8, <1>9, <1>10, ErasedReload

\* The end of a transaction that is not committed is logged.
LEMMA EndLogged ==
  ASSUME RestartProviso, ReloadInv, Serve, NEW id \in TxnIds, NEW f \in Files,
         NEW log \in {"abort", "timeout"}, LogTransaction(log, id, f),
         txnMap[id] # None, ~Starting(id), ~Finished(id)
  PROVE  /\ UNCHANGED officialIds /\ EntriesOnce' /\ HasBegun(id)
         /\ \A i \in TxnIds : /\ HasBegun(i)' <=> HasBegun(i)
                              /\ HasEnded(i)' <=> HasEnded(i) \/ i = id
  <1>1. /\ StateOK /\ TypeOK /\ EntriesOnce /\ LogsTell(id)
    BY UpFacts
  <1>2. log \in EndLogs /\ log \in LogNames /\ log # "commit" /\ log # "transaction"
    BY DEF EndLogs, LogNames
  <1>3. PICK e \in LogEntry : e.id = id /\ logs' = [logs EXCEPT ![log] = Append(@, e)]
    BY <1>1, <1>2, LoggedIs DEF RestartProviso
  <1>4. UNCHANGED officialIds
    <2>1. logs'["commit"] = logs["commit"]
      BY <1>1, <1>2, <1>3 DEF TypeOK, LogNames
    <2> QED BY <1>1, <2>1, OfficialKept
  <1>5. HasBegun(id) /\ ~HasEnded(id)
    BY <1>1 DEF LogsTell
  <1>6. ~HasEntry(log, id)
    BY <1>2, <1>5 DEF HasEnded
  <1>7. EntriesOnce'
    BY <1>1, <1>2, <1>3, <1>5, <1>6, EntryAppend
  <1>8. \A l \in LogNames, i \in TxnIds :
          HasEntry(l, i)' <=> HasEntry(l, i) \/ (l = log /\ i = id)
    BY <1>1, <1>2, <1>3, EntryAppend
  <1>9. \A i \in TxnIds : /\ HasBegun(i)' <=> HasBegun(i)
                          /\ HasEnded(i)' <=> HasEnded(i) \/ i = id
    BY <1>2, <1>8, LogSets DEF HasBegun, HasEnded
  <1> QED BY <1>4, <1>5, <1>7, <1>9

LEMMA AbortRemoveReload ==
  ASSUME RestartProviso, ReloadInv, Serve, NEW w \in Workers, AbortRemove(w)
  PROVE  ReloadInv'
  <1>d. PICK id : id = call[w].id
    OBVIOUS
  <1>1. /\ pc[w] = "AbortRemove" /\ RemoveTransaction(id)
        /\ LogTransaction("abort", id, txn[call[w].h].file)
        /\ UNCHANGED txn /\ Answer(w, "ACK")
    BY <1>d DEF AbortRemove
  <1>2. pc[w] \in UsesTxn /\ pc[w] \notin AfterLog
    BY <1>1 DEF UsesTxn, HoldsTxnMtx, AfterLog
  <1>3. /\ id \in TxnIds /\ txn[call[w].h].file \in Files /\ txnMap[id] # None
        /\ ~Starting(id) /\ ~Finished(id) /\ \E h \in Handles : txn[h].id = id
    BY <1>2, <1>d, UserAlone
  <1>4. /\ UNCHANGED officialIds /\ EntriesOnce' /\ HasBegun(id)
        /\ \A i \in TxnIds : /\ HasBegun(i)' <=> HasBegun(i)
                             /\ HasEnded(i)' <=> HasEnded(i) \/ i = id
    BY <1>1, <1>3, EndLogged
  <1>5. /\ \A v \in Workers :
             Keeps(v) \/ (pc'[v] = "idle" /\ pc[v] \in UsesTxn /\ call[v].id = id)
        /\ \A v \in Workers : pc'[v] \in UsesTxn \cup {"NewTxnLog"} => call'[v].id # id
    BY <1>1, <1>2, <1>d, AnswerLeaves
  <1> QED BY <1>1, <1>3, <1>4, <1>5, ErasedReload

LEMMA TimerReload ==
  ASSUME RestartProviso, ReloadInv, Serve, NEW h \in Handles, TimerFire(h)
  PROVE  ReloadInv'
  <1>d. PICK id : id = txn[h].id
    OBVIOUS
  <1>1. /\ StateOK /\ MutexOwnership /\ \A v \in Workers : TxnCall(v)
    BY UpFacts
  <1>2. /\ h \in timers /\ memberMtx = None /\ txnMap[id] # None /\ ~InUse(txnMap[id])
        /\ RemoveTransaction(id) /\ LogTransaction("timeout", id, txn[h].file)
        /\ UNCHANGED <<txn, pc, call>>
    BY <1>d DEF TimerFire, RestartProviso
  <1>3. id \in TxnIds /\ txn[h].file \in Files
    BY <1>1, <1>2, <1>d DEF StateOK, TypeOK, EntriesOK, TransactionAttributes
  <1>4. \A v \in Workers : pc[v] # "NewTxnLog"
    BY <1>1, <1>2, NobodyStarts
  <1>5. ASSUME NEW v \in Workers, pc[v] \in UsesTxn PROVE call[v].id # id
    BY <1>1, <1>2, <1>5 DEF TxnCall, InUse
  <1>6. AfterLog \subseteq UsesTxn
    BY DEF AfterLog, UsesTxn, HoldsTxnMtx
  <1>7. ~Starting(id) /\ ~Finished(id)
    BY <1>4, <1>5, <1>6 DEF Starting, Finished
  <1>8. /\ UNCHANGED officialIds /\ EntriesOnce' /\ HasBegun(id)
        /\ \A i \in TxnIds : /\ HasBegun(i)' <=> HasBegun(i)
                             /\ HasEnded(i)' <=> HasEnded(i) \/ i = id
    BY <1>2, <1>3, <1>7, EndLogged
  <1>9. /\ \A v \in Workers : Keeps(v)
        /\ \A v \in Workers : pc'[v] \in UsesTxn \cup {"NewTxnLog"} => call'[v].id # id
    BY <1>2, <1>4, <1>5, OthersKeep
  <1> QED BY <1>2, <1>3, <1>8, <1>9, <1>d, ErasedReload

LEMMA ReloadStep ==
  ASSUME RestartProviso, ReloadInv, [RecoveryNext]_allVars
  PROVE  ReloadInv'
  <1>1. CASE UNCHANGED allVars
    <2>1. Typed'
      BY TypedStep DEF ReloadInv, Typed
    <2>2. UNCHANGED <<txnMap, txn, memberMtx, txnMtx, fileMtx, logs, pc, call, mode, unread,
                      restarts, officialIds, survivors>>
      BY <1>1 DEF allVars, vars, registryVars, entryVars, lockVars, diskVars, threadVars,
         loadVars, historyVars
    <2>3. MutexOwnership' /\ ExclusiveUse' /\ TxnCalls' /\ ReloadPhase'
      BY <2>2 DEF ReloadInv, MutexOwnership, Owns, ExclusiveUse, TxnCalls, TxnCall, ReloadPhase,
         IsUnread
    <2>4. EntriesOnce' /\ IdsUsed'
      BY <2>2, EntriesKept DEF ReloadInv, IdsUsed
    <2>5. \A id \in TxnIds : (Starting(id)' <=> Starting(id)) /\ (Finished(id)' <=> Finished(id))
      BY <2>2 DEF Starting, Finished
    <2>6. \A id \in TxnIds : /\ LogsTell(id) => LogsTell(id)'
                             /\ LoadTells(id) => LoadTells(id)'
                             /\ RestartTells(id) => RestartTells(id)'
      BY <2>2, <2>5, EntriesKept DEF LogsTell, LoadTells, RestartTells
    <2> QED BY <2>1, <2>2, <2>3, <2>4, <2>6 DEF ReloadInv, Typed
  <1>2. CASE Serve
    BY <1>2, ReloadSteps, StillReload, CreateReload, NewTxnLogReload, CommitLogReload,
       CommitRemoveReload, AbortRemoveReload, TimerReload
    DEF Serve, ReloadInv
  <1> QED BY <1>1, <1>2, CrashReload, LoadReload, TruncateReload, RestartReload,
             InitializedReload
          DEF RecoveryNext, Recover

\* Only the end of recovery brings the server up.
LEMMA ComesUp ==
  ASSUME RestartProviso, ReloadInv, [RecoveryNext]_allVars, mode # "up", mode' = "up"
  PROVE  {id \in TxnIds : txnMap'[id] # None} = survivors
  <1>1. Initialized
    BY DEF RecoveryNext, Recover, allVars, Serve, Crash, LoadFilesAndTransactions,
           TruncateFiles, RestartTransaction
  <1> QED BY <1>1, InitializedTells

\* When the server comes up again it has exactly the transactions that were
\* open when it crashed: however requests and timeouts were interleaved, and
\* wherever between an entry in a log and the change of the map it stopped.
THEOREM OpenTransactionsRestarted ==
  ASSUME RestartProviso
  PROVE  RecoverySpec => TransactionsRestarted
  <1>1. ReloadInv /\ [RecoveryNext]_allVars => ReloadInv'
    BY ReloadStep
  <1>2. RecoveryInit => ReloadInv
    BY ReloadInitInv
  <1>3. ReloadInv /\ [RecoveryNext]_allVars =>
          [mode # "up" /\ mode' = "up" => {id \in TxnIds : txnMap'[id] # None} = survivors]_allVars
    BY ComesUp
  <1> QED BY <1>1, <1>2, <1>3, PTL DEF RecoverySpec, TransactionsRestarted

-----------------------------------------------------------------------------
(* The commits that clients were told of.  The proviso is that of both     *)
(* theorems above.                                                         *)

AckProviso == RecoveryProviso /\ RestartProviso

\* The transaction that wrote the j-th unit of f.
WriterId(f, j) == txn[official[f][j][1]].id

\* The unit is where its commit put it.
InPlace(f, j) == j <= Len(disk[f]) /\ disk[f][j] = official[f][j]

\* No client was told of the commit and none will be: the server has
\* forgotten the transaction.
Untold(id) ==
  /\ id \notin acked \cup commits
  /\ mode = "up" => txnMap[id] = None

\* Only ids of logged commits are in m_commits, except that of a COMMIT which
\* is about to log it, and only logged commits have been acknowledged, the one
\* that is about to be not among them.
AcksOK ==
  /\ acked \subseteq officialIds
  /\ reply.cmd = "COMMIT" /\ reply.out = "ACK" => reply.id \in acked
  /\ \A id \in commits :
       id \in officialIds \/ \E w \in Workers : pc[w] = "CommitLog" /\ call[w].id = id
  /\ mode # "up" => commits = {}
  /\ \A w \in Workers : pc[w] \in AfterLog => call[w].id \notin acked

\* A unit that is not in its place is that of a commit nobody was told of, and
\* before the first crash, a unit that is not safe is being committed.
OfficialOK ==
  /\ crashes = 0 => ~powerFailed
  /\ \A f \in Files : \A j \in 1..Len(official[f]) :
       /\ official[f][j][1] \in Handles
       /\ WriterId(f, j) \in officialIds
       /\ InPlace(f, j) \/ Untold(WriterId(f, j))
       /\ crashes = 0 /\ j > synced[f] =>
            \E w \in Workers : pc[w] = "CommitSize" /\ call[w].h = official[f][j][1]

AckInv ==
  /\ RecoveryInv
  /\ ReloadInv
  /\ CommandsOK
  /\ AcksOK
  /\ OfficialOK

LEMMA AckParts ==
  ASSUME AckProviso, AckInv
  PROVE  /\ RecoveryProviso /\ RestartProviso /\ RecoveryInv /\ ReloadInv
         /\ StateOK /\ TypeOK /\ RecoveryTypes /\ CommandsOK /\ AcksOK /\ OfficialOK
         /\ \A v, w \in Workers : v = w
  BY DEF AckProviso, AckInv, RecoveryInv, StateOK, RecoveryProviso

LEMMA AckInit == RecoveryInit => AckInv
  <1> SUFFICES ASSUME RecoveryInit PROVE AckInv
    OBVIOUS
  <1>1. RecoveryInv /\ ReloadInv
    BY RecoveryInitInv, ReloadInitInv
  <1>2. /\ \A w \in Workers : pc[w] = "idle" /\ call[w] = NoCall
        /\ commits = {} /\ reply = NoReply
    BY DEF RecoveryInit, Init
  <1>3. CommandsOK
    BY <1>2 DEF CommandsOK, CommandOK, NoCall, Call, Committing, HasCommitted
  <1>4. AcksOK
    BY <1>2 DEF RecoveryInit, AcksOK, AfterLog, NoReply
  <1>5. OfficialOK
    BY DEF RecoveryInit, OfficialOK
  <1> QED BY <1>1, <1>3, <1>4, <1>5 DEF AckInv

LEMMA AcksSurvive == AckInv => AckedCommitSurvives
  BY DEF AckInv, AcksOK, OfficialOK, WriterId, InPlace, Untold, AckedCommitSurvives

\* With one thread and no timeouts, who changes transactions or files.
LEMMA SoloSteps ==
  ASSUME AckProviso, AckInv, Serve, NEW w \in Workers
  PROVE  \/ Quiet
         \/ \E f \in Files, id \in TxnIds, h \in Handles : NewTxnCreate(w, f, id, h)
         \/ WriteBuffer(w) \/ CommitStepOf(w) \/ AbortRemove(w)
  <1>1. /\ StateOK /\ TypeOK /\ Next /\ \A v \in Workers : v = w
        /\ NeverExpired
    BY AckParts DEF Serve, RecoveryInv
  <1>2. ASSUME NEW h \in Handles, TimerFire(h) PROVE FALSE
    <2>1. txn[h].id \in TxnIds
      BY <1>1, <1>2 DEF TimerFire, StateOK, EntriesOK, TypeOK, TransactionAttributes
    <2>2. txnMap[txn[h].id] \in Handles /\ expired[txnMap[txn[h].id]]
      BY <1>1, <1>2, <2>1 DEF TimerFire, TypeOK
    <2> QED BY <1>1, <2>2 DEF NeverExpired
  <1> QED BY <1>1, <1>2, Steps

\* Where a COMMIT is that has filled its file.
LEMMA CommitterSteps ==
  ASSUME AckProviso, AckInv, Serve, NEW w \in Workers
  PROVE  /\ pc[w] \in HasCommitted => Quiet \/ CommitLog(w) \/ CommitSize(w) \/ CommitRemove(w)
         /\ pc'[w] \in AfterLog => Quiet \/ CommitLog(w) \/ CommitSize(w)
         /\ Quiet /\ (pc[w] \in HasCommitted \/ pc'[w] \in HasCommitted) =>
              pc'[w] = pc[w] /\ call'[w] = call[w]
  <1>1. StateOK /\ TypeOK
    BY AckParts
  <1>2. ASSUME pc[w] \in HasCommitted
        PROVE  Quiet \/ CommitLog(w) \/ CommitSize(w) \/ CommitRemove(w)
    BY <1>2, SoloSteps
    DEF HasCommitted, NewTxnCreate, Begin, WriteBuffer, CommitStepOf, CommitVerify, CommitOpen,
        CommitWrite, CommitRollback, CommitTruncate, CommitInsert, AbortRemove
  <1>3. ASSUME pc'[w] \in AfterLog PROVE Quiet \/ CommitLog(w) \/ CommitSize(w)
    BY <1>1, <1>3, SoloSteps
    DEF TypeOK, AfterLog, NewTxnCreate, Begin, Goto, Answer, Return, WriteBuffer, CommitStepOf,
        CommitVerify, CommitOpen, CommitWrite, CommitRollback, CommitTruncate, CommitInsert,
        CommitRemove, AbortRemove
  <1>4. Quiet /\ (pc[w] \in HasCommitted \/ pc'[w] \in HasCommitted) =>
          pc'[w] = pc[w] /\ call'[w] = call[w]
    BY DEF Quiet
  <1> QED BY <1>2, <1>3, <1>4

LEMMA OfficialSteps ==
  ASSUME AckProviso, AckInv, Serve
  PROVE  \/ UNCHANGED <<official, officialIds>>
         \/ \E w \in Workers : CommitLog(w)
  <1>1. ASSUME NEW w \in Workers, BecomesOfficial(w) PROVE CommitLog(w)
    <2>1. pc[w] = "CommitLog" /\ pc'[w] # "CommitLog"
      BY <1>1 DEF BecomesOfficial
    <2> QED BY <2>1, CommitterSteps DEF HasCommitted, CommitSize, CommitRemove
  <1> QED BY <1>1 DEF Serve

\* A client is told of a commit when it is erased, or when it asks again.
LEMMA AckSteps ==
  ASSUME AckProviso, AckInv, Serve, acked' # acked
  PROVE  \E w \in Workers :
           /\ acked' = acked \cup {reply'.id}
           /\ pc'[w] = "idle"
           /\ reply'.id \in officialIds
           /\ reply'.id \in commits \/ txnMap[reply'.id] # None
  <1>1. /\ StateOK /\ TypeOK /\ CommandsOK /\ AcksOK /\ Next /\ \A v, w \in Workers : v = w
        /\ \A w \in Workers : TxnCall(w)
    BY AckParts DEF Serve, ReloadInv, TxnCalls
  <1>2. /\ reply'.cmd = "COMMIT" /\ reply'.out = "ACK" /\ reply'.id \notin acked
        /\ acked' = acked \cup {reply'.id}
    BY DEF Serve
  <1>3. ~Harmless
    BY <1>2 DEF Harmless
  <1>4. ~UNCHANGED vars
    BY <1>1, <1>2 DEF AcksOK, vars, threadVars
  <1>5. ASSUME NEW w \in Workers, ReadData(w) \/ AbortRemove(w) \/ \E cmd : RecheckGone(w, cmd)
        PROVE  FALSE
    BY <1>1, <1>2, <1>5
    DEF ReadData, AbortRemove, RecheckGone, Answer, Return, CommandsOK, CommandOK
  <1>6. ASSUME NEW w \in Workers, NEW id \in TxnIds, NEW k,
               \/ Lookup(w, "WRITE", id, k, "InvalidOperation")
               \/ Lookup(w, "ABORT", id, k, "InvalidOperation")
        PROVE  FALSE
    BY <1>2, <1>6 DEF Lookup, Begin, Return, NoReply
  <1>7. ASSUME NEW w \in Workers, NEW id \in TxnIds, NEW k, Lookup(w, "COMMIT", id, k, "ACK")
        PROVE  /\ pc'[w] = "idle" /\ reply'.id \in officialIds /\ reply'.id \in commits
    <2>1. id \in commits /\ Return(w, "COMMIT", id, None, "ACK") /\ pc[w] = "idle"
      BY <1>2, <1>7 DEF Lookup, Begin, Return, NoReply
    <2>2. pc'[w] = "idle" /\ reply'.id = id
      BY <1>1, <2>1 DEF Return, TypeOK
    <2>3. \A v \in Workers : pc[v] # "CommitLog"
      BY <1>1, <2>1
    <2> QED BY <1>1, <2>1, <2>2, <2>3 DEF AcksOK
  <1>8. ASSUME NEW w \in Workers, CommitRemove(w)
        PROVE  /\ pc'[w] = "idle" /\ reply'.id \in officialIds /\ txnMap[reply'.id] # None
    <2>1. pc[w] = "CommitRemove" /\ pc'[w] = "idle" /\ reply'.id = call[w].id
      BY <1>1, <1>8 DEF CommitRemove, Answer, Return, TypeOK
    <2>2. pc[w] \in AfterLog /\ pc[w] \in UsesTxn /\ pc[w] \in HoldsTxnMtx
      BY <2>1 DEF AfterLog, UsesTxn, HoldsTxnMtx
    <2>3. call[w].h \in Handles
      BY <1>1, <2>2, CallEntry
    <2> QED BY <1>1, <2>1, <2>2, <2>3, ConstantsAssumption DEF TxnCall
  <1>9. PICK w \in Workers : CommitRemove(w) \/ \E id \in TxnIds : \E k : Lookup(w, "COMMIT", id, k, "ACK")
    BY <1>1, <1>3, <1>4, <1>5, <1>6, ReplySteps
  <1> QED BY <1>2, <1>7, <1>8, <1>9

\* Nobody hears of a commit later whose transaction the server has forgotten.
LEMMA UntoldKept ==
  ASSUME AckProviso, AckInv, Serve, NEW id \in officialIds, Untold(id)
  PROVE  Untold(id)'
  <1>1. /\ StateOK /\ TypeOK /\ RecoveryInv /\ IdsUsed /\ Next /\ mode = "up"
        /\ id \in TxnIds /\ ~IdReuse
    BY AckParts DEF Serve, ReloadInv, RecoveryTypes, RestartProviso
  <1>2. txnMap[id] = None /\ id \notin acked /\ id \notin commits
    BY <1>1 DEF Untold
  <1>3. id \notin acked'
    BY <1>2, AckSteps
  <1>4. id \notin commits'
    <2>1. ASSUME NEW w \in Workers, CommitInsert(w) PROVE call[w].id # id
      <3>1. pc[w] \in HoldsTxnMtx
        BY <2>1 DEF CommitInsert, HoldsTxnMtx
      <3> QED BY <1>1, <1>2, <3>1, CommitFacts, ConstantsAssumption
    <2> QED BY <1>1, <1>2, <2>1, CommitsStep DEF CommitInsert
  <1>5. txnMap'[id] = None
    <2>1. ASSUME NEW w \in Workers, NEW f \in Files, NEW i \in TxnIds, NEW h \in Handles,
                 NewTxnCreate(w, f, i, h)
          PROVE  txnMap'[id] = None
      <3>1. i # id
        BY <1>1, <2>1 DEF IdsUsed, NewTxnCreate, Candidate
      <3> QED BY <1>1, <1>2, <2>1, <3>1 DEF NewTxnCreate, AddNewTransaction, TypeOK
    <2>2. ASSUME NEW i, RemoveTransaction(i) PROVE txnMap'[id] = None
      BY <1>1, <1>2, <2>2 DEF RemoveTransaction, TypeOK
    <2>3. Still => txnMap'[id] = None
      BY <1>2 DEF Still
    <2>4. ASSUME NEW w \in Workers, NewTxnLog(w) \/ CommitLog(w) PROVE txnMap'[id] = None
      BY <1>2, <2>4 DEF NewTxnLog, CommitLog, registryVars
    <2> QED BY <1>1, <2>1, <2>2, <2>3, <2>4, ReloadSteps DEF CommitRemove, AbortRemove, TimerFire
  <1> QED BY <1>3, <1>4, <1>5 DEF Untold

\* A running server does not touch what the logged commits wrote.
LEMMA OfficialUntouched ==
  ASSUME AckProviso, AckInv, Serve, NEW f \in Files, NEW j \in 1..Len(official[f])
  PROVE  /\ j <= Len(disk[f]) /\ j <= Len(disk'[f])
         /\ disk'[f][j] = disk[f][j]
  <1>1. /\ RecoveryProviso /\ RecoveryInv /\ TypeOK /\ mode = "up" /\ CwdIsDirectory
        /\ \A v, w \in Workers : v = w
    BY AckParts DEF Serve, RecoveryProviso
  <1>2. /\ disk[f] \in Seq(Units) /\ Len(disk[f]) \in Nat /\ Len(official[f]) \in Nat
        /\ Len(disk[f]) >= Len(official[f])
    BY <1>1, FilesOKUp DEF TypeOK, FileOK
  <1>3. j <= Len(disk[f]) /\ j \in Nat /\ j \in 1..Len(disk[f])
    BY <1>2
  <1>4. CASE disk'[f] = disk[f]
    BY <1>3, <1>4
  <1>5. ASSUME NEW w \in Workers, CommitWrite(w), disk'[f] # disk[f]
        PROVE  j <= Len(disk'[f]) /\ disk'[f][j] = disk[f][j]
    <2>u. PICK u : u = <<call[w].h, call[w].i>>
      OBVIOUS
    <2>1. call[w].h \in Handles /\ call[w].i \in Int /\ txn[call[w].h].file \in Files
      BY <1>1, <1>5, CommitFacts DEF CommitWrite, HoldsTxnMtx
    <2>2. u \in Units
      BY <2>1, <2>u DEF Units
    <2>3. disk' = [disk EXCEPT ![txn[call[w].h].file] = Append(@, u)]
      BY <1>5, <2>u DEF CommitWrite
    <2>4. disk'[f] = Append(disk[f], u)
      BY <1>1, <1>5, <2>1, <2>3 DEF TypeOK
    <2> QED BY <1>2, <1>3, <2>2, <2>4
  <1>6. ASSUME NEW w \in Workers, CommitTruncate(w), disk'[f] # disk[f]
        PROVE  j <= Len(disk'[f]) /\ disk'[f][j] = disk[f][j]
    <2>1. /\ pc[w] = "CommitTruncate"
          /\ disk' = [disk EXCEPT ![txn[call[w].h].file] = Truncate(@, call[w].i)]
      BY <1>1, <1>6 DEF CommitTruncate
    <2>2. txn[call[w].h].file \in Files /\ CommitterOK(w)
      BY <1>1, <2>1, CommitFacts DEF HoldsTxnMtx
    <2>3. txn[call[w].h].file = f /\ disk'[f] = Truncate(disk[f], call[w].i)
      BY <1>1, <1>6, <2>1, <2>2 DEF TypeOK
    <2>4. call[w].i = Len(official[f])
      BY <2>1, <2>2, <2>3 DEF CommitterOK
    <2>n. PICK n \in Nat : n = Len(official[f])
      BY <1>2
    <2>5. /\ Len(Truncate(disk[f], n)) = n
          /\ \A i \in 1..n : Truncate(disk[f], n)[i] = IF i <= Len(disk[f]) THEN disk[f][i] ELSE Nul
      BY <1>2, TruncateIs
    <2>6. disk'[f] = Truncate(disk[f], n)
      BY <2>3, <2>4, <2>n
    <2> QED BY <1>3, <2>5, <2>6, <2>n
  <1>7. \/ UNCHANGED disk
        \/ \E w \in Workers : CommitWrite(w) \/ CommitTruncate(w)
    <2>1. ASSUME NEW w \in Workers PROVE UNCHANGED disk \/ CommitWrite(w) \/ CommitTruncate(w)
      BY SoloSteps
      DEF Quiet, NewTxnCreate, WriteBuffer, CommitStepOf, CommitVerify, CommitOpen,
          CommitRollback, CommitInsert, CommitLog, CommitSize, CommitRemove, AbortRemove, diskVars
    <2>2. CASE Workers = {}
      <3>1. Next
        BY DEF Serve
      <3> QED BY <2>2, <3>1
          DEF Next, Expire, Timer, TimerFire, TimerExit, diskVars
    <2> QED BY <2>1, <2>2
  <1> QED BY <1>3, <1>4, <1>5, <1>6, <1>7

\* COMMIT logs an id that no commit was logged for before.
LEMMA LogsNewId ==
  ASSUME AckProviso, AckInv, Serve, NEW w \in Workers, CommitLog(w)
  PROVE  /\ call[w].id \in TxnIds /\ call[w].id \notin officialIds
         /\ officialIds' = officialIds \cup {call[w].id}
         /\ pc[w] = "CommitLog" /\ pc'[w] = "CommitSize" /\ call'[w] = call[w]
  <1>1. /\ RecoveryProviso /\ RecoveryInv /\ ReloadInv /\ StateOK
        /\ \A id \in TxnIds : LogsTell(id)
    BY AckParts, UpFacts
  <1>2. pc[w] = "CommitLog" /\ pc'[w] = "CommitSize" /\ call'[w] = call[w]
    BY <1>1, GotoCall DEF CommitLog, StateOK
  <1>3. pc[w] \in UsesTxn /\ pc[w] \notin AfterLog
    BY <1>2 DEF UsesTxn, HoldsTxnMtx, AfterLog
  <1>4. /\ call[w].id \in TxnIds /\ txnMap[call[w].id] # None
        /\ ~Starting(call[w].id) /\ ~Finished(call[w].id)
    BY <1>1, <1>3, UserAlone
  <1> QED BY <1>1, <1>2, <1>4, LoggedCommit DEF LogsTell

\* What the running server has told of.
LEMMA ServeAcks ==
  ASSUME AckProviso, AckInv, Serve
  PROVE  AcksOK'
  <1>1. /\ StateOK /\ AcksOK /\ Next /\ mode' = "up" /\ \A v, w \in Workers : v = w
    BY AckParts DEF Serve
  <1>2. officialIds \subseteq officialIds'
    BY OfficialSteps, LogsNewId
  <1>3. acked' \subseteq officialIds'
    BY <1>1, <1>2, AckSteps DEF AcksOK
  <1>4. reply'.cmd = "COMMIT" /\ reply'.out = "ACK" => reply'.id \in acked'
    BY DEF Serve
  <1>5. ASSUME NEW id \in commits'
        PROVE  id \in officialIds' \/ \E w \in Workers : pc'[w] = "CommitLog" /\ call'[w].id = id
    <2>1. CASE id \in commits /\ id \notin officialIds
      <3>1. PICK w \in Workers : pc[w] = "CommitLog" /\ call[w].id = id
        BY <1>1, <2>1 DEF AcksOK
      <3>2. CASE CommitLog(w)
        BY <3>1, <3>2, LogsNewId
      <3>3. CASE ~CommitLog(w)
        BY <3>1, <3>3, CommitterSteps DEF HasCommitted, CommitSize, CommitRemove
      <3> QED BY <3>2, <3>3
    <2>2. CASE id \notin commits
      <3>1. PICK w \in Workers : CommitInsert(w)
        BY <1>1, <2>2, CommitsStep
      <3>2. id = call[w].id /\ Goto(w, "CommitLog")
        BY <2>2, <3>1 DEF CommitInsert
      <3> QED BY <1>1, <3>2, GotoCall DEF StateOK
    <2> QED BY <1>2, <2>1, <2>2
  <1>6. ASSUME NEW w \in Workers, pc'[w] \in AfterLog PROVE call'[w].id \notin acked'
    <2>1. acked' = acked
      BY <1>1, <1>6, AckSteps DEF AfterLog
    <2>2. CASE CommitLog(w)
      BY <1>1, <2>1, <2>2, LogsNewId DEF AcksOK
    <2>3. CASE Quiet
      <3>1. pc'[w] = pc[w] /\ call'[w] = call[w]
        BY <1>6, <2>3, CommitterSteps DEF AfterLog, HasCommitted
      <3> QED BY <1>1, <1>6, <2>1, <3>1 DEF AcksOK
    <2>4. CASE CommitSize(w)
      <3>1. pc[w] = "CommitSize" /\ call'[w] = call[w]
        BY <1>1, <2>4, GotoCall DEF CommitSize, StateOK
      <3> QED BY <1>1, <2>1, <3>1 DEF AcksOK, AfterLog
    <2> QED BY <1>6, <2>2, <2>3, <2>4, CommitterSteps
  <1> QED BY <1>1, <1>3, <1>4, <1>5, <1>6 DEF AcksOK

\* The history of a file grows at its end, by what COMMIT has written there.
LEMMA HistoryGrows ==
  ASSUME AckProviso, AckInv, Serve, NEW f \in Files, NEW j \in 1..Len(official'[f])
  PROVE  \/ j \in 1..Len(official[f]) /\ official'[f][j] = official[f][j]
         \/ \E w \in Workers :
              /\ CommitLog(w) /\ official'[f][j][1] = call[w].h
              /\ j <= Len(disk'[f]) /\ disk'[f][j] = official'[f][j]
  <1>1. CASE UNCHANGED official
    BY <1>1
  <1>2. ASSUME NEW w \in Workers, CommitLog(w), ~(j \in 1..Len(official[f]) /\ official'[f][j] = official[f][j])
        PROVE  /\ official'[f][j][1] = call[w].h
               /\ j <= Len(disk'[f]) /\ disk'[f][j] = official'[f][j]
    <2>h. PICK h : h = call[w].h
      OBVIOUS
    <2>m. PICK m : m = maxSeq[h]
      OBVIOUS
    <2>u. PICK u : u = [k \in 1..m |-> <<h, k>>]
      OBVIOUS
    <2>n. PICK n : n = Len(official[f])
      OBVIOUS
    <2>1. RecoveryProviso /\ RecoveryInv /\ pc[w] = "CommitLog" /\ UNCHANGED disk
      BY <1>2, AckParts DEF CommitLog
    <2>2. /\ h \in Handles /\ txn[h].file \in Files /\ CommitterOK(w)
      BY <2>1, <2>h, CommitFacts DEF HoldsTxnMtx
    <2>3. official \in [Files -> Seq(Units)] /\ official[f] \in Seq(Units)
      BY <2>1 DEF RecoveryInv, RecoveryTypes
    <2>4. official' = [official EXCEPT ![txn[h].file] = @ \o u]
      <3>1. u = [k \in 1..maxSeq[call[w].h] |-> <<call[w].h, k>>]
        BY <2>h, <2>m, <2>u
      <3> QED BY <1>2, <2>1, <2>h, <3>1, LoggedCommit, Zenon
    <2>5. txn[h].file = f /\ official'[f] = official[f] \o u
      BY <1>2, <2>2, <2>3, <2>4
    <2>6. /\ m \in Nat /\ Len(disk[f]) = n + m
          /\ \A k \in 1..m : disk[f][n + k] = <<h, k>>
      <3>1. Written(w) = m
        BY <2>1, <2>h, <2>m DEF Written
      <3> QED BY <2>1, <2>2, <2>5, <2>h, <2>n, <3>1 DEF CommitterOK
    <2>7. u \in Seq(Units) /\ Len(u) = m /\ \A k \in 1..m : u[k] = <<h, k>>
      <3>1. \A k \in 1..m : <<h, k>> \in Units
        BY <2>2 DEF Units
      <3> QED BY <2>6, <2>u, <3>1
    <2>8. /\ n \in Nat /\ Len(official'[f]) = n + m
          /\ \A k \in 1..n : official'[f][k] = official[f][k]
          /\ \A k \in 1..m : official'[f][n + k] = <<h, k>>
      <3>1. /\ Len(official[f] \o u) = Len(official[f]) + Len(u) /\ Len(official[f]) \in Nat
            /\ \A k \in 1..Len(official[f]) : (official[f] \o u)[k] = official[f][k]
            /\ \A k \in 1..Len(u) : (official[f] \o u)[Len(official[f]) + k] = u[k]
        BY <2>3, <2>7, ConcatIs
      <3> QED BY <2>5, <2>7, <2>n, <3>1, Zenon
    <2>9. j \in 1..(n + m) /\ ~(j \in 1..n)
      BY <1>2, <2>8, <2>n
    <2>10. j - n \in 1..m /\ n + (j - n) = j
      BY <2>6, <2>8, <2>9
    <2>11. official'[f][j] = <<h, j - n>> /\ disk[f][j] = <<h, j - n>>
      BY <2>6, <2>8, <2>10
    <2> QED BY <2>1, <2>6, <2>9, <2>11, <2>h
  <1> QED BY <1>1, <1>2, OfficialSteps

\* A running server keeps a safe unit safe; the unsafe ones are those of the
\* COMMIT that has just logged them.
LEMMA ServeSafe ==
  ASSUME AckProviso, AckInv, Serve, NEW f \in Files, NEW j \in 1..Len(official'[f]),
         crashes' = 0, j > synced'[f]
  PROVE  \E w \in Workers : pc'[w] = "CommitSize" /\ call'[w].h = official'[f][j][1]
  <1>1. /\ RecoveryProviso /\ RecoveryInv /\ RecoveryInv' /\ OfficialOK /\ StateOK
        /\ \A v, w \in Workers : v = w
        /\ crashes = 0
    BY AckParts, ServeInv, ServeParts
  <1>2. /\ synced[f] \in Nat /\ synced[f] <= Len(disk[f]) /\ synced'[f] \in Nat
        /\ Len(official'[f]) \in Nat /\ Len(official[f]) \in Nat /\ Len(disk[f]) \in Nat
        /\ synced'[f] \in {synced[f], Len(disk'[f])}
    <2>1. /\ synced \in [Files -> Nat] /\ official \in [Files -> Seq(Units)]
          /\ official' \in [Files -> Seq(Units)] /\ synced' \in [Files -> Nat]
          /\ disk \in [Files -> Seq(Units)]
      BY <1>1 DEF RecoveryInv, RecoveryTypes, StateOK, TypeOK
    <2>2. synced[f] <= Len(disk[f]) /\ synced'[f] \in {synced[f], Len(disk'[f])}
      BY <1>1, ServeSynced DEF RecoveryInv, SyncedOK
    <2> QED BY <2>1, <2>2
  <1>3. AtCommitSize(f)'
    <2>1. ~(synced'[f] >= Len(official'[f]))
      BY <1>2
    <2> QED BY <1>1, <2>1 DEF RecoveryInv, SyncedOK
  <1>4. PICK w \in Workers : pc'[w] = "CommitSize"
    BY <1>3 DEF AtCommitSize
  <1>5. CASE CommitLog(w)
    <2>1. pc[w] = "CommitLog" /\ call'[w] = call[w] /\ UNCHANGED disk
      BY <1>5, LogsNewId DEF CommitLog
    <2>2. ~AtCommitSize(f)
      BY <1>1, <2>1 DEF AtCommitSize
    <2>3. synced[f] >= Len(official[f])
      BY <1>1, <2>2 DEF RecoveryInv, SyncedOK
    <2>4. ~(j \in 1..Len(official[f]))
      BY <1>2, <2>1, <2>3
    <2>5. PICK v \in Workers : official'[f][j][1] = call[v].h
      BY <2>4, HistoryGrows
    <2> QED BY <1>1, <1>4, <2>1, <2>5
  <1>6. CASE ~CommitLog(w)
    <2>1. Quiet
      BY <1>1, <1>4, <1>6, CommitterSteps, GotoCall DEF AfterLog, CommitSize, StateOK
    <2>2. /\ pc[w] = "CommitSize" /\ call'[w] = call[w] /\ UNCHANGED disk
      BY <1>4, <2>1, CommitterSteps DEF HasCommitted, Quiet
    <2>3. j \in 1..Len(official[f]) /\ official'[f][j] = official[f][j]
      BY <1>1, <2>2, HistoryGrows DEF CommitLog
    <2>4. j > synced[f]
      BY <1>2, <2>2
    <2>5. \E v \in Workers : call[v].h = official[f][j][1]
      BY <1>1, <2>3, <2>4 DEF OfficialOK
    <2> QED BY <1>1, <1>4, <2>2, <2>3, <2>5
  <1> QED BY <1>5, <1>6

LEMMA ServeOfficial ==
  ASSUME AckProviso, AckInv, Serve
  PROVE  OfficialOK'
  <1>1. /\ RecoveryInv /\ StateOK /\ OfficialOK /\ Next
        /\ UNCHANGED <<crashes, powerFailed>> /\ officialIds \subseteq TxnIds
    BY AckParts, ServeParts DEF RecoveryTypes
  <1>2. officialIds \subseteq officialIds'
    BY OfficialSteps, LogsNewId
  <1> SUFFICES ASSUME NEW f \in Files, NEW j \in 1..Len(official'[f])
               PROVE  /\ official'[f][j][1] \in Handles
                      /\ WriterId(f, j)' \in officialIds'
                      /\ InPlace(f, j)' \/ Untold(WriterId(f, j))'
    BY <1>1, ServeSafe DEF OfficialOK
  <1>3. CASE j \in 1..Len(official[f]) /\ official'[f][j] = official[f][j]
    <2>1. /\ official[f][j][1] \in Handles /\ WriterId(f, j) \in officialIds
          /\ InPlace(f, j) \/ Untold(WriterId(f, j))
      BY <1>1, <1>3 DEF OfficialOK
    <2>2. WriterId(f, j) # None
      BY <1>1, <2>1, ConstantsAssumption
    <2>3. WriterId(f, j)' = WriterId(f, j)
      BY <1>1, <1>3, <2>1, <2>2, FatesGrow DEF WriterId
    <2>4. CASE InPlace(f, j)
      BY <1>2, <1>3, <2>1, <2>3, <2>4, OfficialUntouched DEF InPlace
    <2>5. CASE Untold(WriterId(f, j))
      <3>1. PICK id : id = WriterId(f, j)
        OBVIOUS
      <3>2. Untold(id)'
        BY <2>1, <2>5, <3>1, UntoldKept
      <3>3. WriterId(f, j)' = id
        BY <2>3, <3>1
      <3>4. Untold(WriterId(f, j))'
        BY <3>2, <3>3 DEF Untold
      <3> QED BY <1>2, <1>3, <2>1, <2>3, <3>4
    <2> QED BY <2>1, <2>4, <2>5
  <1>4. ASSUME NEW w \in Workers, CommitLog(w), official'[f][j][1] = call[w].h,
               j <= Len(disk'[f]), disk'[f][j] = official'[f][j]
        PROVE  /\ official'[f][j][1] \in Handles
               /\ WriterId(f, j)' \in officialIds'
               /\ InPlace(f, j)'
    <2>1. pc[w] \in HoldsTxnMtx /\ UNCHANGED txn
      BY <1>4 DEF CommitLog, HoldsTxnMtx, entryVars
    <2>2. call[w].h \in Handles /\ txn[call[w].h].id = call[w].id
      BY <1>1, <2>1, CallEntry
    <2> QED BY <1>4, <2>1, <2>2, LogsNewId DEF WriterId, InPlace
  <1> QED BY <1>3, <1>4, HistoryGrows

LEMMA ServeAck ==
  ASSUME AckProviso, AckInv, Serve
  PROVE  AckInv'
  <1>1. /\ RecoveryProviso /\ RestartProviso /\ RecoveryInv /\ ReloadInv /\ StateOK /\ CommandsOK
        /\ Next /\ RecoveryNext
    BY AckParts DEF Serve, RecoveryNext
  <1>2. RecoveryInv' /\ ReloadInv'
    BY <1>1, ServeInv, ReloadStep
  <1>3. CommandsOK'
    BY <1>1, CommandsInductive
  <1> QED BY <1>2, <1>3, ServeAcks, ServeOfficial DEF AckInv

\* What the power takes was not acknowledged: only the COMMIT that has logged
\* its entry and not closed the file has units that are not safe.
LEMMA CrashAck ==
  ASSUME AckProviso, AckInv, Crash
  PROVE  AcksOK' /\ OfficialOK'
  <1>1. /\ RecoveryProviso /\ RecoveryInv /\ StateOK /\ AcksOK /\ OfficialOK /\ RecoveryTypes
        /\ crashes \in Nat
    BY AckParts DEF RecoveryTypes
  <1>2. /\ mode = "up" /\ mode' = "loading" /\ crashes' = crashes + 1 /\ commits' = {}
        /\ reply' = NoReply /\ crashes < MaxCrashes
        /\ \A w \in Workers : pc'[w] = "idle"
        /\ UNCHANGED <<txn, official, officialIds, acked>>
    BY <1>1 DEF Crash, RecoveryProviso
  <1>3. AcksOK'
    BY <1>1, <1>2 DEF AcksOK, NoReply, AfterLog
  <1>4. crashes' # 0
    BY <1>1, <1>2
  <1>5. ASSUME NEW f \in Files, NEW j \in 1..Len(official[f])
        PROVE  InPlace(f, j)' \/ Untold(WriterId(f, j))'
    <2>1. /\ Len(disk[f]) \in Nat /\ synced[f] \in Nat /\ Len(official[f]) \in Nat
          /\ Len(disk'[f]) \in synced[f]..Len(disk[f])
          /\ \A i \in 1..Len(disk'[f]) : disk'[f][i] = disk[f][i]
          /\ Len(disk'[f]) # Len(disk[f]) => PowerFailures
      BY <1>1, CrashDisk DEF RecoveryTypes, StateOK, TypeOK
    <2>2. Untold(WriterId(f, j)) => Untold(WriterId(f, j))'
      BY <1>2 DEF Untold, WriterId
    <2>3. CASE InPlace(f, j) /\ j <= Len(disk'[f])
      <3>1. j \in 1..Len(disk'[f])
        BY <2>1, <2>3
      <3> QED BY <1>2, <2>1, <2>3, <3>1 DEF InPlace
    <2>4. CASE InPlace(f, j) /\ ~(j <= Len(disk'[f]))
      <3>1. j > synced[f] /\ j <= Len(disk[f])
        BY <2>1, <2>4 DEF InPlace
      <3>2. PowerFailures
        BY <2>1, <2>4, <3>1
      <3>3. crashes = 0
        BY <1>1, <1>2, <3>2, RecoveryAssumption DEF RecoveryProviso
      <3>4. PICK w \in Workers : pc[w] = "CommitSize" /\ call[w].h = official[f][j][1]
        BY <1>1, <3>1, <3>3 DEF OfficialOK
      <3>5. call[w].id \notin acked /\ txn[call[w].h].id = call[w].id
        BY <1>1, <3>4, CallEntry DEF AcksOK, AfterLog, HoldsTxnMtx
      <3>6. WriterId(f, j)' \notin acked'
        BY <1>2, <3>4, <3>5 DEF WriterId
      <3> QED BY <1>2, <3>6 DEF Untold
    <2> QED BY <1>1, <2>2, <2>3, <2>4 DEF OfficialOK
  <1>6. OfficialOK'
    BY <1>1, <1>2, <1>4, <1>5 DEF OfficialOK, WriterId
  <1> QED BY <1>3, <1>6

\* A step of recovery that keeps the files.
LEMMA RecoverAck ==
  ASSUME AckProviso, AckInv, mode # "up",
         UNCHANGED <<commits, pc, call, reply, crashes, official, officialIds, acked, powerFailed>>,
         \A f \in Files : \A j \in 1..Len(official[f]) :
           /\ InPlace(f, j) => j <= Len(disk'[f]) /\ disk'[f][j] = disk[f][j]
           /\ txn[official[f][j][1]].id # None =>
                txn'[official[f][j][1]].id = txn[official[f][j][1]].id,
         mode' = "up" => \A id \in officialIds : txnMap'[id] = None
  PROVE  AcksOK' /\ OfficialOK'
  <1>1. /\ AcksOK /\ OfficialOK /\ RecoveryInv /\ RecoveryTypes
    BY AckParts
  <1>2. AcksOK'
    BY <1>1 DEF AcksOK
  <1>3. crashes # 0 /\ officialIds \subseteq TxnIds
    BY <1>1 DEF RecoveryInv, PhaseOK, RecoveryTypes
  <1>4. ASSUME NEW f \in Files, NEW j \in 1..Len(official[f])
        PROVE  /\ official[f][j][1] \in Handles
               /\ WriterId(f, j)' \in officialIds
               /\ InPlace(f, j)' \/ Untold(WriterId(f, j))'
    <2>1. /\ official[f][j][1] \in Handles /\ WriterId(f, j) \in officialIds
          /\ InPlace(f, j) \/ Untold(WriterId(f, j))
      BY <1>1 DEF OfficialOK
    <2>2. WriterId(f, j)' = WriterId(f, j)
      BY <1>3, <2>1, ConstantsAssumption DEF WriterId
    <2>3. InPlace(f, j) => InPlace(f, j)'
      BY DEF InPlace
    <2>4. Untold(WriterId(f, j)) => Untold(WriterId(f, j))'
      <3>1. PICK id : id = WriterId(f, j)
        OBVIOUS
      <3>2. Untold(id) => Untold(id)'
        BY <2>1, <3>1 DEF Untold
      <3> QED BY <2>2, <3>1, <3>2 DEF Untold
    <2> QED BY <2>1, <2>2, <2>3, <2>4
  <1>5. OfficialOK'
    BY <1>3, <1>4 DEF OfficialOK
  <1> QED BY <1>2, <1>5

LEMMA RecoverAcks ==
  ASSUME AckProviso, AckInv, Recover
  PROVE  AcksOK' /\ OfficialOK'
  <1>1. RecoveryProviso /\ RestartProviso /\ RecoveryInv /\ ReloadInv /\ StateOK /\ TypeOK
    BY AckParts
  <1>2. CASE LoadFilesAndTransactions
    <2>1. /\ UNCHANGED <<commits, pc, call, reply, crashes, official, officialIds, acked,
                         powerFailed, disk, txn>>
          /\ mode # "up" /\ mode' # "up"
      BY <1>2 DEF LoadFilesAndTransactions, registryVars, entryVars, threadVars, historyVars
    <2> QED BY <2>1, RecoverAck DEF InPlace
  <1>3. ASSUME NEW f \in Files, TruncateFiles(f) PROVE AcksOK' /\ OfficialOK'
    <2>1. /\ UNCHANGED <<commits, pc, call, reply, crashes, official, officialIds, acked,
                         powerFailed, txn>>
          /\ mode # "up" /\ mode' # "up"
      BY <1>3 DEF TruncateFiles, registryVars, entryVars, threadVars, historyVars
    <2>2. ASSUME NEW g \in Files, NEW j \in 1..Len(official[g]), InPlace(g, j)
          PROVE  j <= Len(disk'[g]) /\ disk'[g][j] = disk[g][j]
      <3>1. CASE g # f
        BY <1>1, <1>3, <2>2, <3>1, TruncateDisk DEF InPlace
      <3>2. CASE g = f
        <4>1. Len(disk'[f]) = Len(official[f]) /\ Len(official[f]) \in Nat
          BY <1>1, <1>3, TruncateDisk DEF RecoveryInv, RecoveryTypes
        <4>2. j \in 1..Len(disk'[f])
          BY <3>2, <4>1
        <4> QED BY <1>1, <1>3, <2>2, <3>2, <4>1, <4>2, TruncateDisk DEF InPlace
      <3> QED BY <3>1, <3>2
    <2> QED BY <2>1, <2>2, RecoverAck
  <1>4. ASSUME NEW id \in TxnIds, NEW h \in Handles, RestartTransaction(id, h)
        PROVE  AcksOK' /\ OfficialOK'
    <2>1. /\ UNCHANGED <<commits, pc, call, reply, crashes, official, officialIds, acked,
                         powerFailed, disk>>
          /\ mode # "up" /\ mode' # "up"
      BY <1>4 DEF RestartTransaction, threadVars, historyVars
    <2>2. \A g : txn[g].id # None => txn'[g].id = txn[g].id
      BY <1>1, <1>4 DEF RestartTransaction, AddNewTransaction, TypeOK
    <2> QED BY <2>1, <2>2, RecoverAck DEF InPlace
  <1>5. CASE Initialized
    <2>1. /\ UNCHANGED <<commits, pc, call, reply, crashes, official, officialIds, acked,
                         powerFailed, disk, txn>>
          /\ mode # "up" /\ mode' = "up"
      BY <1>5 DEF Initialized, vars, registryVars, entryVars, diskVars, threadVars, historyVars
    <2>2. {id \in TxnIds : txnMap'[id] # None} = survivors
      BY <1>1, <1>5, InitializedTells
    <2>3. \A id \in officialIds : txnMap'[id] = None
      BY <1>1, <2>1, <2>2 DEF ReloadInv, ReloadPhase, RecoveryInv, RecoveryTypes
    <2> QED BY <2>1, <2>3, RecoverAck DEF InPlace
  <1> QED BY <1>2, <1>3, <1>4, <1>5 DEF Recover

LEMMA AckStep ==
  ASSUME AckProviso, AckInv, [RecoveryNext]_allVars
  PROVE  AckInv'
  <1>1. RecoveryProviso /\ RestartProviso /\ RecoveryInv /\ ReloadInv /\ CommandsOK /\ StateOK
    BY AckParts
  <1>2. RecoveryInv' /\ ReloadInv'
    BY <1>1, RecoveryStep, ReloadStep
  <1>3. CASE Serve
    BY <1>3, ServeAck
  <1>4. CASE Crash
    <2>1. CommandsOK'
      BY <1>4 DEF Crash, CommandsOK, CommandOK, NoCall, Call, Committing, HasCommitted
    <2> QED BY <1>2, <1>4, <2>1, CrashAck DEF AckInv
  <1>5. CASE Recover
    <2>1. UNCHANGED <<pc, call>>
      BY <1>5 DEF Recover, LoadFilesAndTransactions, TruncateFiles, RestartTransaction,
                  Initialized, vars, threadVars
    <2>2. CommandsOK'
      BY <1>1, <2>1 DEF CommandsOK, CommandOK
    <2> QED BY <1>2, <1>5, <2>2, RecoverAcks DEF AckInv
  <1>6. CASE UNCHANGED allVars
    <2>1. UNCHANGED <<txnMap, commits, txn, disk, pc, call, reply, mode, crashes, synced, official,
                      officialIds, acked, powerFailed>>
      BY <1>6 DEF allVars, vars, registryVars, entryVars, diskVars, threadVars, historyVars
    <2>2. CommandsOK' /\ AcksOK'
      BY <1>1, <2>1 DEF AckInv, CommandsOK, CommandOK, AcksOK
    <2>3. OfficialOK'
      BY <2>1 DEF AckInv, OfficialOK, InPlace, Untold, WriterId
    <2> QED BY <1>2, <2>2, <2>3 DEF AckInv
  <1> QED BY <1>3, <1>4, <1>5, <1>6 DEF RecoveryNext

\* A commit that a client was told of is never lost: it is in the commit log
\* and all it wrote stays where it is in its file, whenever the process is
\* killed and whatever recovery then does, and also when the power fails -
\* because COMMIT closes, and so syncs, the file before it answers.
THEOREM AcknowledgedCommitsSurvive ==
  ASSUME AckProviso
  PROVE  RecoverySpec => []AckedCommitSurvives
  <1>1. AckInv /\ [RecoveryNext]_allVars => AckInv'
    BY AckStep
  <1>2. RecoverySpec => []AckInv
    BY <1>1, AckInit, PTL DEF RecoverySpec
  <1> QED BY <1>2, AcksSurvive, PTL
=============================================================================
