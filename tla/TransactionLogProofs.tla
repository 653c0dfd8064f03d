------------------------ MODULE TransactionLogProofs ------------------------
(***************************************************************************)
(* Theorems about TransactionLog, for every set of transactions, files and *)
(* sizes and any number of failing system calls: what loadFilesAndTrans-   *)
(* actions reads back of what logTransaction wrote.                        *)
(*                                                                         *)
(* The loader is a recursive function over the pieces of the log.  What it *)
(* computes is proved by induction, in the form that the first place where *)
(* something goes wrong does not exist (LeastElement).                     *)
(***************************************************************************)
EXTENDS TransactionLog, WellFoundedInduction, TLAPS

-----------------------------------------------------------------------------
(* Induction.                                                              *)

\* A set of natural numbers that is not empty has a least element.
LEMMA LeastElement ==
  ASSUME NEW T, T \subseteq Nat, T # {}
  PROVE  \E x \in T : \A y \in T : x <= y
  <1> DEFINE R == OpToRel(<, Nat)
  <1>1. IsWellFoundedOn(R, Nat)
    BY NatLessThanWellFounded
  <1>2. \E x \in T : \A y \in T : ~ (<<y, x>> \in R)
    <2> HIDE DEF R
    <2> QED BY <1>1, WFMin
  <1>3. ASSUME NEW x \in Nat, NEW y \in Nat, ~ (<<y, x>> \in R)
        PROVE  x <= y
    BY <1>3 DEF OpToRel
  <1> HIDE DEF R
  <1> QED BY <1>2, <1>3

\* What holds at 0 and goes on from n - 1 to n holds up to m: G is the set of
\* the places where it holds.
LEMMA InductionTo ==
  ASSUME NEW m \in Nat, NEW G, 0 \in G, \A n \in 1..m : n - 1 \in G => n \in G
  PROVE  \A n \in 0..m : n \in G
  <1> DEFINE T == {n \in 0..m : n \notin G}
  <1>1. ASSUME T # {} PROVE FALSE
    <2>1. T \subseteq Nat
      OBVIOUS
    <2>2. PICK x \in T : \A y \in T : x <= y
      <3> HIDE DEF T
      <3> QED BY <1>1, <2>1, LeastElement
    <2>3. x \in 1..m /\ x \notin G
      OBVIOUS
    <2>4. x - 1 \in 0..m /\ x - 1 \notin T
      BY <2>2, <2>3
    <2> QED BY <2>3, <2>4
  <1> QED BY <1>1

-----------------------------------------------------------------------------
(* The loop of loadFilesAndTransactions.                                   *)

\* g[k] is the reader after the first k of the first n pieces of s.
RunTo(g, s, n, fits) ==
  g = [k \in 0..n |-> IF k = 0 THEN Start ELSE Extract(g[k - 1], s[k], fits)]

LEMMA RunSteps ==
  ASSUME NEW g, NEW s, NEW n \in Nat, NEW fits, RunTo(g, s, n, fits)
  PROVE  /\ g[0] = Start
         /\ \A k \in 1..n : g[k] = Extract(g[k - 1], s[k], fits)
  <1> DEFINE F(x) == [k \in 0..n |-> IF k = 0 THEN Start ELSE Extract(x[k - 1], s[k], fits)]
  <1>1. g = F(g)
    BY DEF RunTo
  <1>2. F(g)[0] = Start /\ \A k \in 1..n : F(g)[k] = Extract(g[k - 1], s[k], fits)
    OBVIOUS
  <1> HIDE DEF F
  <1> QED BY <1>1, <1>2

\* The loop has one outcome only, which depends on the pieces it has read.
LEMMA RunUnique ==
  ASSUME NEW g, NEW h, NEW s, NEW t, NEW n \in Nat, NEW m \in Nat, n <= m, NEW fits,
         RunTo(g, s, n, fits), RunTo(h, t, m, fits), \A k \in 1..n : s[k] = t[k]
  PROVE  \A k \in 0..n : g[k] = h[k]
  <1> DEFINE G == {k \in 0..n : g[k] = h[k]}
  <1>1. /\ g[0] = Start /\ h[0] = Start
        /\ \A k \in 1..n : /\ g[k] = Extract(g[k - 1], s[k], fits)
                           /\ h[k] = Extract(h[k - 1], t[k], fits)
    <2>1. g[0] = Start /\ \A k \in 1..n : g[k] = Extract(g[k - 1], s[k], fits)
      BY RunSteps
    <2>2. h[0] = Start /\ \A k \in 1..m : h[k] = Extract(h[k - 1], t[k], fits)
      BY RunSteps
    <2> QED BY <2>1, <2>2
  <1>2. 0 \in G
    BY <1>1
  <1>3. ASSUME NEW k \in 1..n, k - 1 \in G PROVE k \in G
    BY <1>1, <1>3
  <1>4. \A k \in 0..n : k \in G
    <2> HIDE DEF G
    <2> QED BY <1>2, <1>3, InductionTo
  <1> QED BY <1>4

\* The loop ends: it has an outcome.
LEMMA RunExists ==
  ASSUME NEW s, NEW m \in Nat, NEW fits
  PROVE  \E g : RunTo(g, s, m, fits)
  <1> DEFINE G == {n \in 0..m : \E g : RunTo(g, s, n, fits)}
  <1>1. 0 \in G
    <2> DEFINE g == [k \in 0..0 |-> Start]
    <2>1. RunTo(g, s, 0, fits)
      BY DEF RunTo
    <2> QED BY <2>1
  <1>2. ASSUME NEW n \in 1..m, n - 1 \in G PROVE n \in G
    <2>1. PICK g : RunTo(g, s, n - 1, fits)
      BY <1>2
    <2> DEFINE h == [k \in 0..n |-> IF k = n THEN Extract(g[n - 1], s[n], fits) ELSE g[k]]
               F == [k \in 0..n |-> IF k = 0 THEN Start ELSE Extract(h[k - 1], s[k], fits)]
    <2>2. g[0] = Start /\ \A k \in 1..(n - 1) : g[k] = Extract(g[k - 1], s[k], fits)
      BY <2>1, RunSteps
    <2>3. \A k \in 0..(n - 1) : h[k] = g[k]
      OBVIOUS
    <2>4. h[n] = Extract(g[n - 1], s[n], fits)
      OBVIOUS
    <2>5. ASSUME NEW k \in 0..n
          PROVE  h[k] = IF k = 0 THEN Start ELSE Extract(h[k - 1], s[k], fits)
      <3> HIDE DEF h
      <3>1. CASE k = 0
        BY <2>2, <2>3, <3>1
      <3>2. CASE k \in 1..(n - 1)
        BY <2>2, <2>3, <3>2
      <3>3. CASE k = n
        BY <2>3, <2>4, <3>3
      <3> QED BY <3>1, <3>2, <3>3
    <2>6. h = F
      <3>1. h = [k \in 0..n |-> h[k]]
        OBVIOUS
      <3> HIDE DEF h
      <3> QED BY <2>5, <3>1
    <2>7. RunTo(h, s, n, fits)
      BY <2>6 DEF RunTo
    <2> QED BY <2>7
  <1>3. \A n \in 0..m : n \in G
    <2> HIDE DEF G
    <2> QED BY <1>1, <1>2, InductionTo
  <1> QED BY <1>3

LEMMA ReaderRun ==
  ASSUME NEW s, Len(s) \in Nat, NEW fits
  PROVE  \E g : RunTo(g, s, Len(s), fits) /\ Reader(s, fits) = g[Len(s)]
  <1>1. Reader(s, fits) = (CHOOSE g : RunTo(g, s, Len(s), fits))[Len(s)]
    BY DEF Reader, RunTo
  <1>2. \E g : RunTo(g, s, Len(s), fits)
    BY RunExists
  <1>3. RunTo(CHOOSE g : RunTo(g, s, Len(s), fits), s, Len(s), fits)
    BY <1>2
  <1> QED BY <1>1, <1>3

\* The reader of an empty log has read nothing.
LEMMA ReaderEmpty ==
  ASSUME NEW fits
  PROVE  Reader(<<>>, fits) = Start
  <1>1. Len(<<>>) = 0
    OBVIOUS
  <1>2. PICK g : RunTo(g, <<>>, Len(<<>>), fits) /\ Reader(<<>>, fits) = g[Len(<<>>)]
    BY <1>1, ReaderRun
  <1>3. g[0] = Start
    BY <1>1, <1>2, RunSteps
  <1> QED BY <1>1, <1>2, <1>3

\* One more piece in the log is one more round of the loop.
LEMMA ReaderAppend ==
  ASSUME NEW S, NEW s \in Seq(S), NEW p \in S, NEW fits
  PROVE  Reader(Append(s, p), fits) = Extract(Reader(s, fits), p, fits)
  <1> DEFINE t == Append(s, p)
             n == Len(s)
  <1>1. /\ n \in Nat /\ Len(t) = n + 1
        /\ t[n + 1] = p
        /\ \A k \in 1..n : s[k] = t[k]
    OBVIOUS
  <1>2. PICK g : RunTo(g, s, n, fits) /\ Reader(s, fits) = g[n]
    BY <1>1, ReaderRun
  <1> HIDE DEF t
  <1>3. PICK h : RunTo(h, t, n + 1, fits) /\ Reader(t, fits) = h[n + 1]
    <2>1. n + 1 \in Nat
      BY <1>1
    <2> QED BY <1>1, <2>1, ReaderRun
  <1> HIDE DEF n
  <1>4. h[n + 1] = Extract(h[n], p, fits)
    <2>1. n + 1 \in Nat /\ n + 1 \in 1..(n + 1) /\ (n + 1) - 1 = n
      BY <1>1
    <2>2. h[n + 1] = Extract(h[(n + 1) - 1], t[n + 1], fits)
      BY <1>3, <2>1, RunSteps
    <2> QED BY <1>1, <2>1, <2>2
  <1>5. g[n] = h[n]
    <2>1. n + 1 \in Nat /\ n <= n + 1 /\ n \in 0..n
      BY <1>1
    <2>2. \A k \in 0..n : g[k] = h[k]
      BY <1>1, <1>2, <1>3, <2>1, RunUnique
    <2> QED BY <2>1, <2>2
  <1>6. Reader(t, fits) = Extract(Reader(s, fits), p, fits)
    BY <1>2, <1>3, <1>4, <1>5
  <1> QED BY <1>6 DEF t

-----------------------------------------------------------------------------
(* What the reader is like.                                                *)

Values == Ids \cup Sizes \cup Files \cup {Cut, None}

LoadedEntries == [id : Seq(Values), file : Seq(Values), size : Seq(Values)]

Readers == [want : {"id", "file", "size", "stop"}, token : Seq(Values), id : Seq(Values),
            file : Seq(Values), entries : Seq(LoadedEntries)]

\* What is read is not taken back: q is r, or has one entry more.
Goes(r, q) ==
  /\ q \in Readers
  /\ \/ q.entries = r.entries
     \/ \E x \in LoadedEntries : q.entries = Append(r.entries, x)

LEMMA StartType == Start \in Readers
  BY DEF Start, Readers, LoadedEntries

ReaderOf(want, token, id, file, entries) ==
  [want |-> want, token |-> token, id |-> id, file |-> file, entries |-> entries]

LEMMA ReaderOfType ==
  ASSUME NEW want \in {"id", "file", "size", "stop"}, NEW token \in Seq(Values),
         NEW id \in Seq(Values), NEW file \in Seq(Values), NEW entries \in Seq(LoadedEntries)
  PROVE  ReaderOf(want, token, id, file, entries) \in Readers
  BY DEF ReaderOf, Readers

LEMMA ReaderFields ==
  ASSUME NEW r \in Readers
  PROVE  /\ r.want \in {"id", "file", "size", "stop"}
         /\ r.token \in Seq(Values) /\ r.id \in Seq(Values) /\ r.file \in Seq(Values)
         /\ r.entries \in Seq(LoadedEntries)
         /\ r = ReaderOf(r.want, r.token, r.id, r.file, r.entries)
  BY DEF Readers, ReaderOf

\* A reader with one field changed.
LEMMA ReaderExcept ==
  ASSUME NEW w, NEW t, NEW i, NEW f, NEW e, NEW a
  PROVE  /\ [ReaderOf(w, t, i, f, e) EXCEPT !.want = a] = ReaderOf(a, t, i, f, e)
         /\ [ReaderOf(w, t, i, f, e) EXCEPT !.token = a] = ReaderOf(w, a, i, f, e)
         /\ [ReaderOf(w, t, i, f, e) EXCEPT !.id = a] = ReaderOf(w, t, a, f, e)
         /\ [ReaderOf(w, t, i, f, e) EXCEPT !.file = a] = ReaderOf(w, t, i, a, e)
         /\ [ReaderOf(w, t, i, f, e) EXCEPT !.entries = a] = ReaderOf(w, t, i, f, a)
         /\ ReaderOf(w, t, i, f, e).token = t
         /\ ReaderOf(w, t, i, f, e).entries = e
  BY DEF ReaderOf

\* A token that has ended, field by field.
LEMMA EndTokenFields ==
  ASSUME NEW r \in Readers, NEW fits, r.token # <<>>, r.want # "stop",
         r.want = "file" \/ Len(r.token) <= 1 \/ fits
  PROVE  EndToken(r, fits) =
           IF r.want = "id" THEN ReaderOf("file", <<>>, r.token, r.file, r.entries)
           ELSE IF r.want = "file" THEN ReaderOf("size", <<>>, r.id, r.token, r.entries)
           ELSE ReaderOf("id", <<>>, r.id, r.file,
                  Append(r.entries, [id |-> r.id, file |-> r.file, size |-> r.token]))
  <1> DEFINE next == [r EXCEPT !.token = <<>>]
             x    == [id |-> r.id, file |-> r.file, size |-> r.token]
             es   == Append(r.entries, x)
             ended(q) ==
               CASE r.want = "id"   -> [q EXCEPT !.want = "file", !.id = r.token]
                 [] r.want = "file" -> [q EXCEPT !.want = "size", !.file = r.token]
                 [] r.want = "size" -> [q EXCEPT !.want = "id", !.entries = Append(@, x)]
             q0   == ReaderOf(r.want, <<>>, r.id, r.file, r.entries)
  <1>1. next = q0
    BY DEF ReaderOf, Readers
  <1>2. EndToken(r, fits) = ended(next)
    <2>1. Len(r.token) \in Nat
      BY ReaderFields
    <2>2. ~(r.want # "file" /\ Len(r.token) > 1 /\ ~fits)
      BY <2>1
    <2> QED BY <2>2 DEF EndToken
  <1>3. EndToken(r, fits) = ended(q0)
    BY <1>1, <1>2
  <1>4. ended(q0) =
          CASE r.want = "id"   -> [q0 EXCEPT !.want = "file", !.id = r.token]
            [] r.want = "file" -> [q0 EXCEPT !.want = "size", !.file = r.token]
            [] r.want = "size" -> [q0 EXCEPT !.want = "id", !.entries = es]
    <2>1. q0.entries = r.entries
      BY ReaderExcept
    <2> HIDE DEF q0
    <2> QED BY <2>1
  <1> HIDE DEF next, x, ended, es
  <1>5. r.want \in {"id", "file", "size"}
    BY ReaderFields
  <1>6. [q0 EXCEPT !.want = "file", !.id = r.token] =
          ReaderOf("file", <<>>, r.token, r.file, r.entries)
    <2>1. [q0 EXCEPT !.want = "file"] = ReaderOf("file", <<>>, r.id, r.file, r.entries)
      BY DEF ReaderOf
    <2>2. [ReaderOf("file", <<>>, r.id, r.file, r.entries) EXCEPT !.id = r.token] =
            ReaderOf("file", <<>>, r.token, r.file, r.entries)
      BY DEF ReaderOf
    <2>3. [q0 EXCEPT !.want = "file", !.id = r.token] =
            [[q0 EXCEPT !.want = "file"] EXCEPT !.id = r.token]
      <3> HIDE DEF q0
      <3> QED OBVIOUS
    <2> HIDE DEF q0
    <2> QED BY <2>1, <2>2, <2>3, Zenon
  <1>7. [q0 EXCEPT !.want = "size", !.file = r.token] =
          ReaderOf("size", <<>>, r.id, r.token, r.entries)
    <2>1. [q0 EXCEPT !.want = "size"] = ReaderOf("size", <<>>, r.id, r.file, r.entries)
      BY DEF ReaderOf
    <2>2. [ReaderOf("size", <<>>, r.id, r.file, r.entries) EXCEPT !.file = r.token] =
            ReaderOf("size", <<>>, r.id, r.token, r.entries)
      BY DEF ReaderOf
    <2>3. [q0 EXCEPT !.want = "size", !.file = r.token] =
            [[q0 EXCEPT !.want = "size"] EXCEPT !.file = r.token]
      <3> HIDE DEF q0
      <3> QED OBVIOUS
    <2> HIDE DEF q0
    <2> QED BY <2>1, <2>2, <2>3, Zenon
  <1>8. [q0 EXCEPT !.want = "id", !.entries = es] =
          ReaderOf("id", <<>>, r.id, r.file, es)
    <2>1. [q0 EXCEPT !.want = "id"] = ReaderOf("id", <<>>, r.id, r.file, r.entries)
      BY DEF ReaderOf
    <2>2. [ReaderOf("id", <<>>, r.id, r.file, r.entries) EXCEPT !.entries = es] =
            ReaderOf("id", <<>>, r.id, r.file, es)
      BY DEF ReaderOf
    <2>3. [q0 EXCEPT !.want = "id", !.entries = es] =
            [[q0 EXCEPT !.want = "id"] EXCEPT !.entries = es]
      <3> HIDE DEF q0
      <3> QED OBVIOUS
    <2> HIDE DEF q0
    <2> QED BY <2>1, <2>2, <2>3, Zenon
  <1> HIDE DEF q0
  <1> QED BY <1>3, <1>4, <1>5, <1>6, <1>7, <1>8 DEF x, es

LEMMA StopFields ==
  ASSUME NEW r \in Readers
  PROVE  Stop(r) \in Readers /\ Stop(r).entries = r.entries
  BY DEF Stop, Readers

LEMMA EndTokenGoes ==
  ASSUME NEW r \in Readers, NEW fits
  PROVE  Goes(r, EndToken(r, fits))
  <1>1. CASE r.token = <<>> \/ r.want = "stop"
    BY <1>1 DEF EndToken, Goes
  <1>2. CASE r.want # "file" /\ Len(r.token) > 1 /\ ~fits
    BY <1>1, <1>2, StopFields DEF EndToken, Goes
  <1>3. CASE /\ ~(r.token = <<>> \/ r.want = "stop")
             /\ ~(r.want # "file" /\ Len(r.token) > 1 /\ ~fits)
    <2> DEFINE x == [id |-> r.id, file |-> r.file, size |-> r.token]
    <2>1. x \in LoadedEntries
      BY ReaderFields DEF LoadedEntries
    <2>2. r.want = "file" \/ Len(r.token) <= 1 \/ fits
      BY <1>3, ReaderFields
    <2>3. EndToken(r, fits) \in
            {ReaderOf("file", <<>>, r.token, r.file, r.entries),
             ReaderOf("size", <<>>, r.id, r.token, r.entries),
             ReaderOf("id", <<>>, r.id, r.file, Append(r.entries, x))}
      BY <1>3, <2>2, EndTokenFields
    <2>4. <<>> \in Seq(Values)
      OBVIOUS
    <2> HIDE DEF x
    <2>5. Append(r.entries, x) \in Seq(LoadedEntries)
      BY <2>1, ReaderFields
    <2>6. EndToken(r, fits) \in Readers
      <3>1. ReaderOf("file", <<>>, r.token, r.file, r.entries) \in Readers
        BY <2>4, ReaderFields, ReaderOfType
      <3>2. ReaderOf("size", <<>>, r.id, r.token, r.entries) \in Readers
        BY <2>4, ReaderFields, ReaderOfType
      <3>3. ReaderOf("id", <<>>, r.id, r.file, Append(r.entries, x)) \in Readers
        BY <2>4, <2>5, ReaderFields, ReaderOfType
      <3> QED BY <2>3, <3>1, <3>2, <3>3
    <2>7. EndToken(r, fits).entries \in {r.entries, Append(r.entries, x)}
      BY <2>3 DEF ReaderOf
    <2> QED BY <2>1, <2>6, <2>7 DEF Goes
  <1> QED BY <1>1, <1>2, <1>3

\* A token with one piece more, field by field.
LEMMA AddFields ==
  ASSUME NEW r \in Readers, NEW v \in Values
  PROVE  /\ [r EXCEPT !.token = Append(@, v)] =
              ReaderOf(r.want, Append(r.token, v), r.id, r.file, r.entries)
         /\ Append(r.token, v) \in Seq(Values)
  <1>1. [r EXCEPT !.token = Append(@, v)] =
          ReaderOf(r.want, Append(r.token, v), r.id, r.file, r.entries)
    <2> DEFINE a == Append(r.token, v)
    <2>1. r = ReaderOf(r.want, r.token, r.id, r.file, r.entries)
      BY ReaderFields
    <2>2. [r EXCEPT !.token = a] = ReaderOf(r.want, a, r.id, r.file, r.entries)
      <3> HIDE DEF a
      <3> QED BY <2>1, ReaderExcept
    <2> QED BY <2>2
  <1>2. Append(r.token, v) \in Seq(Values)
    BY ReaderFields
  <1> QED BY <1>1, <1>2

LEMMA PieceFields ==
  ASSUME NEW p \in Pieces
  PROVE  p.kind \in {"blank", "digits", "name"} /\ p.value \in Values
  BY DEF Pieces, Blank, Digits, Name, Values

LEMMA ExtractGoes ==
  ASSUME NEW r \in Readers, NEW p \in Pieces, NEW fits
  PROVE  Goes(r, Extract(r, p, fits))
  <1> DEFINE add(q) == [q EXCEPT !.token = Append(@, p.value)]
             ended  == IF r.want # "file" THEN EndToken(r, fits) ELSE r
  <1>1. Extract(r, p, fits) \in {r, EndToken(r, fits), add(r), add(ended), Stop(ended)}
    BY PieceFields DEF Extract
  <1>2. ASSUME NEW q \in Readers PROVE add(q) \in Readers /\ add(q).entries = q.entries
    <2>1. add(q) = ReaderOf(q.want, Append(q.token, p.value), q.id, q.file, q.entries)
      BY AddFields, PieceFields
    <2>2. Append(q.token, p.value) \in Seq(Values)
      BY AddFields, PieceFields
    <2> HIDE DEF add
    <2>3. add(q) \in Readers
      <3> DEFINE t == Append(q.token, p.value)
      <3> HIDE DEF t
      <3>1. ReaderOf(q.want, t, q.id, q.file, q.entries) \in Readers
        BY <2>2, ReaderFields, ReaderOfType DEF t
      <3> QED BY <2>1, <3>1 DEF t
    <2> QED BY <2>1, <2>3 DEF ReaderOf
  <1>3. Goes(r, ended)
    BY EndTokenGoes DEF Goes
  <1> HIDE DEF add, ended
  <1>4. Goes(r, add(ended))
    BY <1>2, <1>3 DEF Goes
  <1>5. Goes(r, r) /\ Goes(r, add(r))
    BY <1>2 DEF Goes
  <1>6. Goes(r, Stop(ended))
    <2>1. ended \in Readers
      BY <1>3 DEF Goes
    <2>2. Stop(ended) \in Readers /\ Stop(ended).entries = ended.entries
      BY <2>1, StopFields
    <2> QED BY <1>3, <2>2 DEF Goes
  <1> QED BY <1>1, <1>4, <1>5, <1>6, EndTokenGoes

\* A log of pieces is read to a reader.
LEMMA ReaderType ==
  ASSUME NEW s \in Seq(Pieces), NEW fits
  PROVE  Reader(s, fits) \in Readers
  <1>1. Len(s) \in Nat /\ \A k \in 1..Len(s) : s[k] \in Pieces
    OBVIOUS
  <1>2. PICK g : RunTo(g, s, Len(s), fits) /\ Reader(s, fits) = g[Len(s)]
    BY <1>1, ReaderRun
  <1>3. g[0] = Start /\ \A k \in 1..Len(s) : g[k] = Extract(g[k - 1], s[k], fits)
    BY <1>1, <1>2, RunSteps
  <1> DEFINE G == {k \in 0..Len(s) : g[k] \in Readers}
  <1>4. 0 \in G
    BY <1>1, <1>3, StartType
  <1>5. ASSUME NEW k \in 1..Len(s), k - 1 \in G PROVE k \in G
    BY <1>1, <1>3, <1>5, ExtractGoes DEF Goes
  <1>6. \A k \in 0..Len(s) : k \in G
    <2> HIDE DEF G
    <2> QED BY <1>1, <1>4, <1>5, InductionTo
  <1> QED BY <1>1, <1>2, <1>6

\* A prefix stays one when the sequence grows at its end.
LEMMA PrefixAppend ==
  ASSUME NEW S, NEW q \in Seq(S), NEW s \in Seq(S), NEW x \in S, IsPrefix(q, s)
  PROVE  IsPrefix(q, Append(s, x))
  BY DEF IsPrefix

LEMMA PrefixGoes ==
  ASSUME NEW q \in Seq(LoadedEntries), NEW r \in Readers, NEW p, Goes(r, p),
         IsPrefix(q, r.entries)
  PROVE  IsPrefix(q, p.entries)
  <1>1. r.entries \in Seq(LoadedEntries)
    BY DEF Readers
  <1> QED BY <1>1, PrefixAppend DEF Goes

-----------------------------------------------------------------------------
(* One entry, from one write() to the next.                                *)

\* After a number or a name, the reader is in the middle of its token.
LEMMA InStepEven ==
  ASSUME NEW r, NEW e, NEW n \in {2, 4, 6}, InStep(r, e, n)
  PROVE  /\ r.token # <<>> /\ Len(r.token) <= 1
         /\ r.want = IF n = 2 THEN "id" ELSE IF n = 4 THEN "file" ELSE "size"
         /\ n = 6 => r.id = <<e.id>> /\ r.file = <<e.file>> /\ r.token = <<e.size>>
  <1>1. CASE n = 2
    <2>1. r.token = <<e.id>> /\ r.want = "id"
      BY <1>1 DEF InStep
    <2> QED BY <1>1, <2>1
  <1>2. CASE n = 4
    <2>1. r.token = <<e.file>> /\ r.want = "file"
      BY <1>2 DEF InStep
    <2> QED BY <1>2, <2>1
  <1>3. CASE n = 6
    <2>1. r.token = <<e.size>> /\ r.want = "size" /\ r.id = <<e.id>> /\ r.file = <<e.file>>
      BY <1>3 DEF InStep
    <2> QED BY <1>3, <2>1
  <1> QED BY <1>1, <1>2, <1>3

\* Of an entry that is complete but for its line feed the reader has all
\* fields; of one that is not it has added nothing.
LEMMA InStepEnd ==
  ASSUME NEW r \in Readers, NEW e \in Entries, NEW n \in 1..6, InStep(r, e, n), NEW fits
  PROVE  EndToken(r, fits).entries = IF n = 6 THEN Append(r.entries, Sound(e)) ELSE r.entries
  <1>1. CASE n \in {1, 3, 5}
    <2>1. r.token = <<>>
      BY <1>1 DEF InStep
    <2> QED BY <1>1, <2>1 DEF EndToken
  <1>2. CASE n \in {2, 4, 6}
    <2>1. /\ r.token # <<>> /\ Len(r.token) <= 1
          /\ r.want = IF n = 2 THEN "id" ELSE IF n = 4 THEN "file" ELSE "size"
          /\ n = 6 => r.id = <<e.id>> /\ r.file = <<e.file>> /\ r.token = <<e.size>>
      BY <1>2, InStepEven
    <2>2. n = 6 => [id |-> r.id, file |-> r.file, size |-> r.token] = Sound(e)
      BY <2>1 DEF Sound
    <2>3. EndToken(r, fits) =
            IF r.want = "id" THEN ReaderOf("file", <<>>, r.token, r.file, r.entries)
            ELSE IF r.want = "file" THEN ReaderOf("size", <<>>, r.id, r.token, r.entries)
            ELSE ReaderOf("id", <<>>, r.id, r.file,
                   Append(r.entries, [id |-> r.id, file |-> r.file, size |-> r.token]))
      BY <2>1, EndTokenFields
    <2>4. CASE n = 2
      BY <2>1, <2>3, <2>4 DEF ReaderOf
    <2>5. CASE n = 4
      BY <2>1, <2>3, <2>5 DEF ReaderOf
    <2>6. CASE n = 6
      <3>1. EndToken(r, fits) = ReaderOf("id", <<>>, r.id, r.file, Append(r.entries, Sound(e)))
        BY <2>1, <2>2, <2>3, <2>6
      <3> QED BY <2>6, <3>1 DEF ReaderOf
    <2> QED BY <1>2, <2>4, <2>5, <2>6
  <1> QED BY <1>1, <1>2

\* The next piece of an entry takes the reader one step on.
LEMMA InStepNext ==
  ASSUME NEW r \in Readers, NEW e \in Entries, NEW n \in 1..5, InStep(r, e, n), NEW fits,
         NEW q, q = Extract(r, PiecesOf(e)[n], fits)
  PROVE  InStep(q, e, n + 1) /\ q.entries = r.entries
  <1>1. e.id \in Values /\ e.file \in Values /\ e.size \in Values
    BY DEF Entries, Values
  <1>2. CASE n \in {1, 3, 5}
    <2> DEFINE v == IF n = 1 THEN e.id ELSE IF n = 3 THEN e.file ELSE e.size
               p == PiecesOf(e)[n]
    <2>1. v \in Values /\ r.token = <<>>
      BY <1>1, <1>2 DEF InStep
    <2>2. p.value = v /\ p.kind = IF n = 3 THEN "name" ELSE "digits"
      BY <1>2 DEF PiecesOf, Digits, Name
    <2>3. r.want = IF n = 1 THEN "id" ELSE IF n = 3 THEN "file" ELSE "size"
      BY <1>2 DEF InStep
    <2> HIDE DEF v, p
    <2>4. q = [r EXCEPT !.token = Append(@, v)]
      BY <1>2, <2>2, <2>3 DEF Extract, p
    <2>5. q = ReaderOf(r.want, Append(r.token, v), r.id, r.file, r.entries)
      BY <2>1, <2>4, AddFields
    <2>6. Append(r.token, v) = <<v>>
      BY <2>1
    <2>7. /\ q.want = r.want /\ q.token = <<v>> /\ q.id = r.id /\ q.file = r.file
          /\ q.entries = r.entries
      BY <2>5, <2>6 DEF ReaderOf
    <2> QED BY <1>2, <2>3, <2>7 DEF InStep, v
  <1>3. CASE n \in {2, 4}
    <2>1. /\ r.token # <<>> /\ Len(r.token) <= 1
          /\ r.want = IF n = 2 THEN "id" ELSE IF n = 4 THEN "file" ELSE "size"
      BY <1>3, InStepEven
    <2>2. PiecesOf(e)[n] = Blank
      BY <1>3 DEF PiecesOf
    <2>3. q = EndToken(r, fits)
      BY <2>1, <2>2 DEF Extract, Blank
    <2>4. q = IF r.want = "id" THEN ReaderOf("file", <<>>, r.token, r.file, r.entries)
              ELSE IF r.want = "file" THEN ReaderOf("size", <<>>, r.id, r.token, r.entries)
              ELSE ReaderOf("id", <<>>, r.id, r.file,
                     Append(r.entries, [id |-> r.id, file |-> r.file, size |-> r.token]))
      BY <2>1, <2>3, EndTokenFields
    <2>5. CASE n = 2
      <3>1. q = ReaderOf("file", <<>>, r.token, r.file, r.entries)
        BY <2>1, <2>4, <2>5
      <3> QED BY <2>5, <3>1 DEF InStep, ReaderOf
    <2>6. CASE n = 4
      <3>1. q = ReaderOf("size", <<>>, r.id, r.token, r.entries)
        BY <2>1, <2>4, <2>6
      <3> QED BY <2>6, <3>1 DEF InStep, ReaderOf
    <2> QED BY <1>3, <2>5, <2>6
  <1> QED BY <1>2, <1>3

\* The line feed ends the entry.
LEMMA InStepLast ==
  ASSUME NEW r \in Readers, NEW e \in Entries, InStep(r, e, 6), NEW fits,
         NEW q, q = Extract(r, PiecesOf(e)[6], fits)
  PROVE  /\ q.want = "id" /\ q.token = <<>>
         /\ q.entries = Append(r.entries, Sound(e))
  <1>1. r.token # <<>> /\ Len(r.token) <= 1 /\ r.want = "size"
    BY InStepEven
  <1>2. PiecesOf(e)[6] = Blank
    BY DEF PiecesOf
  <1>3. q = EndToken(r, fits)
    BY <1>1, <1>2 DEF Extract, Blank
  <1>4. q = ReaderOf("id", <<>>, r.id, r.file,
              Append(r.entries, [id |-> r.id, file |-> r.file, size |-> r.token]))
    BY <1>1, <1>3, EndTokenFields
  <1>5. q.want = "id" /\ q.token = <<>>
    BY <1>4 DEF ReaderOf
  <1> QED BY <1>3, <1>5, InStepEnd

\* The entries that the loader should find.
LEMMA SoundAllType ==
  ASSUME NEW s \in Seq(Entries)
  PROVE  SoundAll(s) \in Seq(LoadedEntries) /\ Len(SoundAll(s)) = Len(s)
  <1>1. \A j \in 1..Len(s) : Sound(s[j]) \in LoadedEntries
    <2>1. ASSUME NEW e \in Entries PROVE Sound(e) \in LoadedEntries
      BY DEF Entries, Sound, LoadedEntries, Values
    <2> QED BY <2>1
  <1> QED BY <1>1 DEF SoundAll

LEMMA SoundAllAppend ==
  ASSUME NEW s \in Seq(Entries), NEW e \in Entries
  PROVE  /\ SoundAll(Append(s, e)) = Append(SoundAll(s), Sound(e))
         /\ SoundAll(s) \o <<Sound(e)>> = Append(SoundAll(s), Sound(e))
         /\ SoundAll(s) \o <<>> = SoundAll(s)
  <1> DEFINE S == SoundAll(s)
  <1>1. S \in Seq(LoadedEntries) /\ Len(S) = Len(s)
    BY SoundAllType
  <1>2. Sound(e) \in LoadedEntries
    BY DEF Entries, Sound, LoadedEntries, Values
  <1>3. SoundAll(Append(s, e)) = Append(S, Sound(e))
    <2>1. /\ Append(s, e) \in Seq(Entries) /\ Len(Append(s, e)) = Len(s) + 1
          /\ \A j \in 1..Len(s) : Append(s, e)[j] = s[j]
          /\ Append(s, e)[Len(s) + 1] = e
      OBVIOUS
    <2>2. \A j \in 1..Len(s) : S[j] = Sound(s[j])
      BY DEF SoundAll
    <2> DEFINE A == SoundAll(Append(s, e))
               B == Append(S, Sound(e))
    <2>3. A = [j \in 1..(Len(s) + 1) |-> Sound(Append(s, e)[j])]
      BY <2>1 DEF SoundAll
    <2> HIDE DEF S
    <2>4. /\ B \in Seq(LoadedEntries) /\ Len(B) = Len(s) + 1
          /\ \A j \in 1..Len(s) : B[j] = S[j]
          /\ B[Len(s) + 1] = Sound(e)
      BY <1>1, <1>2
    <2>5. B = [j \in 1..(Len(s) + 1) |-> B[j]]
      <3> HIDE DEF B
      <3>1. B = [j \in 1..Len(B) |-> B[j]]
        BY <2>4
      <3> QED BY <2>4, <3>1
    <2>6. ASSUME NEW j \in 1..(Len(s) + 1) PROVE B[j] = Sound(Append(s, e)[j])
      BY <2>1, <2>2, <2>4
    <2> HIDE DEF A, B
    <2>7. A = B
      BY <2>3, <2>5, <2>6
    <2> QED BY <2>7 DEF A, B
  <1> HIDE DEF S
  <1>4. S \o <<Sound(e)>> = Append(S, Sound(e)) /\ S \o <<>> = S
    BY <1>1, <1>2
  <1> QED BY <1>3, <1>4 DEF S

-----------------------------------------------------------------------------
(* Type correctness.                                                       *)

\* What write() is given is a piece.
LEMMA PieceType ==
  ASSUME NEW e \in Entries, NEW n \in 1..6, n = 5 => e.size \in Sizes
  PROVE  PiecesOf(e)[n] \in Pieces
  <1>1. Digits(e.id) \in Pieces /\ Name(e.file) \in Pieces /\ Blank \in Pieces
    BY DEF Entries, Pieces
  <1>2. n = 5 => Digits(e.size) \in Pieces
    BY DEF Pieces
  <1> QED BY <1>1, <1>2 DEF PiecesOf

\* The part of a piece that went out before write() failed is a piece.
LEMMA CutType ==
  ASSUME NEW e \in Entries, NEW n \in 1..6, PiecesOf(e)[n] # Blank
  PROVE  [PiecesOf(e)[n] EXCEPT !.value = Cut] \in Pieces
  <1>1. n \in {1, 3, 5}
    BY DEF PiecesOf
  <1>2. PiecesOf(e)[n] \in {Digits(e.id), Name(e.file), Digits(e.size)}
    BY <1>1 DEF PiecesOf
  <1>3. [PiecesOf(e)[n] EXCEPT !.value = Cut] \in {Digits(Cut), Name(Cut)}
    BY <1>2 DEF Digits, Name
  <1> QED BY <1>3 DEF Pieces

\* What a step of a thread that writes does to the types and to the log.
LEMMA WriteLogType ==
  ASSUME TypeOK, NEW i \in Ids, WriteLog(i)
  PROVE  /\ TypeOK'
         /\ at[i] \in 1..6 /\ entry[i] \in Entries /\ entry'[i] \in Entries
         /\ at[i] # 5 => entry' = entry
         /\ entry'[i].id = entry[i].id /\ entry'[i].file = entry[i].file
         /\ \A j \in Ids \ {i} : entry'[j] = entry[j]
         /\ PiecesOf(entry'[i])[at[i]] \in Pieces
  <1>1. at[i] \in 1..6 /\ entry[i] \in Entries
    BY DEF TypeOK, WriteLog, Writing
  <1>2. PICK s \in Sizes :
          entry' = IF at[i] = 5 THEN [entry EXCEPT ![i].size = s] ELSE entry
    BY DEF WriteLog
  <1>3. /\ entry' \in [Ids -> Entries \cup {None}]
        /\ entry'[i] \in Entries
        /\ entry'[i].id = entry[i].id /\ entry'[i].file = entry[i].file
        /\ at[i] = 5 => entry'[i].size \in Sizes
        /\ \A j \in Ids \ {i} : entry'[j] = entry[j]
    <2>1. CASE at[i] # 5
      BY <1>1, <1>2, <2>1 DEF TypeOK
    <2>2. CASE at[i] = 5
      <3>1. [entry[i] EXCEPT !.size = s] \in Entries
        BY <1>1 DEF Entries
      <3>2. /\ [entry[i] EXCEPT !.size = s].size = s
            /\ [entry[i] EXCEPT !.size = s].id = entry[i].id
            /\ [entry[i] EXCEPT !.size = s].file = entry[i].file
        BY <1>1 DEF Entries
      <3>3. entry' = [entry EXCEPT ![i] = [entry[i] EXCEPT !.size = s]]
        BY <1>2, <2>2
      <3> QED BY <3>1, <3>2, <3>3 DEF TypeOK
    <2> QED BY <2>1, <2>2
  <1>4. PiecesOf(entry'[i])[at[i]] \in Pieces
    BY <1>1, <1>3, PieceType
  <1>5. log' \in Seq(Pieces)
    BY <1>4 DEF TypeOK, WriteLog
  <1>6. /\ at' \in [Ids -> 0..7]
        /\ \A j \in Ids : at'[j] \in 1..6 => at[j] \in 1..6
    BY <1>1 DEF TypeOK, WriteLog
  <1>7. finished' \in Seq(Entries) /\ sound' \in Seq(Entries)
    BY <1>1 DEF TypeOK, WriteLog
  <1>8. \A j \in Ids : at'[j] \in 1..6 => entry'[j] \in Entries
    BY <1>3, <1>6 DEF TypeOK
  <1>9. TypeOK'
    BY <1>3, <1>5, <1>6, <1>7, <1>8 DEF TypeOK, WriteLog
  <1> QED BY <1>1, <1>2, <1>3, <1>4, <1>9

\* A failing write() leaves a part of a piece at most.
LEMMA WriteFailsType ==
  ASSUME TypeOK, NEW i \in Ids, WriteFails(i)
  PROVE  /\ TypeOK'
         /\ log' = log \/ \E p \in Pieces : log' = Append(log, p)
  <1>1. at[i] \in 1..6 /\ entry[i] \in Entries
    BY DEF TypeOK, WriteFails, Writing
  <1>2. log' = log \/ \E p \in Pieces : log' = Append(log, p)
    BY <1>1, CutType DEF WriteFails
  <1>3. log' \in Seq(Pieces)
    <2>1. log \in Seq(Pieces)
      BY DEF TypeOK
    <2>2. ASSUME NEW p \in Pieces, log' = Append(log, p) PROVE log' \in Seq(Pieces)
      BY <2>1, <2>2
    <2> QED BY <1>2, <2>1, <2>2
  <1>4. /\ at' \in [Ids -> 0..7]
        /\ \A j \in Ids : at'[j] \in 1..6 => at[j] \in 1..6
    BY DEF TypeOK, WriteFails
  <1>5. failures' \in 0..MaxFailures
    BY LogAssumption DEF TypeOK, WriteFails
  <1> QED BY <1>2, <1>3, <1>4, <1>5 DEF TypeOK, WriteFails

LEMMA OpenLogType ==
  ASSUME TypeOK, NEW i \in Ids, NEW f \in Files, OpenLog(i, f)
  PROVE  TypeOK'
  <1>1. [id |-> i, file |-> f, size |-> None] \in Entries
    BY DEF Entries
  <1>2. /\ entry' \in [Ids -> Entries \cup {None}]
        /\ entry'[i] \in Entries
        /\ \A j \in Ids \ {i} : entry'[j] = entry[j]
    BY <1>1 DEF TypeOK, OpenLog
  <1>3. at' \in [Ids -> 0..7] /\ \A j \in Ids \ {i} : at'[j] = at[j]
    BY DEF TypeOK, OpenLog
  <1>4. \A j \in Ids : at'[j] \in 1..6 => entry'[j] \in Entries
    BY <1>2, <1>3 DEF TypeOK
  <1> QED BY <1>2, <1>3, <1>4 DEF TypeOK, OpenLog, Opened

LEMMA RestartType ==
  ASSUME TypeOK, Restart
  PROVE  TypeOK' /\ Writing' = {}
  <1>1. at' \in [Ids -> 0..7] /\ \A j \in Ids : at'[j] \notin 1..6
    BY DEF TypeOK, Restart, Writing
  <1>2. Writing' = {}
    BY <1>1 DEF Writing
  <1> QED BY <1>1, <1>2, LogAssumption DEF TypeOK, Restart

\* TypeOK of the log: whatever is written at once, fails or is cut short, the
\* log is a sequence of pieces, and a thread in logTransaction has an entry.
THEOREM LogTypeCorrect == Spec => []TypeOK
  <1>1. Init => TypeOK
    BY LogAssumption DEF Init, TypeOK, Entries
  <1>2. TypeOK /\ [Next]_vars => TypeOK'
    <2> SUFFICES ASSUME TypeOK, [Next]_vars PROVE TypeOK'
      OBVIOUS
    <2>1. CASE UNCHANGED vars
      BY <2>1 DEF TypeOK, vars
    <2>2. ASSUME NEW i \in Ids, NEW f \in Files, OpenLog(i, f) PROVE TypeOK'
      BY <2>2, OpenLogType
    <2>3. ASSUME NEW i \in Ids, WriteLog(i) PROVE TypeOK'
      BY <2>3, WriteLogType
    <2>4. ASSUME NEW i \in Ids, WriteFails(i) PROVE TypeOK'
      BY <2>4, WriteFailsType
    <2>5. CASE Restart
      BY <2>5, RestartType
    <2> QED BY <2>1, <2>2, <2>3, <2>4, <2>5 DEF Next
  <1> QED BY <1>1, <1>2, PTL DEF Spec

-----------------------------------------------------------------------------
(* The reader keeps step with the log.                                     *)

\* ReaderInStep, for one outcome of the conversion of too long a number.
Kept(fits) == IsPrefix(SoundAll(sound), Reader(log, fits).entries)

Steady(fits) ==
  LET r == Reader(log, fits)
  IN  /\ r.entries = SoundAll(finished)
      /\ Writing = {} => r.want = "id" /\ r.token = <<>>
      /\ \A i \in Writing : InStep(r, entry[i], at[i])

LEMMA ReaderInStepParts ==
  ReaderInStep <=> /\ Len(sound) <= Len(finished)
                   /\ \A fits \in BOOLEAN : Kept(fits) /\ (Undisturbed => Steady(fits))
  BY DEF ReaderInStep, Kept, Steady

\* What the loader found before it goes on finding when the log grows.
LEMMA KeptAppend ==
  ASSUME TypeOK, NEW p \in Pieces, log' = Append(log, p), sound' = sound,
         NEW fits \in BOOLEAN, Kept(fits)
  PROVE  Kept(fits)'
  <1> DEFINE r == Reader(log, fits)
  <1>1. log \in Seq(Pieces) /\ sound \in Seq(Entries)
    BY DEF TypeOK
  <1>2. Reader(log', fits) = Extract(r, p, fits)
    BY <1>1, ReaderAppend
  <1>3. r \in Readers
    BY <1>1, ReaderType
  <1>4. SoundAll(sound) \in Seq(LoadedEntries)
    BY <1>1, SoundAllType
  <1>5. IsPrefix(SoundAll(sound), r.entries)
    BY DEF Kept
  <1> HIDE DEF r
  <1>6. Goes(r, Extract(r, p, fits))
    BY <1>3, ExtractGoes
  <1>7. IsPrefix(SoundAll(sound), Extract(r, p, fits).entries)
    BY <1>3, <1>4, <1>5, <1>6, PrefixGoes
  <1> QED BY <1>2, <1>7 DEF Kept

\* A disturbed log stays one: a thread does not make up for an overlap by
\* reaching the end of its entry.
LEMMA WriteLogUndisturbed ==
  ASSUME TypeOK, Len(sound) <= Len(finished), NEW i \in Ids, WriteLog(i)
  PROVE  /\ Len(sound') <= Len(finished')
         /\ Undisturbed' => Undisturbed
         /\ at[i] < 6 => Writing' = Writing /\ finished' = finished /\ sound' = sound
         /\ at[i] = 6 => /\ finished' = Append(finished, entry[i])
                         /\ Undisturbed => Writing = {i} /\ Writing' = {} /\ sound' = finished'
                         /\ ~Undisturbed => sound' = sound
  <1>1. at[i] \in 1..6 /\ i \in Writing
    BY DEF WriteLog, Writing
  <1>2. at \in [Ids -> 0..7] /\ at' = [at EXCEPT ![i] = at[i] + 1] /\ failures' = failures
    BY DEF TypeOK, WriteLog
  <1>3. entry[i] \in Entries /\ finished \in Seq(Entries) /\ sound \in Seq(Entries)
    BY <1>1 DEF TypeOK
  <1>4. CASE at[i] < 6
    <2>1. \A j \in Ids : at'[j] \in 1..6 <=> at[j] \in 1..6
      BY <1>1, <1>2, <1>4
    <2>2. Writing' = Writing
      BY <2>1 DEF Writing
    <2>3. finished' = finished /\ sound' = sound
      BY <1>4 DEF WriteLog
    <2> QED BY <1>2, <1>4, <2>2, <2>3 DEF Undisturbed
  <1>5. CASE at[i] = 6
    <2>1. /\ finished' = Append(finished, entry[i])
          /\ sound' = IF Undisturbed THEN finished' ELSE sound
      BY <1>5 DEF WriteLog
    <2>2. Len(finished') = Len(finished) + 1 /\ Len(finished) \in Nat /\ Len(sound) \in Nat
      BY <1>3, <2>1
    <2>3. Undisturbed => Writing = {i}
      BY <1>1 DEF Undisturbed
    <2>4. Writing' = Writing \ {i}
      BY <1>1, <1>2, <1>5 DEF Writing
    <2>5. ~Undisturbed => sound' # finished'
      BY <2>1, <2>2
    <2>6. Undisturbed' => Undisturbed
      BY <2>5 DEF Undisturbed
    <2>7. Len(sound') <= Len(finished')
      BY <2>1, <2>2
    <2> QED BY <1>5, <2>1, <2>3, <2>4, <2>6, <2>7
  <1> QED BY <1>1, <1>4, <1>5

LEMMA WriteLogInStep ==
  ASSUME TypeOK, ReaderInStep, NEW i \in Ids, WriteLog(i)
  PROVE  ReaderInStep'
  <1> DEFINE e == entry'[i]
             p == PiecesOf(e)[at[i]]
  <1>1. Len(sound) <= Len(finished)
    BY ReaderInStepParts
  <1>2. /\ at[i] \in 1..6 /\ e \in Entries /\ p \in Pieces
        /\ at[i] # 5 => entry' = entry
        /\ e.id = entry[i].id /\ e.file = entry[i].file
        /\ \A j \in Ids \ {i} : entry'[j] = entry[j]
    BY WriteLogType
  <1>3. /\ log' = Append(log, p) /\ at' = [at EXCEPT ![i] = at[i] + 1]
        /\ log \in Seq(Pieces) /\ finished \in Seq(Entries) /\ at \in [Ids -> 0..7]
    BY DEF WriteLog, TypeOK
  <1> HIDE DEF p
  <1>4. ASSUME NEW fits \in BOOLEAN, Undisturbed
        PROVE  /\ Steady(fits)'
               /\ at[i] = 6 => Kept(fits)'
    <2> DEFINE r == Reader(log, fits)
               q == Extract(r, p, fits)
    <2>1. r \in Readers
      BY <1>3, ReaderType
    <2>2. Reader(log', fits) = q
      BY <1>2, <1>3, ReaderAppend
    <2>3. i \in Writing /\ Writing = {i}
      BY <1>4 DEF WriteLog, Undisturbed
    <2>4. r.entries = SoundAll(finished) /\ InStep(r, entry[i], at[i])
      BY <1>4, <2>3, ReaderInStepParts DEF Steady
    <2> HIDE DEF r
    <2>5. InStep(r, e, at[i])
      <3>1. CASE at[i] # 5
        BY <1>2, <2>4, <3>1
      <3>2. CASE at[i] = 5
        BY <1>2, <2>4, <3>2 DEF InStep
      <3> QED BY <3>1, <3>2
    <2>6. /\ at[i] < 6 => InStep(q, e, at[i] + 1) /\ q.entries = r.entries
          /\ at[i] = 6 => /\ q.want = "id" /\ q.token = <<>>
                          /\ q.entries = Append(r.entries, Sound(e))
      <3> DEFINE n == at[i]
      <3>1. n \in 1..6 /\ e \in Entries /\ InStep(r, e, n) /\ q = Extract(r, PiecesOf(e)[n], fits)
        BY <1>2, <2>5 DEF p
      <3> HIDE DEF e, n, q
      <3>2. ASSUME n < 6 PROVE InStep(q, e, n + 1) /\ q.entries = r.entries
        <4>1. n \in 1..5
          BY <3>1, <3>2
        <4> QED BY <2>1, <3>1, <4>1, InStepNext
      <3>3. ASSUME n = 6
            PROVE  /\ q.want = "id" /\ q.token = <<>>
                   /\ q.entries = Append(r.entries, Sound(e))
        BY <2>1, <3>1, <3>3, InStepLast
      <3> QED BY <3>2, <3>3 DEF n
    <2> HIDE DEF q
    <2>7. CASE at[i] < 6
      <3>1. Writing' = {i} /\ finished' = finished
        BY <1>1, <2>3, <2>7, WriteLogUndisturbed
      <3>2. at'[i] = at[i] + 1
        BY <1>3
      <3> QED BY <2>2, <2>4, <2>6, <2>7, <3>1, <3>2 DEF Steady
    <2>8. CASE at[i] = 6
      <3>1. Writing' = {} /\ finished' = Append(finished, entry[i]) /\ sound' = finished'
        BY <1>1, <1>4, <2>8, WriteLogUndisturbed
      <3>2. e = entry[i]
        BY <1>2, <2>8
      <3>3. q.entries = SoundAll(finished')
        BY <1>2, <1>3, <2>4, <2>6, <2>8, <3>1, <3>2, SoundAllAppend
      <3>4. Steady(fits)'
        BY <2>2, <2>6, <2>8, <3>1, <3>3 DEF Steady
      <3>5. Kept(fits)'
        BY <2>2, <3>1, <3>3 DEF Kept, IsPrefix
      <3> QED BY <3>4, <3>5
    <2> QED BY <1>2, <2>7, <2>8
  <1>5. ASSUME NEW fits \in BOOLEAN PROVE Kept(fits)'
    <2>1. CASE at[i] = 6 /\ Undisturbed
      BY <1>4, <2>1
    <2>2. CASE ~(at[i] = 6 /\ Undisturbed)
      <3>1. sound' = sound
        BY <1>1, <1>2, <2>2, WriteLogUndisturbed
      <3>2. Kept(fits)
        BY ReaderInStepParts
      <3> QED BY <1>2, <1>3, <3>1, <3>2, KeptAppend
    <2> QED BY <2>1, <2>2
  <1>6. Len(sound') <= Len(finished') /\ (Undisturbed' => Undisturbed)
    BY <1>1, WriteLogUndisturbed
  <1> QED BY <1>4, <1>5, <1>6 DEF ReaderInStep, Kept, Steady

LEMMA WriteFailsInStep ==
  ASSUME TypeOK, ReaderInStep, NEW i \in Ids, WriteFails(i)
  PROVE  ReaderInStep'
  <1>1. /\ Len(sound) <= Len(finished)
        /\ \A fits \in BOOLEAN : Kept(fits)
    BY ReaderInStepParts
  <1>2. log' = log \/ \E p \in Pieces : log' = Append(log, p)
    BY WriteFailsType
  <1>3. finished' = finished /\ sound' = sound /\ failures' # 0
    BY DEF WriteFails, TypeOK
  <1>4. ~Undisturbed'
    BY <1>3 DEF Undisturbed
  <1>5. ASSUME NEW fits \in BOOLEAN PROVE Kept(fits)'
    <2>1. CASE log' = log
      BY <1>1, <1>3, <2>1 DEF Kept
    <2>2. ASSUME NEW p \in Pieces, log' = Append(log, p) PROVE Kept(fits)'
      BY <1>1, <1>3, <2>2, KeptAppend
    <2> QED BY <1>2, <2>1, <2>2
  <1> QED BY <1>1, <1>3, <1>4, <1>5 DEF ReaderInStep, Kept

LEMMA OpenLogInStep ==
  ASSUME TypeOK, ReaderInStep, NEW i \in Ids, NEW f \in Files, OpenLog(i, f)
  PROVE  ReaderInStep'
  <1>1. /\ log' = log /\ finished' = finished /\ sound' = sound /\ failures' = failures
        /\ at[i] = 0 /\ at' = [at EXCEPT ![i] = 1] /\ at \in [Ids -> 0..7]
    BY DEF OpenLog, Opened, TypeOK
  <1>2. Writing' = Writing \cup {i} /\ i \notin Writing
    BY <1>1 DEF Writing
  <1>3. ASSUME Undisturbed', NEW fits \in BOOLEAN PROVE Steady(fits)'
    <2>1. Writing = {} /\ Undisturbed
      BY <1>1, <1>2, <1>3 DEF Undisturbed
    <2> DEFINE r == Reader(log, fits)
    <2>2. r.entries = SoundAll(finished) /\ r.want = "id" /\ r.token = <<>>
      BY <2>1, ReaderInStepParts DEF Steady
    <2> HIDE DEF r
    <2>3. at'[i] = 1 /\ Writing' = {i}
      BY <1>1, <1>2, <2>1
    <2>4. InStep(r, entry'[i], 1)
      BY <2>2 DEF InStep
    <2> QED BY <1>1, <2>2, <2>3, <2>4 DEF Steady, r
  <1>4. \A fits \in BOOLEAN : Kept(fits)'
    BY <1>1, ReaderInStepParts DEF Kept
  <1>5. Len(sound') <= Len(finished')
    BY <1>1, ReaderInStepParts
  <1> QED BY <1>3, <1>4, <1>5 DEF ReaderInStep, Kept, Steady

\* An empty log is read to nothing.
LEMMA EmptyInStep ==
  ASSUME log = <<>>, finished = <<>>, sound = <<>>, Writing = {}
  PROVE  ReaderInStep
  <1>1. \A fits \in BOOLEAN : Reader(log, fits) = Start
    BY ReaderEmpty
  <1>2. SoundAll(<<>>) = <<>>
    BY DEF SoundAll
  <1>3. Start.entries = <<>> /\ Start.want = "id" /\ Start.token = <<>>
    BY DEF Start
  <1>4. IsPrefix(<<>>, <<>>) /\ Len(<<>>) <= Len(<<>>)
    BY DEF IsPrefix
  <1> QED BY <1>1, <1>2, <1>3, <1>4 DEF ReaderInStep

LEMMA RestartInStep ==
  ASSUME TypeOK, Restart
  PROVE  ReaderInStep'
  <1>1. log' = <<>> /\ finished' = <<>> /\ sound' = <<>>
    BY DEF Restart
  <1>2. Writing' = {}
    BY RestartType
  <1>3. \A fits \in BOOLEAN : Reader(log', fits) = Start
    BY <1>1, ReaderEmpty
  <1>4. SoundAll(<<>>) = <<>>
    BY DEF SoundAll
  <1>5. Start.entries = <<>> /\ Start.want = "id" /\ Start.token = <<>>
    BY DEF Start
  <1>6. IsPrefix(<<>>, <<>>) /\ Len(<<>>) <= Len(<<>>)
    BY DEF IsPrefix
  <1> QED BY <1>1, <1>2, <1>3, <1>4, <1>5, <1>6 DEF ReaderInStep

\* The loader keeps step with logTransaction.
THEOREM ReaderKeepsStep == Spec => []ReaderInStep
  <1>1. Init => ReaderInStep
    <2> SUFFICES ASSUME Init PROVE ReaderInStep
      OBVIOUS
    <2>1. Writing = {}
      BY DEF Init, Writing
    <2> QED BY <2>1, EmptyInStep DEF Init
  <1>2. TypeOK /\ ReaderInStep /\ [Next]_vars => ReaderInStep'
    <2> SUFFICES ASSUME TypeOK, ReaderInStep, [Next]_vars PROVE ReaderInStep'
      OBVIOUS
    <2>1. CASE UNCHANGED vars
      BY <2>1 DEF ReaderInStep, vars, Undisturbed, Writing
    <2>2. ASSUME NEW i \in Ids, NEW f \in Files, OpenLog(i, f) PROVE ReaderInStep'
      BY <2>2, OpenLogInStep
    <2>3. ASSUME NEW i \in Ids, WriteLog(i) PROVE ReaderInStep'
      BY <2>3, WriteLogInStep
    <2>4. ASSUME NEW i \in Ids, WriteFails(i) PROVE ReaderInStep'
      BY <2>4, WriteFailsInStep
    <2>5. CASE Restart
      BY <2>5, RestartInStep
    <2> QED BY <2>1, <2>2, <2>3, <2>4, <2>5 DEF Next
  <1> QED BY <1>1, <1>2, LogTypeCorrect, PTL DEF Spec

-----------------------------------------------------------------------------
(* The properties.                                                         *)

LEMMA FinishedFromInStep ==
  ASSUME TypeOK, ReaderInStep
  PROVE  FinishedEntriesLoaded
  <1> SUFFICES ASSUME Undisturbed, NEW fits \in BOOLEAN
               PROVE  LET pending == {i \in Writing : at[i] = 6}
                      IN  Loaded(fits) = SoundAll(finished) \o
                            IF pending = {} THEN <<>>
                            ELSE <<Sound(entry[CHOOSE i \in pending : TRUE])>>
    BY DEF FinishedEntriesLoaded
  <1> DEFINE r == Reader(log, fits)
             pending == {i \in Writing : at[i] = 6}
  <1>1. r \in Readers
    BY ReaderType DEF TypeOK
  <1>2. /\ r.entries = SoundAll(finished)
        /\ Writing = {} => r.want = "id" /\ r.token = <<>>
        /\ \A i \in Writing : InStep(r, entry[i], at[i])
    BY ReaderInStepParts DEF Steady
  <1>3. Loaded(fits) = EndToken(r, fits).entries
    BY DEF Loaded
  <1>4. finished \in Seq(Entries)
    BY DEF TypeOK
  <1> HIDE DEF r
  <1>5. CASE Writing = {}
    <2>1. EndToken(r, fits).entries = SoundAll(finished)
      BY <1>2, <1>5 DEF EndToken
    <2>2. SoundAll(finished) \o <<>> = SoundAll(finished)
      BY <1>4, SoundAllType
    <2> QED BY <1>3, <1>5, <2>1, <2>2
  <1>6. ASSUME NEW i \in Writing
        PROVE  Loaded(fits) = SoundAll(finished) \o
                 IF pending = {} THEN <<>> ELSE <<Sound(entry[CHOOSE j \in pending : TRUE])>>
    <2>1. i \in Ids /\ at[i] \in 1..6 /\ entry[i] \in Entries /\ InStep(r, entry[i], at[i])
      BY <1>2 DEF Writing, TypeOK
    <2>2. EndToken(r, fits).entries =
            IF at[i] = 6 THEN Append(r.entries, Sound(entry[i])) ELSE r.entries
      <3> DEFINE e == entry[i]
                 n == at[i]
      <3>1. n \in 1..6 /\ e \in Entries /\ InStep(r, e, n)
        BY <2>1
      <3> HIDE DEF e, n
      <3>2. CASE n = 6
        <4>1. EndToken(r, fits).entries = Append(r.entries, Sound(e))
          BY <1>1, <3>1, <3>2, InStepEnd
        <4> QED BY <3>2, <4>1 DEF e, n
      <3>3. CASE n # 6
        <4>1. EndToken(r, fits).entries = r.entries
          BY <1>1, <3>1, <3>3, InStepEnd
        <4> QED BY <3>3, <4>1 DEF e, n
      <3> QED BY <3>2, <3>3
    <2>3. Writing = {i}
      BY DEF Undisturbed
    <2>4. /\ SoundAll(finished) \o <<Sound(entry[i])>> = Append(SoundAll(finished), Sound(entry[i]))
          /\ SoundAll(finished) \o <<>> = SoundAll(finished)
      BY <1>4, <2>1, SoundAllAppend
    <2>5. CASE at[i] = 6
      <3>1. pending = {i}
        BY <2>3, <2>5
      <3>2. (CHOOSE j \in pending : TRUE) = i
        <4> HIDE DEF pending
        <4> QED BY <3>1
      <3> QED BY <1>2, <1>3, <2>2, <2>4, <2>5, <3>1, <3>2
    <2>6. CASE at[i] # 6
      <3>1. pending = {}
        BY <2>3, <2>6
      <3> QED BY <1>2, <1>3, <2>2, <2>4, <2>6, <3>1
    <2> QED BY <2>5, <2>6
  <1> QED BY <1>5, <1>6

LEMMA EarlierFromInStep ==
  ASSUME TypeOK, ReaderInStep
  PROVE  EarlierEntriesKept
  <1> SUFFICES ASSUME NEW fits \in BOOLEAN PROVE IsPrefix(SoundAll(sound), Loaded(fits))
    BY DEF EarlierEntriesKept
  <1> DEFINE r == Reader(log, fits)
  <1>1. r \in Readers
    BY ReaderType DEF TypeOK
  <1>2. IsPrefix(SoundAll(sound), r.entries)
    BY ReaderInStepParts DEF Kept
  <1>3. SoundAll(sound) \in Seq(LoadedEntries)
    BY SoundAllType DEF TypeOK
  <1>4. Loaded(fits) = EndToken(r, fits).entries
    BY DEF Loaded
  <1> HIDE DEF r
  <1>5. Goes(r, EndToken(r, fits))
    BY <1>1, EndTokenGoes
  <1> QED BY <1>1, <1>2, <1>3, <1>4, <1>5, PrefixGoes

\* FinishedEntriesLoaded: a crash between two write() calls of logTransaction
\* loses nothing that was finished; for any number of entries.
THEOREM FinishedEntriesAreLoaded == Spec => []FinishedEntriesLoaded
  BY LogTypeCorrect, ReaderKeepsStep, FinishedFromInStep, PTL

\* EarlierEntriesKept: what failing and overlapping write() calls leave in the
\* log does not reach back: loadFilesAndTransactions still finds what was
\* logged before.
THEOREM EarlierEntriesAreKept == Spec => []EarlierEntriesKept
  BY LogTypeCorrect, ReaderKeepsStep, EarlierFromInStep, PTL
=============================================================================
