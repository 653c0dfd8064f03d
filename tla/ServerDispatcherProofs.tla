------------------------- MODULE ServerDispatcherProofs -------------------------
(***************************************************************************)
(* Proofs about the dispatcher.  For every number of connections, every    *)
(* set of content lengths and every way a stream is cut into packets, a    *)
(* handler stays in step with its stream, and every descriptor with the    *)
(* thread that will close it.                                              *)
(***************************************************************************)
EXTENDS ServerDispatcher, FiniteSetTheorems, SequenceTheorems, TLAPS

-----------------------------------------------------------------------------
(* Streams of units.                                                       *)

Stream == Seq(Headers \cup {Body})

\* A header is not payload, and announces a natural number of payload units.
LEMMA UnitTypes ==
  /\ Body \notin Headers
  /\ \A u \in Headers : Extent(u) \in Nat /\ PayloadLen(u) \in Nat
  /\ \A u \in Headers \cup {Body} : u # Body => u \in Headers
  BY DispatcherAssumption DEF Headers, Body, Malformed, Extent, PayloadLen

\* Append, place by place.
LEMMA AppendPlaces ==
  ASSUME NEW S, NEW s \in Seq(S), NEW u \in S
  PROVE  /\ Append(s, u) \in Seq(S)
         /\ Len(s) \in Nat /\ Len(Append(s, u)) = Len(s) + 1
         /\ \A j \in 1..Len(s) : Append(s, u)[j] = s[j]
         /\ Append(s, u)[Len(s) + 1] = u
  OBVIOUS

\* What read() leaves of a stream.
LEMMA DropPlaces ==
  ASSUME NEW S, NEW s \in Seq(S), NEW m \in Nat, m <= Len(s)
  PROVE  /\ SubSeq(s, m + 1, Len(s)) \in Seq(S)
         /\ Len(s) \in Nat
         /\ Len(SubSeq(s, m + 1, Len(s))) = Len(s) - m
         /\ \A j \in 1..(Len(s) - m) : SubSeq(s, m + 1, Len(s))[j] = s[j + m]
  <1>1. Len(s) \in Nat
    OBVIOUS
  <1>2. \A i \in (m + 1)..Len(s) : s[i] \in S
    OBVIOUS
  <1>3. /\ SubSeq(s, m + 1, Len(s)) \in Seq(S)
        /\ Len(SubSeq(s, m + 1, Len(s))) =
             IF m + 1 <= Len(s) THEN Len(s) - (m + 1) + 1 ELSE 0
        /\ \A i \in 1..(Len(s) - (m + 1) + 1) :
             SubSeq(s, m + 1, Len(s))[i] = s[(m + 1) + i - 1]
    <2>1. m + 1 \in Int /\ Len(s) \in Int
      BY <1>1
    <2> QED BY <1>2, <2>1, SubSeqProperties
  <1> DEFINE t == SubSeq(s, m + 1, Len(s))
             l == Len(s)
  <1> HIDE DEF t, l
  <1>4. Len(t) = l - m
    BY <1>1, <1>3 DEF t, l
  <1>5. ASSUME NEW j \in 1..(l - m) PROVE t[j] = s[j + m]
    <2>1. j \in 1..(l - (m + 1) + 1) /\ (m + 1) + j - 1 = j + m
      BY <1>1 DEF l
    <2> QED BY <1>3, <2>1 DEF t, l
  <1> QED BY <1>1, <1>3, <1>4, <1>5 DEF t, l

\* A client that owes nothing begins a request.
LEMMA FollowHeader ==
  ASSUME NEW s \in Stream, NEW u \in Headers, NEW j \in Nat, NEW n \in Nat, NEW rest,
         j <= Len(s), Follow(s, j, n, 0)
  PROVE  Follow(Append(s, u), j, n, rest)
  <1> DEFINE t == Append(s, u)
             l == Len(s)
  <1>1. /\ l \in Nat /\ Len(t) = l + 1
        /\ \A k \in 1..l : t[k] = s[k]
        /\ t[l + 1] = u /\ u # Body
    BY AppendPlaces, UnitTypes DEF Stream
  <1>2. /\ \A k \in (j + 1)..(j + n) : k <= l => s[k] = Body
        /\ j + n < l => s[j + n + 1] # Body
        /\ j + n >= l => 0 = (j + n) - l
    BY DEF Follow
  <1> HIDE DEF t, l
  <1>3. j + n <= l
    BY <1>1, <1>2
  <1>4. ASSUME NEW k \in (j + 1)..(j + n) PROVE t[k] = Body
    BY <1>1, <1>2, <1>3
  <1>5. t[j + n + 1] # Body
    <2>1. CASE j + n < l
      <3>1. j + n + 1 \in 1..l
        BY <1>1, <2>1
      <3> QED BY <1>1, <1>2, <2>1, <3>1
    <2>2. CASE j + n = l
      BY <1>1, <2>2
    <2> QED BY <1>1, <1>3, <2>1, <2>2
  <1>6. ~(j + n >= Len(t))
    BY <1>1, <1>3
  <1>7. Follow(t, j, n, rest)
    BY <1>4, <1>5, <1>6 DEF Follow
  <1> QED BY <1>7 DEF t

\* A client that owes payload sends some.
LEMMA FollowPayload ==
  ASSUME NEW s \in Stream, NEW j \in Nat, NEW n \in Nat, NEW rest \in Nat, rest > 0,
         j <= Len(s), Follow(s, j, n, rest)
  PROVE  Follow(Append(s, Body), j, n, rest - 1)
  <1> DEFINE t == Append(s, Body)
             l == Len(s)
  <1>1. /\ l \in Nat /\ Len(t) = l + 1
        /\ \A k \in 1..l : t[k] = s[k]
        /\ t[l + 1] = Body
    BY AppendPlaces DEF Stream
  <1>2. /\ \A k \in (j + 1)..(j + n) : k <= l => s[k] = Body
        /\ j + n < l => s[j + n + 1] # Body
        /\ j + n >= l => rest = (j + n) - l
    BY DEF Follow
  <1> HIDE DEF t, l
  <1>3. ASSUME NEW k \in (j + 1)..(j + n), k <= Len(t) PROVE t[k] = Body
    <2>1. k = l + 1 \/ k \in 1..l
      BY <1>1, <1>3
    <2> QED BY <1>1, <1>2, <2>1
  <1>4. ASSUME j + n < Len(t) PROVE t[j + n + 1] # Body
    <2>1. j + n < l
      BY <1>1, <1>2, <1>4
    <2>2. j + n + 1 \in 1..l
      BY <1>1, <2>1
    <2> QED BY <1>1, <1>2, <2>1, <2>2
  <1>5. ASSUME j + n >= Len(t) PROVE rest - 1 = (j + n) - Len(t)
    BY <1>1, <1>2, <1>5
  <1>6. Follow(t, j, n, rest - 1)
    BY <1>3, <1>4, <1>5 DEF Follow
  <1> QED BY <1>6 DEF t

\* What follows place j, seen from i places further on.
LEMMA FollowLater ==
  ASSUME NEW s \in Stream, NEW j \in Nat, NEW n \in Nat, NEW rest, NEW i \in 0..n,
         Follow(s, j, n, rest)
  PROVE  Follow(s, j + i, n - i, rest)
  <1>1. Len(s) \in Nat /\ (j + i) + (n - i) = j + n
    BY DEF Stream
  <1>2. \A k \in (j + i + 1)..((j + i) + (n - i)) : k \in (j + 1)..(j + n)
    BY <1>1
  <1> QED BY <1>1, <1>2 DEF Follow

\* ... and after the first m units have been read.
LEMMA FollowRead ==
  ASSUME NEW s \in Stream, NEW j \in Nat, NEW n \in Nat, NEW rest, NEW m \in Nat,
         m <= j, j <= Len(s), Follow(s, j, n, rest)
  PROVE  Follow(SubSeq(s, m + 1, Len(s)), j - m, n, rest)
  <1> DEFINE t == SubSeq(s, m + 1, Len(s))
             l == Len(s)
  <1>1. /\ l \in Nat /\ m <= l
    BY DEF Stream
  <1>2. /\ Len(t) = l - m
        /\ \A k \in 1..(l - m) : t[k] = s[k + m]
    BY <1>1, DropPlaces DEF Stream
  <1>3. /\ \A k \in (j + 1)..(j + n) : k <= l => s[k] = Body
        /\ j + n < l => s[j + n + 1] # Body
        /\ j + n >= l => rest = (j + n) - l
    BY DEF Follow
  <1> HIDE DEF t, l
  <1>4. ASSUME NEW k \in ((j - m) + 1)..((j - m) + n), k <= Len(t) PROVE t[k] = Body
    <2>1. k \in 1..(l - m) /\ k + m \in (j + 1)..(j + n) /\ k + m <= l
      BY <1>1, <1>2, <1>4
    <2> QED BY <1>2, <1>3, <2>1
  <1>5. ASSUME (j - m) + n < Len(t) PROVE t[(j - m) + n + 1] # Body
    <2>1. /\ (j - m) + n + 1 \in 1..(l - m)
          /\ ((j - m) + n + 1) + m = j + n + 1
          /\ j + n < l
      BY <1>1, <1>2, <1>5
    <2> QED BY <1>2, <1>3, <2>1
  <1>6. ASSUME (j - m) + n >= Len(t) PROVE rest = ((j - m) + n) - Len(t)
    <2>1. j + n >= l /\ ((j - m) + n) - Len(t) = (j + n) - l
      BY <1>1, <1>2, <1>6
    <2> QED BY <1>3, <2>1
  <1>7. Follow(t, j - m, n, rest)
    BY <1>4, <1>5, <1>6 DEF Follow
  <1> QED BY <1>7 DEF t

\* The stream of a client that owes nothing and sends a header: it now owes
\* the payload that the header announces.
LEMMA FramedHeader ==
  ASSUME NEW s \in Stream, NEW u \in Headers, NEW lead \in Nat, Framed(s, lead, 0)
  PROVE  Framed(Append(s, u), lead, Extent(u))
  <1> DEFINE t == Append(s, u)
  <1>1. /\ Len(s) \in Nat /\ Len(t) = Len(s) + 1
        /\ \A k \in 1..Len(s) : t[k] = s[k] /\ s[k] \in Headers \cup {Body}
        /\ t[Len(s) + 1] = u
    <2>1. \A k \in 1..Len(s) : s[k] \in Headers \cup {Body}
      BY DEF Stream
    <2> QED BY <2>1, AppendPlaces DEF Stream
  <1>2. Follow(t, 0, lead, Extent(u))
    BY <1>1, FollowHeader DEF Framed
  <1>3. ASSUME NEW j \in 1..Len(t), t[j] # Body PROVE Follow(t, j, Extent(t[j]), Extent(u))
    <2>1. CASE j \in 1..Len(s)
      <3>1. t[j] = s[j] /\ Extent(s[j]) \in Nat /\ j \in Nat /\ j <= Len(s)
        BY <1>1, <1>3, <2>1, UnitTypes
      <3>2. Follow(s, j, Extent(s[j]), 0)
        BY <1>3, <2>1, <3>1 DEF Framed
      <3> QED BY <3>1, <3>2, FollowHeader
    <2>2. CASE j = Len(s) + 1
      <3> DEFINE n == Extent(u)
      <3>1. n \in Nat /\ t[j] = u
        BY <1>1, <2>2, UnitTypes
      <3> HIDE DEF n, t
      <3>2. \A k \in (j + 1)..(j + n) : ~(k <= Len(t))
        BY <1>1, <2>2, <3>1
      <3>3. ~(j + n < Len(t)) /\ n = (j + n) - Len(t)
        BY <1>1, <2>2, <3>1
      <3>4. Follow(t, j, n, n)
        BY <3>2, <3>3 DEF Follow
      <3> QED BY <3>1, <3>4 DEF n
    <2> QED BY <1>1, <2>1, <2>2
  <1> QED BY <1>2, <1>3 DEF Framed

\* The stream of a client that sends payload it owes.
LEMMA FramedPayload ==
  ASSUME NEW s \in Stream, NEW lead \in Nat, NEW rest \in Nat, rest > 0,
         Framed(s, lead, rest)
  PROVE  Framed(Append(s, Body), lead, rest - 1)
  <1> DEFINE t == Append(s, Body)
  <1>1. /\ Len(s) \in Nat /\ Len(t) = Len(s) + 1
        /\ \A k \in 1..Len(s) : t[k] = s[k] /\ s[k] \in Headers \cup {Body}
        /\ t[Len(s) + 1] = Body
    <2>1. \A k \in 1..Len(s) : s[k] \in Headers \cup {Body}
      BY DEF Stream
    <2> QED BY <2>1, AppendPlaces DEF Stream
  <1>2. Follow(t, 0, lead, rest - 1)
    BY <1>1, FollowPayload DEF Framed
  <1>3. ASSUME NEW j \in 1..Len(t), t[j] # Body PROVE Follow(t, j, Extent(t[j]), rest - 1)
    <2>1. j \in 1..Len(s) /\ t[j] = s[j] /\ j \in Nat /\ j <= Len(s)
      BY <1>1, <1>3
    <2>2. Extent(s[j]) \in Nat /\ Follow(s, j, Extent(s[j]), rest)
      BY <1>1, <1>3, <2>1, UnitTypes DEF Framed
    <2> QED BY <2>1, <2>2, FollowPayload
  <1> QED BY <1>2, <1>3 DEF Framed

\* What is left after m units, if n units of payload come first.
LEMMA FramedRest ==
  ASSUME NEW s \in Stream, NEW rest, NEW m \in Nat, m <= Len(s), NEW n \in Nat,
         Follow(s, m, n, rest),
         \A j \in 1..Len(s) : s[j] # Body => Follow(s, j, Extent(s[j]), rest)
  PROVE  Framed(SubSeq(s, m + 1, Len(s)), n, rest)
  <1> DEFINE t == SubSeq(s, m + 1, Len(s))
  <1>1. /\ Len(s) \in Nat /\ Len(t) = Len(s) - m
        /\ \A k \in 1..(Len(s) - m) : t[k] = s[k + m]
        /\ \A k \in 1..Len(s) : s[k] \in Headers \cup {Body}
    <2>1. \A k \in 1..Len(s) : s[k] \in Headers \cup {Body}
      BY DEF Stream
    <2> QED BY <2>1, DropPlaces DEF Stream
  <1>2. Follow(t, 0, n, rest)
    <2>1. m - m = 0 /\ m <= m
      OBVIOUS
    <2>2. Follow(t, m - m, n, rest)
      BY <2>1, FollowRead
    <2> HIDE DEF t
    <2> QED BY <2>1, <2>2
  <1>3. ASSUME NEW j \in 1..Len(t), t[j] # Body PROVE Follow(t, j, Extent(t[j]), rest)
    <2>1. PICK i \in 1..Len(s) : i = j + m /\ i - m = j /\ m <= i /\ i <= Len(s) /\ i \in Nat
      <3> HIDE DEF t
      <3>1. j + m \in 1..Len(s) /\ (j + m) - m = j /\ m <= j + m
        BY <1>1
      <3> QED BY <3>1
    <2>2. t[j] = s[i]
      BY <1>1, <2>1
    <2>3. Extent(s[i]) \in Nat /\ Follow(s, i, Extent(s[i]), rest)
      BY <1>1, <1>3, <2>1, <2>2, UnitTypes
    <2>4. Follow(t, i - m, Extent(s[i]), rest)
      BY <2>1, <2>3, FollowRead
    <2> HIDE DEF t
    <2> QED BY <2>1, <2>2, <2>4
  <1> QED BY <1>2, <1>3 DEF Framed

\* read() takes payload ...
LEMMA FramedRead ==
  ASSUME NEW s \in Stream, NEW lead \in Nat, NEW rest, NEW m \in Nat, m <= lead,
         m <= Len(s), Framed(s, lead, rest)
  PROVE  Framed(SubSeq(s, m + 1, Len(s)), lead - m, rest)
  <1>1. m \in 0..lead /\ 0 + m = m /\ lead - m \in Nat
    OBVIOUS
  <1>2. Follow(s, 0 + m, lead - m, rest)
    BY <1>1, FollowLater DEF Framed
  <1>3. Follow(s, m, lead - m, rest)
    BY <1>1, <1>2
  <1> QED BY <1>1, <1>3, FramedRest DEF Framed

\* ... or the beginning of a request, if the one before has been read.
LEMMA FramedTake ==
  ASSUME NEW s \in Stream, NEW rest, NEW m \in Nat, 1 <= m, m <= Len(s), Framed(s, 0, rest)
  PROVE  /\ s[1] \in Headers /\ Extent(s[1]) \in Nat
         /\ m - 1 <= Extent(s[1]) =>
              /\ \A j \in 2..m : s[j] = Body
              /\ Framed(SubSeq(s, m + 1, Len(s)), Extent(s[1]) - (m - 1), rest)
  <1>1. Len(s) \in Nat /\ 1 \in 1..Len(s) /\ s[1] \in Headers \cup {Body}
    BY DEF Stream
  <1>2. s[1] # Body
    <2>1. 0 + 0 < Len(s) /\ 0 + 0 + 1 = 1
      BY <1>1
    <2> QED BY <2>1 DEF Framed, Follow
  <1>3. s[1] \in Headers /\ Extent(s[1]) \in Nat
    BY <1>1, <1>2, UnitTypes
  <1>4. SUFFICES ASSUME m - 1 <= Extent(s[1])
                 PROVE  /\ \A j \in 2..m : s[j] = Body
                        /\ Framed(SubSeq(s, m + 1, Len(s)), Extent(s[1]) - (m - 1), rest)
    BY <1>3
  <1>5. Follow(s, 1, Extent(s[1]), rest)
    BY <1>1, <1>2 DEF Framed
  <1> DEFINE x == Extent(s[1])
  <1>6. x \in Nat /\ m - 1 \in 0..x /\ 1 + (m - 1) = m /\ x - (m - 1) \in Nat
    BY <1>3, <1>4
  <1>7. ASSUME NEW j \in 2..m PROVE s[j] = Body
    <2> HIDE DEF x
    <2>1. j \in (1 + 1)..(1 + x) /\ j <= Len(s)
      BY <1>1, <1>6
    <2> QED BY <1>5, <2>1 DEF Follow, x
  <1>8. Follow(s, m, x - (m - 1), rest)
    <2>1. Follow(s, 1 + (m - 1), x - (m - 1), rest)
      BY <1>5, <1>6, FollowLater
    <2> HIDE DEF x
    <2> QED BY <1>6, <2>1
  <1>9. Framed(SubSeq(s, m + 1, Len(s)), x - (m - 1), rest)
    BY <1>6, <1>8, FramedRest DEF Framed
  <1> QED BY <1>7, <1>9

\* What a reader of the stream sees.
LEMMA FramedStart ==
  ASSUME NEW s \in Stream, NEW lead \in Nat, NEW rest, Framed(s, lead, rest)
  PROVE  /\ \A j \in 1..Len(s) : j <= lead => s[j] = Body
         /\ Len(s) > lead => s[lead + 1] # Body
  <1>1. Len(s) \in Nat /\ 0 + lead = lead
    BY DEF Stream
  <1>2. /\ \A k \in (0 + 1)..(0 + lead) : k <= Len(s) => s[k] = Body
        /\ 0 + lead < Len(s) => s[0 + lead + 1] # Body
    BY DEF Framed, Follow
  <1> QED BY <1>1, <1>2

-----------------------------------------------------------------------------
(* Headers in a stream.                                                    *)

\* The headers of a stream can be counted.
LEMMA PlacesFinite ==
  ASSUME NEW s \in Stream
  PROVE  IsFiniteSet(HeaderPlaces(s)) /\ Cardinality(HeaderPlaces(s)) \in Nat
  <1>1. Len(s) \in Nat /\ HeaderPlaces(s) \subseteq 1..Len(s)
    BY DEF Stream, HeaderPlaces
  <1>2. IsFiniteSet(1..Len(s))
    BY <1>1, FS_Interval
  <1>3. IsFiniteSet(HeaderPlaces(s))
    BY <1>1, <1>2, FS_Subset
  <1> QED BY <1>3, FS_CardinalityType

\* A header that arrives adds one to them ...
LEMMA PlacesHeader ==
  ASSUME NEW s \in Stream, NEW u \in Headers
  PROVE  Cardinality(HeaderPlaces(Append(s, u))) = Cardinality(HeaderPlaces(s)) + 1
  <1> DEFINE t == Append(s, u)
  <1>1. /\ Len(s) \in Nat /\ Len(t) = Len(s) + 1
        /\ \A k \in 1..Len(s) : t[k] = s[k]
        /\ t[Len(s) + 1] = u /\ u # Body
    BY AppendPlaces, UnitTypes DEF Stream
  <1> HIDE DEF t
  <1>2. HeaderPlaces(t) = HeaderPlaces(s) \cup {Len(s) + 1}
    BY <1>1 DEF HeaderPlaces
  <1>3. Len(s) + 1 \notin HeaderPlaces(s)
    BY <1>1 DEF HeaderPlaces
  <1>4. Cardinality(HeaderPlaces(s) \cup {Len(s) + 1}) = Cardinality(HeaderPlaces(s)) + 1
    BY <1>3, PlacesFinite, FS_AddElement
  <1> QED BY <1>2, <1>4 DEF t

\* ... and payload none.
LEMMA PlacesPayload ==
  ASSUME NEW s \in Stream
  PROVE  HeaderPlaces(Append(s, Body)) = HeaderPlaces(s)
  <1> DEFINE t == Append(s, Body)
  <1>1. /\ Len(s) \in Nat /\ Len(t) = Len(s) + 1
        /\ \A k \in 1..Len(s) : t[k] = s[k]
        /\ t[Len(s) + 1] = Body
    BY AppendPlaces DEF Stream
  <1> HIDE DEF t
  <1>2. HeaderPlaces(t) = HeaderPlaces(s)
    BY <1>1 DEF HeaderPlaces
  <1> QED BY <1>2 DEF t

\* The headers behind the first m units move to the front.
LEMMA PlacesMove ==
  ASSUME NEW s \in Stream, NEW m \in Nat, m <= Len(s)
  PROVE  Cardinality(HeaderPlaces(SubSeq(s, m + 1, Len(s)))) =
           Cardinality(HeaderPlaces(s) \ (1..m))
  <1> DEFINE t == SubSeq(s, m + 1, Len(s))
             A == HeaderPlaces(t)
             B == HeaderPlaces(s) \ (1..m)
             move == [j \in A |-> j + m]
  <1>1. /\ t \in Stream /\ Len(s) \in Nat /\ Len(t) = Len(s) - m
        /\ \A j \in 1..(Len(s) - m) : t[j] = s[j + m]
    BY DropPlaces DEF Stream
  <1>2. IsFiniteSet(A)
    BY <1>1, PlacesFinite
  <1> HIDE DEF t
  <1>3. A \subseteq Nat /\ \A j \in A : j + m \in B
    BY <1>1 DEF HeaderPlaces
  <1>4. \A i \in B : i - m \in A /\ (i - m) + m = i
    BY <1>1 DEF HeaderPlaces
  <1> HIDE DEF A, B
  <1>5. move \in [A -> B]
    BY <1>3
  <1>6. \A i, j \in A : move[i] = move[j] => i = j
    BY <1>3
  <1>7. \A i \in B : \E j \in A : move[j] = i
    BY <1>4
  <1>8. move \in Bijection(A, B)
    BY <1>5, <1>6, <1>7 DEF Bijection, Injection, IsInjective, Surjection
  <1>9. ExistsBijection(A, B)
    BY <1>8 DEF ExistsBijection
  <1>10. Cardinality(A) = Cardinality(B)
    BY <1>2, <1>9, FS_Bijection
  <1> QED BY <1>10 DEF A, B, t

\* Body that is read takes no header away ...
LEMMA PlacesRead ==
  ASSUME NEW s \in Stream, NEW m \in Nat, m <= Len(s), \A j \in 1..m : s[j] = Body
  PROVE  Cardinality(HeaderPlaces(SubSeq(s, m + 1, Len(s)))) = Cardinality(HeaderPlaces(s))
  <1>1. HeaderPlaces(s) \ (1..m) = HeaderPlaces(s)
    BY DEF HeaderPlaces
  <1> QED BY <1>1, PlacesMove

\* ... and the beginning of a request, one.
LEMMA PlacesTake ==
  ASSUME NEW s \in Stream, NEW m \in Nat, 1 <= m, m <= Len(s), s[1] # Body,
         \A j \in 2..m : s[j] = Body
  PROVE  Cardinality(HeaderPlaces(SubSeq(s, m + 1, Len(s)))) + 1 = Cardinality(HeaderPlaces(s))
  <1>1. 1 \in HeaderPlaces(s) /\ HeaderPlaces(s) \ (1..m) = HeaderPlaces(s) \ {1}
    <2>1. Len(s) \in Nat
      BY DEF Stream
    <2> QED BY <2>1 DEF HeaderPlaces
  <1>2. Cardinality(HeaderPlaces(s) \ {1}) = Cardinality(HeaderPlaces(s)) - 1
    BY <1>1, PlacesFinite, FS_RemoveElement
  <1>3. Cardinality(HeaderPlaces(SubSeq(s, m + 1, Len(s)))) = Cardinality(HeaderPlaces(s) \ {1})
    BY <1>1, PlacesMove
  <1> QED BY <1>2, <1>3, PlacesFinite

-----------------------------------------------------------------------------
(* The inductive invariants, and what they say in short.                   *)

DispatcherInv == TypeOK /\ HandlersOK /\ ConnectionsOK /\ DescriptorsTracked

\* ... and, if the numbers in headers fit into int.
StreamInv == DispatcherInv /\ StreamsOK

\* What read() returns fits into the buffer and is there.
LEMMA ReadFits ==
  ASSUME NEW a \in Nat, NEW b \in Nat, NEW n \in 1..Min({a, b})
  PROVE  n \in Nat /\ 1 <= n /\ n <= a /\ n <= b
  <1>1. \E x \in {a, b} : \A y \in {a, b} : x =< y
    OBVIOUS
  <1>2. Min({a, b}) \in {a, b} /\ \A y \in {a, b} : Min({a, b}) =< y
    BY <1>1 DEF Min
  <1> DEFINE l == Min({a, b})
  <1> HIDE DEF l
  <1>3. l \in Nat /\ l <= a /\ l <= b
    BY <1>2 DEF l
  <1>4. n \in 1..l
    BY DEF l
  <1> QED BY <1>3, <1>4

\* Body units that a handler waits for are a natural number.
LEMMA ExpectedType ==
  ASSUME TypeOK, NEW c \in Clients
  PROVE  Expected(c) \in Nat /\ Begun(c) \in {0, 1} /\ need[c] \in Nat
  BY UnitTypes DEF TypeOK, Expected, Begun

\* A handler that reads has a stream that is in step with it.
LEMMA ReaderStreams ==
  ASSUME StreamInv, NEW c \in Clients,
         hpc[c] \in {"loop", "waiting", "woken", "file"}
  PROVE  Framed(inbox[c], Expected(c), owes[c]) /\ Counted(c)
  <1>1. conn[c] = "accepted"
    BY DEF StreamInv, DispatcherInv, DescriptorsTracked, Live
  <1>2. Streaming(c)
    BY <1>1 DEF Streaming
  <1> QED BY <1>2 DEF StreamInv, StreamsOK

\* What read() leaves in the stream is a stream.
LEMMA ReadLeaves ==
  ASSUME TypeOK, NEW c \in Clients, NEW n \in 1..Min({ReadLimit(c), Len(inbox[c])})
  PROVE  /\ n \in Nat /\ 1 <= n /\ n <= need[c] /\ n <= Len(inbox[c])
         /\ need[c] - n \in Nat
         /\ SubSeq(inbox[c], n + 1, Len(inbox[c])) \in Stream
  <1>1. inbox[c] \in Stream /\ need[c] \in Nat /\ Len(inbox[c]) \in Nat
    BY DEF TypeOK, Stream
  <1>2. n \in Nat /\ 1 <= n /\ n <= need[c] /\ n <= Len(inbox[c])
    BY <1>1, ReadFits DEF ReadLimit
  <1>3. need[c] - n \in Nat
    BY <1>1, <1>2
  <1> QED BY <1>1, <1>2, <1>3, DropPlaces DEF Stream

-----------------------------------------------------------------------------
(* Types.                                                                  *)

\* Every step keeps the types.
LEMMA TypeStep ==
  ASSUME DispatcherInv, [Next]_vars
  PROVE  TypeOK'
  <1>0. TypeOK
    BY DEF DispatcherInv
  <1>1. ASSUME NEW c \in Clients, Connect(c) PROVE TypeOK'
    <2>1. backlog' \in Seq(Clients)
      BY <1>0, <1>1, AppendPlaces DEF Connect, TypeOK
    <2> QED BY <1>0, <1>1, <2>1 DEF Connect, TypeOK, clientVars, threadVars, acceptorVars
  <1>2. ASSUME NEW c \in Clients, NEW n \in Headers, BeginRequest(c, n) PROVE TypeOK'
    <2>1. Extent(n) \in Nat /\ Append(inbox[c], n) \in Seq(Headers \cup {Body})
      BY <1>0, UnitTypes, AppendPlaces DEF TypeOK
    <2>2. sent[c] \in 0..MaxRequests /\ sent[c] + 1 \in 0..MaxRequests
      BY <1>0, <1>2, DispatcherAssumption DEF TypeOK, BeginRequest
    <2>3. owes' \in [Clients -> Nat] /\ inbox' \in [Clients -> Seq(Headers \cup {Body})]
      BY <1>0, <1>2, <2>1 DEF TypeOK, BeginRequest
    <2>4. sent' \in [Clients -> 0..MaxRequests]
      BY <1>0, <1>2, <2>2 DEF TypeOK, BeginRequest
    <2> QED BY <1>0, <1>2, <2>3, <2>4 DEF TypeOK, BeginRequest, threadVars, acceptorVars
  <1>3. ASSUME NEW c \in Clients, SendBody(c) PROVE TypeOK'
    <2>1. owes[c] - 1 \in Nat
      BY <1>0, <1>3 DEF SendBody, TypeOK
    <2>2. Append(inbox[c], Body) \in Seq(Headers \cup {Body})
      BY <1>0, AppendPlaces DEF TypeOK
    <2>3. owes' \in [Clients -> Nat] /\ inbox' \in [Clients -> Seq(Headers \cup {Body})]
      BY <1>0, <1>3, <2>1, <2>2 DEF SendBody, TypeOK
    <2> QED BY <1>0, <1>3, <2>3 DEF SendBody, TypeOK, threadVars, acceptorVars
  <1>4. ASSUME NEW c \in Clients, HangUp(c) PROVE TypeOK'
    BY <1>0, <1>4 DEF TypeOK, HangUp, threadVars, acceptorVars
  <1>5. CASE SelectBegin
    BY <1>0, <1>5 DEF TypeOK, SelectBegin, clientVars, threadVars
  <1>6. CASE SelectEnd
    BY <1>0, <1>6 DEF TypeOK, SelectEnd, clientVars, threadVars
  <1>7. CASE Notify
    <2>1. ready' \subseteq ready
      BY <1>0, <1>7 DEF TypeOK, Notify
    <2>2. apc' \in {"lock", apc}
      BY <1>0, <1>7 DEF TypeOK, Notify
    <2>3. \E f \in [Clients -> BOOLEAN] :
            hpc' = [c \in Clients |-> IF f[c] THEN "woken" ELSE hpc[c]]
      <3> DEFINE f == [c \in Clients |->
                         /\ Min(ready) >= FirstFd /\ fd[c] = Min(ready) /\ hpc[c] = "waiting"]
      <3>1. f \in [Clients -> BOOLEAN]
        OBVIOUS
      <3>2. hpc' = [c \in Clients |-> IF f[c] THEN "woken" ELSE hpc[c]]
        BY <1>0, <1>7 DEF TypeOK, Notify
      <3> HIDE DEF f
      <3> QED BY <3>1, <3>2
    <2> QED BY <1>0, <1>7, <2>1, <2>2, <2>3 DEF TypeOK, Notify, clientVars
  <1>8. CASE AcceptorLock
    BY <1>0, <1>8 DEF TypeOK, AcceptorLock, clientVars, threadVars
  <1>9. CASE Accept
    <2>1. Head(backlog) \in Clients /\ Tail(backlog) \in Seq(Clients)
      BY <1>0, <1>9 DEF TypeOK, Accept
    <2>2. PICK d \in Fds :
            \/ /\ conn' = [conn EXCEPT ![Head(backlog)] = "refused"]
               /\ inbox' = [inbox EXCEPT ![Head(backlog)] = <<>>]
               /\ apc' = "wait"
               /\ UNCHANGED <<fd, rfds, sock>>
            \/ /\ conn' = [conn EXCEPT ![Head(backlog)] = "accepted"]
               /\ fd' = [fd EXCEPT ![Head(backlog)] = d]
               /\ rfds' = rfds \cup {d}
               /\ sock' = Head(backlog)
               /\ apc' = "spawn"
               /\ UNCHANGED inbox
      BY <1>9 DEF Accept
    <2>3. <<>> \in Seq(Headers \cup {Body})
      OBVIOUS
    <2>4. inbox' \in [Clients -> Seq(Headers \cup {Body})]
      BY <1>0, <2>1, <2>2, <2>3 DEF TypeOK
    <2>5. fd' \in [Clients -> Fds \cup {0}] /\ rfds' \subseteq Fds \cup {ListenFd}
      <3>1. fd \in [Clients -> Fds \cup {0}] /\ rfds \subseteq Fds \cup {ListenFd}
        BY <1>0 DEF TypeOK
      <3>2. \/ fd' = [fd EXCEPT ![Head(backlog)] = d] /\ rfds' = rfds \cup {d}
            \/ fd' = fd /\ rfds' = rfds
        BY <2>2
      <3> QED BY <2>1, <3>1, <3>2
    <2>6. /\ conn' \in [Clients -> {"new", "pending", "accepted", "refused", "closed"}]
          /\ apc' \in {"wait", "lock", "accept", "spawn"}
          /\ sock' \in Clients \cup {None}
      BY <1>0, <2>1, <2>2 DEF TypeOK
    <2> QED BY <1>0, <1>9, <2>1, <2>4, <2>5, <2>6 DEF Accept, TypeOK, clientVars, threadVars
  <1>10. CASE Spawn
    BY <1>0, <1>10 DEF TypeOK, Spawn, clientVars
  <1>11. ASSUME NEW c \in Clients, Wait(c) PROVE TypeOK'
    BY <1>0, <1>11 DEF TypeOK, Wait, clientVars, acceptorVars
  <1>12. ASSUME NEW c \in Clients, TimeOut(c) PROVE TypeOK'
    BY <1>0, <1>12 DEF TypeOK, TimeOut, AfterTimeout, clientVars, acceptorVars
  <1>13. ASSUME NEW c \in Clients, Read(c) PROVE TypeOK'
    <2>1. CASE inbox[c] # <<>>
      <3>1. PICK n \in 1..Min({ReadLimit(c), Len(inbox[c])}) :
              /\ inbox' = [inbox EXCEPT ![c] = SubSeq(@, n + 1, Len(@))]
              /\ need' = [need EXCEPT ![c] = @ - n]
        BY <1>0, <1>13, <2>1 DEF TypeOK, Read
      <3>2. n <= need[c] /\ 1 <= n /\ n \in Nat /\ need[c] - n \in Nat /\ need[c] >= 1
            /\ SubSeq(inbox[c], n + 1, Len(inbox[c])) \in Stream
        <4>1. need[c] \in Nat
          BY <1>0 DEF TypeOK
        <4>2. /\ n \in Nat /\ 1 <= n /\ n <= need[c] /\ need[c] - n \in Nat
              /\ SubSeq(inbox[c], n + 1, Len(inbox[c])) \in Stream
          BY <1>0, ReadLeaves
        <4> QED BY <4>1, <4>2
      <3>3. hpc' = [hpc EXCEPT ![c] = "loop"]
        BY <1>13, <2>1 DEF Read
      <3>4. header' = header \/ \E u \in Headers : header' = [header EXCEPT ![c] = u]
        <4>1. Head(inbox[c]) \in Headers \cup {Body}
          BY <1>0, <2>1 DEF TypeOK
        <4>2. IF Head(inbox[c]) = Body THEN Headers = Headers ELSE Head(inbox[c]) \in Headers
          BY <4>1
        <4> QED BY <1>13, <2>1, <4>2 DEF Read
      <3>5. need' \in [Clients -> Nat]
        BY <1>0, <3>1, <3>2 DEF TypeOK
      <3>6. inbox' \in [Clients -> Seq(Headers \cup {Body})]
        BY <1>0, <3>1, <3>2 DEF Stream, TypeOK
      <3>7. header' \in [Clients -> Headers]
        BY <1>0, <3>4 DEF TypeOK
      <3> QED BY <1>0, <1>13, <3>3, <3>5, <3>6, <3>7 DEF TypeOK, Read, clientVars, acceptorVars
    <2>2. CASE inbox[c] = <<>>
      BY <1>0, <1>13, <2>2 DEF TypeOK, Read, clientVars, acceptorVars
    <2> QED BY <2>1, <2>2
  <1>14. ASSUME NEW c \in Clients, GetContentLength(c) PROVE TypeOK'
    <2>1. header[c] # Malformed => header[c] \in Nat
      BY <1>0, DispatcherAssumption DEF Headers, TypeOK
    <2>2. answered[c] + 1 \in Nat
      BY <1>0 DEF TypeOK
    <2>3. answered' \in [Clients -> Nat] /\ need' \in [Clients -> Nat]
      <3>1. answered \in [Clients -> Nat] /\ need \in [Clients -> Nat]
        BY <1>0 DEF TypeOK
      <3>2. \/ answered' = [answered EXCEPT ![c] = @ + 1] /\ need' = need
            \/ /\ answered' = answered
               /\ header[c] # Malformed
               /\ \E n \in {header[c], 0} : need' = [need EXCEPT ![c] = n]
        BY <1>14 DEF GetContentLength, ContentLen
      <3> QED BY <2>1, <2>2, <3>1, <3>2
    <2>4. /\ phase' \in [Clients -> {"header", "payload"}]
          /\ hpc' \in [Clients -> {"none", "loop", "waiting", "woken", "file", "close",
                                   "done"}]
      BY <1>0, <1>14 DEF GetContentLength, ContentLen, AfterFormattingError, TypeOK
    <2> QED BY <1>0, <1>14, <2>3, <2>4 DEF GetContentLength, ContentLen, TypeOK, clientVars, acceptorVars
  <1>15. ASSUME NEW c \in Clients, UseFile(c) PROVE TypeOK'
    BY <1>0, <1>15 DEF TypeOK, UseFile, clientVars, acceptorVars
  <1>16. ASSUME NEW c \in Clients, ProcessRequest(c) PROVE TypeOK'
    <2>1. answered[c] + 1 \in Nat /\ HeaderLen \in Nat
      BY <1>0, DispatcherAssumption DEF TypeOK
    <2>2. answered' \in [Clients -> Nat] /\ need' \in [Clients -> Nat]
      BY <1>0, <1>16, <2>1 DEF ProcessRequest, TypeOK
    <2>3. /\ phase' \in [Clients -> {"header", "payload"}]
          /\ hpc' \in [Clients -> {"none", "loop", "waiting", "woken", "file", "close",
                                   "done"}]
      BY <1>0, <1>16 DEF ProcessRequest, TypeOK
    <2> QED BY <1>0, <1>16, <2>2, <2>3 DEF ProcessRequest, TypeOK, clientVars, acceptorVars
  <1>17. ASSUME NEW c \in Clients, Close(c) PROVE TypeOK'
    <2>1. <<>> \in Seq(Headers \cup {Body}) /\ 0 \in Fds \cup {0}
      OBVIOUS
    <2>2. inbox' \in [Clients -> Seq(Headers \cup {Body})]
      BY <1>0, <1>17, <2>1 DEF Close, TypeOK
    <2>3. fd' \in [Clients -> Fds \cup {0}] /\ rfds' \subseteq Fds \cup {ListenFd}
      BY <1>0, <1>17, <2>1 DEF Close, Cleared, TypeOK
    <2>4. /\ conn' \in [Clients -> {"new", "pending", "accepted", "refused", "closed"}]
          /\ hpc' \in [Clients -> {"none", "loop", "waiting", "woken", "file", "close",
                                   "done"}]
      BY <1>0, <1>17 DEF Close, TypeOK
    <2> QED BY <1>0, <1>17, <2>2, <2>3, <2>4 DEF Close, TypeOK, clientVars, acceptorVars
  <1>18. CASE WakeSpuriously
    BY <1>0, <1>18 DEF TypeOK, WakeSpuriously, clientVars
  <1>19. CASE UNCHANGED vars
    BY <1>0, <1>19 DEF TypeOK, vars, clientVars, threadVars, acceptorVars
  <1> QED BY <1>0, <1>1, <1>2, <1>3, <1>4, <1>5, <1>6, <1>7, <1>8, <1>9, <1>10, <1>11, <1>12,
             <1>13, <1>14, <1>15, <1>16, <1>17, <1>18, <1>19
          DEF Next, Client, Handler, Notifier, Acceptor

-----------------------------------------------------------------------------
(* Connections and descriptors.                                            *)

\* The handler of c is between two requests, or reads or processes one.
Reading(c) == hpc[c] \in {"loop", "waiting", "woken", "file"}

\* A step that opens and closes nothing and starts no thread.
Moves ==
  /\ UNCHANGED <<conn, fd, rfds, backlog, sock>>
  /\ apc = "spawn" <=> apc' = "spawn"
  /\ \A e \in Clients : hpc'[e] = hpc[e] \/ (Reading(e) /\ Live(e)')

\* A handler goes from place to place, and ends only in Close.
LEMMA HandlerMoves ==
  ASSUME TypeOK, NEW c \in Clients,
         Wait(c) \/ TimeOut(c) \/ Read(c) \/ GetContentLength(c) \/ UseFile(c)
           \/ ProcessRequest(c)
  PROVE  Moves
  <1>1. hpc \in [Clients -> {"none", "loop", "waiting", "woken", "file", "close", "done"}]
    BY DEF TypeOK
  <1>2. /\ Reading(c) /\ UNCHANGED <<conn, fd, rfds, backlog, acceptorVars>>
        /\ \/ hpc' = hpc
           \/ \E p \in {"loop", "waiting", "woken", "file", "close"} :
                hpc' = [hpc EXCEPT ![c] = p]
    <2>1. CASE Wait(c)
      BY <2>1 DEF Wait, Reading
    <2>2. CASE TimeOut(c)
      BY <2>2 DEF TimeOut, AfterTimeout, Reading
    <2>3. CASE Read(c)
      BY <2>3 DEF Read, Reading
    <2>4. CASE GetContentLength(c)
      BY <2>4 DEF GetContentLength, ContentLen, AfterFormattingError, Reading
    <2>5. CASE UseFile(c)
      BY <2>5 DEF UseFile, Reading
    <2>6. CASE ProcessRequest(c)
      BY <2>6 DEF ProcessRequest, Reading
    <2> QED BY <2>1, <2>2, <2>3, <2>4, <2>5, <2>6
  <1> QED BY <1>1, <1>2 DEF Moves, Live, acceptorVars

\* A notification wakes a thread that waits.
LEMMA NotifyMoves ==
  ASSUME TypeOK, Notify
  PROVE  /\ Moves
         /\ \A e \in Clients : hpc'[e] = hpc[e] \/ (hpc[e] = "waiting" /\ hpc'[e] = "woken")
  <1>1. ASSUME NEW e \in Clients
        PROVE  hpc'[e] = hpc[e] \/ (hpc[e] = "waiting" /\ hpc'[e] = "woken")
    BY DEF Notify
  <1>2. apc = "spawn" <=> apc' = "spawn"
    BY DEF Notify
  <1> QED BY <1>1, <1>2 DEF Notify, Moves, Reading, Live

\* So does a wait that ends by itself.
LEMMA WakeMoves ==
  ASSUME TypeOK, WakeSpuriously
  PROVE  /\ Moves
         /\ \A e \in Clients : hpc'[e] = hpc[e] \/ (hpc[e] = "waiting" /\ hpc'[e] = "woken")
  <1>1. hpc \in [Clients -> {"none", "loop", "waiting", "woken", "file", "close", "done"}]
    BY DEF TypeOK
  <1>2. ASSUME NEW e \in Clients
        PROVE  hpc'[e] = hpc[e] \/ (hpc[e] = "waiting" /\ hpc'[e] = "woken")
    BY <1>1 DEF WakeSpuriously
  <1>3. apc = "spawn" <=> apc' = "spawn"
    BY DEF WakeSpuriously
  <1> QED BY <1>2, <1>3 DEF WakeSpuriously, Moves, Reading, Live

\* Connections and threads begin in Connect, Accept and Spawn and end in Close.
LEMMA StepKinds ==
  ASSUME TypeOK, [Next]_vars
  PROVE  Moves \/ (\E c \in Clients : Connect(c) \/ Close(c)) \/ Accept \/ Spawn
  <1>1. ASSUME NEW c \in Clients, Client(c) PROVE Moves \/ Connect(c)
    BY <1>1 DEF Client, BeginRequest, SendBody, HangUp, Moves, threadVars, acceptorVars
  <1>2. ASSUME NEW c \in Clients, Handler(c) PROVE Moves \/ Close(c)
    BY <1>2, HandlerMoves DEF Handler
  <1>3. CASE SelectBegin
    BY <1>3 DEF SelectBegin, Moves, threadVars
  <1>4. CASE SelectEnd
    BY <1>4 DEF SelectEnd, Moves, threadVars
  <1>5. CASE Notify
    BY <1>5, NotifyMoves
  <1>6. CASE AcceptorLock
    BY <1>6 DEF AcceptorLock, Moves, threadVars
  <1>7. CASE WakeSpuriously
    BY <1>7, WakeMoves
  <1>8. CASE UNCHANGED vars
    BY <1>8 DEF vars, Moves, threadVars, acceptorVars
  <1> QED BY <1>1, <1>2, <1>3, <1>4, <1>5, <1>6, <1>7, <1>8 DEF Next, Notifier, Acceptor

\* The connection that accept() returns.
LEMMA FirstInBacklog ==
  ASSUME DispatcherInv, Accept
  PROVE  /\ Head(backlog) \in Clients /\ conn[Head(backlog)] = "pending"
         /\ fd[Head(backlog)] = 0 /\ hpc[Head(backlog)] = "none"
         /\ Len(backlog) \in Nat /\ Len(backlog) >= 1 /\ backlog[1] = Head(backlog)
         /\ Len(Tail(backlog)) = Len(backlog) - 1
         /\ \A j \in 1..(Len(backlog) - 1) : Tail(backlog)[j] = backlog[j + 1]
  <1>1. backlog \in Seq(Clients) /\ backlog # <<>>
    BY DEF DispatcherInv, TypeOK, Accept
  <1>2. /\ Head(backlog) \in Clients /\ Len(backlog) \in Nat /\ Len(backlog) >= 1
        /\ backlog[1] = Head(backlog)
        /\ Len(Tail(backlog)) = Len(backlog) - 1
        /\ \A j \in 1..(Len(backlog) - 1) : Tail(backlog)[j] = backlog[j + 1]
    BY <1>1
  <1>3. conn[Head(backlog)] = "pending"
    <2>1. 1 \in 1..Len(backlog)
      BY <1>2
    <2> QED BY <1>2, <2>1 DEF DispatcherInv, ConnectionsOK
  <1> QED BY <1>2, <1>3 DEF DispatcherInv, ConnectionsOK, ConnectionOK

\* Connection, descriptor and handler go on belonging together, and the
\* backlog has every pending connection once.
LEMMA ConnectionsStep ==
  ASSUME DispatcherInv, TypeOK', [Next]_vars
  PROVE  ConnectionsOK'
  <1>0. TypeOK /\ ConnectionsOK /\ DescriptorsTracked
    BY DEF DispatcherInv
  <1>t. /\ conn \in [Clients -> {"new", "pending", "accepted", "refused", "closed"}]
        /\ fd \in [Clients -> Fds \cup {0}]
        /\ hpc \in [Clients -> {"none", "loop", "waiting", "woken", "file", "close",
                                "done"}]
    BY <1>0 DEF TypeOK
  <1>b. \A j \in 1..Len(backlog) : backlog[j] \in Clients /\ conn[backlog[j]] = "pending"
    <2>1. backlog \in Seq(Clients)
      BY <1>0 DEF TypeOK
    <2>2. \A j \in 1..Len(backlog) : backlog[j] \in Clients
      BY <2>1
    <2> QED BY <1>0, <2>2 DEF ConnectionsOK
  <1>1. CASE Moves
    <2>1. ASSUME NEW e \in Clients PROVE ConnectionOK(e)'
      <3>1. Reading(e) => conn[e] = "accepted"
        BY <1>0 DEF DescriptorsTracked, Reading, Live
      <3> QED BY <1>0, <1>1, <3>1 DEF Moves, ConnectionsOK, ConnectionOK, Live
    <2>2. apc' = "spawn" => sock' \in Clients /\ hpc'[sock'] = "none"
      BY <1>0, <1>1 DEF Moves, ConnectionsOK, Reading
    <2> QED BY <1>0, <1>1, <2>1, <2>2 DEF Moves, ConnectionsOK
  <1>2. ASSUME NEW c \in Clients, Connect(c) PROVE ConnectionsOK'
    <2>0. /\ conn[c] = "new" /\ conn' = [conn EXCEPT ![c] = "pending"]
          /\ UNCHANGED <<fd, hpc, apc, sock>>
      BY <1>2 DEF Connect, threadVars, acceptorVars
    <2>1. ASSUME NEW e \in Clients PROVE ConnectionOK(e)'
      BY <1>0, <1>t, <2>0 DEF ConnectionsOK, ConnectionOK
    <2>2. /\ backlog \in Seq(Clients) /\ Len(backlog) \in Nat
          /\ Len(backlog') = Len(backlog) + 1
          /\ \A j \in 1..Len(backlog) : backlog'[j] = backlog[j]
          /\ backlog'[Len(backlog) + 1] = c
      BY <1>0, <1>2, AppendPlaces DEF Connect, TypeOK
    <2>3. \A j \in 1..Len(backlog') : j \in 1..Len(backlog) \/ j = Len(backlog) + 1
      BY <2>2
    <2>4. ASSUME NEW j \in 1..Len(backlog') PROVE conn'[backlog'[j]] = "pending"
      BY <1>t, <1>b, <2>0, <2>2, <2>3
    <2>5. \A j \in 1..Len(backlog) : backlog[j] # c
      BY <1>0, <2>0 DEF ConnectionsOK
    <2>6. ASSUME NEW i \in 1..Len(backlog'), NEW j \in 1..Len(backlog'),
                 backlog'[i] = backlog'[j]
          PROVE  i = j
      <3>1. i \in 1..Len(backlog) <=> j \in 1..Len(backlog)
        BY <2>2, <2>3, <2>5, <2>6
      <3>2. CASE i \in 1..Len(backlog) /\ j \in 1..Len(backlog)
        BY <1>0, <2>2, <2>6, <3>2 DEF ConnectionsOK
      <3> QED BY <2>3, <3>1, <3>2
    <2> QED BY <1>0, <2>0, <2>1, <2>4, <2>6 DEF ConnectionsOK
  <1>3. CASE Accept
    <2> DEFINE c == Head(backlog)
    <2>0. /\ c \in Clients /\ conn[c] = "pending" /\ hpc[c] = "none"
          /\ Len(backlog) \in Nat /\ Len(backlog) >= 1 /\ backlog[1] = c
          /\ Len(backlog') = Len(backlog) - 1
          /\ \A j \in 1..(Len(backlog) - 1) : backlog'[j] = backlog[j + 1]
          /\ fd[c] = 0 /\ hpc' = hpc
      BY <1>3, FirstInBacklog DEF Accept, threadVars
    <2>1. PICK d \in Fds :
            \/ /\ conn' = [conn EXCEPT ![c] = "refused"]
               /\ apc' = "wait"
               /\ UNCHANGED <<fd, sock>>
            \/ /\ conn' = [conn EXCEPT ![c] = "accepted"]
               /\ fd' = [fd EXCEPT ![c] = d]
               /\ sock' = c /\ apc' = "spawn"
      BY <1>3 DEF Accept
    <2> HIDE DEF c
    <2>2. ASSUME NEW e \in Clients PROVE ConnectionOK(e)'
      <3>1. ConnectionOK(e)
        BY <1>0 DEF ConnectionsOK
      <3>2. CASE e = c
        <4>1. \/ conn'[c] = "refused" /\ fd'[c] = 0
              \/ conn'[c] = "accepted" /\ fd'[c] \in Fds
          BY <1>t, <2>0, <2>1
        <4> QED BY <2>0, <3>2, <4>1 DEF ConnectionOK
      <3>3. CASE e # c
        <4>1. conn'[e] = conn[e] /\ fd'[e] = fd[e]
          BY <1>t, <2>0, <2>1, <3>3
        <4> QED BY <2>0, <3>1, <4>1 DEF ConnectionOK
      <3> QED BY <3>2, <3>3
    <2>3. \A j \in 1..Len(backlog') : j + 1 \in 1..Len(backlog) /\ j + 1 # 1
      BY <2>0
    <2>4. ASSUME NEW j \in 1..Len(backlog') PROVE conn'[backlog'[j]] = "pending"
      <3>1. backlog'[j] = backlog[j + 1] /\ j + 1 \in 1..Len(backlog) /\ j + 1 # 1
            /\ 1 \in 1..Len(backlog)
        BY <2>0, <2>3
      <3>2. backlog[j + 1] # c
        BY <1>0, <2>0, <3>1 DEF ConnectionsOK
      <3>3. backlog[j + 1] \in Clients /\ conn[backlog[j + 1]] = "pending"
        BY <1>b, <3>1
      <3> QED BY <1>t, <2>1, <3>1, <3>2, <3>3
    <2>5. ASSUME NEW i \in 1..Len(backlog'), NEW j \in 1..Len(backlog'),
                 backlog'[i] = backlog'[j]
          PROVE  i = j
      <3>1. /\ backlog'[i] = backlog[i + 1] /\ i + 1 \in 1..Len(backlog)
            /\ backlog'[j] = backlog[j + 1] /\ j + 1 \in 1..Len(backlog)
        BY <2>0, <2>3
      <3>2. i + 1 = j + 1
        BY <1>0, <2>5, <3>1 DEF ConnectionsOK
      <3> QED BY <2>0, <3>2
    <2> QED BY <1>0, <2>0, <2>1, <2>2, <2>4, <2>5 DEF ConnectionsOK
  <1>4. CASE Spawn
    <2>1. /\ apc = "spawn" /\ apc' = "wait" /\ hpc' = [hpc EXCEPT ![sock] = "loop"]
          /\ UNCHANGED <<conn, fd, backlog>>
      BY <1>4 DEF Spawn
    <2>2. sock \in Clients /\ conn[sock] = "accepted"
      BY <1>0, <2>1 DEF ConnectionsOK, DescriptorsTracked
    <2>3. ASSUME NEW e \in Clients PROVE ConnectionOK(e)'
      BY <1>0, <1>t, <2>1, <2>2 DEF ConnectionsOK, ConnectionOK
    <2> QED BY <1>0, <2>1, <2>3 DEF ConnectionsOK
  <1>5. ASSUME NEW c \in Clients, Close(c) PROVE ConnectionsOK'
    <2>1. /\ hpc[c] = "close" /\ hpc' = [hpc EXCEPT ![c] = "done"]
          /\ conn' = [conn EXCEPT ![c] = "closed"] /\ fd' = [fd EXCEPT ![c] = 0]
          /\ UNCHANGED <<backlog, apc, sock>>
      BY <1>5 DEF Close, acceptorVars
    <2>2. conn[c] = "accepted"
      BY <1>0, <2>1 DEF DescriptorsTracked, Live
    <2>3. ASSUME NEW e \in Clients PROVE ConnectionOK(e)'
      BY <1>0, <1>t, <2>1, <2>2 DEF ConnectionsOK, ConnectionOK
    <2>4. ASSUME NEW j \in 1..Len(backlog) PROVE conn'[backlog[j]] = "pending"
      BY <1>t, <1>b, <2>1, <2>2
    <2>5. apc = "spawn" => sock \in Clients /\ hpc'[sock] = "none"
      BY <1>0, <2>1 DEF ConnectionsOK, TypeOK
    <2> QED BY <1>0, <2>1, <2>3, <2>4, <2>5 DEF ConnectionsOK
  <1> QED BY <1>0, <1>1, <1>2, <1>3, <1>4, <1>5, StepKinds

\* The open connections.
Open == {x \in Clients : conn[x] = "accepted"}

\* m_rfds goes on having exactly the open descriptors, and each of them one
\* thread that will close it.
LEMMA DescriptorsStep ==
  ASSUME DispatcherInv, TypeOK', [Next]_vars
  PROVE  DescriptorsTracked'
  <1>0. TypeOK /\ ConnectionsOK /\ DescriptorsTracked
    BY DEF DispatcherInv
  <1>1. /\ conn \in [Clients -> {"new", "pending", "accepted", "refused", "closed"}]
        /\ fd \in [Clients -> Fds \cup {0}]
        /\ hpc \in [Clients -> {"none", "loop", "waiting", "woken", "file", "close",
                                "done"}]
    BY <1>0 DEF TypeOK
  <1>2. /\ rfds = {ListenFd} \cup {fd[x] : x \in Open}
        /\ \A d \in rfds : d <= MaxSockfd
        /\ \A e \in Clients : conn[e] = "accepted" <=> (Live(e) \/ (apc = "spawn" /\ sock = e))
        /\ \A a, e \in Clients : fd[a] = fd[e] /\ fd[a] # 0 => a = e
    BY <1>0 DEF DescriptorsTracked, Open
  <1> DEFINE Goal ==
               /\ rfds' = {ListenFd} \cup {fd'[x] : x \in Open'}
               /\ \A d \in rfds' : d <= MaxSockfd
               /\ \A e \in Clients :
                    conn'[e] = "accepted" <=> (Live(e)' \/ (apc' = "spawn" /\ sock' = e))
               /\ \A a, e \in Clients : fd'[a] = fd'[e] /\ fd'[a] # 0 => a = e
  <1>3. SUFFICES Goal
    BY DEF DescriptorsTracked, Open
  <1>4. CASE Moves
    <2>1. ASSUME NEW e \in Clients PROVE Live(e) <=> Live(e)'
      BY <1>4 DEF Moves, Live, Reading
    <2> QED BY <1>2, <1>4, <2>1 DEF Moves, Open
  <1>5. ASSUME NEW c \in Clients, Connect(c) PROVE Goal
    <2>1. /\ conn[c] = "new" /\ conn' = [conn EXCEPT ![c] = "pending"]
          /\ UNCHANGED <<fd, rfds, hpc, apc, sock>>
      BY <1>5 DEF Connect, threadVars, acceptorVars
    <2>2. Open' = Open /\ \A e \in Clients : Live(e)' <=> Live(e)
      BY <1>1, <2>1 DEF Open, Live
    <2>3. \A e \in Clients : conn'[e] = "accepted" <=> conn[e] = "accepted"
      BY <1>1, <2>1
    <2> QED BY <1>2, <2>1, <2>2, <2>3
  <1>6. CASE Accept
    <2> DEFINE c == Head(backlog)
    <2>0. /\ c \in Clients /\ conn[c] = "pending" /\ hpc' = hpc /\ fd[c] = 0
          /\ apc = "accept"
      BY <1>6, FirstInBacklog DEF Accept, threadVars
    <2>1. PICK d \in Fds :
            /\ \A b \in Clients : fd[b] # d
            /\ \/ /\ conn' = [conn EXCEPT ![c] = "refused"]
                  /\ apc' = "wait"
                  /\ UNCHANGED <<fd, rfds, sock>>
               \/ /\ d <= MaxSockfd
                  /\ conn' = [conn EXCEPT ![c] = "accepted"]
                  /\ fd' = [fd EXCEPT ![c] = d]
                  /\ rfds' = rfds \cup {d}
                  /\ sock' = c /\ apc' = "spawn"
      BY <1>6 DEF Accept
    <2> HIDE DEF c
    <2>2. \A e \in Clients : (Live(e)' <=> Live(e)) /\ (conn[e] = "accepted" <=> Live(e))
      BY <1>2, <2>0 DEF Live
    <2>3. CASE conn' = [conn EXCEPT ![c] = "refused"] /\ apc' = "wait"
               /\ UNCHANGED <<fd, rfds, sock>>
      <3>1. Open' = Open
        BY <1>1, <2>0, <2>3 DEF Open
      <3>2. \A e \in Clients : conn'[e] = "accepted" <=> conn[e] = "accepted"
        BY <1>1, <2>0, <2>3
      <3>3. apc' # "spawn"
        BY <2>3
      <3> QED BY <1>2, <2>2, <2>3, <3>1, <3>2, <3>3
    <2>4. CASE /\ d <= MaxSockfd
               /\ conn' = [conn EXCEPT ![c] = "accepted"]
               /\ fd' = [fd EXCEPT ![c] = d]
               /\ rfds' = rfds \cup {d}
               /\ sock' = c /\ apc' = "spawn"
      <3>1. /\ conn'[c] = "accepted" /\ fd'[c] = d
            /\ \A e \in Clients : e # c => conn'[e] = conn[e] /\ fd'[e] = fd[e]
        BY <1>1, <2>0, <2>4
      <3>2. Open' = Open \cup {c} /\ c \notin Open
        BY <2>0, <3>1 DEF Open
      <3>3. {fd'[x] : x \in Open'} = {fd[x] : x \in Open} \cup {d}
        <4>1. \A x \in Open : x \in Clients /\ x # c
          BY <3>2 DEF Open
        <4> QED BY <3>1, <3>2, <4>1
      <3>4. rfds' = {ListenFd} \cup {fd'[x] : x \in Open'}
        BY <1>2, <2>4, <3>3
      <3>5. \A x \in rfds' : x <= MaxSockfd
        BY <1>2, <2>4
      <3>6. ASSUME NEW e \in Clients
            PROVE  conn'[e] = "accepted" <=> (Live(e)' \/ (apc' = "spawn" /\ sock' = e))
        BY <2>0, <2>2, <2>4, <3>1
      <3>7. ASSUME NEW a \in Clients, NEW e \in Clients, fd'[a] = fd'[e], fd'[a] # 0
            PROVE  a = e
        BY <1>2, <2>1, <3>1, <3>7
      <3> QED BY <3>4, <3>5, <3>6, <3>7
    <2> QED BY <2>1, <2>3, <2>4
  <1>7. CASE Spawn
    <2>1. /\ apc = "spawn" /\ apc' = "wait" /\ hpc' = [hpc EXCEPT ![sock] = "loop"]
          /\ UNCHANGED <<conn, fd, rfds, sock>>
      BY <1>7 DEF Spawn
    <2>2. sock \in Clients
      BY <1>0, <2>1 DEF ConnectionsOK
    <2>3. Open' = Open /\ \A e \in Clients : Live(e)' <=> (Live(e) \/ e = sock)
      BY <1>1, <2>1, <2>2 DEF Open, Live
    <2>4. apc' # "spawn"
      BY <2>1
    <2> QED BY <1>2, <2>1, <2>3, <2>4
  <1>8. ASSUME NEW c \in Clients, Close(c) PROVE Goal
    <2>1. /\ hpc[c] = "close" /\ hpc' = [hpc EXCEPT ![c] = "done"]
          /\ conn' = [conn EXCEPT ![c] = "closed"] /\ fd' = [fd EXCEPT ![c] = 0]
          /\ rfds' = rfds \ {fd[c]} /\ UNCHANGED <<apc, sock>>
      BY <1>8 DEF Close, Cleared, acceptorVars
    <2>2. conn[c] = "accepted" /\ fd[c] \in Fds
      BY <1>0, <2>1 DEF DescriptorsTracked, ConnectionsOK, ConnectionOK, Live
    <2>3. ListenFd # fd[c] /\ fd[c] # 0
      BY <2>2, DispatcherAssumption
    <2>4. ~(apc = "spawn" /\ sock = c)
      BY <1>0, <2>1 DEF ConnectionsOK
    <2>5. /\ conn'[c] = "closed" /\ fd'[c] = 0 /\ ~Live(c)'
          /\ \A e \in Clients : e # c => /\ conn'[e] = conn[e] /\ fd'[e] = fd[e]
                                         /\ Live(e)' <=> Live(e)
      BY <1>1, <2>1 DEF Live
    <2>6. Open' = Open \ {c} /\ c \in Open
      BY <2>2, <2>5 DEF Open
    <2>7. {fd'[x] : x \in Open'} = {fd[x] : x \in Open} \ {fd[c]}
      <3>1. \A x \in Open : x \in Clients
        BY DEF Open
      <3>2. \A x \in Open : fd[x] = fd[c] => x = c
        BY <1>2, <2>3, <3>1
      <3>3. \A x \in Open' : x \in Open /\ x # c /\ fd'[x] = fd[x]
        BY <2>5, <2>6, <3>1
      <3> QED BY <2>6, <3>2, <3>3
    <2>8. rfds' = {ListenFd} \cup {fd'[x] : x \in Open'}
      BY <1>2, <2>1, <2>3, <2>7
    <2>9. ASSUME NEW e \in Clients
          PROVE  conn'[e] = "accepted" <=> (Live(e)' \/ (apc' = "spawn" /\ sock' = e))
      BY <1>2, <2>1, <2>4, <2>5
    <2>10. ASSUME NEW a \in Clients, NEW e \in Clients, fd'[a] = fd'[e], fd'[a] # 0
           PROVE  a = e
      BY <1>2, <2>5, <2>10
    <2> QED BY <1>2, <2>1, <2>8, <2>9, <2>10
  <1> QED BY <1>0, <1>4, <1>5, <1>6, <1>7, <1>8, StepKinds

-----------------------------------------------------------------------------
(* Handlers.                                                               *)

\* A handler reads at most one header before it looks at it, and opens files
\* only for a request that is there.
LEMMA HandlersStep ==
  ASSUME DispatcherInv, TypeOK', [Next]_vars
  PROVE  HandlersOK'
  <1>0. TypeOK /\ HandlersOK /\ ConnectionsOK
    BY DEF DispatcherInv
  <1>1. /\ hpc \in [Clients -> {"none", "loop", "waiting", "woken", "file", "close",
                                "done"}]
        /\ phase \in [Clients -> {"header", "payload"}]
        /\ need \in [Clients -> Nat]
    BY <1>0 DEF TypeOK
  <1>2. SUFFICES ASSUME NEW e \in Clients PROVE HandlerOK(e)'
    BY DEF HandlersOK
  <1>3. HandlerOK(e)
    BY <1>0 DEF HandlersOK
  <1>4. ASSUME phase' = phase, need' = need, hpc'[e] \notin {"none", "file"} \/ hpc'[e] = hpc[e]
        PROVE  HandlerOK(e)'
    BY <1>3, <1>4 DEF HandlerOK
  <1>5. ASSUME NEW c \in Clients, Client(c) PROVE HandlerOK(e)'
    <2>1. UNCHANGED threadVars
      BY <1>5 DEF Client, Connect, BeginRequest, SendBody, HangUp
    <2> QED BY <1>4, <2>1 DEF threadVars
  <1>6. CASE Notifier
    <2>1. CASE Notify
      <3>1. phase' = phase /\ need' = need
        BY <2>1 DEF Notify
      <3> QED BY <1>0, <1>4, <2>1, <3>1, NotifyMoves
    <2>2. CASE SelectBegin \/ SelectEnd
      BY <1>4, <2>2 DEF SelectBegin, SelectEnd, threadVars
    <2> QED BY <1>6, <2>1, <2>2 DEF Notifier
  <1>7. CASE Acceptor
    <2>1. CASE Spawn
      <3>1. /\ phase' = phase /\ need' = need /\ hpc' = [hpc EXCEPT ![sock] = "loop"]
        BY <2>1 DEF Spawn
      <3>2. hpc'[e] = "loop" \/ hpc'[e] = hpc[e]
        BY <1>1, <3>1
      <3> QED BY <1>4, <3>1, <3>2
    <2>2. CASE AcceptorLock \/ Accept
      <3>1. UNCHANGED threadVars
        BY <2>2 DEF AcceptorLock, Accept
      <3> QED BY <1>4, <3>1 DEF threadVars
    <2> QED BY <1>7, <2>1, <2>2 DEF Acceptor
  <1>8. ASSUME NEW c \in Clients, Wait(c) \/ TimeOut(c) \/ Close(c) PROVE HandlerOK(e)'
    <2>1. /\ phase' = phase /\ need' = need
          /\ \E p \in {"waiting", "close", "done"} : hpc' = [hpc EXCEPT ![c] = p]
      BY <1>8 DEF Wait, TimeOut, AfterTimeout, Close
    <2>2. hpc'[e] \in {"waiting", "close", "done"} \/ hpc'[e] = hpc[e]
      BY <1>1, <2>1
    <2> QED BY <1>4, <2>1, <2>2
  <1>9. ASSUME NEW c \in Clients, Read(c) PROVE HandlerOK(e)'
    <2>1. CASE inbox[c] # <<>>
      <3>1. PICK n \in 1..Min({ReadLimit(c), Len(inbox[c])}) :
              need' = [need EXCEPT ![c] = @ - n]
        BY <1>9, <2>1 DEF Read
      <3>2. n \in Nat
        BY <1>0, ReadLeaves
      <3>3. phase' = phase /\ hpc' = [hpc EXCEPT ![c] = "loop"] /\ hpc[c] = "woken"
        BY <1>9, <2>1 DEF Read
      <3>4. need'[e] <= need[e] /\ need[e] \in Nat /\ need'[e] \in Int
            /\ (e # c => need'[e] = need[e])
        BY <1>1, <3>1, <3>2
      <3>5. hpc'[e] = IF e = c THEN "loop" ELSE hpc[e]
        BY <1>1, <3>3
      <3>6. phase[e] = "header" => need'[e] <= HeaderLen
        BY <1>3, <3>4, DispatcherAssumption DEF HandlerOK
      <3> QED BY <1>3, <3>3, <3>4, <3>5, <3>6 DEF HandlerOK
    <2>2. CASE inbox[c] = <<>>
      <3>1. /\ phase' = phase /\ need' = need /\ hpc' = [hpc EXCEPT ![c] = "close"]
        BY <1>9, <2>2 DEF Read
      <3>2. hpc'[e] = "close" \/ hpc'[e] = hpc[e]
        BY <1>1, <3>1
      <3> QED BY <1>4, <3>1, <3>2
    <2> QED BY <2>1, <2>2
  <1>10. ASSUME NEW c \in Clients, GetContentLength(c) PROVE HandlerOK(e)'
    <2>1. CASE header[c] = Malformed
      <3>1. /\ phase' = phase /\ need' = need /\ hpc' = [hpc EXCEPT ![c] = "close"]
        BY <1>10, <2>1 DEF GetContentLength, ContentLen, AfterFormattingError
      <3>2. hpc'[e] = "close" \/ hpc'[e] = hpc[e]
        BY <1>1, <3>1
      <3> QED BY <1>4, <3>1, <3>2
    <2>2. CASE header[c] # Malformed
      <3>1. /\ hpc' = hpc /\ hpc[c] = "loop" /\ phase' = [phase EXCEPT ![c] = "payload"]
            /\ \E n : need' = [need EXCEPT ![c] = n]
        BY <1>10, <2>2 DEF GetContentLength, ContentLen
      <3>2. CASE e = c
        <4>1. phase'[e] = "payload" /\ hpc'[e] = "loop"
          BY <1>1, <3>1, <3>2
        <4> QED BY <4>1 DEF HandlerOK
      <3>3. CASE e # c
        <4>1. phase'[e] = phase[e] /\ hpc'[e] = hpc[e] /\ need'[e] = need[e]
          BY <1>1, <3>1, <3>3
        <4> QED BY <1>3, <4>1 DEF HandlerOK
      <3> QED BY <3>2, <3>3
    <2> QED BY <2>1, <2>2
  <1>11. ASSUME NEW c \in Clients, UseFile(c) PROVE HandlerOK(e)'
    <2>1. /\ hpc[c] = "loop" /\ phase[c] = "payload" /\ need[c] = 0
          /\ phase' = phase /\ need' = need /\ hpc' = [hpc EXCEPT ![c] = "file"]
      BY <1>11 DEF UseFile
    <2>2. hpc'[e] = IF e = c THEN "file" ELSE hpc[e]
      BY <1>1, <2>1
    <2> QED BY <1>3, <2>1, <2>2 DEF HandlerOK
  <1>12. ASSUME NEW c \in Clients, ProcessRequest(c) PROVE HandlerOK(e)'
    <2>1. \/ /\ phase' = [phase EXCEPT ![c] = "header"]
             /\ need' = [need EXCEPT ![c] = HeaderLen]
             /\ hpc' = [hpc EXCEPT ![c] = "loop"]
          \/ phase' = phase /\ need' = need /\ hpc' = [hpc EXCEPT ![c] = "close"]
      BY <1>12 DEF ProcessRequest
    <2>2. CASE /\ phase' = [phase EXCEPT ![c] = "header"]
               /\ need' = [need EXCEPT ![c] = HeaderLen]
               /\ hpc' = [hpc EXCEPT ![c] = "loop"]
      <3>1. CASE e = c
        <4>1. phase'[e] = "header" /\ hpc'[e] = "loop" /\ need'[e] = HeaderLen
          BY <1>1, <2>2, <3>1
        <4> QED BY <4>1, DispatcherAssumption DEF HandlerOK
      <3>2. CASE e # c
        <4>1. phase'[e] = phase[e] /\ hpc'[e] = hpc[e] /\ need'[e] = need[e]
          BY <1>1, <2>2, <3>2
        <4> QED BY <1>3, <4>1 DEF HandlerOK
      <3> QED BY <3>1, <3>2
    <2>3. CASE phase' = phase /\ need' = need /\ hpc' = [hpc EXCEPT ![c] = "close"]
      <3>1. hpc'[e] = "close" \/ hpc'[e] = hpc[e]
        BY <1>1, <2>3
      <3> QED BY <1>4, <2>3, <3>1
    <2> QED BY <2>1, <2>2, <2>3
  <1>13. CASE WakeSpuriously
    <2>1. phase' = phase /\ need' = need
      BY <1>13 DEF WakeSpuriously
    <2> QED BY <1>0, <1>4, <1>13, <2>1, WakeMoves
  <1>14. CASE UNCHANGED vars
    BY <1>4, <1>14 DEF vars, threadVars
  <1> QED BY <1>5, <1>6, <1>7, <1>8, <1>9, <1>10, <1>11, <1>12, <1>13, <1>14
          DEF Next, Handler

-----------------------------------------------------------------------------
(* Streams and handlers in step.                                           *)

\* No connection comes back to life.
LEMMA StreamingBefore ==
  ASSUME DispatcherInv, [Next]_vars, NEW e \in Clients, Streaming(e)'
  PROVE  Streaming(e)
  <1>0. TypeOK /\ ConnectionsOK /\ DescriptorsTracked
    BY DEF DispatcherInv
  <1>1. /\ conn \in [Clients -> {"new", "pending", "accepted", "refused", "closed"}]
        /\ hpc \in [Clients -> {"none", "loop", "waiting", "woken", "file", "close",
                                "done"}]
    BY <1>0 DEF TypeOK
  <1>2. CASE Moves
    BY <1>2 DEF Moves, Streaming, Reading
  <1>3. ASSUME NEW c \in Clients, Connect(c) PROVE Streaming(e)
    BY <1>1, <1>3 DEF Connect, Streaming, threadVars
  <1>4. CASE Accept
    <2>1. Head(backlog) \in Clients /\ conn[Head(backlog)] = "pending" /\ hpc' = hpc
      BY <1>4, FirstInBacklog DEF Accept, threadVars
    <2>2. \/ conn' = [conn EXCEPT ![Head(backlog)] = "refused"]
          \/ conn' = [conn EXCEPT ![Head(backlog)] = "accepted"]
      BY <1>4 DEF Accept
    <2> QED BY <1>1, <2>1, <2>2 DEF Streaming
  <1>5. CASE Spawn
    <2>1. apc = "spawn" /\ hpc' = [hpc EXCEPT ![sock] = "loop"] /\ conn' = conn
      BY <1>5 DEF Spawn
    <2>2. hpc[sock] = "none"
      BY <1>0, <2>1 DEF ConnectionsOK
    <2> QED BY <1>1, <2>1, <2>2 DEF Streaming
  <1>6. ASSUME NEW c \in Clients, Close(c) PROVE Streaming(e)
    <2>1. /\ conn' = [conn EXCEPT ![c] = "closed"] /\ hpc' = [hpc EXCEPT ![c] = "done"]
      BY <1>6 DEF Close
    <2> QED BY <1>1, <2>1 DEF Streaming
  <1> QED BY <1>0, <1>2, <1>3, <1>4, <1>5, <1>6, StepKinds

\* Steps that neither send nor read on the connection of e.
LEMMA StreamKept ==
  ASSUME StreamInv, NEW e \in Clients, Streaming(e),
         inbox'[e] = inbox[e], owes'[e] = owes[e], sent'[e] = sent[e],
         answered'[e] = answered[e], phase'[e] = phase[e], need'[e] = need[e],
         header'[e] = header[e]
  PROVE  Framed(inbox[e], Expected(e), owes[e])' /\ Counted(e)'
  <1>1. Framed(inbox[e], Expected(e), owes[e]) /\ Counted(e)
    BY DEF StreamInv, StreamsOK
  <1>2. Expected(e)' = Expected(e) /\ Begun(e)' = Begun(e)
    BY DEF Expected, Begun
  <1> QED BY <1>1, <1>2 DEF Counted, Framed, Follow, HeaderPlaces

\* read(): the handler gets more of its request, or the beginning of the next.
LEMMA StreamRead ==
  ASSUME StreamInv, NEW c \in Clients, Read(c), inbox[c] # <<>>
  PROVE  Framed(inbox[c], Expected(c), owes[c])' /\ Counted(c)'
  <1>0. TypeOK /\ HandlerOK(c)
    BY DEF StreamInv, DispatcherInv, HandlersOK
  <1>1. PICK n \in 1..Min({ReadLimit(c), Len(inbox[c])}) :
          /\ inbox' = [inbox EXCEPT ![c] = SubSeq(@, n + 1, Len(@))]
          /\ need' = [need EXCEPT ![c] = @ - n]
    BY DEF Read
  <1>2. n \in Nat /\ 1 <= n /\ n <= need[c] /\ n <= Len(inbox[c])
    BY <1>0, ReadLeaves
  <1>3. /\ hpc[c] = "woken" /\ phase' = phase /\ owes' = owes /\ sent' = sent
        /\ answered' = answered
    BY DEF Read, clientVars
  <1>4. /\ inbox[c] \in Stream /\ need[c] \in Nat /\ sent[c] \in Nat /\ answered[c] \in Nat
        /\ inbox'[c] = SubSeq(inbox[c], n + 1, Len(inbox[c])) /\ need'[c] = need[c] - n
        /\ phase[c] \in {"header", "payload"} /\ Len(inbox[c]) \in Nat
        /\ HeaderLen \in Nat /\ HeaderLen >= 1
    BY <1>0, <1>1, <1>3, DispatcherAssumption DEF TypeOK, Stream
  <1>5. Framed(inbox[c], Expected(c), owes[c]) /\ Counted(c)
    BY <1>3, ReaderStreams
  <1>6. inbox'[c] \in Stream
    BY <1>0, <1>4, ReadLeaves
  <1>7. /\ Cardinality(HeaderPlaces(inbox[c])) \in Nat
        /\ Cardinality(HeaderPlaces(inbox'[c])) \in Nat
    BY <1>4, <1>6, PlacesFinite
  <1>8. CASE phase[c] = "payload" \/ need[c] < HeaderLen
    <2>1. header' = header
      BY <1>8, <1>4 DEF Read
    <2>2. PICK x \in Nat : x = Expected(c)
      BY <1>0, ExpectedType
    <2>3. Expected(c)' = x - n /\ n <= x
      <3>1. CASE phase[c] = "payload"
        BY <1>2, <1>3, <1>4, <2>2, <3>1 DEF Expected
      <3>2. CASE phase[c] # "payload"
        <4>1. need[c] < HeaderLen /\ need[c] - n < HeaderLen
          BY <1>2, <1>4, <1>8, <3>2
        <4>2. PICK p \in Nat : p = PayloadLen(header[c])
          BY <1>0, UnitTypes DEF TypeOK
        <4>3. x = need[c] + p
          BY <2>2, <3>2, <4>1, <4>2 DEF Expected
        <4>4. Expected(c)' = (need[c] - n) + p
          BY <1>3, <1>4, <2>1, <3>2, <4>1, <4>2 DEF Expected, PayloadLen
        <4>5. (need[c] - n) + p = (need[c] + p) - n /\ n <= need[c] + p
          BY <1>2, <1>4
        <4> QED BY <4>3, <4>4, <4>5
      <3> QED BY <3>1, <3>2
    <2>4. Framed(inbox'[c], x - n, owes[c])
      BY <1>2, <1>4, <1>5, <2>2, <2>3, FramedRead
    <2>5. \A j \in 1..n : inbox[c][j] = Body
      <3>1. \A j \in 1..Len(inbox[c]) : j <= x => inbox[c][j] = Body
        BY <1>4, <1>5, <2>2, FramedStart
      <3>2. \A j \in 1..n : j \in 1..Len(inbox[c]) /\ j <= x
        BY <1>2, <1>4, <2>3
      <3> QED BY <3>1, <3>2
    <2>6. Cardinality(HeaderPlaces(inbox'[c])) = Cardinality(HeaderPlaces(inbox[c]))
      BY <1>2, <1>4, <2>5, PlacesRead
    <2>7. Begun(c) = 1 /\ Begun(c)' = 1
      <3>1. need[c] < HeaderLen => need'[c] < HeaderLen
        BY <1>2, <1>4
      <3> QED BY <1>3, <1>8, <3>1 DEF Begun
    <2>8. Counted(c)'
      BY <1>3, <1>5, <2>6, <2>7 DEF Counted
    <2>9. Framed(inbox[c], Expected(c), owes[c])'
      BY <1>3, <2>3, <2>4 DEF Framed, Follow
    <2> QED BY <2>8, <2>9
  <1>9. CASE phase[c] = "header" /\ need[c] = HeaderLen
    <2>1. Expected(c) = 0 /\ Begun(c) = 0
      BY <1>4, <1>9 DEF Expected, Begun
    <2>2. Framed(inbox[c], 0, owes[c])
      BY <1>5, <2>1
    <2>3. inbox[c][1] \in Headers /\ Extent(inbox[c][1]) \in Nat
      BY <1>2, <1>4, <2>2, FramedTake
    <2>4. PICK u \in Headers : u = inbox[c][1] /\ u # Body
      BY <2>3, UnitTypes
    <2>5. PICK p \in Nat : p = PayloadLen(u)
      BY UnitTypes
    <2>6. Extent(u) = (HeaderLen - 1) + p
      BY <2>5 DEF Extent
    <2>7. n - 1 <= Extent(u)
      BY <1>2, <1>4, <1>9, <2>6
    <2>8. /\ \A j \in 2..n : inbox[c][j] = Body
          /\ Framed(inbox'[c], Extent(u) - (n - 1), owes[c])
      BY <1>2, <1>4, <2>2, <2>4, <2>7, FramedTake
    <2>9. Cardinality(HeaderPlaces(inbox'[c])) + 1 = Cardinality(HeaderPlaces(inbox[c]))
      BY <1>2, <1>4, <2>4, <2>8, PlacesTake
    <2>10. header'[c] = u
      <3>1. Head(inbox[c]) = u
        BY <1>4, <2>4 DEF Stream
      <3>2. header' = [header EXCEPT ![c] = u]
        BY <1>4, <1>9, <2>4, <3>1 DEF Read
      <3> QED BY <1>0, <3>2 DEF TypeOK
    <2>11. Expected(c)' = Extent(u) - (n - 1) /\ Begun(c)' = 1
      <3>1. need'[c] = HeaderLen - n /\ HeaderLen - n < HeaderLen
        BY <1>2, <1>4, <1>9
      <3>2. Begun(c)' = 1
        BY <1>3, <1>9, <3>1 DEF Begun
      <3>3. Expected(c)' = (HeaderLen - n) + p
        BY <1>3, <1>9, <2>5, <2>10, <3>1 DEF Expected, PayloadLen
      <3>4. (HeaderLen - n) + p = ((HeaderLen - 1) + p) - (n - 1)
        BY <1>2, <1>4
      <3> QED BY <2>6, <3>2, <3>3, <3>4
    <2>12. Counted(c)'
      <3>1. PICK k \in Nat : k = Cardinality(HeaderPlaces(inbox[c]))
        BY <1>7
      <3>2. PICK l \in Nat : l = Cardinality(HeaderPlaces(inbox'[c]))
        BY <1>7
      <3>3. PICK a \in Nat : a = answered[c]
        BY <1>4
      <3>4. l + 1 = k /\ sent[c] = a + 0 + k
        BY <1>5, <2>1, <2>9, <3>1, <3>2, <3>3 DEF Counted
      <3>5. a + 0 + k = a + 1 + l
        BY <3>4
      <3> QED BY <1>3, <2>11, <3>2, <3>3, <3>4, <3>5 DEF Counted
    <2>13. Framed(inbox[c], Expected(c), owes[c])'
      BY <1>3, <2>8, <2>11 DEF Framed, Follow
    <2> QED BY <2>12, <2>13
  <1> QED BY <1>0, <1>4, <1>8, <1>9 DEF HandlerOK

\* A client sends a header, and owes what it announces.
LEMMA StreamHeader ==
  ASSUME StreamInv, NEW c \in Clients, NEW n \in Headers, BeginRequest(c, n), Streaming(c)
  PROVE  Framed(inbox[c], Expected(c), owes[c])' /\ Counted(c)'
  <1>0. TypeOK
    BY DEF StreamInv, DispatcherInv
  <1>1. /\ inbox[c] \in Stream /\ sent[c] \in Nat /\ answered[c] \in Nat
        /\ inbox'[c] = Append(inbox[c], n) /\ owes'[c] = Extent(n) /\ sent'[c] = sent[c] + 1
        /\ owes[c] = 0 /\ answered' = answered /\ phase' = phase /\ need' = need
        /\ header' = header
    BY <1>0, DispatcherAssumption DEF BeginRequest, TypeOK, Stream, threadVars
  <1>2. Framed(inbox[c], Expected(c), 0) /\ Counted(c) /\ Expected(c) \in Nat
        /\ Begun(c) \in {0, 1}
    BY <1>0, <1>1, ExpectedType DEF StreamInv, StreamsOK
  <1>3. Expected(c)' = Expected(c) /\ Begun(c)' = Begun(c)
    BY <1>1 DEF Expected, Begun
  <1>4. Framed(inbox'[c], Expected(c), Extent(n))
    BY <1>1, <1>2, FramedHeader
  <1>5. Cardinality(HeaderPlaces(inbox'[c])) = Cardinality(HeaderPlaces(inbox[c])) + 1
    BY <1>1, PlacesHeader
  <1>6. Cardinality(HeaderPlaces(inbox[c])) \in Nat
    BY <1>1, PlacesFinite
  <1>7. sent'[c] = answered[c] + Begun(c) + Cardinality(HeaderPlaces(inbox'[c]))
    <2>1. PICK k \in Nat : k = Cardinality(HeaderPlaces(inbox[c]))
      BY <1>6
    <2>2. PICK b \in {0, 1} : b = Begun(c)
      BY <1>2
    <2>3. sent[c] = answered[c] + b + k
      BY <1>2, <2>1, <2>2 DEF Counted
    <2>4. PICK a \in Nat : a = answered[c]
      BY <1>1
    <2>5. (a + b + k) + 1 = a + b + (k + 1)
      OBVIOUS
    <2> QED BY <1>1, <1>5, <2>1, <2>2, <2>3, <2>4, <2>5
  <1> QED BY <1>1, <1>3, <1>4, <1>7 DEF Counted, Framed, Follow

\* A client sends payload that it owes.
LEMMA StreamPayload ==
  ASSUME StreamInv, NEW c \in Clients, SendBody(c), Streaming(c)
  PROVE  Framed(inbox[c], Expected(c), owes[c])' /\ Counted(c)'
  <1>0. TypeOK
    BY DEF StreamInv, DispatcherInv
  <1>1. /\ inbox[c] \in Stream /\ owes[c] \in Nat /\ owes[c] > 0
        /\ inbox'[c] = Append(inbox[c], Body) /\ owes'[c] = owes[c] - 1
        /\ sent' = sent /\ answered' = answered /\ phase' = phase /\ need' = need
        /\ header' = header
    BY <1>0 DEF SendBody, TypeOK, Stream, threadVars
  <1>2. Framed(inbox[c], Expected(c), owes[c]) /\ Counted(c) /\ Expected(c) \in Nat
    BY <1>0, ExpectedType DEF StreamInv, StreamsOK
  <1>3. Expected(c)' = Expected(c) /\ Begun(c)' = Begun(c)
    BY <1>1 DEF Expected, Begun
  <1>4. Framed(inbox'[c], Expected(c), owes[c] - 1)
    BY <1>1, <1>2, FramedPayload
  <1>5. HeaderPlaces(inbox'[c]) = HeaderPlaces(inbox[c])
    BY <1>1, PlacesPayload
  <1>6. Counted(c)'
    BY <1>1, <1>2, <1>3, <1>5 DEF Counted
  <1> QED BY <1>1, <1>3, <1>4, <1>6 DEF Framed, Follow

\* A handler turns from a header to its payload, and from a request that is
\* answered to the next header.
LEMMA StreamTurn ==
  ASSUME StreamInv, FieldsFit, NEW c \in Clients, GetContentLength(c) \/ ProcessRequest(c),
         Streaming(c)'
  PROVE  Framed(inbox[c], Expected(c), owes[c])' /\ Counted(c)'
  <1>0. TypeOK /\ HandlerOK(c)
    BY DEF StreamInv, DispatcherInv, HandlersOK
  <1>1. /\ hpc \in [Clients -> {"none", "loop", "waiting", "woken", "file", "close",
                                "done"}]
        /\ phase \in [Clients -> {"header", "payload"}]
        /\ need \in [Clients -> Nat] /\ answered \in [Clients -> Nat]
        /\ inbox[c] \in Stream /\ sent[c] \in Nat
    BY <1>0, DispatcherAssumption DEF TypeOK, Stream
  <1>2. Framed(inbox[c], Expected(c), owes[c]) /\ Counted(c)
    BY ReaderStreams DEF GetContentLength, ContentLen, ProcessRequest
  <1>3. inbox' = inbox /\ owes' = owes /\ sent' = sent /\ header' = header
    BY DEF GetContentLength, ContentLen, ProcessRequest, clientVars
  <1>4. hpc'[c] # "close"
    BY DEF Streaming
  <1>5. CASE GetContentLength(c)
    <2>1. header[c] # Malformed
      BY <1>1, <1>4, <1>5 DEF GetContentLength, ContentLen, AfterFormattingError
    <2>2. /\ phase[c] = "header" /\ need[c] = 0 /\ answered' = answered
          /\ phase'[c] = "payload" /\ need'[c] = header[c]
      BY <1>1, <1>5, <2>1 DEF GetContentLength, ContentLen
    <2>3. Expected(c)' = Expected(c) /\ Begun(c)' = Begun(c)
      <3>1. header[c] \in Nat /\ 0 < HeaderLen
        <4>1. header[c] \in Lengths \cup {Malformed}
          BY <1>0 DEF TypeOK, Headers
        <4>2. header[c] \in Lengths
          BY <2>1, <4>1
        <4>3. HeaderLen \in Nat \ {0} /\ Lengths \subseteq Nat
          BY DispatcherAssumption
        <4>4. 0 < HeaderLen
          BY <4>3
        <4>5. header[c] \in Nat
          BY <4>2, <4>3
        <4> QED BY <4>4, <4>5
      <3>2. Expected(c) = 0 + header[c] /\ Begun(c) = 1
        BY <2>1, <2>2, <3>1 DEF Expected, Begun, PayloadLen
      <3>3. Expected(c)' = header[c] /\ Begun(c)' = 1
        BY <2>2 DEF Expected, Begun
      <3> QED BY <3>1, <3>2, <3>3
    <2> QED BY <1>2, <1>3, <2>2, <2>3 DEF Counted, Framed, Follow, HeaderPlaces
  <1>6. CASE ProcessRequest(c)
    <2>1. phase[c] = "payload" /\ need[c] = 0
      BY <1>0, <1>6 DEF ProcessRequest, HandlerOK
    <2>2. /\ phase'[c] = "header" /\ need'[c] = HeaderLen /\ answered'[c] = answered[c] + 1
      BY <1>1, <1>4, <1>6 DEF ProcessRequest
    <2>3. Expected(c) = 0 /\ Expected(c)' = 0 /\ Begun(c) = 1 /\ Begun(c)' = 0
      BY <2>1, <2>2, DispatcherAssumption DEF Expected, Begun
    <2>4. Cardinality(HeaderPlaces(inbox[c])) \in Nat /\ answered[c] \in Nat
      BY <1>1, PlacesFinite
    <2>5. sent[c] = (answered[c] + 1) + 0 + Cardinality(HeaderPlaces(inbox[c]))
      BY <1>1, <1>2, <2>3, <2>4 DEF Counted
    <2>6. Counted(c)'
      BY <1>3, <2>2, <2>3, <2>5 DEF Counted, HeaderPlaces
    <2>7. Framed(inbox[c], Expected(c), owes[c])'
      BY <1>2, <1>3, <2>3 DEF Framed, Follow
    <2> QED BY <2>6, <2>7
  <1> QED BY <1>5, <1>6

\* Every stream goes on being in step with its handler, and every request
\* accounted for.
LEMMA StreamsStep ==
  ASSUME StreamInv, FieldsFit, [Next]_vars
  PROVE  StreamsOK'
  <1>0. /\ conn \in [Clients -> {"new", "pending", "accepted", "refused", "closed"}]
        /\ hpc \in [Clients -> {"none", "loop", "waiting", "woken", "file", "close",
                                "done"}]
        /\ inbox \in [Clients -> Seq(Headers \cup {Body})]
        /\ owes \in [Clients -> Nat]
        /\ sent \in [Clients -> 0..MaxRequests]
        /\ answered \in [Clients -> Nat]
        /\ phase \in [Clients -> {"header", "payload"}]
        /\ need \in [Clients -> Nat]
        /\ header \in [Clients -> Headers]
    BY DEF StreamInv, DispatcherInv, TypeOK
  <1>1. SUFFICES ASSUME NEW e \in Clients, Streaming(e)'
                 PROVE  Framed(inbox[e], Expected(e), owes[e])' /\ Counted(e)'
    BY DEF StreamsOK
  <1> DEFINE Goal == Framed(inbox[e], Expected(e), owes[e])' /\ Counted(e)'
  <1>2. Streaming(e)
    BY <1>1, StreamingBefore DEF StreamInv
  <1> DEFINE Same == /\ inbox'[e] = inbox[e] /\ owes'[e] = owes[e] /\ sent'[e] = sent[e]
                     /\ answered'[e] = answered[e] /\ phase'[e] = phase[e]
                     /\ need'[e] = need[e] /\ header'[e] = header[e]
  <1>3. ASSUME Same PROVE Goal
    BY <1>2, <1>3, StreamKept
  <1>4. ASSUME NEW c \in Clients, Client(c) PROVE Goal
    <2>1. CASE Connect(c) \/ HangUp(c)
      BY <1>3, <2>1 DEF Connect, HangUp, clientVars, threadVars
    <2>2. ASSUME NEW n \in Headers, BeginRequest(c, n) PROVE Goal
      <3>1. CASE e = c
        BY <1>2, <2>2, <3>1, StreamHeader
      <3>2. CASE e # c
        <4>1. Same
          BY <1>0, <2>2, <3>2 DEF BeginRequest, threadVars
        <4> QED BY <1>3, <4>1
      <3> QED BY <3>1, <3>2
    <2>3. CASE SendBody(c)
      <3>1. CASE e = c
        BY <1>2, <2>3, <3>1, StreamPayload
      <3>2. CASE e # c
        <4>1. Same
          BY <1>0, <2>3, <3>2 DEF SendBody, threadVars
        <4> QED BY <1>3, <4>1
      <3> QED BY <3>1, <3>2
    <2> QED BY <1>4, <2>1, <2>2, <2>3 DEF Client
  <1>5. CASE Notifier
    <2>1. Same
      BY <1>5 DEF Notifier, SelectBegin, SelectEnd, Notify, clientVars, threadVars
    <2> QED BY <1>3, <2>1
  <1>6. CASE AcceptorLock \/ Spawn
    <2>1. Same
      BY <1>6 DEF AcceptorLock, Spawn, clientVars, threadVars
    <2> QED BY <1>3, <2>1
  <1>7. CASE Accept
    <2>1. UNCHANGED <<answered, owes, sent, phase, need, header>>
      BY <1>7 DEF Accept, clientVars, threadVars
    <2>2. \/ /\ conn' = [conn EXCEPT ![Head(backlog)] = "refused"]
             /\ inbox' = [inbox EXCEPT ![Head(backlog)] = <<>>]
          \/ inbox' = inbox
      BY <1>7 DEF Accept
    <2>3. Head(backlog) = e => conn'[e] # "refused"
      BY <1>1 DEF Streaming
    <2>4. inbox'[e] = inbox[e]
      BY <1>0, <2>2, <2>3
    <2> QED BY <1>3, <2>1, <2>4
  <1>8. ASSUME NEW c \in Clients, Wait(c) \/ TimeOut(c) \/ UseFile(c) PROVE Goal
    <2>1. Same
      BY <1>8 DEF Wait, TimeOut, UseFile, clientVars
    <2> QED BY <1>3, <2>1
  <1>9. ASSUME NEW c \in Clients, Read(c) PROVE Goal
    <2>1. CASE inbox[c] = <<>>
      <3>1. Same
        BY <1>9, <2>1 DEF Read, clientVars
      <3> QED BY <1>3, <3>1
    <2>2. CASE inbox[c] # <<>> /\ e = c
      BY <1>9, <2>2, StreamRead
    <2>3. CASE inbox[c] # <<>> /\ e # c
      <3>1. PICK n : /\ inbox' = [inbox EXCEPT ![c] = SubSeq(@, n + 1, Len(@))]
                     /\ need' = [need EXCEPT ![c] = @ - n]
        BY <1>9, <2>3 DEF Read
      <3>2. inbox'[e] = inbox[e] /\ need'[e] = need[e]
        BY <1>0, <2>3, <3>1
      <3>3. Same
        <4>1. header' = header \/ \E u : header' = [header EXCEPT ![c] = u]
          BY <1>9, <2>3 DEF Read
        <4>2. header'[e] = header[e]
          BY <1>0, <2>3, <4>1
        <4> QED BY <1>9, <3>2, <4>2 DEF Read, clientVars
      <3> QED BY <1>3, <3>3
    <2> QED BY <2>1, <2>2, <2>3
  <1>10. ASSUME NEW c \in Clients, GetContentLength(c) \/ ProcessRequest(c) PROVE Goal
    <2>1. CASE e = c
      BY <1>1, <1>10, <2>1, StreamTurn
    <2>2. CASE e # c
      <3>1. Same
        BY <1>0, <1>10, <2>2 DEF GetContentLength, ContentLen, ProcessRequest, clientVars
      <3> QED BY <1>3, <3>1
    <2> QED BY <2>1, <2>2
  <1>11. ASSUME NEW c \in Clients, Close(c) PROVE Goal
    <2>1. conn' = [conn EXCEPT ![c] = "closed"] /\ inbox' = [inbox EXCEPT ![c] = <<>>]
      BY <1>11 DEF Close
    <2>2. e # c
      BY <1>0, <1>1, <2>1 DEF Streaming
    <2>3. Same
      BY <1>0, <1>11, <2>1, <2>2 DEF Close, clientVars
    <2> QED BY <1>3, <2>3
  <1>12. CASE WakeSpuriously
    <2>1. Same
      BY <1>12 DEF WakeSpuriously, clientVars
    <2> QED BY <1>3, <2>1
  <1>13. CASE UNCHANGED vars
    BY <1>3, <1>13 DEF vars, clientVars, threadVars
  <1> QED BY <1>4, <1>5, <1>6, <1>7, <1>8, <1>9, <1>10, <1>11, <1>12, <1>13
          DEF Next, Handler, Acceptor

-----------------------------------------------------------------------------
(* The theorems.                                                           *)

\* start() begins with no connection, an empty backlog and the listening
\* descriptor in m_rfds.
LEMMA DispatcherStart ==
  ASSUME Init
  PROVE  StreamInv
  <1>1. TypeOK
    <2>1. <<>> \in Seq(Clients) /\ <<>> \in Seq(Headers \cup {Body})
      OBVIOUS
    <2>2. Malformed \in Headers /\ HeaderLen \in Nat /\ 0 \in 0..MaxRequests
      BY DispatcherAssumption DEF Headers
    <2> QED BY <2>1, <2>2 DEF Init, TypeOK
  <1>2. HandlersOK
    BY DispatcherAssumption DEF Init, HandlersOK, HandlerOK
  <1>3. ConnectionsOK
    BY DEF Init, ConnectionsOK, ConnectionOK
  <1>4. DescriptorsTracked
    <2>1. {x \in Clients : conn[x] = "accepted"} = {}
      BY DEF Init
    <2>2. \A d \in rfds : d <= MaxSockfd
      BY DispatcherAssumption DEF Init
    <2>3. \A e \in Clients : conn[e] # "accepted" /\ ~Live(e) /\ fd[e] = 0
      BY DEF Init, Live
    <2> QED BY <2>1, <2>2, <2>3 DEF Init, DescriptorsTracked
  <1>5. StreamsOK
    <2>1. SUFFICES ASSUME NEW c \in Clients
                   PROVE  Framed(inbox[c], Expected(c), owes[c]) /\ Counted(c)
      BY DEF StreamsOK
    <2>2. inbox[c] = <<>> /\ owes[c] = 0 /\ sent[c] = 0 /\ answered[c] = 0
          /\ phase[c] = "header" /\ need[c] = HeaderLen
      BY DEF Init
    <2>3. Expected(c) = 0 /\ Begun(c) = 0
      BY <2>2, DispatcherAssumption DEF Expected, Begun
    <2>4. Framed(<<>>, 0, 0)
      <3>1. Len(<<>>) = 0 /\ 1..0 = {}
        OBVIOUS
      <3>2. \A k \in (0 + 1)..(0 + 0) : FALSE
        OBVIOUS
      <3>3. Follow(<<>>, 0, 0, 0)
        <4>1. ~(0 + 0 < 0) /\ 0 = (0 + 0) - 0
          OBVIOUS
        <4> QED BY <3>1, <3>2, <4>1 DEF Follow
      <3> QED BY <3>1, <3>3 DEF Framed
    <2>5. HeaderPlaces(<<>>) = {}
      BY DEF HeaderPlaces
    <2>6. Cardinality(HeaderPlaces(inbox[c])) = 0
      BY <2>2, <2>5, FS_EmptySet
    <2> QED BY <2>2, <2>3, <2>4, <2>6 DEF Counted
  <1> QED BY <1>1, <1>2, <1>3, <1>4, <1>5 DEF StreamInv, DispatcherInv

\* Types, threads, connections and descriptors are right in every state.
LEMMA DispatcherInvariant == Spec => []DispatcherInv
  <1>1. Init => DispatcherInv
    BY DispatcherStart DEF StreamInv
  <1>2. DispatcherInv /\ [Next]_vars => DispatcherInv'
    <2> SUFFICES ASSUME DispatcherInv, [Next]_vars PROVE DispatcherInv'
      OBVIOUS
    <2>1. TypeOK'
      BY TypeStep
    <2> QED BY <2>1, HandlersStep, ConnectionsStep, DescriptorsStep DEF DispatcherInv
  <1> QED BY <1>1, <1>2, PTL DEF Spec

\* So are the streams, if the numbers in headers fit into int.
LEMMA StreamInvariant ==
  ASSUME FieldsFit
  PROVE  Spec => []StreamInv
  <1>1. Init => StreamInv
    BY DispatcherStart
  <1>2. StreamInv /\ DispatcherInv' /\ [Next]_vars => StreamInv'
    BY StreamsStep DEF StreamInv
  <1> QED BY <1>1, <1>2, DispatcherInvariant, PTL DEF Spec

\* The members of ServerDispatcher and the locals of its threads have their
\* types, whatever arrives: no buffer is filled beyond its end.
THEOREM DispatcherTypes == Spec => []TypeOK
  <1>1. DispatcherInv => TypeOK
    BY DEF DispatcherInv
  <1> QED BY <1>1, DispatcherInvariant, PTL

\* FD_SET in start() and FD_CLR in m_processRequest keep m_rfds exact, and no
\* descriptor is left open or closed twice.
THEOREM DescriptorsStayTracked == Spec => []DescriptorsTracked
  <1>1. DispatcherInv => DescriptorsTracked
    BY DEF DispatcherInv
  <1> QED BY <1>1, DispatcherInvariant, PTL

\* readFileDescriptor never takes payload for a header or a header for
\* payload, however the stream is cut into packets, within headers too, and
\* whatever lengths the headers announce, as long as their numbers fit into
\* int.
THEOREM HandlersInStep ==
  ASSUME FieldsFit
  PROVE  Spec => []InStep
  <1>1. StreamInv => InStep
    <2> SUFFICES ASSUME StreamInv, NEW c \in Clients,
                        hpc[c] \in {"loop", "waiting", "woken", "file"}
                 PROVE  /\ \A j \in 1..Len(inbox[c]) : j <= Expected(c) => inbox[c][j] = Body
                        /\ Len(inbox[c]) > Expected(c) => inbox[c][Expected(c) + 1] # Body
      BY DEF InStep
    <2>1. Framed(inbox[c], Expected(c), owes[c])
      BY ReaderStreams
    <2>2. inbox[c] \in Stream /\ Expected(c) \in Nat
      BY ExpectedType DEF StreamInv, DispatcherInv, TypeOK, Stream
    <2> QED BY <2>1, <2>2, FramedStart
  <1> QED BY <1>1, StreamInvariant, PTL

\* Of the requests that a client began, each is answered once, being read or
\* processed, or still in the stream, under the same condition.
THEOREM RequestsAnsweredOnce ==
  ASSUME FieldsFit
  PROVE  Spec => []ResponsesMatchRequests
  <1>1. StreamInv => ResponsesMatchRequests
    BY ReaderStreams DEF ResponsesMatchRequests
  <1> QED BY <1>1, StreamInvariant, PTL
=============================================================================
