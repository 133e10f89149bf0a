-------------------------- MODULE ConnectionProofs --------------------------
(* Proofs about the transport, for every set of nodes and every bound: the  *)
(* type invariant, that the sender thread reads inside sendBuffer, and that *)
(* the byte count of the unacknowledged segments cannot wrap.               *)
(*                                                                          *)
(* A handler is followed through the sets below, which say that whatever it *)
(* holds lies inside a send buffer of length B.                             *)
EXTENDS ConnectionProperties, FiniteSetTheorems, SequenceTheorems, TLAPS

ValidSegment     == {s \in Segment : s.start <= s.end}
SegmentWithin(B) == {s \in ValidSegment : s.end <= B}
InfoWithin(B)    == {e \in SegmentInfo : e.start + e.size <= B}
ItemWithin(B)    == [seg : SegmentWithin(B), pushed : BOOLEAN,
                     address : {"peer", "uninitialised"}]

ClientRecord(B) ==
  [expected_sequence : Nat, expected_ack : Nat, last_ack : Nat, state : State,
   messageBuffer : SUBSET ValidSegment, messagesSent : Seq(InfoWithin(B)),
   totalSizeOfMessagesSent : Int, lastByteSent : 0..B, windowSize : Nat,
   isFinSent : BOOLEAN, number_of_timeouts : Nat]

\* The running total never falls below what messagesSent stands for.
Counted(c) == c.totalSizeOfMessagesSent >= ByteCount(c.messagesSent)

ClientWithin(B) == {c \in ClientRecord(B) : Counted(c)}

FrameWithin(B) ==
  [c : ClientWithin(B), snd : Seq(ItemWithin(B)), rcv : Seq(ValidSegment),
   alive : BOOLEAN]

Arrival == [from : Node, seg : ValidSegment]

-----------------------------------------------------------------------------
(* ByteCount, the bytes the segments of messagesSent stand for: a number     *)
(* that adds up over an appended entry and over the two parts of a split,    *)
(* and depends on the sizes alone.                                           *)

\* The bytes of the entries at the positions in S.
Cells(q, S) == UNION {{i} \X (1..(HEADER_SIZE + q[i].size)) : i \in S}

\* A byte is a position and an offset in it.
LEMMA CellsMember ==
  ASSUME NEW q, NEW S, NEW x
  PROVE  x \in Cells(q, S) <=>
           \E i \in S : \E j \in 1..(HEADER_SIZE + q[i].size) : x = <<i, j>>
  BY DEF Cells

\* The bytes depend on the sizes alone.
LEMMA CellsSame ==
  ASSUME NEW q, NEW r, NEW S, \A i \in S : q[i].size = r[i].size
  PROVE  Cells(q, S) = Cells(r, S)
  <1>1. \A x : x \in Cells(q, S) <=> x \in Cells(r, S)
    BY CellsMember
  <1> QED
    BY <1>1

\* One entry has as many bytes as its header and its data.
LEMMA OneEntry ==
  ASSUME NEW q, NEW i, q[i].size \in Nat
  PROVE  /\ IsFiniteSet(Cells(q, {i}))
         /\ Cardinality(Cells(q, {i})) = HEADER_SIZE + q[i].size
  <1> DEFINE k == HEADER_SIZE + q[i].size
  <1>1. k \in Nat
    BY SizeAssumption
  <1>2. Cells(q, {i}) = {i} \X (1..k)
    BY DEF Cells
  <1> HIDE DEF k
  <1>3. IsFiniteSet(1..k) /\ Cardinality(1..k) = k
    BY <1>1, FS_Interval
  <1>4. IsFiniteSet({i}) /\ Cardinality({i}) = 1
    BY FS_Singleton
  <1>5. /\ IsFiniteSet({i} \X (1..k))
        /\ Cardinality({i} \X (1..k)) = Cardinality({i}) * Cardinality(1..k)
    BY <1>3, <1>4, FS_Product
  <1>6. Cardinality({i} \X (1..k)) = k
    BY <1>1, <1>3, <1>4, <1>5
  <1> QED
    BY <1>2, <1>5, <1>6 DEF k

\* Finitely many entries have finitely many bytes.
LEMMA CellsFinite ==
  ASSUME NEW q, NEW S, IsFiniteSet(S), \A i \in S : q[i].size \in Nat
  PROVE  IsFiniteSet(Cells(q, S))
  <1> DEFINE T(i) == {i} \X (1..(HEADER_SIZE + q[i].size))
             P    == {T(i) : i \in S}
  <1>1. IsFiniteSet(P)
    <2> DEFINE f == [i \in S |-> T(i)]
    <2>1. P = {f[i] : i \in S}
      OBVIOUS
    <2>2. f \in Surjection(S, P)
      BY <2>1 DEF Surjection
    <2> HIDE DEF f, P
    <2> QED
      BY <2>2, FS_Surjection
  <1>2. ASSUME NEW i \in S
        PROVE  IsFiniteSet(T(i))
    <2>1. q[i].size \in Nat
      OBVIOUS
    <2>2. T(i) = Cells(q, {i})
      BY DEF Cells
    <2> QED
      BY <2>1, <2>2, OneEntry
  <1>3. IsFiniteSet(UNION P)
    BY <1>1, <1>2, FS_UNION
  <1> QED
    BY <1>3 DEF Cells

\* The bytes of two disjoint sets of positions add up.
LEMMA CellsSplit ==
  ASSUME NEW q, NEW S, NEW T, IsFiniteSet(S), IsFiniteSet(T), S \cap T = {},
         \A i \in S \cup T : q[i].size \in Nat
  PROVE  Cardinality(Cells(q, S \cup T)) =
           Cardinality(Cells(q, S)) + Cardinality(Cells(q, T))
  <1>1. IsFiniteSet(Cells(q, S)) /\ IsFiniteSet(Cells(q, T))
    BY CellsFinite
  <1>2. Cells(q, S \cup T) = Cells(q, S) \cup Cells(q, T)
    <2>1. \A x : x \in Cells(q, S \cup T)
                   <=> x \in Cells(q, S) \/ x \in Cells(q, T)
      BY CellsMember
    <2> QED
      BY <2>1
  <1>3. Cells(q, S) \cap Cells(q, T) = {}
    <2>1. ASSUME NEW x \in Cells(q, S), x \in Cells(q, T)
          PROVE  FALSE
      <3>1. PICK i \in S :
            \E j \in 1..(HEADER_SIZE + q[i].size) : x = <<i, j>>
        BY CellsMember
      <3>2. PICK k \in T :
            \E l \in 1..(HEADER_SIZE + q[k].size) : x = <<k, l>>
        BY <2>1, CellsMember
      <3>3. i = k
        BY <3>1, <3>2
      <3> QED
        BY <3>1, <3>2, <3>3
    <2> QED
      BY <2>1
  <1>4. Cardinality(Cells(q, S) \cup Cells(q, T)) =
          Cardinality(Cells(q, S)) + Cardinality(Cells(q, T))
          - Cardinality(Cells(q, S) \cap Cells(q, T))
    BY <1>1, FS_Union
  <1>5. Cardinality(Cells(q, S) \cap Cells(q, T)) = 0
    BY <1>3, FS_EmptySet
  <1> DEFINE a == Cardinality(Cells(q, S))
             b == Cardinality(Cells(q, T))
  <1>6. a \in Nat /\ b \in Nat
    BY <1>1, FS_CardinalityType
  <1>7. Cardinality(Cells(q, S \cup T)) = a + b - 0
    BY <1>2, <1>4, <1>5
  <1> HIDE DEF a, b
  <1>8. a + b - 0 = a + b
    BY <1>6
  <1> QED
    BY <1>7, <1>8 DEF a, b

\* The first n sizes of r are those of q from k on.
Shifted(q, r, k, n) ==
  \A i \in 1..n : r[i].size \in Nat /\ q[i + k].size = r[i].size

\* Moving entries to other positions keeps the number of bytes.
LEMMA CellsShift ==
  ASSUME NEW q, NEW r, NEW k \in Nat, NEW n \in Nat, Shifted(q, r, k, n)
  PROVE  Cardinality(Cells(q, (k + 1)..(k + n))) = Cardinality(Cells(r, 1..n))
  <1> DEFINE A == Cells(r, 1..n)
             Z == Cells(q, (k + 1)..(k + n))
             f == [x \in A |-> <<x[1] + k, x[2]>>]
  <1>1. IsFiniteSet(A)
    <2>1. IsFiniteSet(1..n)
      BY FS_Interval
    <2>2. \A i \in 1..n : r[i].size \in Nat
      BY DEF Shifted
    <2> QED
      BY <2>1, <2>2, CellsFinite
  <1>2. ASSUME NEW x \in A
        PROVE  f[x] \in Z /\ x[1] \in Int /\ x = <<x[1], x[2]>>
    <2>0. PICK i \in 1..n :
            \E j \in 1..(HEADER_SIZE + r[i].size) : x = <<i, j>>
      BY CellsMember
    <2>1. PICK j \in 1..(HEADER_SIZE + r[i].size) : x = <<i, j>>
      BY <2>0
    <2>2. i + k \in (k + 1)..(k + n) /\ q[i + k].size = r[i].size
      BY DEF Shifted
    <2>3. f[x] = <<i + k, j>>
      BY <2>1
    <2>4. j \in 1..(HEADER_SIZE + q[i + k].size)
      BY <2>2
    <2>5. <<i + k, j>> \in Z
      BY <2>2, <2>4, CellsMember
    <2> QED
      BY <2>1, <2>3, <2>5
  <1>3. ASSUME NEW x \in A, NEW y \in A, f[x] = f[y]
        PROVE  x = y
    <2>1. f[x] = <<x[1] + k, x[2]>> /\ f[y] = <<y[1] + k, y[2]>>
      OBVIOUS
    <2>2. f[x][1] = x[1] + k /\ f[y][1] = y[1] + k
          /\ f[x][2] = x[2] /\ f[y][2] = y[2]
      BY <2>1
    <2> HIDE DEF f, A
    <2>3. x[1] = y[1] /\ x[2] = y[2]
      BY <1>2, <1>3, <2>2
    <2> QED
      BY <1>2, <2>3
  <1>4. ASSUME NEW z \in Z
        PROVE  \E x \in A : f[x] = z
    <2>0. PICK m \in (k + 1)..(k + n) :
            \E j \in 1..(HEADER_SIZE + q[m].size) : z = <<m, j>>
      BY CellsMember
    <2>1. PICK j \in 1..(HEADER_SIZE + q[m].size) : z = <<m, j>>
      BY <2>0
    <2>2. m - k \in 1..n /\ (m - k) + k = m
      OBVIOUS
    <2>3. j \in 1..(HEADER_SIZE + r[m - k].size)
      BY <2>2 DEF Shifted
    <2>4. <<m - k, j>> \in A
      BY <2>2, <2>3, CellsMember
    <2>5. f[<<m - k, j>>] = z
      BY <2>1, <2>2, <2>4
    <2> QED
      BY <2>4, <2>5
  <1>5. DOMAIN f = A /\ f = [x \in A |-> f[x]]
    OBVIOUS
  <1> HIDE DEF f, A, Z
  <1>6. f \in Bijection(A, Z)
    <2>1. f \in [A -> Z]
      BY <1>2, <1>5
    <2>2. f \in Injection(A, Z)
      BY <1>3, <2>1 DEF Injection, IsInjective
    <2>3. f \in Surjection(A, Z)
      BY <1>4, <2>1 DEF Surjection
    <2> QED
      BY <2>2, <2>3 DEF Bijection
  <1>7. Cardinality(Z) = Cardinality(A)
    <2>1. ExistsBijection(A, Z)
      BY <1>6 DEF ExistsBijection
    <2> QED
      BY <1>1, <2>1, FS_Bijection
  <1> QED
    BY <1>7 DEF A, Z

-----------------------------------------------------------------------------
(* ByteCount itself.                                                        *)

\* ByteCount counts the bytes at every position.
LEMMA ByteCountCells ==
  ASSUME NEW q \in Seq(SegmentInfo)
  PROVE  /\ ByteCount(q) = Cardinality(Cells(q, 1..Len(q)))
         /\ IsFiniteSet(1..Len(q))
         /\ Len(q) \in Nat
         /\ \A i \in 1..Len(q) : q[i].size \in Nat
  <1>1. DOMAIN q = 1..Len(q) /\ Len(q) \in Nat
    OBVIOUS
  <1>2. IsFiniteSet(1..Len(q))
    BY <1>1, FS_Interval
  <1>3. ASSUME NEW i \in 1..Len(q)
        PROVE  q[i].size \in Nat
    <2>1. q[i] \in SegmentInfo
      OBVIOUS
    <2> QED
      BY <2>1 DEF SegmentInfo
  <1>4. ByteCount(q) = Cardinality(Cells(q, 1..Len(q)))
    BY <1>1 DEF ByteCount, Cells
  <1> QED
    BY <1>1, <1>2, <1>3, <1>4

\* The bytes of messagesSent are finitely many.
LEMMA ByteCountTyped ==
  ASSUME NEW q \in Seq(SegmentInfo)
  PROVE  ByteCount(q) \in Nat
  <1>1. IsFiniteSet(Cells(q, 1..Len(q)))
    BY ByteCountCells, CellsFinite
  <1> QED
    BY <1>1, ByteCountCells, FS_CardinalityType

\* No entries, no bytes.
LEMMA ByteCountEmpty == ByteCount(<<>>) = 0
  <1>1. UNION {{i} \X (1..(HEADER_SIZE + <<>>[i].size)) : i \in DOMAIN <<>>} = {}
    OBVIOUS
  <1> QED
    BY <1>1, FS_EmptySet DEF ByteCount

\* The bytes depend on the sizes alone.
LEMMA ByteCountSame ==
  ASSUME NEW q \in Seq(SegmentInfo), NEW r \in Seq(SegmentInfo),
         Len(q) = Len(r), \A i \in 1..Len(q) : q[i].size = r[i].size
  PROVE  ByteCount(q) = ByteCount(r)
  <1>1. Cells(q, 1..Len(q)) = Cells(r, 1..Len(r))
    BY CellsSame
  <1> QED
    BY <1>1, ByteCountCells

\* An appended entry adds its header and its data.
LEMMA ByteCountAppend ==
  ASSUME NEW q \in Seq(SegmentInfo), NEW e \in SegmentInfo
  PROVE  ByteCount(Append(q, e)) = ByteCount(q) + HEADER_SIZE + e.size
  <1> DEFINE r == Append(q, e)
             n == Len(q)
  <1>1. /\ n \in Nat /\ r \in Seq(SegmentInfo) /\ Len(r) = n + 1
        /\ \A i \in 1..n : r[i] = q[i]
        /\ r[n + 1] = e
    OBVIOUS
  <1>2. e.size \in Nat
    BY DEF SegmentInfo
  <1> HIDE DEF r, n
  <1>3. 1..(n + 1) = (1..n) \cup {n + 1} /\ (1..n) \cap {n + 1} = {}
    BY <1>1
  <1>4. /\ ByteCount(r) = Cardinality(Cells(r, 1..(n + 1)))
        /\ \A i \in (1..n) \cup {n + 1} : r[i].size \in Nat
    BY <1>1, <1>3, ByteCountCells
  <1>5. IsFiniteSet(1..n) /\ IsFiniteSet({n + 1})
    <2>1. IsFiniteSet(1..n)
      BY <1>1, FS_Interval
    <2>2. IsFiniteSet({n + 1})
      BY FS_Singleton
    <2> QED
      BY <2>1, <2>2
  <1>6. Cardinality(Cells(r, (1..n) \cup {n + 1})) =
          Cardinality(Cells(r, 1..n)) + Cardinality(Cells(r, {n + 1}))
    BY <1>3, <1>4, <1>5, CellsSplit
  <1>7. Cells(r, 1..n) = Cells(q, 1..n)
    BY <1>1, CellsSame
  <1>8. Cardinality(Cells(r, {n + 1})) = HEADER_SIZE + e.size
    BY <1>1, <1>2, OneEntry
  <1>9. ByteCount(q) = Cardinality(Cells(q, 1..n)) /\ ByteCount(q) \in Nat
    BY ByteCountCells, ByteCountTyped DEF n
  <1>10. ByteCount(r) = ByteCount(q) + (HEADER_SIZE + e.size)
    BY <1>3, <1>4, <1>6, <1>7, <1>8, <1>9
  <1> QED
    BY <1>2, <1>9, <1>10, SizeAssumption DEF r

\* The bytes of the two parts of a sequence add up.
LEMMA ByteCountSplit ==
  ASSUME NEW q \in Seq(SegmentInfo), NEW k \in 0..Len(q)
  PROVE  ByteCount(q) =
           ByteCount(SubSeq(q, 1, k)) + ByteCount(SubSeq(q, k + 1, Len(q)))
  <1> DEFINE n == Len(q)
             a == SubSeq(q, 1, k)
             z == SubSeq(q, k + 1, n)
  <1>1. n \in Nat /\ k \in Nat /\ k <= n /\ n - k \in Nat
    OBVIOUS
  <1>2. a \in Seq(SegmentInfo) /\ Len(a) = k /\ \A i \in 1..k : a[i] = q[i]
    BY <1>1, SubSeqProperties
  <1>3. /\ z \in Seq(SegmentInfo) /\ Len(z) = n - k
        /\ \A i \in 1..(n - k) : z[i] = q[i + k]
    BY <1>1, SubSeqProperties
  <1> HIDE DEF a, z, n
  <1>4. 1..n = (1..k) \cup ((k + 1)..n) /\ (1..k) \cap ((k + 1)..n) = {}
    BY <1>1
  <1>5. /\ ByteCount(q) = Cardinality(Cells(q, 1..n))
        /\ \A i \in (1..k) \cup ((k + 1)..n) : q[i].size \in Nat
    BY <1>4, ByteCountCells DEF n
  <1>6. IsFiniteSet(1..k) /\ IsFiniteSet((k + 1)..n)
    BY <1>1, FS_Interval
  <1>7. Cardinality(Cells(q, (1..k) \cup ((k + 1)..n))) =
          Cardinality(Cells(q, 1..k)) + Cardinality(Cells(q, (k + 1)..n))
    BY <1>4, <1>5, <1>6, CellsSplit
  <1>8. Cardinality(Cells(q, 1..k)) = ByteCount(a)
    <2>1. Cells(q, 1..k) = Cells(a, 1..k)
      BY <1>2, CellsSame
    <2> QED
      BY <1>2, <2>1, ByteCountCells
  <1>9. Cardinality(Cells(q, (k + 1)..n)) = ByteCount(z)
    <2>1. \A i \in 1..(n - k) : z[i].size \in Nat /\ q[i + k].size = z[i].size
      BY <1>3, ByteCountCells
    <2> DEFINE m == n - k
    <2>2. m \in Nat /\ k + m = n
      BY <1>1
    <2>3. Shifted(q, z, k, m)
      BY <2>1 DEF Shifted
    <2>4. ByteCount(z) = Cardinality(Cells(z, 1..m))
      BY <1>3, ByteCountCells
    <2> HIDE DEF m
    <2>5. Cardinality(Cells(q, (k + 1)..(k + m))) = Cardinality(Cells(z, 1..m))
      <3>1. k \in Nat /\ m \in Nat
        BY <1>1, <2>2
      <3> QED
        BY <3>1, <2>3, CellsShift
    <2> QED
      BY <2>2, <2>4, <2>5
  <1> QED
    BY <1>4, <1>5, <1>7, <1>8, <1>9 DEF a, z, n

-----------------------------------------------------------------------------
(* The sets are monotone in B and refine the types of TypeOK.               *)

\* A sequence over a set is a sequence over any larger one.
LEMMA SeqMonotone ==
  ASSUME NEW S, NEW T, S \subseteq T, NEW q \in Seq(S)
  PROVE  q \in Seq(T)
  <1>1. Len(q) \in Nat /\ q \in [1..Len(q) -> S]
    OBVIOUS
  <1>2. q \in [1..Len(q) -> T]
    BY <1>1
  <1> QED
    BY <1>1, <1>2

\* What lies inside a buffer lies inside a longer one.
LEMMA WithinMonotone ==
  ASSUME NEW B \in Nat, NEW D \in Nat, B <= D
  PROVE  /\ SegmentWithin(B) \subseteq SegmentWithin(D)
         /\ \A q \in Seq(ItemWithin(B)) : q \in Seq(ItemWithin(D))
         /\ ClientWithin(B) \subseteq ClientWithin(D)
  <1>1. SegmentWithin(B) \subseteq SegmentWithin(D)
    BY DEF SegmentWithin, ValidSegment, Segment
  <1>2. ItemWithin(B) \subseteq ItemWithin(D)
    BY <1>1 DEF ItemWithin
  <1>3. InfoWithin(B) \subseteq InfoWithin(D)
    BY DEF InfoWithin, SegmentInfo
  <1>4. \A q \in Seq(InfoWithin(B)) : q \in Seq(InfoWithin(D))
    BY <1>3, SeqMonotone
  <1>5. 0..B \subseteq 0..D
    OBVIOUS
  <1>6. ClientWithin(B) \subseteq ClientWithin(D)
    BY <1>4, <1>5 DEF ClientWithin, ClientRecord, Counted
  <1> QED
    BY <1>1, <1>2, <1>6, SeqMonotone

\* The bounded client and the bounded items have the declared types.
LEMMA WithinTyped ==
  ASSUME NEW B \in Nat
  PROVE  /\ ClientWithin(B) \subseteq Client
         /\ \A q \in Seq(ItemWithin(B)) : q \in Seq(OutItem)
  <1>1. InfoWithin(B) \subseteq SegmentInfo
    BY DEF InfoWithin
  <1>2. \A q \in Seq(InfoWithin(B)) : q \in Seq(SegmentInfo)
    BY <1>1, SeqMonotone
  <1>3. ValidSegment \subseteq Segment /\ 0..B \subseteq Nat
    BY DEF ValidSegment
  <1>4. ClientWithin(B) \subseteq Client
    BY <1>2, <1>3 DEF ClientWithin, ClientRecord, Counted, Client
  <1>5. ItemWithin(B) \subseteq OutItem
    BY DEF ItemWithin, OutItem, SegmentWithin, ValidSegment
  <1> QED
    BY <1>4, <1>5, SeqMonotone

-----------------------------------------------------------------------------
(* The operators on clients.                                                *)

\* A control segment lies inside every buffer.
LEMMA ControlWithin ==
  ASSUME NEW B \in Nat, NEW flag \in Flag, NEW seq \in Nat, NEW ack \in Nat
  PROVE  Control(flag, seq, ack) \in SegmentWithin(B)
  BY SizeAssumption DEF Control, SegmentWithin, ValidSegment, Segment

\* A new client has nothing to send.
LEMMA NewClientWithin ==
  ASSUME NEW B \in Nat, NEW state \in State, NEW ack \in Nat
  PROVE  NewClient(state, ack) \in ClientWithin(B)
  BY ByteCountEmpty DEF NewClient, ClientWithin, ClientRecord, Counted

\* Pushing an entry that lies inside the buffer.
LEMMA PushMessageWithin ==
  ASSUME NEW B \in Nat, NEW c \in ClientWithin(B), NEW info \in InfoWithin(B)
  PROVE  PushMessage(c, info) \in ClientWithin(B)
  <1>1. c.messagesSent \in Seq(InfoWithin(B)) /\ c.totalSizeOfMessagesSent \in Int
    BY DEF ClientWithin, ClientRecord, Counted
  <1>2. Append(c.messagesSent, info) \in Seq(InfoWithin(B))
    BY <1>1
  <1>3. info.size \in Nat
    BY DEF InfoWithin, SegmentInfo
  <1>4. c.totalSizeOfMessagesSent + HEADER_SIZE + info.size \in Int
    BY <1>1, <1>3, SizeAssumption
  <1>5. c.messagesSent \in Seq(SegmentInfo) /\ info \in SegmentInfo
    BY <1>1, SeqMonotone DEF InfoWithin
  <1>6. ByteCount(Append(c.messagesSent, info)) =
          ByteCount(c.messagesSent) + HEADER_SIZE + info.size
    BY <1>5, ByteCountAppend
  <1>7. ByteCount(c.messagesSent) \in Nat
    BY <1>5, ByteCountTyped
  <1>8. c.totalSizeOfMessagesSent + HEADER_SIZE + info.size
          >= ByteCount(Append(c.messagesSent, info))
    BY <1>1, <1>3, <1>6, <1>7, SizeAssumption
       DEF ClientWithin, Counted
  <1> QED
    BY <1>2, <1>4, <1>8 DEF PushMessage, ClientWithin, ClientRecord, Counted

\* checkFront pops at most what is there.
LEMMA AckedBound ==
  ASSUME NEW q \in Seq(SegmentInfo), NEW ack \in Nat
  PROVE  Acked(q, ack) \in 0..Len(q)
  <1> DEFINE K == {i \in 1..Len(q) : \A j \in 1..i : q[j].seq < ack}
  <1>1. Len(q) \in Nat
    OBVIOUS
  <1>2. IsFiniteSet(1..Len(q)) /\ Cardinality(1..Len(q)) = Len(q)
    BY <1>1, FS_Interval, SMTT(30)
  <1>3. K \in SUBSET (1..Len(q))
    OBVIOUS
  <1> HIDE DEF K
  <1>4. IsFiniteSet(K) /\ Cardinality(K) <= Len(q)
    BY <1>2, <1>3, FS_Subset
  <1>5. Cardinality(K) \in Nat
    BY <1>4, FS_CardinalityType
  <1> QED
    BY <1>1, <1>4, <1>5 DEF Acked, K

\* Popping the acknowledged entries.
LEMMA AcknowledgeWithin ==
  ASSUME NEW B \in Nat, NEW c \in ClientWithin(B), NEW seg \in ValidSegment
  PROVE  Acknowledge(c, seg) \in ClientWithin(B)
  <1> DEFINE q == c.messagesSent
             k == Acked(q, seg.ack)
  <1>1. q \in Seq(InfoWithin(B)) /\ c.totalSizeOfMessagesSent \in Int
    BY DEF ClientWithin, ClientRecord, Counted
  <1>2. seg.ack \in Nat /\ seg.win \in Nat
    BY DEF ValidSegment, Segment
  <1>3. q \in Seq(SegmentInfo)
    BY <1>1, SeqMonotone DEF InfoWithin
  <1>4. Len(q) \in Nat /\ Acked(q, seg.ack) \in 0..Len(q)
    <2>1. Len(q) \in Nat
      BY <1>3
    <2>2. Acked(q, seg.ack) \in 0..Len(q)
      BY <1>2, <1>3, AckedBound
    <2> QED
      BY <2>1, <2>2
  <1> HIDE DEF k
  <1>5. SubSeq(q, k + 1, Len(q)) \in Seq(InfoWithin(B))
    BY <1>1, <1>4, SubSeqProperties DEF k
  <1>6. SubSeq(q, 1, k) \in Seq(SegmentInfo)
    BY <1>3, <1>4, SubSeqProperties DEF k
  <1>7. ByteCount(SubSeq(q, 1, k)) \in Nat
    BY <1>6, ByteCountTyped
  <1> DEFINE t == c.totalSizeOfMessagesSent - ByteCount(SubSeq(q, 1, k))
             r == SubSeq(q, k + 1, Len(q))
  <1>8. t \in Int /\ t >= ByteCount(r)
    <2>1. ByteCount(q) = ByteCount(SubSeq(q, 1, k)) + ByteCount(r)
      BY <1>3, <1>4, ByteCountSplit DEF k
    <2>2. r \in Seq(SegmentInfo)
      BY <1>5, SeqMonotone DEF InfoWithin
    <2>3. ByteCount(r) \in Nat
      BY <2>2, ByteCountTyped
    <2>4. c.totalSizeOfMessagesSent >= ByteCount(q)
      BY DEF ClientWithin, Counted
    <2> QED
      BY <1>1, <1>7, <2>1, <2>3, <2>4
  <1>9. Acknowledge(c, seg) =
          [c EXCEPT !.messagesSent = r, !.totalSizeOfMessagesSent = t,
                    !.last_ack = seg.ack, !.windowSize = seg.win]
    BY DEF Acknowledge, k
  <1> HIDE DEF t, r
  <1>10. r \in Seq(InfoWithin(B))
    BY <1>5 DEF r
  <1> QED
    BY <1>2, <1>8, <1>9, <1>10 DEF ClientWithin, ClientRecord, Counted

\* Marking an entry leaves its range alone.
LEMMA StampWithin ==
  ASSUME NEW B \in Nat, NEW c \in ClientWithin(B), NEW seq, NEW mark \in SendMark
  PROVE  Stamp(c, seq, mark) \in ClientWithin(B)
  <1> DEFINE q == c.messagesSent
             Waits(i) == q[i].seq = seq /\ q[i].sent = "queued"
             s == [i \in DOMAIN q |->
                     IF Waits(i) /\ \A j \in 1..(i - 1) : ~Waits(j)
                     THEN [q[i] EXCEPT !.sent = mark] ELSE q[i]]
  <1>1. q \in Seq(InfoWithin(B))
    BY DEF ClientWithin, ClientRecord, Counted
  <1>2. DOMAIN q = 1..Len(q) /\ Len(q) \in Nat
    BY <1>1
  <1>3. \A i \in DOMAIN q : q[i] \in InfoWithin(B)
    BY <1>1
  <1>4. \A i \in DOMAIN q : [q[i] EXCEPT !.sent = mark] \in InfoWithin(B)
    BY <1>3 DEF InfoWithin, SegmentInfo
  <1>5. s \in [1..Len(q) -> InfoWithin(B)]
    BY <1>2, <1>3, <1>4
  <1>6. s \in Seq(InfoWithin(B))
    BY <1>2, <1>5
  <1>7. Stamp(c, seq, mark) = [c EXCEPT !.messagesSent = s]
    BY DEF Stamp
  <1>8. q \in Seq(SegmentInfo) /\ s \in Seq(SegmentInfo)
    BY <1>1, <1>6, SeqMonotone DEF InfoWithin
  <1>9. ByteCount(s) = ByteCount(q)
    <2>1. Len(s) = Len(q)
      BY <1>2, <1>5
    <2>2. ASSUME NEW i \in 1..Len(q)
          PROVE  q[i].size = s[i].size
      <3>1. s[i] \in {q[i], [q[i] EXCEPT !.sent = mark]}
        BY <1>2
      <3>2. q[i] \in SegmentInfo
        BY <1>8
      <3>3. [q[i] EXCEPT !.sent = mark].size = q[i].size
        BY <3>2 DEF SegmentInfo
      <3> QED
        BY <3>1, <3>3
    <2> HIDE DEF s
    <2> QED
      BY <1>8, <2>1, <2>2, ByteCountSame
  <1> HIDE DEF s
  <1> QED
    BY <1>6, <1>7, <1>9 DEF ClientWithin, ClientRecord, Counted

-----------------------------------------------------------------------------
(* The operators on frames.                                                 *)

\* createMessage for a segment that lies inside the buffer.
LEMMA CreateMessageWithin ==
  ASSUME NEW B \in Nat, NEW h \in FrameWithin(B), NEW seg \in SegmentWithin(B),
         NEW state \in State
  PROVE  CreateMessage(h, seg, state) \in FrameWithin(B)
  <1> DEFINE pushed == IsTracked(seg) /\ FrontSeqNum(h.c) # seg.seq
             info   == [seq |-> seg.seq, flag |-> seg.flag, start |-> seg.start,
                        size |-> SizeOf(seg), sent |-> "queued"]
             c      == IF pushed THEN PushMessage(h.c, info) ELSE h.c
             d      == [c EXCEPT !.state = state, !.expected_ack = seg.ack]
             item   == [seg |-> seg, pushed |-> pushed, address |-> "peer"]
  <1>1. h.c \in ClientWithin(B) /\ h.snd \in Seq(ItemWithin(B))
    BY DEF FrameWithin
  <1>2. info \in InfoWithin(B)
    BY DEF InfoWithin, SegmentInfo, SegmentWithin, ValidSegment, Segment, SizeOf,
           SendMark
  <1>3. c \in ClientWithin(B)
    BY <1>1, <1>2, PushMessageWithin
  <1>4. seg.ack \in Nat
    BY DEF SegmentWithin, ValidSegment, Segment
  <1>5. pushed \in BOOLEAN
    BY DEF IsTracked
  <1>6. item \in ItemWithin(B)
    BY <1>5 DEF ItemWithin
  <1>7. CreateMessage(h, seg, state) =
          [h EXCEPT !.c = d, !.snd = Append(h.snd, item)]
    BY DEF CreateMessage
  <1> HIDE DEF pushed, c, item
  <1>8. d \in ClientWithin(B)
    BY <1>3, <1>4 DEF ClientWithin, ClientRecord, Counted
  <1> HIDE DEF d
  <1>9. Append(h.snd, item) \in Seq(ItemWithin(B))
    BY <1>1, <1>6
  <1> QED
    BY <1>7, <1>8, <1>9 DEF FrameWithin

\* A frame for a client inside the buffer.
LEMMA FrameOfClient ==
  ASSUME NEW B \in Nat, NEW c \in ClientWithin(B)
  PROVE  Frame(c) \in FrameWithin(B)
  BY DEF Frame, FrameWithin

\* Out-of-order segments are kept aside.
LEMMA StoreWithin ==
  ASSUME NEW B \in Nat, NEW h \in FrameWithin(B), NEW seg \in ValidSegment
  PROVE  Store(h, seg) \in FrameWithin(B)
  <1> DEFINE buffer == {b \in h.c.messageBuffer : b.seq # seg.seq} \cup {seg}
             d == [h.c EXCEPT !.messageBuffer = buffer]
  <1>1. h.c \in ClientWithin(B)
    BY DEF FrameWithin
  <1>2. buffer \in SUBSET ValidSegment
    BY <1>1 DEF ClientWithin, ClientRecord, Counted
  <1>3. Store(h, seg) = IF ARGS_RIGHT_TO_LEFT THEN [h EXCEPT !.alive = FALSE]
                        ELSE [h EXCEPT !.c = d]
    BY <1>1 DEF Store, FrameWithin, ClientWithin, ClientRecord, Counted
  <1> HIDE DEF buffer
  <1>4. d \in ClientWithin(B)
    BY <1>1, <1>2 DEF ClientWithin, ClientRecord, Counted
  <1> HIDE DEF d
  <1> QED
    BY <1>3, <1>4 DEF FrameWithin

\* The data segment sendMessages creates ends inside the buffer, size.
LEMMA SendMessagesWithin ==
  ASSUME NEW B \in Nat, NEW h \in FrameWithin(B), NEW dataWritten \in BOOLEAN
  PROVE  SendMessages(h, B, dataWritten) \in FrameWithin(B)
  <1> DEFINE c     == h.c
             avail == c.windowSize - c.totalSizeOfMessagesSent
             start == c.lastByteSent
             end   == AtMost(B, start + AtMost(MAX_DATA_SIZE, avail - HEADER_SIZE))
             ack   == Control("ACK", c.expected_sequence, c.expected_ack)
             data  == [ack EXCEPT !.start = start, !.end = end]
             g     == CreateMessage(h, data, c.state)
             d     == [g.c EXCEPT !.lastByteSent = end,
                                  !.expected_sequence = @ + (end - start)]
  <1>1. c \in ClientWithin(B)
    BY DEF FrameWithin
  <1>2. /\ start \in 0..B /\ avail \in Int /\ c.state \in State
        /\ c.expected_sequence \in Nat /\ c.expected_ack \in Nat
    BY <1>1 DEF ClientWithin, ClientRecord, Counted
  <1>3. ack \in SegmentWithin(B)
    BY <1>2, ControlWithin DEF Flag
  <1>4. CreateMessage(h, ack, c.state) \in FrameWithin(B)
    BY <1>2, <1>3, CreateMessageWithin
  <1>5. ASSUME start # B, avail > HEADER_SIZE
        PROVE  [g EXCEPT !.c = d] \in FrameWithin(B)
    <2>1. end \in 0..B /\ start <= end
      BY <1>2, <1>5, SizeAssumption DEF AtMost
    <2> HIDE DEF ack, end, start
    <2>2. data \in SegmentWithin(B)
      <3>1. ack \in Segment
        BY <1>3 DEF SegmentWithin, ValidSegment
      <3>2. start \in Nat /\ end \in Nat /\ end <= B
        BY <1>2, <2>1
      <3>3. data \in Segment /\ data.start = start /\ data.end = end
        BY <3>1, <3>2 DEF Segment
      <3> QED
        BY <2>1, <3>2, <3>3 DEF SegmentWithin, ValidSegment
    <2>3. g \in FrameWithin(B)
      BY <1>2, <2>2, CreateMessageWithin
    <2> HIDE DEF g, data
    <2>4. g.c \in ClientWithin(B)
      BY <2>3 DEF FrameWithin
    <2>5. g.c.expected_sequence + (end - start) \in Nat
      BY <1>2, <2>1, <2>4, SMTT(30) DEF ClientWithin, ClientRecord, Counted
    <2>6. d \in ClientWithin(B)
      BY <2>1, <2>4, <2>5 DEF ClientWithin, ClientRecord, Counted
    <2> HIDE DEF d
    <2> QED
      BY <2>3, <2>6 DEF FrameWithin
  <1>6. SendMessages(h, B, dataWritten) =
          IF start # B /\ avail > HEADER_SIZE
          THEN [g EXCEPT !.c.lastByteSent = end,
                         !.c.expected_sequence = @ + (end - start)]
          ELSE IF dataWritten THEN CreateMessage(h, ack, c.state) ELSE h
    BY DEF SendMessages, MaySend
  <1>7. ASSUME start # B, avail > HEADER_SIZE
        PROVE  [g EXCEPT !.c.lastByteSent = end,
                         !.c.expected_sequence = @ + (end - start)]
               = [g EXCEPT !.c = d]
    OBVIOUS
  <1> QED
    BY <1>4, <1>5, <1>6, <1>7

\* sendFin adds a segment without data.
LEMMA SendFinWithin ==
  ASSUME NEW B \in Nat, NEW h \in FrameWithin(B), NEW state \in State
  PROVE  SendFin(h, state) \in FrameWithin(B)
  <1> DEFINE fin == Control("FIN", h.c.expected_sequence, h.c.expected_ack)
             g == CreateMessage(h, fin, state)
             d == [g.c EXCEPT !.isFinSent = TRUE, !.expected_sequence = @ + 1]
  <1>1. h.c.expected_sequence \in Nat /\ h.c.expected_ack \in Nat
    BY DEF FrameWithin, ClientWithin, ClientRecord, Counted
  <1>2. fin \in SegmentWithin(B)
    BY <1>1, ControlWithin DEF Flag
  <1>3. g \in FrameWithin(B)
    BY <1>2, CreateMessageWithin
  <1>4. SendFin(h, state) = [g EXCEPT !.c = d]
    BY DEF SendFin
  <1> HIDE DEF g
  <1>5. g.c \in ClientWithin(B)
    BY <1>3 DEF FrameWithin
  <1>6. g.c.expected_sequence + 1 \in Nat
    BY <1>5 DEF ClientWithin, ClientRecord, Counted
  <1>7. d \in ClientWithin(B)
    BY <1>5, <1>6 DEF ClientWithin, ClientRecord, Counted
  <1> HIDE DEF d
  <1> QED
    BY <1>3, <1>4, <1>7 DEF FrameWithin

\* messageHandler keeps a segment aside, or sends what the window allows and
\* perhaps a FIN.
LEMMA MessageHandlerWithin ==
  ASSUME NEW B \in Nat, NEW h \in FrameWithin(B), NEW seg \in ValidSegment,
         NEW dataWritten \in BOOLEAN, NEW closing \in BOOLEAN
  PROVE  MessageHandler(h, seg, dataWritten, B, closing) \in FrameWithin(B)
  <1> DEFINE c == Acknowledge(h.c, seg)
             f == [h EXCEPT !.c = c]
             g == SendMessages(f, B, dataWritten)
             r == [g EXCEPT !.rcv = IF seg.flag = "FIN" THEN Append(@, seg) ELSE @]
             state == IF r.c.state = "CLOSING" THEN "LAST_ACK" ELSE "FIN_WAIT_1"
  <1>1. c \in ClientWithin(B)
    <2>1. h.c \in ClientWithin(B)
      BY DEF FrameWithin
    <2> QED
      BY <2>1, AcknowledgeWithin
  <1> HIDE DEF c
  <1>2. f \in FrameWithin(B)
    BY <1>1 DEF FrameWithin
  <1> HIDE DEF f
  <1>3. g \in FrameWithin(B)
    BY <1>2, SendMessagesWithin
  <1> HIDE DEF g
  <1>4. r \in FrameWithin(B)
    <2>1. g.rcv \in Seq(ValidSegment) /\ Append(g.rcv, seg) \in Seq(ValidSegment)
      BY <1>3 DEF FrameWithin
    <2> QED
      BY <1>3, <2>1 DEF FrameWithin
  <1> HIDE DEF r
  <1>5. SendFin(r, state) \in FrameWithin(B)
    BY <1>4, SendFinWithin DEF State
  <1>6. Store(f, seg) \in FrameWithin(B)
    BY <1>2, StoreWithin
  <1> HIDE DEF state
  <1>7. MessageHandler(h, seg, dataWritten, B, closing)
          \in {Store(f, seg), SendFin(r, state), r}
    BY DEF MessageHandler, c, f, g, r, state
  <1> QED
    BY <1>4, <1>5, <1>6, <1>7

-----------------------------------------------------------------------------
(* The cases of communicate's switch.                                       *)

\* SYN: the client exists already or is made.
LEMMA HandleSynWithin ==
  ASSUME NEW B \in Nat, NEW c \in ClientWithin(B) \cup {NoClient},
         NEW seg \in ValidSegment
  PROVE  HandleSyn(c, seg) \in FrameWithin(B)
  <1> DEFINE d == IF c = NoClient THEN NewClient("SYN_RECEIVED", seg.seq + 1) ELSE c
             synAck == Control("SYN_ACK", ISN, seg.seq + 1)
             h == CreateMessage(Frame(d), synAck, "SYN_SENT")
             e == [h.c EXCEPT !.expected_sequence = ISN + 1]
  <1>1. seg.seq + 1 \in Nat /\ ISN \in Nat /\ ISN + 1 \in Nat
    BY SizeAssumption DEF ValidSegment, Segment
  <1>2. d \in ClientWithin(B)
    BY <1>1, NewClientWithin DEF State
  <1> HIDE DEF d
  <1>3. synAck \in SegmentWithin(B)
    BY <1>1, ControlWithin DEF Flag
  <1> HIDE DEF synAck
  <1>4. h \in FrameWithin(B)
    BY <1>2, <1>3, FrameOfClient, CreateMessageWithin DEF State
  <1>5. HandleSyn(c, seg) = [h EXCEPT !.c = e]
    BY DEF HandleSyn, d, synAck
  <1> HIDE DEF h
  <1>6. h.c \in ClientWithin(B)
    BY <1>4 DEF FrameWithin
  <1>7. e \in ClientWithin(B)
    BY <1>1, <1>6 DEF ClientWithin, ClientRecord, Counted
  <1> HIDE DEF e
  <1> QED
    BY <1>4, <1>5, <1>7 DEF FrameWithin

\* SYN_ACK: acknowledged, or ignored.
LEMMA HandleSynAckWithin ==
  ASSUME NEW B \in Nat, NEW c \in ClientWithin(B), NEW seg \in ValidSegment
  PROVE  HandleSynAck(c, seg) \in FrameWithin(B)
  <1> DEFINE ack == Control("ACK", c.expected_sequence, seg.seq + 1)
             h == CreateMessage(Frame(c), ack, "ESTABLISHED")
             d == Acknowledge(h.c, seg)
  <1>1. c.expected_sequence \in Nat /\ seg.seq + 1 \in Nat
    BY DEF ClientWithin, ClientRecord, Counted, ValidSegment, Segment
  <1>2. ack \in SegmentWithin(B)
    BY <1>1, ControlWithin DEF Flag
  <1> HIDE DEF ack
  <1>3. h \in FrameWithin(B) /\ Frame(c) \in FrameWithin(B)
    BY <1>2, FrameOfClient, CreateMessageWithin DEF State
  <1>4. HandleSynAck(c, seg) \in {[h EXCEPT !.c = d], Frame(c)}
    BY DEF HandleSynAck, ack
  <1> HIDE DEF h
  <1>5. h.c \in ClientWithin(B)
    BY <1>3 DEF FrameWithin
  <1>6. d \in ClientWithin(B)
    BY <1>5, AcknowledgeWithin
  <1> HIDE DEF d
  <1>7. [h EXCEPT !.c = d] \in FrameWithin(B)
    BY <1>3, <1>6 DEF FrameWithin
  <1> QED
    BY <1>3, <1>4, <1>7

\* FIN: consumed in ESTABLISHED and FIN_WAIT_2, kept aside when early.
LEMMA HandleFinWithin ==
  ASSUME NEW B \in Nat, NEW c \in ClientWithin(B), NEW seg \in ValidSegment,
         NEW closing \in BOOLEAN
  PROVE  HandleFin(c, seg, B, closing) \in FrameWithin(B)
  <1> DEFINE to == IF c.state = "ESTABLISHED" THEN "CLOSING" ELSE "TIME_WAIT"
             finAck == Control("FIN_ACK", c.expected_sequence, seg.seq + 1)
             h  == CreateMessage(Frame(c), finAck, to)
             d  == [h.c EXCEPT !.windowSize = seg.win, !.last_ack = seg.ack,
                               !.expected_sequence = @ + 1]
             g  == [h EXCEPT !.c.windowSize = seg.win, !.c.last_ack = seg.ack,
                             !.c.expected_sequence = @ + 1]
             b  == [c EXCEPT !.windowSize = seg.win]
  <1>1. /\ c.expected_sequence \in Nat /\ seg.seq + 1 \in Nat
        /\ seg.win \in Nat /\ seg.ack \in Nat
    BY SMTT(30) DEF ClientWithin, ClientRecord, Counted, ValidSegment, Segment
  <1>2. finAck \in SegmentWithin(B)
    BY <1>1, ControlWithin DEF Flag
  <1> HIDE DEF finAck
  <1>3. h \in FrameWithin(B) /\ Frame(c) \in FrameWithin(B)
    BY <1>2, FrameOfClient, CreateMessageWithin DEF State
  <1>4. HandleFin(c, seg, B, closing) \in
          {MessageHandler(Frame(c), seg, FALSE, B, closing),
           Store(Frame(b), seg), MessageHandler(g, seg, FALSE, B, closing), g,
           Frame(c)}
    BY DEF HandleFin, finAck
  <1> HIDE DEF h
  <1>5. g \in FrameWithin(B)
    <2>1. h.c \in ClientWithin(B)
      BY <1>3 DEF FrameWithin
    <2>0. h.c.expected_sequence \in Nat
      BY <2>1 DEF ClientWithin, ClientRecord, Counted
    <2>2. h.c.expected_sequence + 1 \in Nat
      BY <2>0
    <2>3. d \in ClientWithin(B)
      BY <1>1, <2>1, <2>2 DEF ClientWithin, ClientRecord, Counted
    <2>4. g = [h EXCEPT !.c = d]
      OBVIOUS
    <2> HIDE DEF d, g
    <2> QED
      BY <1>3, <2>3, <2>4 DEF FrameWithin
  <1> HIDE DEF g
  <1>6. b \in ClientWithin(B)
    BY <1>1 DEF ClientWithin, ClientRecord, Counted
  <1> HIDE DEF b
  <1>7. Store(Frame(b), seg) \in FrameWithin(B)
    BY <1>6, FrameOfClient, StoreWithin
  <1> QED
    BY <1>3, <1>4, <1>5, <1>7, MessageHandlerWithin

\* FIN_ACK: the teardown moves on, or the segment is kept aside.
LEMMA HandleFinAckWithin ==
  ASSUME NEW B \in Nat, NEW c \in ClientWithin(B), NEW seg \in ValidSegment,
         NEW closing \in BOOLEAN
  PROVE  HandleFinAck(c, seg, B, closing) \in FrameWithin(B)
  <1> DEFINE to == CASE c.state = "FIN_WAIT_1" -> "FIN_WAIT_2"
                     [] c.state = "LAST_ACK"   -> "CLOSED"
                     [] OTHER                  -> "NONE"
             a == Acknowledge(c, seg)
             d == [a EXCEPT !.expected_ack = seg.seq + 1, !.state = to]
  <1>1. a \in ClientWithin(B)
    BY AcknowledgeWithin
  <1>2. HandleFinAck(c, seg, B, closing) \in
          {MessageHandler(Frame(c), seg, FALSE, B, closing), Frame(c), Frame(d)}
    BY DEF HandleFinAck
  <1>3. to \in State /\ seg.seq + 1 \in Nat
    BY DEF State, ValidSegment, Segment
  <1> HIDE DEF a, to
  <1>4. d \in ClientWithin(B)
    BY <1>1, <1>3 DEF ClientWithin, ClientRecord, Counted
  <1> HIDE DEF d
  <1> QED
    BY <1>2, <1>4, FrameOfClient, MessageHandlerWithin

\* ACK: the run R of seg, up to last, is consumed, or seg is kept aside.
LEMMA HandleAckWithin ==
  ASSUME NEW B \in Nat, NEW c \in ClientWithin(B), NEW seg \in ValidSegment,
         NEW closing \in BOOLEAN, NEW R, NEW last \in ValidSegment
  PROVE  HandleAck(c, seg, R, last, B, closing) \in FrameWithin(B)
  <1> DEFINE next    == NextSeq(last)
             stopper == {b \in c.messageBuffer : SizeOf(seg) > 0 /\ b.seq = next}
             through == IF stopper = {} THEN last ELSE CHOOSE b \in stopper : TRUE
             rest    == (c.messageBuffer \ (R \ {seg})) \ stopper
             state   == IF c.state = "SYN_SENT" THEN "ESTABLISHED" ELSE c.state
             d == [c EXCEPT !.expected_ack = next, !.messageBuffer = rest,
                            !.state = state]
             written == [through EXCEPT !.seq = next]
             b == [c EXCEPT !.windowSize = seg.win]
  <1>1. next \in Nat
    BY DEF NextSeq, SizeOf, ValidSegment, Segment
  <1>2. c.messageBuffer \in SUBSET ValidSegment /\ c.state \in State
    BY DEF ClientWithin, ClientRecord, Counted
  <1>3. through \in ValidSegment
    BY <1>2
  <1>4. state \in State
    BY <1>2 DEF State
  <1>5. HandleAck(c, seg, R, last, B, closing) \in
          {MessageHandler(Frame(c), seg, FALSE, B, closing), Store(Frame(b), seg),
           MessageHandler(Frame(d), written, SizeOf(seg) > 0, B, closing),
           Frame(c)}
    BY DEF HandleAck
  <1>6. rest \in SUBSET ValidSegment
    BY <1>2
  <1> HIDE DEF next, through, rest, state
  <1>7. written \in ValidSegment
    BY <1>1, <1>3 DEF ValidSegment, Segment
  <1>8. d \in ClientWithin(B)
    BY <1>1, <1>4, <1>6 DEF ClientWithin, ClientRecord, Counted
  <1>9. seg.win \in Nat /\ (SizeOf(seg) > 0) \in BOOLEAN
    BY DEF ValidSegment, Segment
  <1>10. b \in ClientWithin(B)
    BY <1>9 DEF ClientWithin, ClientRecord, Counted
  <1> HIDE DEF written, d, b
  <1> QED
    BY <1>5, <1>7, <1>8, <1>9, <1>10, FrameOfClient, MessageHandlerWithin,
       StoreWithin, ZenonT(30)

\* The offsets a run writes are numbers: every position is covered.
LEMMA WrittenTyped ==
  ASSUME NEW c, NEW seg \in ValidSegment, NEW R \in SUBSET ValidSegment,
         NEW last \in ValidSegment, IsRun(R, last, c, seg)
  PROVE  Written(R, seg, last) \in Seq(Nat)
  <1> DEFINE n == NextSeq(last) - seg.seq
             w == Written(R, seg, last)
  <1>1. n \in Int /\ seg.seq \in Nat /\ NextSeq(last) \in Nat
    BY DEF NextSeq, SizeOf, ValidSegment, Segment
  <1>2. ASSUME NEW i \in 1..n
        PROVE  w[i] \in Nat
    <2> DEFINE k == seg.seq + i - 1
               b == CHOOSE b \in R : Covers(b, k)
    <2>1. k \in seg.seq .. (NextSeq(last) - 1)
      BY <1>1
    <2>2. \E x \in R : Covers(x, k)
      BY <2>1 DEF IsRun
    <2>3. b \in R /\ Covers(b, k)
      BY <2>2
    <2>4. w[i] = b.start + (k - b.seq)
      BY DEF Written
    <2> HIDE DEF b, k, w
    <2>5. b.start \in Nat /\ b.seq \in Nat /\ b.seq <= k /\ k \in Int
      BY <1>1, <2>1, <2>3 DEF Covers, ValidSegment, Segment
    <2> QED
      BY <2>4, <2>5
  <1>3. DOMAIN w = 1..n /\ w = [i \in 1..n |-> w[i]]
    BY DEF Written
  <1> HIDE DEF w
  <1>4. w \in [1..n -> Nat]
    BY <1>2, <1>3
  <1>5. CASE n \in Nat
    BY <1>4, <1>5 DEF w
  <1>6. CASE n \notin Nat
    <2>1. 1..n = 1..0
      BY <1>1, <1>6
    <2>2. w \in [1..0 -> Nat]
      BY <1>4, <2>1
    <2> QED
      BY <2>2 DEF w
  <1> QED
    BY <1>5, <1>6

\* The FIN of the close loop.
LEMMA CloseFrameWithin ==
  ASSUME NEW B \in Nat, NEW c \in ClientWithin(B)
  PROVE  CloseFrame(c, B) \in FrameWithin(B)
  <1> DEFINE state == IF c.state \in {"ESTABLISHED", "CLOSING"}
                      THEN "FIN_WAIT_1" ELSE "LAST_ACK"
  <1>1. CloseFrame(c, B) \in {SendFin(Frame(c), state), Frame(c)}
    BY DEF CloseFrame
  <1>2. state \in State
    BY DEF State
  <1> HIDE DEF state
  <1> QED
    BY <1>1, <1>2, FrameOfClient, SendFinWithin

\* A retransmission carries the range of the entry it repeats.
LEMMA RetransmitWithin ==
  ASSUME NEW B \in Nat, NEW c \in ClientWithin(B), c.messagesSent # <<>>
  PROVE  Retransmit(c) \in FrameWithin(B)
  <1> DEFINE f == Head(c.messagesSent)
             d == [c EXCEPT !.totalSizeOfMessagesSent = @ + HEADER_SIZE + f.size]
             seg == [flag |-> f.flag, seq |-> f.seq, ack |-> c.expected_ack,
                     win |-> c.windowSize, start |-> f.start,
                     end |-> f.start + f.size]
             g == CreateMessage(Frame(d), seg, c.state)
             e == [g.c EXCEPT !.number_of_timeouts = @ + 1]
  <1>1. /\ c.messagesSent \in Seq(InfoWithin(B))
        /\ c.totalSizeOfMessagesSent \in Int /\ c.expected_ack \in Nat
        /\ c.windowSize \in Nat /\ c.state \in State
    BY DEF ClientWithin, ClientRecord, Counted
  <1>2. f \in InfoWithin(B)
    BY <1>1
  <1>3. Retransmit(c) = [g EXCEPT !.c = e]
    BY DEF Retransmit
  <1> HIDE DEF f
  <1>4. /\ f.start \in Nat /\ f.size \in Nat /\ f.flag \in Flag /\ f.seq \in Nat
        /\ f.start + f.size <= B
    BY <1>2 DEF InfoWithin, SegmentInfo
  <1>5. seg \in SegmentWithin(B)
    BY <1>1, <1>4 DEF SegmentWithin, ValidSegment, Segment
  <1>6. c.totalSizeOfMessagesSent + HEADER_SIZE + f.size \in Int
    BY <1>1, <1>4, SizeAssumption
  <1>7. d \in ClientWithin(B)
    <2> DEFINE t == c.totalSizeOfMessagesSent + HEADER_SIZE + f.size
    <2>1. ByteCount(c.messagesSent) \in Nat
      <3>1. c.messagesSent \in Seq(SegmentInfo)
        BY <1>1, SeqMonotone DEF InfoWithin
      <3> QED
        BY <3>1, ByteCountTyped
    <2>2. t >= ByteCount(c.messagesSent)
      BY <1>1, <1>4, <2>1, SizeAssumption, SMTT(30) DEF ClientWithin, Counted
    <2>3. t \in Int
      BY <1>6
    <2> HIDE DEF t
    <2>4. [c EXCEPT !.totalSizeOfMessagesSent = t] \in ClientWithin(B)
      BY <2>2, <2>3 DEF ClientWithin, ClientRecord, Counted
    <2>5. d = [c EXCEPT !.totalSizeOfMessagesSent = t]
      BY DEF t
    <2> QED
      BY <2>4, <2>5
  <1> HIDE DEF seg, d
  <1>8. g \in FrameWithin(B)
    BY <1>1, <1>5, <1>7, FrameOfClient, CreateMessageWithin
  <1> HIDE DEF g
  <1>9. g.c \in ClientWithin(B)
    BY <1>8 DEF FrameWithin
  <1>10. g.c.number_of_timeouts \in Nat
    BY <1>9 DEF ClientWithin, ClientRecord, Counted
  <1>11. g.c.number_of_timeouts + 1 \in Nat
    BY <1>10
  <1>12. e \in ClientWithin(B)
    BY <1>9, <1>11 DEF ClientWithin, ClientRecord, Counted
  <1> HIDE DEF e
  <1> QED
    BY <1>3, <1>8, <1>12 DEF FrameWithin

-----------------------------------------------------------------------------
(* The inductive invariant.  TypeOK alone is not preserved: the range a      *)
(* handler sends must lie inside sendBuffer to have a size in Nat, and the   *)
(* entries of messagesSent must for their retransmission to.                 *)

Clients(buffer) ==
  {C \in [Node -> [Node -> Client \cup {NoClient}]] :
     \A n, p \in Node : C[n][p] \in ClientWithin(buffer[n]) \cup {NoClient}}

SenderQueues(buffer) ==
  {Q \in [Node -> [Node -> Seq(OutItem)]] :
     \A n, p \in Node : Q[n][p] \in Seq(ItemWithin(buffer[n]))}

ProtocolWithin ==
  /\ sendBuffer \in [Node -> Nat]
  /\ clients \in Clients(sendBuffer)
  /\ senderQueue \in SenderQueues(sendBuffer)

ArrivalsValid ==
  /\ receiverQueue \in [Node -> Seq(Arrival)]
  /\ network \in [Node -> [Node -> Seq(ValidSegment)]]
  /\ file \in [Node -> [Node -> Seq(Nat)]]

ControlTyped ==
  /\ inputQueue \in [Node -> Seq(Nat)]
  /\ timeToClose \in [Node -> BOOLEAN]
  /\ phase \in [Node -> Phase]
  /\ dialing \in [Node -> [peer : Node \cup {NoNode},
                           step : {"idle", "emplace", "syn", "sequence"}]]
  /\ undialled \subseteq Node \X Node
  /\ inputs \in Nat /\ faults \in Nat /\ expiries \in [Node -> Nat]

IInv == ProtocolWithin /\ ArrivalsValid /\ ControlTyped

\* The inductive invariant implies the type invariant.
LEMMA IInvTypeOK == IInv => TypeOK
  <1> SUFFICES ASSUME IInv PROVE TypeOK
    OBVIOUS
  <1>1. receiverQueue \in [Node -> Seq([from : Node, seg : Segment])]
    <2>1. Arrival \subseteq [from : Node, seg : Segment]
      BY DEF Arrival, ValidSegment
    <2>2. ASSUME NEW n \in Node
          PROVE  receiverQueue[n] \in Seq([from : Node, seg : Segment])
      <3>1. receiverQueue[n] \in Seq(Arrival)
        BY DEF IInv, ArrivalsValid
      <3> QED
        BY <2>1, <3>1, SeqMonotone
    <2> QED
      BY <2>2 DEF IInv, ArrivalsValid
  <1>2. network \in [Node -> [Node -> Seq(Segment)]]
    <2>1. ValidSegment \subseteq Segment
      BY DEF ValidSegment
    <2>2. ASSUME NEW n \in Node, NEW p \in Node
          PROVE  network[n][p] \in Seq(Segment)
      BY <2>1, SeqMonotone DEF IInv, ArrivalsValid
    <2> QED
      BY <2>2 DEF IInv, ArrivalsValid
  <1> QED
    BY <1>1, <1>2 DEF IInv, ProtocolWithin, ArrivalsValid, ControlTyped, TypeOK,
       Clients, SenderQueues

\* The inductive invariant implies that the sender thread reads in bounds.
LEMMA IInvInBounds == IInv => SenderReadsInBounds
  <1> SUFFICES ASSUME IInv, NEW n \in Node, NEW p \in Node
               PROVE  /\ \A i \in DOMAIN senderQueue[n][p] :
                           LET seg == senderQueue[n][p][i].seg
                           IN seg.start <= seg.end /\ seg.end <= sendBuffer[n]
                      /\ clients[n][p] # NoClient =>
                           /\ clients[n][p].lastByteSent <= sendBuffer[n]
                           /\ \A i \in DOMAIN clients[n][p].messagesSent :
                                LET e == clients[n][p].messagesSent[i]
                                IN e.start + e.size <= sendBuffer[n]
    BY DEF SenderReadsInBounds
  <1>1. /\ sendBuffer[n] \in Nat
        /\ senderQueue[n][p] \in Seq(ItemWithin(sendBuffer[n]))
        /\ clients[n][p] \in ClientWithin(sendBuffer[n]) \cup {NoClient}
    BY DEF IInv, ProtocolWithin, Clients, SenderQueues
  <1>2. ASSUME NEW i \in DOMAIN senderQueue[n][p]
        PROVE  LET seg == senderQueue[n][p][i].seg
               IN seg.start <= seg.end /\ seg.end <= sendBuffer[n]
    <2>1. senderQueue[n][p][i] \in ItemWithin(sendBuffer[n])
      BY <1>1
    <2> QED
      BY <2>1 DEF ItemWithin, SegmentWithin, ValidSegment
  <1>3. ASSUME clients[n][p] # NoClient
        PROVE  /\ clients[n][p].lastByteSent <= sendBuffer[n]
               /\ clients[n][p].messagesSent \in Seq(InfoWithin(sendBuffer[n]))
    <2>1. clients[n][p] \in ClientRecord(sendBuffer[n])
      BY <1>1, <1>3 DEF ClientWithin
    <2>2. /\ clients[n][p].lastByteSent \in 0..sendBuffer[n]
          /\ clients[n][p].messagesSent \in Seq(InfoWithin(sendBuffer[n]))
      BY <2>1 DEF ClientRecord
    <2> QED
      BY <1>1, <2>2
  <1>4. ASSUME clients[n][p] # NoClient,
               NEW i \in DOMAIN clients[n][p].messagesSent
        PROVE  LET e == clients[n][p].messagesSent[i]
               IN e.start + e.size <= sendBuffer[n]
    <2>1. clients[n][p].messagesSent[i] \in InfoWithin(sendBuffer[n])
      BY <1>3, <1>4
    <2> QED
      BY <2>1 DEF InfoWithin
  <1> QED
    BY <1>2, <1>3, <1>4

\* The inductive invariant implies that checkFront cannot wrap the total.
LEMMA IInvNoUnderflow == IInv => NoUnderflow
  BY DEF IInv, ProtocolWithin, Clients, ClientWithin, Counted, NoUnderflow

\* Replacing one client.
LEMMA UpdateClient ==
  ASSUME NEW buffer \in [Node -> Nat], NEW C \in Clients(buffer),
         NEW n \in Node, NEW p \in Node,
         NEW c \in ClientWithin(buffer[n]) \cup {NoClient}
  PROVE  [C EXCEPT ![n][p] = c] \in Clients(buffer)
  <1>1. c \in Client \cup {NoClient}
    BY WithinTyped
  <1> QED
    BY <1>1 DEF Clients

\* Pushing items on one queue.
LEMMA UpdateQueue ==
  ASSUME NEW buffer \in [Node -> Nat], NEW Q \in SenderQueues(buffer),
         NEW n \in Node, NEW p \in Node,
         NEW q \in Seq(ItemWithin(buffer[n]))
  PROVE  [Q EXCEPT ![n][p] = q] \in SenderQueues(buffer)
  <1>1. q \in Seq(OutItem)
    BY WithinTyped
  <1> QED
    BY <1>1 DEF SenderQueues

\* The initial state.
LEMMA InitIInv == Init => IInv
  <1> SUFFICES ASSUME Init PROVE IInv
    OBVIOUS
  <1>1. sendBuffer \in [Node -> Nat] /\ \A n \in Node : sendBuffer[n] = 0
    BY DEF Init
  <1>2. NewClient("NONE", 0) \in ClientWithin(0)
    BY NewClientWithin DEF State
  <1>3. NewClient("NONE", 0) \in Client
    BY <1>2, WithinTyped
  <1>4. clients \in Clients(sendBuffer)
    BY <1>1, <1>2, <1>3 DEF Init, Clients
  <1>5. senderQueue \in SenderQueues(sendBuffer)
    <2>1. /\ senderQueue = [n \in Node |-> [p \in Node |-> <<>>]]
          /\ \A n, p \in Node : senderQueue[n][p] = <<>>
      BY DEF Init
    <2>2. \A S : <<>> \in Seq(S)
      OBVIOUS
    <2>3. senderQueue \in [Node -> [Node -> Seq(OutItem)]]
      BY <2>1, <2>2
    <2> QED
      BY <2>1, <2>2, <2>3 DEF SenderQueues
  <1> QED
    BY <1>1, <1>4, <1>5, NodeAssumption DEF Init, IInv, ProtocolWithin,
       ArrivalsValid, ControlTyped, Phase

-----------------------------------------------------------------------------
(* The steps of the communicate thread.                                     *)

\* The head of receiverQueue is a valid segment from a node.
LEMMA ArrivalHead ==
  ASSUME IInv, NEW n \in Node, receiverQueue[n] # <<>>
  PROVE  /\ Head(receiverQueue[n]) \in Arrival
         /\ Head(receiverQueue[n]).from \in Node
         /\ Head(receiverQueue[n]).seg \in ValidSegment
         /\ Tail(receiverQueue[n]) \in Seq(Arrival)
  <1>1. receiverQueue[n] \in Seq(Arrival)
    BY DEF IInv, ArrivalsValid
  <1>2. Head(receiverQueue[n]) \in Arrival /\ Tail(receiverQueue[n]) \in Seq(Arrival)
    BY <1>1
  <1> QED
    BY <1>2 DEF Arrival

\* What the invariant says of one peer.
LEMMA OnePeer ==
  ASSUME IInv, NEW n \in Node, NEW p \in Node
  PROVE  /\ sendBuffer[n] \in Nat
         /\ clients[n][p] \in ClientWithin(sendBuffer[n]) \cup {NoClient}
         /\ senderQueue[n][p] \in Seq(ItemWithin(sendBuffer[n]))
         /\ timeToClose[n] \in BOOLEAN
  BY DEF IInv, ProtocolWithin, ControlTyped, Clients, SenderQueues

\* A handled segment leaves its client, its items and what it pushes back.
LEMMA HandledStep ==
  ASSUME IInv, NEW n \in Node, receiverQueue[n] # <<>>,
         NEW h \in FrameWithin(sendBuffer[n]), Handled(n, h),
         file' \in [Node -> [Node -> Seq(Nat)]]
  PROVE  IInv'
  <1> DEFINE p == Head(receiverQueue[n]).from
             q == senderQueue[n][p] \o h.snd
             back == [i \in DOMAIN h.rcv |-> [from |-> p, seg |-> h.rcv[i]]]
             r == Tail(receiverQueue[n]) \o back
  <1>1. p \in Node /\ Tail(receiverQueue[n]) \in Seq(Arrival)
    BY ArrivalHead
  <1>2. /\ h.c \in ClientWithin(sendBuffer[n]) /\ h.rcv \in Seq(ValidSegment)
        /\ h.snd \in Seq(ItemWithin(sendBuffer[n])) /\ h.alive \in BOOLEAN
    BY DEF FrameWithin
  <1>3. /\ clients' = [clients EXCEPT ![n][p] = h.c]
        /\ senderQueue' = [senderQueue EXCEPT ![n][p] = q]
        /\ receiverQueue' = [receiverQueue EXCEPT ![n] = r]
        /\ phase' = [phase EXCEPT ![n] = IF h.alive THEN @ ELSE "crashed"]
        /\ UNCHANGED <<sendBuffer, inputQueue, network, timeToClose, dialVars,
                       boundVars>>
    BY DEF Handled
  <1>4. back \in Seq(Arrival)
    <2>1. DOMAIN h.rcv = 1..Len(h.rcv) /\ Len(h.rcv) \in Nat
      BY <1>2
    <2>2. \A i \in 1..Len(h.rcv) : [from |-> p, seg |-> h.rcv[i]] \in Arrival
      BY <1>1, <1>2 DEF Arrival
    <2>3. back \in [1..Len(h.rcv) -> Arrival]
      BY <2>1, <2>2
    <2> QED
      BY <2>1, <2>3
  <1> HIDE DEF p, back
  <1>5. r \in Seq(Arrival)
    BY <1>1, <1>4
  <1>6. q \in Seq(ItemWithin(sendBuffer[n]))
    <2>1. senderQueue[n][p] \in Seq(ItemWithin(sendBuffer[n]))
      BY <1>1, OnePeer
    <2> QED
      BY <1>2, <2>1
  <1> HIDE DEF q, r
  <1>7. ProtocolWithin'
    <2>1. clients' \in Clients(sendBuffer)
      BY <1>1, <1>2, <1>3, UpdateClient DEF IInv, ProtocolWithin
    <2>2. senderQueue' \in SenderQueues(sendBuffer)
      BY <1>1, <1>3, <1>6, UpdateQueue DEF IInv, ProtocolWithin
    <2>3. sendBuffer' = sendBuffer
      BY <1>3
    <2> QED
      BY <2>1, <2>2, <2>3 DEF IInv, ProtocolWithin
  <1>8. ArrivalsValid'
    BY <1>3, <1>5 DEF IInv, ArrivalsValid
  <1>9. ControlTyped'
    BY <1>3 DEF IInv, ControlTyped, Phase, dialVars, boundVars
  <1> QED
    BY <1>7, <1>8, <1>9 DEF IInv

\* Each case of the switch preserves the invariant.
LEMMA ReceiveStep ==
  ASSUME IInv, NEW n \in Node, Receive(n)
  PROVE  IInv'
  <1> DEFINE m == Head(receiverQueue[n])
             c == clients[n][m.from]
             B == sendBuffer[n]
  <1>1. receiverQueue[n] # <<>>
    BY DEF Receive, ReceiveSyn, ReceiveSynAck, ReceiveFin, ReceiveFinAck,
           ReceiveAck, ReceiveUnknown, Arrived
  <1>2. m.from \in Node /\ m.seg \in ValidSegment
    BY <1>1, ArrivalHead
  <1>3. B \in Nat /\ c \in ClientWithin(B) \cup {NoClient} /\ timeToClose[n] \in BOOLEAN
    BY <1>2, OnePeer
  <1>4. Known(n) => c \in ClientWithin(B)
    BY <1>3 DEF Known
  <1>5. file \in [Node -> [Node -> Seq(Nat)]]
    BY DEF IInv, ArrivalsValid
  <1>6. CASE ReceiveSyn(n)
    <2>1. Handled(n, HandleSyn(c, m.seg)) /\ file' = file
      BY <1>6 DEF ReceiveSyn
    <2>2. HandleSyn(c, m.seg) \in FrameWithin(B)
      BY <1>2, <1>3, HandleSynWithin
    <2> QED
      BY <1>1, <1>5, <2>1, <2>2, HandledStep
  <1>7. CASE ReceiveSynAck(n)
    <2>1. Handled(n, HandleSynAck(c, m.seg)) /\ file' = file /\ Known(n)
      BY <1>7 DEF ReceiveSynAck
    <2>2. HandleSynAck(c, m.seg) \in FrameWithin(B)
      BY <1>2, <1>3, <1>4, <2>1, HandleSynAckWithin
    <2> QED
      BY <1>1, <1>5, <2>1, <2>2, HandledStep
  <1>8. CASE ReceiveFin(n)
    <2>1. /\ Handled(n, HandleFin(c, m.seg, B, timeToClose[n]))
          /\ file' = file /\ Known(n)
      BY <1>8 DEF ReceiveFin
    <2>2. HandleFin(c, m.seg, B, timeToClose[n]) \in FrameWithin(B)
      BY <1>2, <1>3, <1>4, <2>1, HandleFinWithin
    <2> QED
      BY <1>1, <1>5, <2>1, <2>2, HandledStep
  <1>9. CASE ReceiveFinAck(n)
    <2>1. /\ Handled(n, HandleFinAck(c, m.seg, B, timeToClose[n]))
          /\ file' = file /\ Known(n)
      BY <1>9 DEF ReceiveFinAck
    <2>2. HandleFinAck(c, m.seg, B, timeToClose[n]) \in FrameWithin(B)
      BY <1>2, <1>3, <1>4, <2>1, HandleFinAckWithin
    <2> QED
      BY <1>1, <1>5, <2>1, <2>2, HandledStep
  <1>10. CASE ReceiveAck(n)
    <2>1. Known(n)
      BY <1>10 DEF ReceiveAck
    <2>2. PICK R \in {S \cup {m.seg} : S \in SUBSET c.messageBuffer} :
            \E last \in R :
              /\ IsRun(R, last, c, m.seg)
              /\ Handled(n, HandleAck(c, m.seg, R, last, B, timeToClose[n]))
              /\ file' = [file EXCEPT ![n][m.from] =
                   IF m.seg.seq = c.expected_ack /\ AckInRange(c, m.seg)
                   THEN @ \o Written(R, m.seg, last) ELSE @]
      BY <1>10 DEF ReceiveAck
    <2>3. PICK last \in R :
              /\ IsRun(R, last, c, m.seg)
              /\ Handled(n, HandleAck(c, m.seg, R, last, B, timeToClose[n]))
              /\ file' = [file EXCEPT ![n][m.from] =
                   IF m.seg.seq = c.expected_ack /\ AckInRange(c, m.seg)
                   THEN @ \o Written(R, m.seg, last) ELSE @]
      BY <2>2
    <2>4. c.messageBuffer \in SUBSET ValidSegment
      BY <1>4, <2>1 DEF ClientWithin, ClientRecord, Counted
    <2>5. R \in SUBSET ValidSegment /\ last \in ValidSegment
      BY <1>2, <2>2, <2>4
    <2>6. Written(R, m.seg, last) \in Seq(Nat)
      BY <1>2, <2>3, <2>5, WrittenTyped
    <2>7. HandleAck(c, m.seg, R, last, B, timeToClose[n]) \in FrameWithin(B)
      BY <1>2, <1>3, <1>4, <2>1, <2>5, HandleAckWithin
    <2>8. file' \in [Node -> [Node -> Seq(Nat)]]
      <3> DEFINE w == Written(R, m.seg, last)
                 x == IF m.seg.seq = c.expected_ack /\ AckInRange(c, m.seg)
                      THEN file[n][m.from] \o w ELSE file[n][m.from]
      <3>1. file[n][m.from] \in Seq(Nat)
        BY <1>2, <1>5
      <3>2. x \in Seq(Nat)
        BY <2>6, <3>1
      <3>3. file' = [file EXCEPT ![n][m.from] = x]
        BY <2>3
      <3> HIDE DEF x
      <3> QED
        BY <1>2, <1>5, <3>2, <3>3
    <2> QED
      BY <1>1, <2>3, <2>7, <2>8, HandledStep
  <1>11. CASE ReceiveUnknown(n)
    <2>1. /\ receiverQueue' = [receiverQueue EXCEPT ![n] = Tail(@)]
          /\ UNCHANGED <<clients, sendBuffer, inputQueue, senderQueue, network,
                         file, timeToClose, phase, dialVars, boundVars>>
      BY <1>11 DEF ReceiveUnknown
    <2>2. Tail(receiverQueue[n]) \in Seq(Arrival)
      BY <1>1, ArrivalHead
    <2>3. receiverQueue' \in [Node -> Seq(Arrival)]
      BY <2>1, <2>2 DEF IInv, ArrivalsValid
    <2> QED
      BY <2>1, <2>3 DEF IInv, ProtocolWithin, ArrivalsValid, ControlTyped,
         dialVars, boundVars
  <1> QED
    BY <1>6, <1>7, <1>8, <1>9, <1>10, <1>11 DEF Receive

\* Items that lose their entry still carry the same segments.
LEMMA UnpushedWithin ==
  ASSUME NEW B \in Nat, NEW q \in Seq(ItemWithin(B))
  PROVE  [i \in DOMAIN q |-> [q[i] EXCEPT !.pushed = FALSE]] \in Seq(ItemWithin(B))
  <1>1. DOMAIN q = 1..Len(q) /\ Len(q) \in Nat
    OBVIOUS
  <1>2. \A i \in 1..Len(q) : q[i] \in ItemWithin(B)
    OBVIOUS
  <1>3. \A i \in 1..Len(q) : [q[i] EXCEPT !.pushed = FALSE] \in ItemWithin(B)
    BY <1>2 DEF ItemWithin
  <1> QED
    BY <1>1, <1>3

\* A branch of the loop that acts on every client, the send buffer growing to B.
LEMMA HandledAllStep ==
  ASSUME IInv, NEW n \in Node, NEW B \in Nat, sendBuffer[n] <= B, NEW gone, NEW h,
         \A p \in Node : \/ h[p] \in FrameWithin(B)
                         \/ h[p].c = NoClient /\ h[p].snd = <<>>,
         HandledAll(n, h, gone), sendBuffer' = [sendBuffer EXCEPT ![n] = B]
  PROVE  ProtocolWithin'
  <1> DEFINE q(p) == senderQueue[n][p] \o h[p].snd
             r(p) == IF p \in gone
                     THEN [i \in DOMAIN q(p) |-> [q(p)[i] EXCEPT !.pushed = FALSE]]
                     ELSE q(p)
             d(p) == IF p \in gone THEN NoClient ELSE h[p].c
  <1>1. /\ sendBuffer \in [Node -> Nat] /\ clients \in Clients(sendBuffer)
        /\ senderQueue \in SenderQueues(sendBuffer)
    BY DEF IInv, ProtocolWithin
  <1>2. sendBuffer' \in [Node -> Nat] /\ sendBuffer'[n] = B
    BY <1>1
  <1>3. ASSUME NEW p \in Node
        PROVE  d(p) \in ClientWithin(B) \cup {NoClient} /\ r(p) \in Seq(ItemWithin(B))
    <2>1. h[p].c \in ClientWithin(B) \cup {NoClient} /\ h[p].snd \in Seq(ItemWithin(B))
      <3>1. <<>> \in Seq(ItemWithin(B))
        OBVIOUS
      <3> QED
        BY <3>1 DEF FrameWithin
    <2>2. senderQueue[n][p] \in Seq(ItemWithin(B))
      BY <1>1, OnePeer, WithinMonotone
    <2>3. q(p) \in Seq(ItemWithin(B))
      BY <2>1, <2>2
    <2> HIDE DEF q
    <2> QED
      BY <2>1, <2>3, UnpushedWithin
  <1>4. clients' = [clients EXCEPT ![n] = [p \in Node |-> d(p)]]
    BY DEF HandledAll
  <1>5. senderQueue' = [senderQueue EXCEPT ![n] = [p \in Node |-> r(p)]]
    BY <1>1 DEF HandledAll, SenderQueues
  <1> HIDE DEF d, r
  <1>6. clients' \in Clients(sendBuffer')
    <2>1. \A p \in Node : d(p) \in Client \cup {NoClient}
      BY <1>3, WithinTyped
    <2>2. clients' \in [Node -> [Node -> Client \cup {NoClient}]]
      BY <1>1, <1>4, <2>1 DEF Clients
    <2>3. ASSUME NEW m \in Node, NEW p \in Node
          PROVE  clients'[m][p] \in ClientWithin(sendBuffer'[m]) \cup {NoClient}
      <3>1. CASE m = n
        BY <1>1, <1>2, <1>3, <1>4, <3>1 DEF Clients
      <3>2. CASE m # n
        BY <1>1, <1>4, <3>2 DEF Clients
      <3> QED
        BY <3>1, <3>2
    <2> QED
      BY <2>2, <2>3 DEF Clients
  <1>7. senderQueue' \in SenderQueues(sendBuffer')
    <2>1. \A p \in Node : r(p) \in Seq(OutItem)
      BY <1>3, WithinTyped
    <2>2. senderQueue' \in [Node -> [Node -> Seq(OutItem)]]
      BY <1>1, <1>5, <2>1 DEF SenderQueues
    <2>3. ASSUME NEW m \in Node, NEW p \in Node
          PROVE  senderQueue'[m][p] \in Seq(ItemWithin(sendBuffer'[m]))
      <3>1. CASE m = n
        BY <1>1, <1>2, <1>3, <1>5, <3>1 DEF SenderQueues
      <3>2. CASE m # n
        BY <1>1, <1>5, <3>2 DEF SenderQueues
      <3> QED
        BY <3>1, <3>2
    <2> QED
      BY <2>2, <2>3 DEF SenderQueues
  <1> QED
    BY <1>2, <1>6, <1>7 DEF ProtocolWithin

\* A client of a connected peer lies inside the buffer, shorter or longer.
LEMMA OpenedWithin ==
  ASSUME IInv, NEW n \in Node, NEW p \in Opened(n), NEW B \in Nat,
         sendBuffer[n] <= B
  PROVE  clients[n][p] \in ClientWithin(B)
  <1>1. p \in Node /\ clients[n][p] # NoClient
    BY DEF Opened
  <1> QED
    BY <1>1, OnePeer, WithinMonotone

\* A node has finitely many peers.
LEMMA PeersFinite ==
  ASSUME NEW S, S \subseteq Node
  PROVE  Cardinality(S) \in Nat
  BY NodeAssumption, FS_Subset, FS_CardinalityType

\* An input lengthens sendBuffer before anything of it is sent.
LEMMA InsertInputStep ==
  ASSUME IInv, NEW n \in Node, InsertInput(n)
  PROVE  IInv'
  <1> DEFINE size == sendBuffer[n] + Head(inputQueue[n])
             h    == [p \in Node |->
                        IF /\ p \in Opened(n)
                           /\ clients[n][p].state \in {"ESTABLISHED", "CLOSING"}
                        THEN SendMessages(Frame(clients[n][p]), size, FALSE)
                        ELSE Frame(clients[n][p])]
  <1>1. /\ inputQueue[n] # <<>> /\ inputQueue' = [inputQueue EXCEPT ![n] = Tail(@)]
        /\ sendBuffer' = [sendBuffer EXCEPT ![n] = size]
        /\ HandledAll(n, h, {})
        /\ UNCHANGED <<receiverQueue, network, file, timeToClose, phase,
                       dialVars, boundVars>>
    BY DEF InsertInput
  <1>2. inputQueue \in [Node -> Seq(Nat)] /\ sendBuffer[n] \in Nat
    BY DEF IInv, ControlTyped, ProtocolWithin
  <1>3. Head(inputQueue[n]) \in Nat /\ Tail(inputQueue[n]) \in Seq(Nat)
    <2>1. inputQueue[n] \in Seq(Nat)
      BY <1>2
    <2> QED
      BY <1>1, <2>1
  <1>4. size \in Nat /\ sendBuffer[n] <= size
    BY <1>2, <1>3
  <1> HIDE DEF size
  <1>5. ASSUME NEW p \in Node
        PROVE  h[p] \in FrameWithin(size) \/ (h[p].c = NoClient /\ h[p].snd = <<>>)
    <2>1. CASE p \in Opened(n)
      <3>1. clients[n][p] \in ClientWithin(size)
        BY <1>4, <2>1, OpenedWithin
      <3>2. Frame(clients[n][p]) \in FrameWithin(size)
        BY <1>4, <3>1, FrameOfClient
      <3>3. SendMessages(Frame(clients[n][p]), size, FALSE) \in FrameWithin(size)
        BY <1>4, <3>2, SendMessagesWithin
      <3> QED
        BY <3>2, <3>3
    <2>2. CASE p \notin Opened(n)
      BY <2>2 DEF Opened, Frame
    <2> QED
      BY <2>1, <2>2
  <1> HIDE DEF h
  <1>6. ProtocolWithin'
    BY <1>1, <1>4, <1>5, HandledAllStep
  <1>7. ArrivalsValid'
    BY <1>1 DEF IInv, ArrivalsValid
  <1>8. ControlTyped'
    BY <1>1, <1>2, <1>3 DEF IInv, ControlTyped, dialVars, boundVars
  <1> QED
    BY <1>6, <1>7, <1>8 DEF IInv

\* The close loop and the timer loop work on the buffer as it stands.
LEMMA SameBuffer ==
  ASSUME IInv, NEW n \in Node, sendBuffer' = sendBuffer
  PROVE  /\ sendBuffer[n] \in Nat /\ sendBuffer[n] <= sendBuffer[n]
         /\ sendBuffer' = [sendBuffer EXCEPT ![n] = sendBuffer[n]]
  BY DEF IInv, ProtocolWithin

\* The close loop sends FINs and erases clients.
LEMMA CloseClientsStep ==
  ASSUME IInv, NEW n \in Node, CloseClients(n)
  PROVE  IInv'
  <1> DEFINE B == sendBuffer[n]
             h == [p \in Node |-> IF p \in Opened(n)
                                  THEN CloseFrame(clients[n][p], B)
                                  ELSE Frame(clients[n][p])]
  <1>1. PICK gone : HandledAll(n, h, gone)
    BY DEF CloseClients
  <1>2. UNCHANGED <<sendBuffer, inputQueue, receiverQueue, network, file,
                    timeToClose, phase, dialVars, boundVars>>
    BY DEF CloseClients
  <1>3. B \in Nat /\ B <= B /\ sendBuffer' = [sendBuffer EXCEPT ![n] = B]
    BY <1>2, SameBuffer
  <1>4. ASSUME NEW p \in Node
        PROVE  h[p] \in FrameWithin(B) \/ (h[p].c = NoClient /\ h[p].snd = <<>>)
    <2>1. CASE p \in Opened(n)
      <3>1. clients[n][p] \in ClientWithin(B)
        BY <1>3, <2>1, OpenedWithin
      <3> QED
        BY <1>3, <2>1, <3>1, CloseFrameWithin
    <2>2. CASE p \notin Opened(n)
      BY <2>2 DEF Opened, Frame
    <2> QED
      BY <2>1, <2>2
  <1> HIDE DEF h
  <1>5. ProtocolWithin'
    BY <1>1, <1>3, <1>4, HandledAllStep
  <1> QED
    BY <1>2, <1>5 DEF IInv, ArrivalsValid, ControlTyped, dialVars, boundVars

\* The timer loop retransmits and erases clients.
LEMMA MessageResendCheckStep ==
  ASSUME IInv, NEW n \in Node, MessageResendCheck(n)
  PROVE  IInv'
  <1> DEFINE B == sendBuffer[n]
             c(p)   == clients[n][p]
             closed == {p \in Opened(n) : c(p).state = "CLOSED"}
             timed  == {p \in Opened(n) \ closed : MayExpire(n, p)}
             h(expired) == [p \in Node |-> IF p \in expired THEN Retransmit(c(p))
                                           ELSE Frame(c(p))]
  <1>1. PICK expired \in SUBSET timed :
          /\ expiries' = [expiries EXCEPT ![n] = @ + Cardinality(expired)]
          /\ HandledAll(n, h(expired), closed \cup
               {p \in expired : h(expired)[p].c.number_of_timeouts > MAX_TIMEOUTS})
    BY DEF MessageResendCheck, GivenUp
  <1>2. UNCHANGED <<sendBuffer, inputQueue, receiverQueue, network, file,
                    timeToClose, phase, dialVars, inputs, faults>>
    BY DEF MessageResendCheck
  <1>3. B \in Nat /\ B <= B /\ sendBuffer' = [sendBuffer EXCEPT ![n] = B]
    BY <1>2, SameBuffer
  <1>4. expired \subseteq Node /\ Cardinality(expired) \in Nat
    BY PeersFinite DEF Opened
  <1>5. ASSUME NEW p \in Node
        PROVE  \/ h(expired)[p] \in FrameWithin(B)
               \/ h(expired)[p].c = NoClient /\ h(expired)[p].snd = <<>>
    <2>1. CASE p \in Opened(n)
      <3>1. clients[n][p] \in ClientWithin(B)
        BY <1>3, <2>1, OpenedWithin
      <3>2. Frame(clients[n][p]) \in FrameWithin(B)
        BY <1>3, <3>1, FrameOfClient
      <3>3. p \in expired => clients[n][p].messagesSent # <<>>
        BY DEF MayExpire, FrontStamped
      <3>4. p \in expired => Retransmit(clients[n][p]) \in FrameWithin(B)
        BY <1>3, <3>1, <3>3, RetransmitWithin
      <3> QED
        BY <3>2, <3>4
    <2>2. CASE p \notin Opened(n)
      <3>1. p \notin expired /\ clients[n][p] = NoClient
        BY <2>2 DEF Opened
      <3> QED
        BY <3>1 DEF Frame
    <2> QED
      BY <2>1, <2>2
  <1>6. ProtocolWithin'
    <2> HIDE DEF h, closed
    <2> QED
      BY <1>1, <1>3, <1>5, HandledAllStep
  <1>7. expiries' \in [Node -> Nat]
    BY <1>1, <1>4 DEF IInv, ControlTyped
  <1> QED
    BY <1>2, <1>6, <1>7 DEF IInv, ArrivalsValid, ControlTyped, dialVars

\* The SYN that communicate sends before its loop.
LEMMA StartStep ==
  ASSUME IInv, NEW n \in Node, Start(n)
  PROVE  IInv'
  <1> DEFINE p == Target[n]
             B == sendBuffer[n]
             h == CreateMessage(Frame(clients[n][p]), Control("SYN", ISN, 0),
                                "SYN_SENT")
             d == [h.c EXCEPT !.expected_sequence = ISN + 1]
  <1>1. UNCHANGED <<sendBuffer, inputQueue, receiverQueue, network, file,
                    timeToClose, dialVars, boundVars>>
    BY DEF Start
  <1>2. ArrivalsValid' /\ phase' \in [Node -> Phase] => ControlTyped'
    BY <1>1 DEF IInv, ArrivalsValid, ControlTyped, dialVars, boundVars
  <1>3. CASE /\ p \in Node /\ clients[n][p] # NoClient
             /\ clients' = [clients EXCEPT ![n][p] = d]
             /\ senderQueue' = [senderQueue EXCEPT ![n][p] = @ \o h.snd]
             /\ phase' = [phase EXCEPT ![n] = "looping"]
    <2>1. B \in Nat /\ clients[n][p] \in ClientWithin(B)
          /\ senderQueue[n][p] \in Seq(ItemWithin(B))
      BY <1>3, OnePeer
    <2>2. Control("SYN", ISN, 0) \in SegmentWithin(B)
      BY <2>1, ControlWithin, SizeAssumption DEF Flag
    <2>3. h \in FrameWithin(B)
      BY <2>1, <2>2, FrameOfClient, CreateMessageWithin DEF State
    <2> HIDE DEF h
    <2>4. h.c \in ClientWithin(B) /\ h.snd \in Seq(ItemWithin(B))
      BY <2>3 DEF FrameWithin
    <2>5. ISN + 1 \in Nat
      BY SizeAssumption
    <2>6. d \in ClientWithin(B)
      BY <2>4, <2>5 DEF ClientWithin, ClientRecord, Counted
    <2>7. senderQueue[n][p] \o h.snd \in Seq(ItemWithin(B))
      BY <2>1, <2>4
    <2> HIDE DEF d
    <2>8. clients' \in Clients(sendBuffer)
      BY <1>3, <2>6, UpdateClient DEF IInv, ProtocolWithin
    <2>9. senderQueue' \in SenderQueues(sendBuffer)
      BY <1>3, <2>7, UpdateQueue DEF IInv, ProtocolWithin
    <2>10. phase' \in [Node -> Phase]
      BY <1>3 DEF IInv, ControlTyped, Phase
    <2> QED
      BY <1>1, <1>2, <2>8, <2>9, <2>10 DEF IInv, ProtocolWithin, ArrivalsValid
  <1>4. CASE /\ phase' = [phase EXCEPT ![n] =
                  IF \E q \in Node : clients[n][q] # NoClient
                  THEN "crashed" ELSE "looping"]
             /\ UNCHANGED <<clients, senderQueue>>
    <2>1. phase' \in [Node -> Phase]
      BY <1>4 DEF IInv, ControlTyped, Phase
    <2> QED
      BY <1>1, <1>2, <1>4, <2>1 DEF IInv, ProtocolWithin, ArrivalsValid
  <1> QED
    BY <1>3, <1>4 DEF Start

-----------------------------------------------------------------------------
(* The steps of the other threads, of the network and of the application.   *)

\* Taking an item from a queue and marking its entry.
LEMMA DequeueStep ==
  ASSUME IInv, NEW n \in Node, NEW p \in Node, NEW mark \in SendMark,
         Dequeue(n, p, mark)
  PROVE  /\ ProtocolWithin'
         /\ Head(senderQueue[n][p]).seg \in ValidSegment
  <1> DEFINE item == Head(senderQueue[n][p])
             B == sendBuffer[n]
             d == Stamp(clients[n][p], item.seg.seq, mark)
  <1>1. /\ senderQueue[n][p] # <<>>
        /\ senderQueue' = [senderQueue EXCEPT ![n][p] = Tail(@)]
        /\ clients' = IF item.pushed /\ clients[n][p] # NoClient
                      THEN [clients EXCEPT ![n][p] = d] ELSE clients
        /\ sendBuffer' = sendBuffer
    BY DEF Dequeue
  <1>2. /\ B \in Nat /\ clients[n][p] \in ClientWithin(B) \cup {NoClient}
        /\ senderQueue[n][p] \in Seq(ItemWithin(B))
    BY OnePeer
  <1>3. item \in ItemWithin(B) /\ Tail(senderQueue[n][p]) \in Seq(ItemWithin(B))
    <2>1. \A S : \A q \in Seq(S) : q # <<>> => Head(q) \in S /\ Tail(q) \in Seq(S)
      OBVIOUS
    <2> QED
      BY <1>1, <1>2, <2>1
  <1>4. clients[n][p] # NoClient => d \in ClientWithin(B)
    BY <1>2, StampWithin
  <1> HIDE DEF d
  <1>5. clients' \in Clients(sendBuffer)
    BY <1>1, <1>4, UpdateClient DEF IInv, ProtocolWithin
  <1>6. senderQueue' \in SenderQueues(sendBuffer)
    BY <1>1, <1>3, UpdateQueue DEF IInv, ProtocolWithin
  <1> QED
    BY <1>1, <1>3, <1>5, <1>6 DEF IInv, ProtocolWithin, ItemWithin, SegmentWithin

\* One sequence of datagrams changes.
LEMMA UpdateNetwork ==
  ASSUME IInv, NEW n \in Node, NEW p \in Node, NEW q \in Seq(ValidSegment),
         network' = [network EXCEPT ![n][p] = q]
  PROVE  network' \in [Node -> [Node -> Seq(ValidSegment)]]
  BY DEF IInv, ArrivalsValid

\* The sender thread hands a segment to the network.
LEMMA TransmitStep ==
  ASSUME IInv, NEW n \in Node, NEW p \in Node, Transmit(n, p)
  PROVE  IInv'
  <1> DEFINE seg == Head(senderQueue[n][p]).seg
  <1>1. Dequeue(n, p, "sent") /\ faults' = faults
    BY DEF Transmit
  <1>2. ProtocolWithin' /\ seg \in ValidSegment
    BY <1>1, DequeueStep DEF SendMark
  <1>3. network[n][p] \in Seq(ValidSegment)
    BY DEF IInv, ArrivalsValid
  <1>4. Append(network[n][p], seg) \in Seq(ValidSegment)
    BY <1>2, <1>3
  <1>5. network' = network \/ network' = [network EXCEPT ![n][p] = Append(@, seg)]
    BY DEF Transmit
  <1> HIDE DEF seg
  <1>6. network' \in [Node -> [Node -> Seq(ValidSegment)]]
    BY <1>4, <1>5, UpdateNetwork DEF IInv, ArrivalsValid
  <1> QED
    BY <1>1, <1>2, <1>6 DEF IInv, ArrivalsValid, ControlTyped, Dequeue, dialVars

\* A failed sendto.
LEMMA SendFailsStep ==
  ASSUME IInv, NEW n \in Node, NEW p \in Node, SendFails(n, p)
  PROVE  IInv'
  <1>1. Dequeue(n, p, "failed") /\ network' = network /\ faults' = faults + 1
    BY DEF SendFails, Mistreated
  <1>2. ProtocolWithin'
    BY <1>1, DequeueStep DEF SendMark
  <1>3. faults' \in Nat
    BY <1>1 DEF IInv, ControlTyped
  <1>4. UNCHANGED <<receiverQueue, network, file, inputQueue, timeToClose, phase,
                    dialing, undialled, inputs, expiries>>
    BY <1>1 DEF Dequeue, dialVars
  <1> QED
    BY <1>2, <1>3, <1>4 DEF IInv, ArrivalsValid, ControlTyped

\* The receiver thread takes a datagram.
LEMMA DeliverStep ==
  ASSUME IInv, NEW n \in Node, NEW p \in Node, Deliver(n, p)
  PROVE  IInv'
  <1> DEFINE a == [from |-> n, seg |-> Head(network[n][p])]
  <1>1. /\ network[n][p] # <<>>
        /\ network' = [network EXCEPT ![n][p] = Tail(@)]
        /\ receiverQueue' = [receiverQueue EXCEPT ![p] = Append(@, a)]
        /\ UNCHANGED <<clients, sendBuffer, inputQueue, senderQueue, file,
                       timeToClose, phase, dialVars, boundVars>>
    BY DEF Deliver
  <1>2. network[n][p] \in Seq(ValidSegment) /\ receiverQueue[p] \in Seq(Arrival)
    BY DEF IInv, ArrivalsValid
  <1>3. Head(network[n][p]) \in ValidSegment /\ Tail(network[n][p]) \in Seq(ValidSegment)
    BY <1>1, <1>2
  <1>4. a \in Arrival
    BY <1>3 DEF Arrival
  <1> HIDE DEF a
  <1>5. Append(receiverQueue[p], a) \in Seq(Arrival)
    BY <1>2, <1>4
  <1>6. network' \in [Node -> [Node -> Seq(ValidSegment)]]
    BY <1>1, <1>3, UpdateNetwork
  <1>7. receiverQueue' \in [Node -> Seq(Arrival)]
    BY <1>1, <1>5 DEF IInv, ArrivalsValid
  <1> QED
    BY <1>1, <1>6, <1>7 DEF IInv, ProtocolWithin, ArrivalsValid, ControlTyped,
       dialVars, boundVars

\* The sockets and the queues are closed.
LEMMA StopStep ==
  ASSUME IInv, NEW n \in Node, Stop(n)
  PROVE  IInv'
  <1>1. /\ phase' = [phase EXCEPT ![n] = "stopped"]
        /\ senderQueue' = [senderQueue EXCEPT ![n] = [p \in Node |-> <<>>]]
        /\ receiverQueue' = [receiverQueue EXCEPT ![n] = <<>>]
        /\ UNCHANGED <<clients, sendBuffer, inputQueue, network, file,
                       timeToClose, dialVars, boundVars>>
    BY DEF Stop
  <1>2. \A S : <<>> \in Seq(S)
    OBVIOUS
  <1>3. senderQueue' \in SenderQueues(sendBuffer)
    <2>1. senderQueue \in SenderQueues(sendBuffer)
      BY DEF IInv, ProtocolWithin
    <2>2. senderQueue' \in [Node -> [Node -> Seq(OutItem)]]
      BY <1>1, <1>2, <2>1 DEF SenderQueues
    <2>3. ASSUME NEW m \in Node, NEW p \in Node
          PROVE  senderQueue'[m][p] \in Seq(ItemWithin(sendBuffer[m]))
      <3>1. CASE m = n
        BY <1>1, <1>2, <2>1, <3>1 DEF SenderQueues
      <3>2. CASE m # n
        BY <1>1, <2>1, <3>2 DEF SenderQueues
      <3> QED
        BY <3>1, <3>2
    <2> QED
      BY <2>2, <2>3 DEF SenderQueues
  <1>4. receiverQueue' \in [Node -> Seq(Arrival)]
    BY <1>1, <1>2 DEF IInv, ArrivalsValid
  <1>5. phase' \in [Node -> Phase]
    BY <1>1 DEF IInv, ControlTyped, Phase
  <1> QED
    BY <1>1, <1>3, <1>4, <1>5 DEF IInv, ProtocolWithin, ArrivalsValid,
       ControlTyped, dialVars, boundVars

\* A lost, duplicated or overtaking datagram was valid and remains so.
LEMMA NetworkFaultStep ==
  ASSUME IInv, NEW n \in Node, NEW p \in Node, NetworkFault(n, p)
  PROVE  IInv'
  <1> DEFINE q == network[n][p]
  <1>1. PICK i \in DOMAIN q :
          /\ faults' = faults + 1
          /\ \/ network' = [network EXCEPT ![n][p] = RemoveAt(q, i)]
             \/ network' = [network EXCEPT ![n][p] = Append(q, q[i])]
             \/ network' = [network EXCEPT ![n][p] = <<q[i]>> \o RemoveAt(q, i)]
    BY DEF NetworkFault, Mistreated
  <1>2. UNCHANGED <<protocolVars, sendBuffer, inputQueue, file, timeToClose,
                    dialVars, inputs, expiries>>
    BY DEF NetworkFault
  <1>3. q \in Seq(ValidSegment)
    BY DEF IInv, ArrivalsValid
  <1> HIDE DEF q
  <1>4. i \in 1..Len(q) /\ Len(q) \in Nat /\ q[i] \in ValidSegment
    BY <1>3
  <1>5. RemoveAt(q, i) \in Seq(ValidSegment)
    <2>1. /\ SubSeq(q, 1, i - 1) \in Seq(ValidSegment)
          /\ SubSeq(q, i + 1, Len(q)) \in Seq(ValidSegment)
      BY <1>3, <1>4, SubSeqProperties
    <2> QED
      BY <2>1 DEF RemoveAt
  <1>6. Append(q, q[i]) \in Seq(ValidSegment)
    BY <1>3, <1>4
  <1>7. <<q[i]>> \o RemoveAt(q, i) \in Seq(ValidSegment)
    BY <1>4, <1>5
  <1>8. network' \in [Node -> [Node -> Seq(ValidSegment)]]
    BY <1>1, <1>5, <1>6, <1>7, UpdateNetwork
  <1>9. faults' \in Nat
    BY <1>1 DEF IInv, ControlTyped
  <1> QED
    BY <1>2, <1>8, <1>9 DEF IInv, ProtocolWithin, ArrivalsValid, ControlTyped,
       protocolVars, dialVars

\* The calls of the application that leave the protocol's state alone.
LEMMA ApplicationStep ==
  ASSUME IInv, NEW n \in Node, NEW p \in Node,
         PushInput(n) \/ Disconnect(n) \/ DialCheck(n, p)
  PROVE  IInv'
  <1>1. UNCHANGED <<clients, senderQueue, sendBuffer, receiverQueue, network, file>>
    BY DEF PushInput, Disconnect, DialCheck, protocolVars
  <1>2. ProtocolWithin' /\ ArrivalsValid'
    BY <1>1 DEF IInv, ProtocolWithin, ArrivalsValid
  <1>3. CASE PushInput(n)
    <2>1. PICK size \in InputSizes[n] :
            inputQueue' = [inputQueue EXCEPT ![n] = Append(@, size)]
      BY <1>3 DEF PushInput
    <2>2. inputQueue[n] \in Seq(Nat) /\ size \in Nat
      BY BoundAssumption DEF IInv, ControlTyped
    <2>3. Append(inputQueue[n], size) \in Seq(Nat)
      BY <2>2
    <2>4. inputQueue' \in [Node -> Seq(Nat)]
      BY <2>1, <2>3 DEF IInv, ControlTyped
    <2>5. inputs' \in Nat
      BY <1>3 DEF PushInput, IInv, ControlTyped
    <2>6. UNCHANGED <<timeToClose, phase, dialing, undialled, faults, expiries>>
      BY <1>3 DEF PushInput, protocolVars, dialVars
    <2> QED
      BY <1>2, <2>4, <2>5, <2>6 DEF IInv, ControlTyped
  <1>4. CASE Disconnect(n)
    BY <1>2, <1>4 DEF Disconnect, IInv, ControlTyped, protocolVars, dialVars,
       boundVars
  <1>5. CASE DialCheck(n, p)
    BY <1>2, <1>5 DEF DialCheck, IInv, ControlTyped, protocolVars, boundVars
  <1> QED
    BY <1>3, <1>4, <1>5

\* A statement of addClient.
LEMMA DialStepStep ==
  ASSUME IInv, NEW n \in Node, NEW p \in Node, NEW from,
         NEW to \in {"idle", "emplace", "syn", "sequence"},
         NEW c \in ClientWithin(sendBuffer[n]) \cup {NoClient},
         NEW snd \in Seq(ItemWithin(sendBuffer[n])),
         DialStep(n, p, from, to, c, snd)
  PROVE  IInv'
  <1>1. senderQueue[n][p] \o snd \in Seq(ItemWithin(sendBuffer[n]))
    BY OnePeer
  <1>2. clients' \in Clients(sendBuffer)
    BY UpdateClient DEF DialStep, IInv, ProtocolWithin
  <1>3. senderQueue' \in SenderQueues(sendBuffer)
    BY <1>1, UpdateQueue DEF DialStep, IInv, ProtocolWithin
  <1>4. dialing' \in [Node -> [peer : Node \cup {NoNode},
                               step : {"idle", "emplace", "syn", "sequence"}]]
    BY DEF DialStep, IInv, ControlTyped
  <1>5. UNCHANGED <<receiverQueue, phase, sendBuffer, inputQueue, network, file,
                    timeToClose, undialled, boundVars>>
    BY DEF DialStep
  <1> QED
    BY <1>2, <1>3, <1>4, <1>5 DEF IInv, ProtocolWithin, ArrivalsValid,
       ControlTyped, boundVars

\* The three statements of addClient.
LEMMA AddClientStep ==
  ASSUME IInv, NEW n \in Node, AddClient(n)
  PROVE  IInv'
  <1> DEFINE B == sendBuffer[n]
             new == NewClient("NONE", 0)
  <1>1. PICK p \in Node : DialEmplace(n, p) \/ DialSyn(n, p) \/ DialSequence(n, p)
    BY DEF AddClient
  <1> DEFINE c == clients[n][p]
             d == IF c = NoClient THEN new ELSE c
  <1>2. B \in Nat /\ c \in ClientWithin(B) \cup {NoClient}
    BY OnePeer
  <1>3. d \in ClientWithin(B)
    BY <1>2, NewClientWithin DEF State
  <1>4. <<>> \in Seq(ItemWithin(B))
    OBVIOUS
  <1>5. CASE DialEmplace(n, p)
    <2>1. DialStep(n, p, "emplace", "syn", d, <<>>)
      BY <1>5 DEF DialEmplace
    <2> HIDE DEF d
    <2> QED
      BY <1>3, <1>4, <2>1, DialStepStep
  <1>6. CASE DialSyn(n, p)
    <2> DEFINE h == IF c = NoClient THEN Frame(c)
                    ELSE CreateMessage(Frame(c), Control("SYN", ISN, 0), "SYN_SENT")
               snd == [i \in DOMAIN h.snd |->
                         [h.snd[i] EXCEPT !.address = "uninitialised"]]
    <2>1. DialStep(n, p, "syn", "sequence", h.c, snd)
      BY <1>6 DEF DialSyn
    <2>2. h.c \in ClientWithin(B) \cup {NoClient} /\ h.snd \in Seq(ItemWithin(B))
      <3>1. CASE c = NoClient
        BY <1>4, <3>1 DEF Frame
      <3>2. CASE c # NoClient
        <4>1. Control("SYN", ISN, 0) \in SegmentWithin(B)
          BY <1>2, ControlWithin, SizeAssumption DEF Flag
        <4>2. h \in FrameWithin(B)
          BY <1>2, <3>2, <4>1, FrameOfClient, CreateMessageWithin DEF State
        <4> QED
          BY <4>2 DEF FrameWithin
      <3> QED
        BY <3>1, <3>2
    <2> HIDE DEF h
    <2>3. DOMAIN h.snd = 1..Len(h.snd) /\ Len(h.snd) \in Nat
      BY <2>2
    <2>4. \A i \in 1..Len(h.snd) :
            [h.snd[i] EXCEPT !.address = "uninitialised"] \in ItemWithin(B)
      <3>1. \A i \in 1..Len(h.snd) : h.snd[i] \in ItemWithin(B)
        BY <2>2
      <3> QED
        BY <3>1 DEF ItemWithin
    <2>5. snd \in Seq(ItemWithin(B))
      BY <2>3, <2>4
    <2> HIDE DEF snd
    <2> QED
      BY <2>1, <2>2, <2>5, DialStepStep
  <1>7. CASE DialSequence(n, p)
    <2>1. DialStep(n, p, "sequence", "idle",
                   [d EXCEPT !.expected_sequence = ISN + 1], <<>>)
      BY <1>7 DEF DialSequence
    <2>2. ISN + 1 \in Nat
      BY SizeAssumption
    <2> HIDE DEF d
    <2>3. [d EXCEPT !.expected_sequence = ISN + 1] \in ClientWithin(B)
      BY <1>3, <2>2 DEF ClientWithin, ClientRecord, Counted
    <2> QED
      BY <1>4, <2>1, <2>3, DialStepStep
  <1> QED
    BY <1>1, <1>5, <1>6, <1>7

-----------------------------------------------------------------------------
(* The theorems.                                                            *)

\* Every step of every thread, of the network and of the users preserves the
\* invariant.
LEMMA NextIInv ==
  ASSUME IInv, [Next]_vars
  PROVE  IInv'
  <1>1. CASE UNCHANGED vars
    BY <1>1 DEF vars, IInv, ProtocolWithin, ArrivalsValid, ControlTyped
  <1>2. CASE Next
    <2>1. PICK n \in Node :
            \/ Communicate(n) \/ Stop(n) \/ Application(n)
            \/ \E p \in Node : \/ Transmit(n, p) \/ Deliver(n, p)
                               \/ SendFails(n, p) \/ NetworkFault(n, p)
      BY <1>2 DEF Next
    <2>2. CASE Communicate(n)
      <3>1. CASE CloseLoop(n)
        BY <3>1 DEF CloseLoop, IInv, ProtocolWithin, ArrivalsValid, ControlTyped,
           Phase, dialVars, boundVars
      <3> QED
        BY <2>2, <3>1, StartStep, ReceiveStep, InsertInputStep, CloseClientsStep,
           MessageResendCheckStep DEF Communicate
    <2>3. CASE Application(n)
      <3>1. \/ PushInput(n) \/ Disconnect(n) \/ AddClient(n)
            \/ \E p \in Node : DialCheck(n, p)
        BY <2>3 DEF Application
      <3> QED
        BY <3>1, ApplicationStep, AddClientStep
    <2>4. CASE \E p \in Node : \/ Transmit(n, p) \/ Deliver(n, p)
                               \/ SendFails(n, p) \/ NetworkFault(n, p)
      BY <2>4, TransmitStep, DeliverStep, SendFailsStep, NetworkFaultStep
    <2> QED
      BY <2>1, <2>2, <2>3, <2>4, StopStep
  <1> QED
    BY <1>1, <1>2

\* In every reachable state, what a handler keeps or sends lies inside its
\* node's sendBuffer and every segment on its way is well formed.
THEOREM InductiveInvariant == Spec => []IInv
  <1> QED
    BY InitIInv, NextIInv, PTL DEF Spec

\* Type correctness: the fields of Client, the queues and the segments keep the
\* types that the headers declare, whatever the network and the users do.
THEOREM TypeCorrect == Spec => []TypeOK
  <1> QED
    BY InductiveInvariant, IInvTypeOK, PTL

\* SocketHandler::send never reads past sendBuffer: neither for a first
\* transmission nor for a retransmission, in any interleaving of the threads.
THEOREM SenderInBounds == Spec => []SenderReadsInBounds
  <1> QED
    BY InductiveInvariant, IInvInBounds, PTL

\* totalSizeOfMessagesSent covers the entries of messagesSent at every moment:
\* pushes, retransmissions, acknowledgements that pop several entries and the
\* sender thread's stamps keep the unsigned subtraction of checkFront from
\* wrapping, and with it the room sendMessages computes from the difference.
THEOREM TotalNeverUnderflows == Spec => []NoUnderflow
  <1> QED
    BY InductiveInvariant, IInvNoUnderflow, PTL

=============================================================================
