---------------------------- MODULE RouterProofs ----------------------------
(***************************************************************************)
(* Proofs about the router: both codecs, byte by byte, for every packet;   *)
(* what becomes of one message and of one request from browser to browser; *)
(* and an invariant of all programs together, of which the type invariant  *)
(* and LinksStay follow.                                                   *)
(***************************************************************************)
EXTENDS VIMMessage, SequenceTheorems, FiniteSetTheorems, WellFoundedInduction, TLAPS

-----------------------------------------------------------------------------
(* Sequences put together.                                                   *)

\* What is joined is there, one after the other.
LEMMA Joined ==
  ASSUME NEW S, NEW s \in Seq(S), NEW t \in Seq(S)
  PROVE  /\ s \o t \in Seq(S) /\ Len(s \o t) = Len(s) + Len(t)
         /\ \A i \in 1..Len(s) : (s \o t)[i] = s[i]
         /\ \A i \in 1..Len(t) : (s \o t)[Len(s) + i] = t[i]
  <1>1. s \o t \in Seq(S) /\ Len(s \o t) = Len(s) + Len(t)
    OBVIOUS
  <1>2. \A i \in 1..Len(s) : (s \o t)[i] = s[i]
    OBVIOUS
  <1>3. \A i \in 1..Len(t) : (s \o t)[Len(s) + i] = t[i]
    OBVIOUS
  <1> QED
    BY <1>1, <1>2, <1>3

-----------------------------------------------------------------------------
(* Numbers in bytes.                                                         *)

\* What is left of a number when its lower half has been shifted out.
LEMMA UpperNat == \A v \in Nat : Upper(v) \in Nat
  BY SMT DEF Upper

\* The last two bytes of a number are bytes.
LEMMA DigitsAreBytes == \A v \in Nat : High(v) \in Byte /\ Low(v) \in Byte
  BY SMT DEF High, Low, Byte

\* The last two bytes of a number are what it is modulo 65536,
LEMMA DigitsLow ==
  ASSUME NEW v \in Nat
  PROVE  256 * High(v) + Low(v) = v % 65536
  <1>1. PICK x \in Nat : x = v \div 256
    BY SMT
  <1>2. PICK y \in Nat : y = x \div 256
    BY SMT
  <1>3. /\ v = 256 * x + (v % 256) /\ v % 256 \in Nat /\ v % 256 <= 255
        /\ x = 256 * y + (x % 256) /\ x % 256 \in Nat /\ x % 256 <= 255
    BY <1>1, <1>2, SMT
  <1>4. ASSUME NEW l \in Nat, NEW h \in Nat, l <= 255, h <= 255,
               v = 256 * x + l, x = 256 * y + h
        PROVE  256 * h + l = v % 65536
    BY <1>4, SMT
  <1>5. 256 * (x % 256) + (v % 256) = v % 65536
    BY <1>3, <1>4
  <1> QED
    BY <1>1, <1>5 DEF High, Low

\* and the whole number is that and its upper half.
LEMMA Halves ==
  ASSUME NEW v \in Nat
  PROVE  Shifted(Upper(v)) + (v % 65536) = v
  BY SMT DEF Shifted, Upper

\* appendBits of 16 bits makes two bytes.
LEMMA Append16 ==
  ASSUME NEW v \in Nat
  PROVE  /\ AppendBits16(v) \in Seq(Byte) /\ Len(AppendBits16(v)) = 2
         /\ AppendBits16(v)[1] = High(v) /\ AppendBits16(v)[2] = Low(v)
  <1>1. High(v) \in Byte /\ Low(v) \in Byte
    BY DigitsAreBytes
  <1> QED
    BY <1>1 DEF AppendBits16

\* appendBits of 32 bits makes four bytes.
LEMMA Append32 ==
  ASSUME NEW v \in Nat
  PROVE  /\ AppendBits32(v) \in Seq(Byte) /\ Len(AppendBits32(v)) = 4
         /\ AppendBits32(v)[1] = High(Upper(v)) /\ AppendBits32(v)[2] = Low(Upper(v))
         /\ AppendBits32(v)[3] = High(v) /\ AppendBits32(v)[4] = Low(v)
  <1>1. /\ High(v) \in Byte /\ Low(v) \in Byte
        /\ High(Upper(v)) \in Byte /\ Low(Upper(v)) \in Byte
    BY DigitsAreBytes, UpperNat
  <1> QED
    BY <1>1 DEF AppendBits32

\* appendBits of 64 bits makes eight bytes.
LEMMA Append64 ==
  ASSUME NEW v \in Nat, NEW t, t = Upper(Upper(v))
  PROVE  /\ AppendBits64(v) \in Seq(Byte) /\ Len(AppendBits64(v)) = 8
         /\ AppendBits64(v)[1] = High(Upper(t)) /\ AppendBits64(v)[2] = Low(Upper(t))
         /\ AppendBits64(v)[3] = High(t) /\ AppendBits64(v)[4] = Low(t)
         /\ AppendBits64(v)[5] = High(Upper(v)) /\ AppendBits64(v)[6] = Low(Upper(v))
         /\ AppendBits64(v)[7] = High(v) /\ AppendBits64(v)[8] = Low(v)
  <1>1. t \in Nat
    BY UpperNat
  <1>2. /\ High(v) \in Byte /\ Low(v) \in Byte
        /\ High(Upper(v)) \in Byte /\ Low(Upper(v)) \in Byte
        /\ High(t) \in Byte /\ Low(t) \in Byte
        /\ High(Upper(t)) \in Byte /\ Low(Upper(t)) \in Byte
    BY <1>1, DigitsAreBytes, UpperNat
  <1> QED
    BY <1>2 DEF AppendBits64

\* What is read where the bytes of a number are is the number.
LEMMA Read16 ==
  ASSUME NEW b, NEW first, NEW v \in Nat,
         b[first] = High(v), b[first + 1] = Low(v)
  PROVE  Combine16(b, first) = v % 65536
  BY DigitsLow DEF Combine16

\* A number of 16 bits is what it is modulo 65536.
LEMMA Small16 == \A v \in Nat : v <= 65535 => v % 65536 = v
  BY SMT

\* Combine32 reads what AppendBits32 has written, where it stands,
LEMMA Read32 ==
  ASSUME NEW b, NEW first \in Nat, NEW v \in Nat, Upper(v) <= 65535,
         b[first] = High(Upper(v)), b[first + 1] = Low(Upper(v)),
         b[first + 2] = High(v), b[first + 3] = Low(v)
  PROVE  Combine32(b, first) = v
  <1>1. Upper(v) \in Nat /\ Upper(v) % 65536 = Upper(v)
    BY UpperNat, Small16
  <1>2. Combine16(b, first) = Upper(v)
    BY <1>1, Read16
  <1>3. (first + 2) + 1 = first + 3
    BY SMT
  <1>4. Combine16(b, first + 2) = v % 65536
    BY <1>3, Read16
  <1> QED
    BY <1>2, <1>4, Halves DEF Combine32

\* Without a bound, what is read is the number modulo 2^32.
LEMMA Read32Low ==
  ASSUME NEW b, NEW first \in Nat, NEW v \in Nat,
         b[first] = High(Upper(v)), b[first + 1] = Low(Upper(v)),
         b[first + 2] = High(v), b[first + 3] = Low(v)
  PROVE  Combine32(b, first) = Shifted(Upper(v) % 65536) + (v % 65536)
  <1>1. Combine16(b, first) = Upper(v) % 65536
    BY UpperNat, Read16
  <1>2. (first + 2) + 1 = first + 3
    BY SMT
  <1>3. Combine16(b, first + 2) = v % 65536
    BY <1>2, Read16
  <1> QED
    BY <1>1, <1>3 DEF Combine32

\* and Combine64 what AppendBits64 has written.
LEMMA Read64 ==
  ASSUME NEW b, NEW first \in Nat, NEW v \in Nat, NEW t, t = Upper(Upper(v)),
         Upper(t) <= 65535,
         b[first] = High(Upper(t)), b[first + 1] = Low(Upper(t)),
         b[first + 2] = High(t), b[first + 3] = Low(t),
         b[first + 4] = High(Upper(v)), b[first + 5] = Low(Upper(v)),
         b[first + 6] = High(v), b[first + 7] = Low(v)
  PROVE  Combine64(b, first) = v
  <1>1. Upper(v) \in Nat /\ t \in Nat
    BY UpperNat
  <1>2. Combine32(b, first) = t
    BY <1>1, Read32
  <1>3. /\ (first + 4) + 1 = first + 5 /\ (first + 4) + 2 = first + 6
        /\ (first + 4) + 3 = first + 7 /\ first + 4 \in Nat
    BY SMT
  <1>4. Combine32(b, first + 4) = Shifted(Upper(v) % 65536) + (v % 65536)
    <2> DEFINE f == first + 4
    <2>1. f \in Nat /\ f + 1 = first + 5 /\ f + 2 = first + 6 /\ f + 3 = first + 7
      BY <1>3
    <2>2. b[f] = High(Upper(v))
      OBVIOUS
    <2> HIDE DEF f
    <2>3. Combine32(b, f) = Shifted(Upper(v) % 65536) + (v % 65536)
      BY <2>1, <2>2, Read32Low
    <2> QED
      BY <2>3 DEF f
  <1>5. /\ Shifted(t) + (Upper(v) % 65536) = Upper(v)
        /\ Shifted(Upper(v)) + (v % 65536) = v
    BY <1>1, Halves
  <1>6. ASSUME NEW x \in Nat, NEW l \in Int, NEW m \in Int,
               Shifted(x) + m = Upper(v), Shifted(Upper(v)) + l = v
        PROVE  Shifted(Shifted(x)) + (Shifted(m) + l) = v
    BY <1>6, <1>1, SMT DEF Shifted
  <1>7. Upper(v) % 65536 \in Int /\ v % 65536 \in Int
    BY <1>1, SMT
  <1>8. Shifted(Shifted(t)) + (Shifted(Upper(v) % 65536) + (v % 65536)) = v
    BY <1>1, <1>5, <1>6, <1>7
  <1> QED
    BY <1>2, <1>4, <1>8 DEF Combine64

\* Bytes are numbers, and so is what is read of them.
LEMMA ByteNat == \A x \in Byte : x \in Nat
  BY DEF Byte

\* What is read from bytes is a number.
LEMMA CombinedNat ==
  ASSUME NEW b \in Seq(Byte), NEW first \in Nat, first >= 1
  PROVE  /\ first + 1 <= Len(b) => Combine16(b, first) \in Nat
         /\ first + 3 <= Len(b) => Combine32(b, first) \in Nat
         /\ first + 7 <= Len(b) => Combine64(b, first) \in Nat
  <1>1. \A i \in 1..Len(b) : b[i] \in Nat
    BY ByteNat
  <1>2. ASSUME NEW f \in Nat, f >= 1, f + 1 <= Len(b) PROVE Combine16(b, f) \in Nat
    <2>1. b[f] \in Nat /\ b[f + 1] \in Nat
      BY <1>1, <1>2
    <2> QED
      BY <2>1 DEF Combine16
  <1>3. ASSUME NEW f \in Nat, f >= 1, f + 3 <= Len(b) PROVE Combine32(b, f) \in Nat
    <2>1. Combine16(b, f) \in Nat /\ Combine16(b, f + 2) \in Nat
      BY <1>2, <1>3
    <2> QED
      BY <2>1 DEF Combine32, Shifted
  <1>4. ASSUME NEW f \in Nat, f >= 1, f + 7 <= Len(b) PROVE Combine64(b, f) \in Nat
    <2>1. Combine32(b, f) \in Nat /\ Combine32(b, f + 4) \in Nat
      BY <1>3, <1>4
    <2> QED
      BY <2>1 DEF Combine64, Shifted
  <1> QED
    BY <1>2, <1>3, <1>4

\* Sequences that agree on five positions agree on each of them.
LEMMA FirstFive ==
  ASSUME NEW s, NEW t, \A i \in 1..5 : s[i] = t[i]
  PROVE  s[1] = t[1] /\ s[2] = t[2] /\ s[3] = t[3] /\ s[4] = t[4] /\ s[5] = t[5]
  BY SMT

-----------------------------------------------------------------------------
(* Packets.                                                                  *)

\* The head of a packet: a type, and numbers of 32 and 16 bits.
Header(type, u, m) == <<type>> \o AppendBits32(u) \o AppendBits16(m)

HasHeader(p, type, u, m) ==
  /\ p \in Seq(Byte) /\ p[1] = type
  /\ p[2] = High(Upper(u)) /\ p[3] = Low(Upper(u)) /\ p[4] = High(u) /\ p[5] = Low(u)
  /\ p[6] = High(m) /\ p[7] = Low(m)

\* The seven bytes of a head.
LEMMA HeaderBytes ==
  ASSUME NEW type \in Byte, NEW u \in Nat, NEW m \in Nat
  PROVE  HasHeader(Header(type, u, m), type, u, m) /\ Len(Header(type, u, m)) = 7
  <1> DEFINE a == <<type>>
             b == AppendBits32(u)
             c == AppendBits16(m)
             d == a \o b
             h == Header(type, u, m)
  <1>1. a \in Seq(Byte) /\ b \in Seq(Byte) /\ c \in Seq(Byte)
    BY Append32, Append16
  <1>2. Len(a) = 1 /\ a[1] = type /\ Len(b) = 4 /\ Len(c) = 2
    BY Append32, Append16
  <1>3. h = d \o c
    BY DEF Header
  <1> HIDE DEF a, b, c, h
  <1>4. /\ d \in Seq(Byte) /\ Len(d) = Len(a) + Len(b)
        /\ \A i \in 1..Len(a) : d[i] = a[i]
        /\ \A i \in 1..Len(b) : d[Len(a) + i] = b[i]
    BY <1>1, Joined
  <1> HIDE DEF d
  <1>5. d \in Seq(Byte)
    BY <1>4
  <1>8. /\ d \o c \in Seq(Byte) /\ Len(d \o c) = Len(d) + Len(c)
        /\ \A i \in 1..Len(d) : (d \o c)[i] = d[i]
        /\ \A i \in 1..Len(c) : (d \o c)[Len(d) + i] = c[i]
    BY <1>1, <1>5, Joined
  <1>9. /\ h \in Seq(Byte) /\ Len(h) = Len(d) + Len(c)
        /\ \A i \in 1..Len(d) : h[i] = d[i]
        /\ \A i \in 1..Len(c) : h[Len(d) + i] = c[i]
    BY <1>3, <1>8, Zenon
  <1>6. /\ Len(d) = 5 /\ d[1] = type
        /\ d[2] = b[1] /\ d[3] = b[2] /\ d[4] = b[3] /\ d[5] = b[4]
    BY <1>2, <1>4
  <1>7. /\ h \in Seq(Byte) /\ Len(h) = 7 /\ h[6] = c[1] /\ h[7] = c[2]
    BY <1>2, <1>6, <1>9
  <1>10. /\ h[1] = d[1] /\ h[2] = d[2] /\ h[3] = d[3] /\ h[4] = d[4]
         /\ h[5] = d[5]
    <2>1. \A i \in 1..5 : h[i] = d[i]
      BY <1>6, <1>9
    <2> QED
      BY <2>1, FirstFive
  <1> QED
    BY <1>6, <1>7, <1>10, Append32, Append16 DEF b, c, h, HasHeader

\* Behind the first of two sequences put together stands the second.
LEMMA Behind ==
  ASSUME NEW S, NEW s \in Seq(S), NEW t \in Seq(S)
  PROVE  SubSeq(s \o t, Len(s) + 1, Len(s \o t)) = t
  <1> DEFINE r == s \o t
             q == SubSeq(r, Len(s) + 1, Len(r))
  <1>1. /\ r \in Seq(S) /\ Len(r) = Len(s) + Len(t)
        /\ \A i \in 1..Len(t) : r[Len(s) + i] = t[i]
    BY Joined
  <1> HIDE DEF r
  <1>2. /\ Len(s) \in Nat /\ Len(t) \in Nat /\ Len(r) \in Nat
        /\ \A i \in 1..Len(r) : r[i] \in S
    BY <1>1
  <1>3. \A i \in (Len(s) + 1)..Len(r) : r[i] \in S
    BY <1>2
  <1>4. /\ q \in Seq(S)
        /\ Len(q) = IF Len(s) + 1 <= Len(r) THEN (Len(r) - (Len(s) + 1)) + 1 ELSE 0
        /\ \A i \in 1..((Len(r) - (Len(s) + 1)) + 1) : q[i] = r[((Len(s) + 1) + i) - 1]
    <2> DEFINE m == Len(s) + 1
               n == Len(r)
    <2>1. m \in Int /\ n \in Int /\ \A i \in m..n : r[i] \in S
      BY <1>2, <1>3
    <2> HIDE DEF m, n
    <2>2. /\ SubSeq(r, m, n) \in Seq(S)
          /\ Len(SubSeq(r, m, n)) = IF m <= n THEN (n - m) + 1 ELSE 0
          /\ \A i \in 1..((n - m) + 1) : SubSeq(r, m, n)[i] = r[(m + i) - 1]
      BY <2>1, SubSeqProperties
    <2> QED
      BY <2>2 DEF m, n
  <1> HIDE DEF q
  <1>5. Len(q) = Len(t)
    BY <1>1, <1>2, <1>4
  <1>6. ASSUME NEW i \in 1..Len(q) PROVE q[i] = t[i]
    <2>1. /\ i \in 1..Len(t) /\ ((Len(s) + 1) + i) - 1 = Len(s) + i
          /\ i \in 1..((Len(r) - (Len(s) + 1)) + 1)
      BY <1>1, <1>2, <1>5
    <2>2. q[i] = r[((Len(s) + 1) + i) - 1]
      BY <1>4, <2>1
    <2> QED
      BY <1>1, <2>1, <2>2
  <1>7. q = t
    BY <1>4, <1>5, <1>6, SeqEqual
  <1> QED
    BY <1>7 DEF q, r

\* What stands before a text, and the text.
LEMMA Prefixed ==
  ASSUME NEW S, NEW h \in Seq(S), NEW t \in Seq(S), NEW p, p = h \o t
  PROVE  /\ p \in Seq(S) /\ Len(p) = Len(h) + Len(t)
         /\ \A i \in 1..Len(h) : p[i] = h[i]
         /\ SubSeq(p, Len(h) + 1, Len(p)) = t
  <1>1. /\ h \o t \in Seq(S) /\ Len(h \o t) = Len(h) + Len(t)
        /\ \A i \in 1..Len(h) : (h \o t)[i] = h[i]
    BY Joined
  <1>2. SubSeq(h \o t, Len(h) + 1, Len(h \o t)) = t
    BY Behind
  <1> QED
    BY <1>1, <1>2, Zenon

\* A packet with a text: its head, and the text behind it.
LEMMA MsgBytes ==
  ASSUME NEW type \in Byte, NEW u \in Nat, NEW m \in Nat, NEW data \in Seq(Byte)
  PROVE  LET p == CppCreateMsg(type, u, m, data)
         IN /\ HasHeader(p, type, u, m) /\ Len(p) = 7 + Len(data)
            /\ SubSeq(p, 8, Len(p)) = data
  <1> DEFINE h == Header(type, u, m)
             p == CppCreateMsg(type, u, m, data)
  <1>1. HasHeader(h, type, u, m) /\ Len(h) = 7
    BY HeaderBytes
  <1>2. p = h \o data
    BY DEF CppCreateMsg, Header
  <1> HIDE DEF h, p
  <1>3. h \in Seq(Byte)
    BY <1>1 DEF HasHeader
  <1>4. /\ p \in Seq(Byte) /\ Len(p) = Len(h) + Len(data)
        /\ \A i \in 1..Len(h) : p[i] = h[i]
        /\ SubSeq(p, Len(h) + 1, Len(p)) = data
    BY <1>2, <1>3, Prefixed
  <1>5. /\ Len(p) = 7 + Len(data) /\ SubSeq(p, 8, Len(p)) = data
        /\ \A i \in 1..7 : p[i] = h[i]
    BY <1>1, <1>4
  <1>6. /\ p[1] = h[1] /\ p[2] = h[2] /\ p[3] = h[3] /\ p[4] = h[4]
        /\ p[5] = h[5] /\ p[6] = h[6] /\ p[7] = h[7]
    BY <1>5, SMT
  <1>7. HasHeader(p, type, u, m)
    BY <1>1, <1>4, <1>6 DEF HasHeader
  <1> QED
    BY <1>5, <1>7 DEF p

\* A confirmation: its head, and a number of 32 bits behind it.
LEMMA ConfirmationBytes ==
  ASSUME NEW ip \in Nat, NEW port \in Nat, NEW u \in Nat
  PROVE  LET p == CppCreateConfirmation(ip, port, u)
         IN /\ HasHeader(p, 4, ip, port) /\ Len(p) = 11
            /\ p[8] = High(Upper(u)) /\ p[9] = Low(Upper(u))
            /\ p[10] = High(u) /\ p[11] = Low(u)
  <1> DEFINE p == CppCreateConfirmation(ip, port, u)
             t == AppendBits32(u)
             q == CppCreateMsg(4, ip, port, t)
  <1>1. t \in Seq(Byte) /\ Len(t) = 4 /\ t[1] = High(Upper(u))
        /\ t[2] = Low(Upper(u)) /\ t[3] = High(u) /\ t[4] = Low(u)
    BY Append32
  <1>2. p = q /\ 4 \in Byte
    BY DEF CppCreateMsg, CppCreateConfirmation, Byte
  <1> HIDE DEF t, p
  <1>9. t \in Seq(Byte)
    BY <1>1
  <1>8. HasHeader(q, 4, ip, port) /\ Len(q) = 7 + Len(t) /\ SubSeq(q, 8, Len(q)) = t
    BY <1>9, <1>2, MsgBytes
  <1> HIDE DEF q
  <1>3. HasHeader(p, 4, ip, port) /\ Len(p) = 7 + Len(t) /\ SubSeq(p, 8, Len(p)) = t
    BY <1>2, <1>8
  <1>4. Len(p) = 11 /\ SubSeq(p, 8, 11) = t /\ p \in Seq(Byte)
    BY <1>1, <1>3 DEF HasHeader
  <1>5. \A i \in 8..11 : p[i] \in Byte
    <2>1. p \in Seq(Byte)
      BY <1>4
    <2>2. \A i \in 1..Len(p) : p[i] \in Byte
      BY <2>1
    <2> QED
      BY <1>4, <2>2
  <1>6. \A i \in 1..((11 - 8) + 1) : SubSeq(p, 8, 11)[i] = p[(8 + i) - 1]
    BY <1>5, SubSeqProperties
  <1>7. t[1] = p[8] /\ t[2] = p[9] /\ t[3] = p[10] /\ t[4] = p[11]
    BY <1>4, <1>6
  <1> QED
    BY <1>1, <1>3, <1>4, <1>7 DEF p

\* What the C++ class reads in the bytes of a packet is a packet.
LEMMA CppDecodes ==
  ASSUME NEW b \in Seq(Byte)
  PROVE  CppDecodePacket(b) \in CppPacket \cup {NoPacket}
  <1>1. CASE b = <<>>
    BY <1>1 DEF CppDecodePacket
  <1>2. CASE b # <<>> /\ b[1] \in {1, 2}
    <2>1. CppDecodePacket(b) = CppDecodeMsg(b)
      BY <1>2 DEF CppDecodePacket
    <2>2. CASE Len(b) <= 7
      BY <2>1, <2>2 DEF CppDecodeMsg, HEADER_SIZE
    <2>3. CASE Len(b) > 7
      <3>4. 2 + 3 <= Len(b) /\ 6 + 1 <= Len(b)
        BY <2>3
      <3>1. Combine32(b, 2) \in Nat /\ Combine16(b, 6) \in Nat
        BY <3>4, CombinedNat
      <3>2. SubSeq(b, 8, Len(b)) \in Seq(Byte)
        OBVIOUS
      <3>3. CppDecodeMsg(b) = [type |-> b[1], user_id |-> Combine32(b, 2),
               msg_id |-> Combine16(b, 6), msg_data |-> SubSeq(b, 8, Len(b))]
        BY <2>3 DEF CppDecodeMsg, HEADER_SIZE
      <3> QED
        BY <1>2, <2>1, <3>1, <3>2, <3>3 DEF CppPacket
    <2> QED
      BY <2>2, <2>3
  <1>3. CASE b # <<>> /\ b[1] = 3
    <2>1. CppDecodePacket(b) = CppDecodeUserCreation(b)
      BY <1>3 DEF CppDecodePacket
    <2>2. CASE Len(b) # 7
      BY <2>1, <2>2 DEF CppDecodeUserCreation, HEADER_SIZE
    <2>3. CASE Len(b) = 7
      <3>4. 2 + 3 <= Len(b) /\ 6 + 1 <= Len(b)
        BY <2>3
      <3>1. Combine32(b, 2) \in Nat /\ Combine16(b, 6) \in Nat
        BY <3>4, CombinedNat
      <3>3. CppDecodeUserCreation(b) =
              [type |-> b[1], ip |-> Combine32(b, 2), port |-> Combine16(b, 6)]
        BY <2>3 DEF CppDecodeUserCreation, HEADER_SIZE
      <3> QED
        BY <1>3, <2>1, <3>1, <3>3 DEF CppPacket
    <2> QED
      BY <2>2, <2>3
  <1>4. CASE b # <<>> /\ b[1] = 4
    <2>1. CppDecodePacket(b) = CppDecodeConfirmation(b)
      BY <1>4 DEF CppDecodePacket
    <2>2. CASE Len(b) # 11
      BY <2>1, <2>2 DEF CppDecodeConfirmation, USER_CONFIRMATION_SIZE
    <2>3. CASE Len(b) = 11
      <3>2. 2 + 3 <= Len(b) /\ 6 + 1 <= Len(b) /\ 8 + 3 <= Len(b)
        BY <2>3
      <3>1. Combine32(b, 2) \in Nat /\ Combine16(b, 6) \in Nat /\ Combine32(b, 8) \in Nat
        BY <3>2, CombinedNat
      <3>3. CppDecodeConfirmation(b) =
              [type |-> b[1], ip |-> Combine32(b, 2), port |-> Combine16(b, 6),
               user_id |-> Combine32(b, 8)]
        BY <2>3 DEF CppDecodeConfirmation, USER_CONFIRMATION_SIZE
      <3> QED
        BY <1>4, <2>1, <3>1, <3>3 DEF CppPacket
    <2> QED
      BY <2>2, <2>3
  <1>5. CASE b # <<>> /\ b[1] \notin {1, 2, 3, 4}
    BY <1>5 DEF CppDecodePacket
  <1> QED
    BY <1>1, <1>2, <1>3, <1>4, <1>5
\* What the TypeScript class reads is a packet, too.
LEMMA SignedInt ==
  ASSUME NEW b \in Seq(Byte), NEW first \in Nat, first >= 1, first + 3 <= Len(b)
  PROVE  Signed(b, first) \in Int
  <1> DEFINE x == IF b[first] < 128 THEN b[first] ELSE b[first] - 256
             c == [b EXCEPT ![first] = x]
  <1>1. /\ first \in 1..Len(b) /\ first + 1 \in 1..Len(b) /\ first + 2 \in 1..Len(b)
        /\ first + 3 \in 1..Len(b)
    BY SMT
  <1>2. \A i \in 1..Len(b) : b[i] \in Int
    BY ByteNat
  <1>3. x \in Int
    BY <1>1, <1>2
  <1>4. /\ c[first] = x /\ c[first + 1] = b[first + 1] /\ c[first + 2] = b[first + 2]
        /\ c[first + 3] = b[first + 3]
    BY <1>1
  <1>5. Signed(b, first) = Combine32(c, first)
    BY DEF Signed
  <1> HIDE DEF c, x
  <1>6. /\ c[first] \in Int /\ c[first + 1] \in Int /\ c[first + 2] \in Int
        /\ c[first + 3] \in Int /\ (first + 2) + 1 = first + 3
    BY <1>1, <1>2, <1>3, <1>4
  <1>7. Combine16(c, first) \in Int /\ Combine16(c, first + 2) \in Int
    BY <1>6 DEF Combine16
  <1>8. Combine32(c, first) \in Int
    BY <1>7 DEF Combine32, Shifted
  <1> QED
    BY <1>5, <1>8

\* decodePacket of the browser makes a packet of them, or none.
LEMMA TsDecodes ==
  ASSUME NEW b \in Seq(Byte)
  PROVE  TsDecodePacket(b) \in TsPacket \cup {NoPacket}
  <1>1. CASE b = <<>>
    BY <1>1 DEF TsDecodePacket
  <1>2. CASE b # <<>> /\ b[1] \in {1, 2}
    <2>1. TsDecodePacket(b) = TsDecodeMsg(b)
      BY <1>2 DEF TsDecodePacket
    <2>2. CASE Len(b) <= 7
      BY <2>1, <2>2 DEF TsDecodeMsg, HEADER_SIZE
    <2>3. CASE Len(b) > 7
      <3>4. 2 + 3 <= Len(b) /\ 6 + 1 <= Len(b)
        BY <2>3
      <3>1. Signed(b, 2) \in Int /\ Combine16(b, 6) \in Nat
        BY <3>4, CombinedNat, SignedInt
      <3>2. SubSeq(b, 8, Len(b)) \in Seq(Byte)
        OBVIOUS
      <3>3. TsDecodeMsg(b) = [type |-> b[1], userId |-> Signed(b, 2),
               msgId |-> Combine16(b, 6), msg_data |-> SubSeq(b, 8, Len(b))]
        BY <2>3 DEF TsDecodeMsg, HEADER_SIZE
      <3> QED
        BY <1>2, <2>1, <3>1, <3>2, <3>3 DEF TsPacket
    <2> QED
      BY <2>2, <2>3
  <1>3. CASE b # <<>> /\ b[1] = 3
    <2>1. TsDecodePacket(b) = TsDecodeUserCreation(b)
      BY <1>3 DEF TsDecodePacket
    <2>2. CASE Len(b) # 7
      BY <2>1, <2>2 DEF TsDecodeUserCreation, HEADER_SIZE
    <2>3. CASE Len(b) = 7
      <3>4. 6 + 1 <= Len(b) /\ 5 <= Len(b)
        BY <2>3
      <3>1. Combine16(b, 6) \in Nat
        BY <3>4, CombinedNat
      <3>2. SubSeq(b, 2, 5) \in Seq(Byte)
        BY <3>4
      <3>3. TsDecodeUserCreation(b) =
              [type |-> b[1], ip |-> SubSeq(b, 2, 5), port |-> Combine16(b, 6)]
        BY <2>3 DEF TsDecodeUserCreation, HEADER_SIZE
      <3> QED
        BY <1>3, <2>1, <3>1, <3>2, <3>3 DEF TsPacket
    <2> QED
      BY <2>2, <2>3
  <1>4. CASE b # <<>> /\ b[1] = 4
    <2>1. TsDecodePacket(b) = TsDecodeConfirmation(b)
      BY <1>4 DEF TsDecodePacket
    <2>2. CASE Len(b) # 11
      BY <2>1, <2>2 DEF TsDecodeConfirmation, USER_CONFIRMATION_SIZE
    <2>3. CASE Len(b) = 11
      <3>4. 6 + 1 <= Len(b) /\ 5 <= Len(b) /\ 8 + 3 <= Len(b)
        BY <2>3
      <3>1. Combine16(b, 6) \in Nat /\ Signed(b, 8) \in Int
        BY <3>4, CombinedNat, SignedInt
      <3>2. SubSeq(b, 2, 5) \in Seq(Byte)
        BY <3>4
      <3>3. TsDecodeConfirmation(b) =
              [type |-> b[1], ip |-> SubSeq(b, 2, 5), port |-> Combine16(b, 6),
               userId |-> Signed(b, 8)]
        BY <2>3 DEF TsDecodeConfirmation, USER_CONFIRMATION_SIZE
      <3> QED
        BY <1>4, <2>1, <3>1, <3>2, <3>3 DEF TsPacket
    <2> QED
      BY <2>2, <2>3
  <1>5. CASE b # <<>> /\ b[1] \notin {1, 2, 3, 4}
    BY <1>5 DEF TsDecodePacket
  <1> QED
    BY <1>1, <1>2, <1>3, <1>4, <1>5

\* Unsigned numbers of 16 and 32 bits, and those of 32 bits that are not
\* negative when they are read as signed ones.
Word16 == {m \in Nat : m <= 65535}
Word32 == {v \in Nat : Upper(v) <= 65535}
Positive32 == {v \in Nat : Upper(v) <= 32767}

\* A number that is not negative as a signed one is one of 32 bits.
LEMMA PositiveIsWord == Positive32 \subseteq Word32
  <1>1. ASSUME NEW x \in Nat, x <= 32767 PROVE x <= 65535
    BY <1>1, SMT
  <1> QED
    BY <1>1, UpperNat DEF Positive32, Word32

\* The head of a packet is read as it was written,
LEMMA HeaderRead ==
  ASSUME NEW p, NEW type, NEW u \in Word32, NEW m \in Word16,
         HasHeader(p, type, u, m)
  PROVE  p[1] = type /\ Combine32(p, 2) = u /\ Combine16(p, 6) = m
  <1>1. u \in Nat /\ Upper(u) <= 65535 /\ m \in Nat /\ m % 65536 = m
    BY Small16 DEF Word32, Word16
  <1>2. /\ p[2] = High(Upper(u)) /\ p[2 + 1] = Low(Upper(u))
        /\ p[2 + 2] = High(u) /\ p[2 + 3] = Low(u)
        /\ p[6] = High(m) /\ p[6 + 1] = Low(m)
    BY DEF HasHeader
  <1>3. Combine32(p, 2) = u
    BY <1>1, <1>2, Read32
  <1>4. Combine16(p, 6) = m % 65536
    BY <1>1, <1>2, Read16
  <1> QED
    BY <1>1, <1>3, <1>4 DEF HasHeader

\* also by the browser, unless the highest bit of the user id is set.
LEMMA HighIsSmall ==
  ASSUME NEW v \in Nat, v <= 32767
  PROVE  High(v) < 128
  BY SMT DEF High

\* and a user id below 2^31 comes out of the signed shifts as it went in.
LEMMA SignedRead ==
  ASSUME NEW p \in Seq(Byte), NEW first \in 1..Len(p), NEW u \in Positive32,
         p[first] = High(Upper(u)), p[first + 1] = Low(Upper(u)),
         p[first + 2] = High(u), p[first + 3] = Low(u)
  PROVE  Signed(p, first) = u
  <1>1. u \in Nat /\ Upper(u) \in Nat /\ Upper(u) <= 32767 /\ Upper(u) <= 65535
    BY PositiveIsWord, UpperNat DEF Positive32, Word32
  <1>2. p[first] < 128
    BY <1>1, HighIsSmall
  <1>3. [p EXCEPT ![first] = p[first]] = p
    OBVIOUS
  <1>4. (IF p[first] < 128 THEN p[first] ELSE p[first] - 256) = p[first]
    BY <1>2
  <1>5. Signed(p, first) = Combine32(p, first)
    BY <1>3, <1>4, Zenon DEF Signed
  <1>6. first \in Nat
    BY SMT
  <1> QED
    BY <1>1, <1>5, <1>6, Read32

\* A message that is not empty is read as it was written.
LEMMA CppReadsMessage ==
  ASSUME NEW type \in {1, 2}, NEW u \in Word32, NEW m \in Word16,
         NEW data \in Seq(Byte), data # <<>>
  PROVE  CppDecodePacket(CppCreateMsg(type, u, m, data)) =
           [type |-> type, user_id |-> u, msg_id |-> m, msg_data |-> data]
  <1> DEFINE p == CppCreateMsg(type, u, m, data)
  <1>1. type \in Byte /\ u \in Nat /\ m \in Nat
    BY DEF Byte, Word32, Word16
  <1>2. HasHeader(p, type, u, m) /\ Len(p) = 7 + Len(data) /\ SubSeq(p, 8, Len(p)) = data
    BY <1>1, MsgBytes
  <1> HIDE DEF p
  <1>3. p[1] = type /\ Combine32(p, 2) = u /\ Combine16(p, 6) = m
    BY <1>2, HeaderRead
  <1>4. Len(data) \in Nat /\ Len(data) # 0
    BY EmptySeq
  <1>5. ~(Len(p) <= 7) /\ p # <<>>
    BY <1>2, <1>4
  <1>6. CppDecodePacket(p) = CppDecodeMsg(p)
    BY <1>3, <1>5 DEF CppDecodePacket
  <1>7. CppDecodeMsg(p) = [type |-> type, user_id |-> u, msg_id |-> m, msg_data |-> data]
    BY <1>2, <1>3, <1>5 DEF CppDecodeMsg, HEADER_SIZE
  <1> QED
    BY <1>6, <1>7 DEF p

\* The browser reads the message that the router has built.
LEMMA TsReadsMessage ==
  ASSUME NEW type \in {1, 2}, NEW u \in Positive32, NEW m \in Word16,
         NEW data \in Seq(Byte), data # <<>>
  PROVE  TsDecodePacket(CppCreateMsg(type, u, m, data)) =
           [type |-> type, userId |-> u, msgId |-> m, msg_data |-> data]
  <1> DEFINE p == CppCreateMsg(type, u, m, data)
  <1>1. type \in Byte /\ u \in Nat /\ m \in Nat /\ u \in Word32
    BY PositiveIsWord DEF Byte, Word32, Word16
  <1>2. HasHeader(p, type, u, m) /\ Len(p) = 7 + Len(data) /\ SubSeq(p, 8, Len(p)) = data
    BY <1>1, MsgBytes
  <1> HIDE DEF p
  <1>3. p[1] = type /\ Combine16(p, 6) = m
    BY <1>1, <1>2, HeaderRead
  <1>4. Len(data) \in Nat /\ Len(data) # 0
    BY EmptySeq
  <1>5. ~(Len(p) <= 7) /\ p # <<>> /\ 2 \in 1..Len(p)
    BY <1>2, <1>4
  <1>8. Signed(p, 2) = u
    <2>1. p \in Seq(Byte)
      BY <1>2 DEF HasHeader
    <2>2. /\ p[2] = High(Upper(u)) /\ p[2 + 1] = Low(Upper(u))
          /\ p[2 + 2] = High(u) /\ p[2 + 3] = Low(u)
      BY <1>2 DEF HasHeader
    <2> QED
      BY <2>1, <2>2, <1>5, SignedRead
  <1>6. TsDecodePacket(p) = TsDecodeMsg(p)
    BY <1>3, <1>5 DEF TsDecodePacket
  <1>7. TsDecodeMsg(p) = [type |-> type, userId |-> u, msgId |-> m, msg_data |-> data]
    <2>1. TsDecodeMsg(p) = [type |-> p[1], userId |-> Signed(p, 2),
             msgId |-> Combine16(p, 6), msg_data |-> SubSeq(p, 8, Len(p))]
      BY <1>5 DEF TsDecodeMsg, HEADER_SIZE
    <2> QED
      BY <2>1, <1>2, <1>3, <1>8
  <1> QED
    BY <1>6, <1>7 DEF p
-----------------------------------------------------------------------------
(* Four bytes are a number of 32 bits, and that number is the four bytes.    *)

Pair(h, l) == 256 * h + l
Glued(x, y) == Shifted(x) + y

\* A pair of bytes is a number of 16 bits, and that number is the pair.
LEMMA DigitsOf ==
  ASSUME NEW h \in Byte, NEW l \in Byte
  PROVE  Pair(h, l) \in Word16 /\ High(Pair(h, l)) = h /\ Low(Pair(h, l)) = l
  <1>1. /\ h \in Nat /\ h <= 255 /\ l \in Nat /\ l <= 255
    BY SMT DEF Byte
  <1>2. ASSUME NEW a \in Nat, NEW c \in Nat, a <= 255, c <= 255
        PROVE  /\ 256 * a + c \in Nat /\ 256 * a + c <= 65535
               /\ ((256 * a + c) \div 256) % 256 = a /\ (256 * a + c) % 256 = c
    <2>1. 256 * a + c \in Nat /\ 256 * a + c <= 65535
      BY <1>2, SMT
    <2>2. (256 * a + c) \div 256 = a /\ (256 * a + c) % 256 = c /\ a % 256 = a
      BY <1>2, SMT
    <2> QED
      BY <2>1, <2>2, SMT
  <1> QED
    BY <1>1, <1>2, SMT DEF Pair, High, Low, Word16

\* Two halves of a number can be told apart again.
LEMMA HalvesOf ==
  ASSUME NEW x \in Nat, NEW y \in Word16
  PROVE  /\ Upper(Glued(x, y)) = x /\ Glued(x, y) \in Nat
         /\ High(Glued(x, y)) = High(y) /\ Low(Glued(x, y)) = Low(y)
  <1>0. y \in Nat /\ y <= 65535
    BY SMT DEF Word16
  <1>1. /\ (65536 * x + y) \div 65536 = x /\ 65536 * x + y \in Nat
        /\ (65536 * x + y) % 256 = y % 256
    BY <1>0, SMT
  <1>2. PICK z \in Nat : z = y \div 256
    BY <1>0, SMT
  <1>3. (65536 * x + y) \div 256 = 256 * x + z
    <2>1. y = 256 * z + (y % 256) /\ y % 256 \in Nat /\ y % 256 <= 255
      BY <1>0, <1>2, SMT
    <2>2. ASSUME NEW w \in Nat, NEW r \in Nat, r <= 255, NEW t \in Nat, t = 256 * w + r
          PROVE  t \div 256 = w
      BY <2>2, SMT
    <2>3. 256 * x + z \in Nat /\ 65536 * x + y = 256 * (256 * x + z) + (y % 256)
      BY <1>0, <1>2, <2>1, SMT
    <2> QED
      BY <1>1, <2>1, <2>2, <2>3, SMT
  <1>4. (256 * x + z) % 256 = z % 256
    BY SMT
  <1> QED
    BY <1>1, <1>2, <1>3, <1>4, SMT DEF Upper, Shifted, High, Low, Glued

\* Four bytes, one by one,
LEMMA FourDigits ==
  ASSUME NEW b, b[1] \in Byte, b[2] \in Byte, b[3] \in Byte, b[4] \in Byte
  PROVE  /\ Combine32(b, 1) \in Word32
         /\ AppendBits32(Combine32(b, 1)) = <<b[1], b[2], b[3], b[4]>>
  <1> DEFINE x == Pair(b[1], b[2])
             y == Pair(b[3], b[4])
             v == Glued(x, y)
  <1>2. x \in Word16 /\ High(x) = b[1] /\ Low(x) = b[2]
    BY DigitsOf
  <1>3. y \in Word16 /\ High(y) = b[3] /\ Low(y) = b[4]
    BY DigitsOf
  <1>4. Combine32(b, 1) = v
    BY DEF Combine32, Combine16, Pair, Glued
  <1> HIDE DEF x, y
  <1>5. x \in Nat /\ x <= 65535
    BY <1>2, SMT DEF Word16
  <1>6. v \in Nat /\ Upper(v) = x /\ High(v) = High(y) /\ Low(v) = Low(y)
    BY <1>3, <1>5, HalvesOf
  <1> HIDE DEF v
  <1>7. AppendBits32(v) = <<b[1], b[2], b[3], b[4]>>
    BY <1>2, <1>3, <1>6 DEF AppendBits32
  <1>8. v \in Word32
    BY <1>5, <1>6, SMT DEF Word32
  <1> QED
    BY <1>4, <1>7, <1>8

\* and as a sequence: an IP address.
LEMMA FourBytes ==
  ASSUME NEW b \in Seq(Byte), Len(b) = 4
  PROVE  Combine32(b, 1) \in Word32 /\ AppendBits32(Combine32(b, 1)) = b
  <1>1. \A i \in 1..4 : b[i] \in Byte
    OBVIOUS
  <1>2. b[1] \in Byte /\ b[2] \in Byte /\ b[3] \in Byte /\ b[4] \in Byte
    BY <1>1
  <1>4. /\ Combine32(b, 1) \in Word32
        /\ AppendBits32(Combine32(b, 1)) = <<b[1], b[2], b[3], b[4]>>
    BY <1>2, FourDigits
  <1>5. <<b[1], b[2], b[3], b[4]>> = b
    OBVIOUS
  <1> QED
    BY <1>4, <1>5

\* A request of the browser is the head of a packet, and is read as such.
LEMMA RequestBytes ==
  ASSUME NEW ip \in Seq(Byte), Len(ip) = 4, NEW port \in Word16
  PROVE  TsCreateUserPacket(ip, port) = Header(3, Combine32(ip, 1), port)
  <1>1. ~(port > 65535 \/ port < 0)
    BY SMT DEF Word16
  <1>2. TsCreateUserPacket(ip, port) = <<3>> \o ip \o AppendBits16(port)
    BY <1>1 DEF TsCreateUserPacket, NumberToBytes
  <1>3. AppendBits32(Combine32(ip, 1)) = ip
    BY FourBytes
  <1> QED
    BY <1>2, <1>3 DEF Header

\* The router reads the address and the port of a browser's request.
LEMMA CppReadsRequest ==
  ASSUME NEW ip \in Seq(Byte), Len(ip) = 4, NEW port \in Word16
  PROVE  CppDecodePacket(TsCreateUserPacket(ip, port)) =
           [type |-> 3, ip |-> Combine32(ip, 1), port |-> port]
  <1> DEFINE a == Combine32(ip, 1)
             p == Header(3, a, port)
  <1>1. a \in Word32
    BY FourBytes
  <1> HIDE DEF a
  <1>2. a \in Nat /\ port \in Nat /\ 3 \in Byte
    BY <1>1, SMT DEF Word32, Word16, Byte
  <1>3. HasHeader(p, 3, a, port) /\ Len(p) = 7
    BY <1>2, HeaderBytes
  <1> HIDE DEF p
  <1>4. p[1] = 3 /\ Combine32(p, 2) = a /\ Combine16(p, 6) = port
    BY <1>1, <1>3, HeaderRead
  <1>5. p # <<>>
    BY <1>3
  <1>6. CppDecodePacket(p) = CppDecodeUserCreation(p)
    BY <1>4, <1>5 DEF CppDecodePacket
  <1>7. CppDecodeUserCreation(p) = [type |-> 3, ip |-> a, port |-> port]
    BY <1>3, <1>4 DEF CppDecodeUserCreation, HEADER_SIZE
  <1>8. TsCreateUserPacket(ip, port) = p
    BY RequestBytes DEF p, a
  <1> QED
    BY <1>6, <1>7, <1>8 DEF a

\* The router of the peer and the browser of the user read the confirmation.
LEMMA ConfirmationRead ==
  ASSUME NEW ip \in Word32, NEW port \in Word16, NEW u \in Positive32
  PROVE  /\ CppDecodePacket(CppCreateConfirmation(ip, port, u)) =
              [type |-> 4, ip |-> ip, port |-> port, user_id |-> u]
         /\ TsDecodePacket(CppCreateConfirmation(ip, port, u)) =
              [type |-> 4, ip |-> AppendBits32(ip), port |-> port, userId |-> u]
  <1> DEFINE p == CppCreateConfirmation(ip, port, u)
  <1>1. ip \in Nat /\ port \in Nat /\ u \in Nat /\ u \in Word32
    BY PositiveIsWord DEF Word32, Word16
  <1>2. /\ HasHeader(p, 4, ip, port) /\ Len(p) = 11
        /\ p[8] = High(Upper(u)) /\ p[9] = Low(Upper(u))
        /\ p[10] = High(u) /\ p[11] = Low(u)
    BY <1>1, ConfirmationBytes
  <1> HIDE DEF p
  <1>3. p[1] = 4 /\ Combine32(p, 2) = ip /\ Combine16(p, 6) = port
    BY <1>2, HeaderRead
  <1>4. /\ p[8] = High(Upper(u)) /\ p[8 + 1] = Low(Upper(u))
        /\ p[8 + 2] = High(u) /\ p[8 + 3] = Low(u)
    BY <1>2
  <1>5. Combine32(p, 8) = u
    BY <1>1, <1>4, Read32 DEF Word32
  <1>6. Signed(p, 8) = u
    <2>1. p \in Seq(Byte) /\ 8 \in 1..Len(p)
      BY <1>2 DEF HasHeader
    <2> QED
      BY <2>1, <1>4, SignedRead
  <1>7. SubSeq(p, 2, 5) = AppendBits32(ip)
    <2> DEFINE s == SubSeq(p, 2, 5)
               t == AppendBits32(ip)
    <2>1. t \in Seq(Byte) /\ Len(t) = 4 /\ t[1] = p[2] /\ t[2] = p[3] /\ t[3] = p[4] /\ t[4] = p[5]
      BY <1>1, <1>2, Append32 DEF HasHeader
    <2>2. p \in Seq(Byte)
      BY <1>2 DEF HasHeader
    <2>3. \A i \in 1..Len(p) : p[i] \in Byte
      BY <2>2
    <2>4. \A i \in 2..5 : p[i] \in Byte
      BY <2>3, <1>2
    <2>5. /\ s \in Seq(Byte) /\ Len(s) = (IF 2 <= 5 THEN (5 - 2) + 1 ELSE 0)
          /\ \A i \in 1..((5 - 2) + 1) : s[i] = p[(2 + i) - 1]
      BY <2>4, SubSeqProperties
    <2> HIDE DEF s, t
    <2>6. Len(s) = 4 /\ s[1] = t[1] /\ s[2] = t[2] /\ s[3] = t[3] /\ s[4] = t[4]
      BY <2>1, <2>5
    <2>7. \A i \in 1..4 : s[i] = t[i]
      BY <2>6
    <2>8. s = t
      BY <2>1, <2>5, <2>6, <2>7, SeqEqual
    <2> QED
      BY <2>8 DEF s, t
  <1>8. p # <<>>
    <2>1. p \in Seq(Byte) /\ Len(p) # 0
      BY <1>2 DEF HasHeader
    <2> QED
      BY <2>1, EmptySeq
  <1>9. /\ CppDecodePacket(p) = CppDecodeConfirmation(p)
        /\ TsDecodePacket(p) = TsDecodeConfirmation(p)
    BY <1>3, <1>8 DEF CppDecodePacket, TsDecodePacket
  <1>10. CppDecodeConfirmation(p) =
           [type |-> 4, ip |-> ip, port |-> port, user_id |-> u]
    BY <1>2, <1>3, <1>5 DEF CppDecodeConfirmation, USER_CONFIRMATION_SIZE
  <1>11. TsDecodeConfirmation(p) =
           [type |-> 4, ip |-> AppendBits32(ip), port |-> port, userId |-> u]
    BY <1>2, <1>3, <1>6, <1>7 DEF TsDecodeConfirmation, USER_CONFIRMATION_SIZE
  <1> QED
    BY <1>9, <1>10, <1>11 DEF p

-----------------------------------------------------------------------------
(* Masks.                                                                    *)

\* The four bits of half a byte.
Nibble(b0, b1, b2, b3) == b0 + 2 * b1 + 4 * b2 + 8 * b3

\* The bits of a half are its bits,
LEMMA NibbleBits ==
  ASSUME NEW b0 \in {0, 1}, NEW b1 \in {0, 1}, NEW b2 \in {0, 1}, NEW b3 \in {0, 1}
  PROVE  LET a == Nibble(b0, b1, b2, b3)
         IN /\ a \in 0..15 /\ (a \div 1) % 2 = b0 /\ (a \div 2) % 2 = b1
            /\ (a \div 4) % 2 = b2 /\ (a \div 8) % 2 = b3
  BY SMT DEF Nibble

Bit(a, bit) == (a \div bit) % 2

\* and every half is made of its bits.
LEMMA IsNibble ==
  ASSUME NEW a \in 0..15
  PROVE  /\ a = Nibble(Bit(a, 1), Bit(a, 2), Bit(a, 4), Bit(a, 8))
         /\ Bit(a, 1) \in {0, 1} /\ Bit(a, 2) \in {0, 1}
         /\ Bit(a, 4) \in {0, 1} /\ Bit(a, 8) \in {0, 1}
  BY SMT DEF Nibble, Bit

\* In one half of a byte those bits are set in which two others differ.
Unlike(x, y) == IF x = y THEN 0 ELSE 1

\* XorHalf sets a bit where those of its arguments differ.
LEMMA XorBits ==
  ASSUME NEW a \in 0..15, NEW k \in 0..15
  PROVE  LET r == XorHalf[a][k]
         IN /\ r \in 0..15
            /\ Bit(r, 1) = Unlike(Bit(a, 1), Bit(k, 1))
            /\ Bit(r, 2) = Unlike(Bit(a, 2), Bit(k, 2))
            /\ Bit(r, 4) = Unlike(Bit(a, 4), Bit(k, 4))
            /\ Bit(r, 8) = Unlike(Bit(a, 8), Bit(k, 8))
  <1> DEFINE u1 == Unlike(Bit(a, 1), Bit(k, 1))
             u2 == Unlike(Bit(a, 2), Bit(k, 2))
             u4 == Unlike(Bit(a, 4), Bit(k, 4))
             u8 == Unlike(Bit(a, 8), Bit(k, 8))
             r == XorHalf[a][k]
  <1>1. r = Differ(a, k, 1) + Differ(a, k, 2) + Differ(a, k, 4) + Differ(a, k, 8)
    BY DEF XorHalf
  <1>2. /\ Differ(a, k, 1) = u1 /\ Differ(a, k, 2) = 2 * u2
        /\ Differ(a, k, 4) = 4 * u4 /\ Differ(a, k, 8) = 8 * u8
    BY SMT DEF Unlike, Bit, Differ
  <1>3. u1 \in {0, 1} /\ u2 \in {0, 1} /\ u4 \in {0, 1} /\ u8 \in {0, 1}
    BY DEF Unlike
  <1> HIDE DEF r
  <1>4. r = Nibble(u1, u2, u4, u8)
    BY <1>1, <1>2, Zenon DEF Nibble
  <1> HIDE DEF u1, u2, u4, u8
  <1>5. r \in 0..15 /\ Bit(r, 1) = u1 /\ Bit(r, 2) = u2 /\ Bit(r, 4) = u4 /\ Bit(r, 8) = u8
    BY <1>3, <1>4, NibbleBits DEF Bit
  <1> QED
    BY <1>5 DEF r, u1, u2, u4, u8

\* A half that is masked twice is as it was,
LEMMA HalfXor ==
  ASSUME NEW a \in 0..15, NEW k \in 0..15
  PROVE  XorHalf[a][k] \in 0..15 /\ XorHalf[XorHalf[a][k]][k] = a
  <1> DEFINE r == XorHalf[a][k]
             s == XorHalf[r][k]
  <1>1. /\ r \in 0..15
        /\ Bit(r, 1) = Unlike(Bit(a, 1), Bit(k, 1))
        /\ Bit(r, 2) = Unlike(Bit(a, 2), Bit(k, 2))
        /\ Bit(r, 4) = Unlike(Bit(a, 4), Bit(k, 4))
        /\ Bit(r, 8) = Unlike(Bit(a, 8), Bit(k, 8))
    BY XorBits
  <1> HIDE DEF r
  <1>2. /\ s \in 0..15
        /\ Bit(s, 1) = Unlike(Bit(r, 1), Bit(k, 1))
        /\ Bit(s, 2) = Unlike(Bit(r, 2), Bit(k, 2))
        /\ Bit(s, 4) = Unlike(Bit(r, 4), Bit(k, 4))
        /\ Bit(s, 8) = Unlike(Bit(r, 8), Bit(k, 8))
    BY <1>1, XorBits
  <1> HIDE DEF s
  <1>3. \A x, y \in {0, 1} : Unlike(Unlike(x, y), y) = x
    BY DEF Unlike
  <1>4. /\ Bit(s, 1) = Bit(a, 1) /\ Bit(s, 2) = Bit(a, 2)
        /\ Bit(s, 4) = Bit(a, 4) /\ Bit(s, 8) = Bit(a, 8)
    BY <1>1, <1>2, <1>3, IsNibble
  <1>5. s = a
    BY <1>2, <1>4, IsNibble
  <1> QED
    BY <1>1, <1>5 DEF r, s

\* and so is a byte.
LEMMA MaskTwice ==
  ASSUME NEW a \in Byte, NEW k \in Byte
  PROVE  Xor(a, k) \in Byte /\ Xor(Xor(a, k), k) = a
  <1>1. ASSUME NEW c \in Byte
        PROVE  /\ c \div 16 \in 0..15 /\ c % 16 \in 0..15
               /\ 16 * (c \div 16) + (c % 16) = c
    BY SMT DEF Byte
  <1> DEFINE h == XorHalf[a \div 16][k \div 16]
             l == XorHalf[a % 16][k % 16]
  <1>2. h \in 0..15 /\ XorHalf[h][k \div 16] = a \div 16
    BY <1>1, HalfXor
  <1>3. l \in 0..15 /\ XorHalf[l][k % 16] = a % 16
    BY <1>1, HalfXor
  <1>4. Xor(a, k) = 16 * h + l
    BY DEF Xor
  <1> HIDE DEF h, l
  <1>5. ASSUME NEW x \in Nat, NEW y \in Nat, x <= 15, y <= 15
        PROVE  /\ 16 * x + y \in Byte /\ (16 * x + y) \div 16 = x
               /\ (16 * x + y) % 16 = y
    BY <1>5, SMT DEF Byte
  <1>6. h \in Nat /\ h <= 15 /\ l \in Nat /\ l <= 15
    <2>1. \A z \in 0..15 : z \in Nat /\ z <= 15
      BY SMT
    <2> QED
      BY <1>2, <1>3, <2>1
  <1> DEFINE r == 16 * h + l
  <1>7. r \in Byte /\ r \div 16 = h /\ r % 16 = l
    BY <1>5, <1>6
  <1>8. Xor(a, k) = r
    BY <1>4
  <1> HIDE DEF r
  <1>9. Xor(r, k) = 16 * (a \div 16) + (a % 16)
    BY <1>2, <1>3, <1>7 DEF Xor
  <1> QED
    BY <1>1, <1>7, <1>8, <1>9

-----------------------------------------------------------------------------
(* Frames.                                                                   *)

\* A key is four bytes.
LEMMA KeyIsSeq ==
  ASSUME NEW key \in [1..4 -> Byte]
  PROVE  key \in Seq(Byte) /\ Len(key) = 4
  <1>1. ASSUME NEW n \in Nat, NEW s \in [1..n -> Byte]
        PROVE  s \in Seq(Byte) /\ Len(s) = n
    OBVIOUS
  <1> QED
    BY <1>1

\* Masking makes bytes of bytes, and what is masked twice is as it was.
LEMMA MaskedBytes ==
  ASSUME NEW s \in Seq(Byte), NEW key \in [1..4 -> Byte]
  PROVE  /\ Masked(s, key) \in Seq(Byte) /\ Len(Masked(s, key)) = Len(s)
         /\ Masked(Masked(s, key), key) = s
  <1> DEFINE k(i) == key[((i - 1) % 4) + 1]
             n == Len(s)
             t == Masked(s, key)
  <1>1. n \in Nat /\ DOMAIN s = 1..n
    OBVIOUS
  <1>2. ASSUME NEW i \in 1..n PROVE s[i] \in Byte /\ k(i) \in Byte
    <2>1. ((i - 1) % 4) + 1 \in 1..4
      <3>1. i - 1 \in Nat
        BY <1>1, SMT
      <3>2. \A x \in Nat : (x % 4) + 1 \in 1..4
        BY SMT
      <3> QED
        BY <3>1, <3>2
    <2>2. s[i] \in Byte
      BY <1>1
    <2> QED
      BY <2>1, <2>2
  <1>3. t = [i \in 1..n |-> Xor(s[i], k(i))]
    BY <1>1 DEF Masked
  <1> HIDE DEF k, n, t
  <1>4. \A i \in 1..n : Xor(s[i], k(i)) \in Byte /\ Xor(Xor(s[i], k(i)), k(i)) = s[i]
    BY <1>2, MaskTwice
  <1>5. t \in [1..n -> Byte] /\ \A i \in 1..n : t[i] = Xor(s[i], k(i))
    BY <1>3, <1>4
  <1>6. t \in Seq(Byte) /\ Len(t) = n /\ DOMAIN t = 1..n
    BY <1>1, <1>5
  <1>7. Masked(t, key) = [i \in 1..n |-> Xor(t[i], k(i))]
    BY <1>6 DEF Masked, k
  <1>8. \A i \in 1..n : Xor(t[i], k(i)) = s[i]
    BY <1>4, <1>5
  <1>9. Masked(t, key) = [i \in 1..n |-> s[i]]
    BY <1>7, <1>8
  <1>10. [i \in 1..n |-> s[i]] = s
    BY <1>1
  <1> QED
    BY <1>6, <1>9, <1>10 DEF t, n

\* A frame in parts: the first byte, the length with e bytes that extend it,
\* the key, and the payload.
HasParts(f, L, K, t) ==
  LET n == 1 + Len(L)
  IN /\ f \in Seq(Byte) /\ Len(f) = (n + Len(K)) + Len(t) /\ f[1] = 130
     /\ \A i \in 1..Len(L) : f[1 + i] = L[i]
     /\ SubSeq(f, n + 1, n + Len(K)) = K
     /\ SubSeq(f, (n + Len(K)) + 1, Len(f)) = t

\* A browser's frame has its parts, one after the other.
LEMMA FrameParts ==
  ASSUME NEW L \in Seq(Byte), NEW K \in Seq(Byte), NEW t \in Seq(Byte)
  PROVE  HasParts(<<130>> \o L \o K \o t, L, K, t)
  <1> DEFINE a == <<130>>
             b == a \o L
             c == b \o K
             f == <<130>> \o L \o K \o t
             n == 1 + Len(L)
  <1>1. a \in Seq(Byte) /\ Len(a) = 1 /\ a[1] = 130
    BY DEF Byte
  <1>2. f = c \o t
    OBVIOUS
  <1> HIDE DEF a, f
  <1>3. a \in Seq(Byte)
    BY <1>1
  <1>4. /\ b \in Seq(Byte) /\ Len(b) = Len(a) + Len(L)
        /\ \A i \in 1..Len(a) : b[i] = a[i]
        /\ \A i \in 1..Len(L) : b[Len(a) + i] = L[i]
    BY <1>3, Joined
  <1> HIDE DEF b
  <1>5. b \in Seq(Byte)
    BY <1>4
  <1>6. /\ c \in Seq(Byte) /\ Len(c) = Len(b) + Len(K)
        /\ \A i \in 1..Len(b) : c[i] = b[i]
        /\ SubSeq(c, Len(b) + 1, Len(c)) = K
    BY <1>5, Prefixed
  <1> HIDE DEF c
  <1>7. c \in Seq(Byte)
    BY <1>6
  <1>8. /\ f \in Seq(Byte) /\ Len(f) = Len(c) + Len(t)
        /\ \A i \in 1..Len(c) : f[i] = c[i]
        /\ SubSeq(f, Len(c) + 1, Len(f)) = t
    BY <1>2, <1>7, Prefixed
  <1>14. Len(L) \in Nat /\ Len(K) \in Nat /\ Len(t) \in Nat
    BY LenProperties
  <1>9. Len(b) = n /\ Len(c) = n + Len(K) /\ Len(f) = (n + Len(K)) + Len(t)
    BY <1>1, <1>4, <1>6, <1>8
  <1>10. SubSeq(f, (n + Len(K)) + 1, Len(f)) = t
    BY <1>8, <1>9
  <1>11. SubSeq(f, n + 1, n + Len(K)) = K
    <2>1. CASE Len(K) = 0
      <3>1. n + Len(K) < n + 1 /\ n + Len(K) \in Int /\ n + 1 \in Int
        BY <1>14, <2>1
      <3>2. SubSeq(f, n + 1, n + Len(K)) = <<>>
        BY <3>1, SubSeqEmpty
      <3> QED
        BY <2>1, <3>2, EmptySeq
    <2>2. CASE Len(K) # 0
      <3> DEFINE first == n + 1
                 last  == n + Len(K)
      <3>1. first \in 1..Len(c) /\ last \in 1..Len(c)
        BY <1>9, <1>14, <2>2
      <3> HIDE DEF first, last
      <3>2. SubSeq(c \o t, first, last) = SubSeq(c, first, last)
        BY <1>7, <3>1, SubSeqOfConcat1
      <3>3. SubSeq(c, first, last) = K
        BY <1>6, <1>9 DEF first, last
      <3> QED
        BY <1>2, <3>2, <3>3 DEF first, last
    <2> QED
      BY <2>1, <2>2
  <1>12. f[1] = 130
    <2>1. 1 \in 1..Len(a) /\ 1 \in 1..Len(b) /\ 1 \in 1..Len(c)
      BY <1>1, <1>9, <1>14
    <2> QED
      BY <1>1, <1>4, <1>6, <1>8, <2>1
  <1>13. ASSUME NEW i \in 1..Len(L) PROVE f[1 + i] = L[i]
    <2>1. 1 + i \in 1..Len(b) /\ 1 + i \in 1..Len(c) /\ Len(a) + i = 1 + i
      BY <1>1, <1>9, <1>14
    <2>2. b[1 + i] = L[i]
      BY <1>4, <2>1
    <2> QED
      BY <1>6, <1>8, <2>1, <2>2
  <1> QED
    BY <1>8, <1>9, <1>10, <1>11, <1>12, <1>13 DEF f, HasParts

LaidOut(f, L, e, K, t) ==
  /\ f \in Seq(Byte) /\ Len(f) = (6 + e) + Len(t) /\ f[1] = 130
  /\ \A i \in 1..(1 + e) : f[1 + i] = L[i]
  /\ SubSeq(f, 3 + e, 6 + e) = K
  /\ SubSeq(f, 7 + e, (6 + e) + Len(t)) = t

\* The same, with positions counted from the number of bytes that extend
\* the length.
LEMMA FrameLayout ==
  ASSUME NEW L \in Seq(Byte), NEW e \in Nat, Len(L) = 1 + e,
         NEW K \in Seq(Byte), Len(K) = 4, NEW t \in Seq(Byte)
  PROVE  LaidOut(<<130>> \o L \o K \o t, L, e, K, t)
  <1> DEFINE f == <<130>> \o L \o K \o t
             n == 1 + Len(L)
  <1>1. /\ f \in Seq(Byte) /\ Len(f) = (n + Len(K)) + Len(t) /\ f[1] = 130
        /\ \A i \in 1..Len(L) : f[1 + i] = L[i]
        /\ SubSeq(f, n + 1, n + Len(K)) = K
        /\ SubSeq(f, (n + Len(K)) + 1, Len(f)) = t
    <2>1. HasParts(f, L, K, t)
      BY FrameParts
    <2> HIDE DEF f
    <2> QED
      BY <2>1, Zenon DEF HasParts
  <1> HIDE DEF f
  <1>2. /\ n + 1 = 3 + e /\ n + Len(K) = 6 + e /\ (n + Len(K)) + 1 = 7 + e
    OBVIOUS
  <1>3. LaidOut(f, L, e, K, t)
    <2>1. Len(f) = (6 + e) + Len(t) /\ SubSeq(f, 3 + e, 6 + e) = K
      BY <1>1, <1>2, Zenon
    <2>2. SubSeq(f, 7 + e, (6 + e) + Len(t)) = t
      BY <1>1, <1>2, <2>1, Zenon
    <2>3. \A i \in 1..(1 + e) : f[1 + i] = L[i]
      BY <1>1, Zenon
    <2> QED
      BY <1>1, <2>1, <2>2, <2>3, Zenon DEF LaidOut
  <1> QED
    BY <1>3, Zenon DEF f

\* The length of a frame, in e bytes behind the second, is n.
Says(f, e, n) ==
  \/ e = 0 /\ f[2] % 128 = n /\ n <= 125
  \/ e = 2 /\ f[2] % 128 = 126 /\ Combine16(f, 3) = n
  \/ e = 8 /\ f[2] % 128 = 127 /\ Combine64(f, 3) = n

\* decodeFrame finds the fields of a masked frame whose length is said.
LEMMA FieldsOf ==
  ASSUME NEW f, NEW e \in Nat, NEW n \in Nat, f[2] >= 128, Says(f, e, n)
  PROVE  Fields(f) = [masked |-> TRUE, key |-> SubSeq(f, 3 + e, 6 + e),
                      first |-> 7 + e, last |-> (6 + e) + n]
  <1> DEFINE short   == f[2] % 128
             extSize == CASE short = 126 -> 2 [] short = 127 -> 8 [] OTHER -> 0
             length  == IF extSize = 0 THEN short ELSE Extended(f)
             pos     == (2 + extSize) + 4
  <1>1. extSize = e /\ length = n
    <2>1. CASE e = 0 /\ f[2] % 128 = n /\ n <= 125
      BY <2>1
    <2>2. CASE e = 2 /\ f[2] % 128 = 126 /\ Combine16(f, 3) = n
      BY <2>2 DEF Extended
    <2>3. CASE e = 8 /\ f[2] % 128 = 127 /\ Combine64(f, 3) = n
      BY <2>3 DEF Extended
    <2> QED
      BY <2>1, <2>2, <2>3 DEF Says
  <1>2. (IF f[2] >= 128 THEN 4 ELSE 0) = 4 /\ (f[2] >= 128) = TRUE
    OBVIOUS
  <1>3. Fields(f) = [masked |-> f[2] >= 128, key |-> SubSeq(f, 3 + extSize, 6 + extSize),
                     first |-> pos + 1, last |-> pos + length]
    BY <1>2, Zenon DEF Fields
  <1> HIDE DEF extSize, length, short
  <1>4. pos + 1 = 7 + e /\ pos + length = (6 + e) + n
    BY <1>1
  <1> HIDE DEF pos
  <1> QED
    BY <1>1, <1>2, <1>3, <1>4, Zenon

\* A frame that is laid out as decodeFrame expects is one, and its payload
\* is unmasked.
LEMMA DecodesFrame ==
  ASSUME NEW f, NEW e \in Nat, NEW t, NEW key, Len(t) \in Nat,
         f[1] = 130, f[2] >= 128, Says(f, e, Len(t)), Len(f) = (6 + e) + Len(t),
         SubSeq(f, 3 + e, 6 + e) = key,
         SubSeq(f, 7 + e, (6 + e) + Len(t)) = t
  PROVE  IsFrame(f) /\ DecodeFrame(f) = Masked(t, key)
  <1> DEFINE n == Len(t)
             d == Fields(f)
  <1>1. d = [masked |-> TRUE, key |-> key, first |-> 7 + e, last |-> (6 + e) + n]
    <2>1. n \in Nat /\ Says(f, e, n)
      OBVIOUS
    <2> HIDE DEF n
    <2>2. d = [masked |-> TRUE, key |-> SubSeq(f, 3 + e, 6 + e),
               first |-> 7 + e, last |-> (6 + e) + n]
      BY <2>1, FieldsOf
    <2> QED
      BY <2>2, Zenon
  <1>2. d.masked = TRUE /\ d.key = key /\ d.first = 7 + e /\ d.last = (6 + e) + n
    BY <1>1
  <1> HIDE DEF d, n
  <1>3. DecodeFrame(f) = Masked(t, key)
    <2>1. DecodeFrame(f) = IF d.masked THEN Masked(SubSeq(f, d.first, d.last), d.key)
                           ELSE SubSeq(f, d.first, d.last)
      BY DEF DecodeFrame, d
    <2>2. SubSeq(f, d.first, d.last) = t
      BY <1>2, Zenon DEF n
    <2> QED
      BY <1>2, <2>1, <2>2, Zenon
  <1>4. IsFrame(f)
    <2>1. n \in Nat /\ Len(f) = (6 + e) + n
      BY DEF n
    <2>2. Len(f) >= d.first - 1 /\ Len(f) >= d.last /\ Len(f) >= 2
      BY <1>2, <2>1
    <2>3. f[1] % 16 \in Opcode
      BY SMT DEF Opcode, BINARY
    <2>4. (f[2] % 128 = 126 => Len(f) >= 4) /\ (f[2] % 128 = 127 => Len(f) >= 10)
      <3>1. (f[2] % 128 = 126 => e = 2) /\ (f[2] % 128 = 127 => e = 8)
        BY <2>1, SMT DEF Says, n
      <3> QED
        BY <2>1, <3>1
    <2> QED
      BY <2>2, <2>3, <2>4 DEF IsFrame, d
  <1> QED
    BY <1>3, <1>4

\* One byte in front of others.
LEMMA Fronted ==
  ASSUME NEW b \in Byte, NEW s \in Seq(Byte)
  PROVE  /\ <<b>> \o s \in Seq(Byte) /\ Len(<<b>> \o s) = 1 + Len(s)
         /\ (<<b>> \o s)[1] = b
         /\ \A i \in 1..Len(s) : (<<b>> \o s)[1 + i] = s[i]
  <1> DEFINE a == <<b>>
             r == a \o s
  <1>1. a \in Seq(Byte)
    OBVIOUS
  <1>2. Len(a) = 1 /\ a[1] = b
    OBVIOUS
  <1> HIDE DEF a
  <1>3. /\ r \in Seq(Byte) /\ Len(r) = Len(a) + Len(s)
        /\ \A i \in 1..Len(a) : r[i] = a[i]
        /\ \A i \in 1..Len(s) : r[Len(a) + i] = s[i]
    BY <1>1, Joined
  <1> HIDE DEF r
  <1>4. Len(r) = 1 + Len(s) /\ r[1] = b
    BY <1>2, <1>3
  <1>5. \A i \in 1..Len(s) : r[1 + i] = s[i]
    BY <1>2, <1>3, Zenon
  <1> QED
    BY <1>3, <1>4, <1>5 DEF r, a

\* The bytes that extend a length: none, two or eight.
LEMMA Extending ==
  ASSUME NEW n \in Nat
  PROVE  /\ Extension(n) \in Seq(Byte)
         /\ n <= 125 => PayloadLen(n) = n /\ Len(Extension(n)) = 0
         /\ n > 125 /\ n <= 65535 =>
              PayloadLen(n) = 126 /\ Extension(n) = AppendBits16(n)
         /\ n > 65535 => PayloadLen(n) = 127 /\ Extension(n) = AppendBits64(n)
  <1>1. CASE n <= 125
    <2>1. PayloadLen(n) = n /\ n # 126 /\ n # 127
      BY <1>1, SMT DEF PayloadLen
    <2>2. Extension(n) = <<>>
      BY <2>1, Zenon DEF Extension
    <2> HIDE DEF Extension
    <2> QED
      BY <1>1, <2>1, <2>2, SMT
  <1>2. CASE n > 125 /\ n <= 65535
    <2>1. PayloadLen(n) = 126
      BY <1>2, SMT DEF PayloadLen
    <2>2. Extension(n) = AppendBits16(n)
      BY <2>1, SMT DEF Extension
    <2>3. AppendBits16(n) \in Seq(Byte)
      BY Append16
    <2> QED
      BY <1>2, <2>1, <2>2, <2>3, SMT
  <1>3. CASE n > 65535
    <2>1. PayloadLen(n) = 127
      BY <1>3, SMT DEF PayloadLen
    <2>2. Extension(n) = AppendBits64(n)
      BY <2>1, SMT DEF Extension
    <2>3. AppendBits64(n) \in Seq(Byte)
      BY Append64
    <2> QED
      BY <1>3, <2>1, <2>2, <2>3, SMT
  <1> QED
    BY <1>1, <1>2, <1>3, SMT

\* Two or eight bytes, one by one.
LEMMA FirstTwo ==
  ASSUME NEW f, NEW s, \A i \in 1..2 : f[2 + i] = s[i]
  PROVE  f[3] = s[1] /\ f[3 + 1] = s[2]
  BY SMT

\* The same for eight bytes.
LEMMA FirstEight ==
  ASSUME NEW f, NEW s, \A i \in 1..8 : f[2 + i] = s[i]
  PROVE  /\ f[3] = s[1] /\ f[3 + 1] = s[2] /\ f[3 + 2] = s[3] /\ f[3 + 3] = s[4]
         /\ f[3 + 4] = s[5] /\ f[3 + 5] = s[6] /\ f[3 + 6] = s[7]
         /\ f[3 + 7] = s[8]
  BY SMT

\* A length of 64 bits.
Word64 == {n \in Nat : Upper(Upper(Upper(n))) <= 65535}

\* What encodeFrame and a browser say of the length is read as they mean it.
LEMMA LengthSaid ==
  ASSUME NEW n \in Word64, NEW f, f[2] % 128 = PayloadLen(n),
         \A i \in 1..Len(Extension(n)) : f[2 + i] = Extension(n)[i]
  PROVE  Says(f, Len(Extension(n)), n)
  <1>1. n \in Nat /\ Upper(Upper(Upper(n))) <= 65535
    BY DEF Word64
  <1>2. CASE n <= 125
    <2>1. f[2] % 128 = n /\ Len(Extension(n)) = 0
      BY <1>1, <1>2, Extending
    <2> QED
      BY <1>2, <2>1, Zenon DEF Says
  <1>3. CASE n > 125 /\ n <= 65535
    <2>1. f[2] % 128 = 126 /\ Extension(n) = AppendBits16(n)
      BY <1>1, <1>3, Extending, SMT
    <2>2. Len(Extension(n)) = 2 /\ Extension(n)[1] = High(n) /\ Extension(n)[2] = Low(n)
      BY <1>1, <2>1, Append16
    <2>3. f[3] = Extension(n)[1] /\ f[3 + 1] = Extension(n)[2]
      <3>1. \A i \in 1..2 : f[2 + i] = Extension(n)[i]
        BY <2>2, Zenon
      <3> QED
        BY <3>1, FirstTwo
    <2>4. Combine16(f, 3) = n % 65536
      <3>1. f[3] = High(n) /\ f[3 + 1] = Low(n)
        BY <2>2, <2>3, Zenon
      <3> QED
        BY <1>1, <3>1, Read16, SMT
    <2>5. n % 65536 = n
      BY <1>1, <1>3, Small16, SMT
    <2> QED
      BY <2>1, <2>2, <2>4, <2>5, SMT DEF Says
  <1>4. CASE n > 65535
    <2> DEFINE t == Upper(Upper(n))
               x == Extension(n)
    <2>1. f[2] % 128 = 127 /\ x = AppendBits64(n)
      BY <1>1, <1>4, Extending, SMT
    <2>2. /\ Len(x) = 8 /\ x[1] = High(Upper(t)) /\ x[2] = Low(Upper(t))
          /\ x[3] = High(t) /\ x[4] = Low(t)
          /\ x[5] = High(Upper(n)) /\ x[6] = Low(Upper(n))
          /\ x[7] = High(n) /\ x[8] = Low(n)
      BY <1>1, <2>1, Append64
    <2>3. \A i \in 1..8 : f[2 + i] = x[i]
      BY <2>2, Zenon
    <2> HIDE DEF x
    <2>4. /\ f[3] = x[1] /\ f[3 + 1] = x[2] /\ f[3 + 2] = x[3] /\ f[3 + 3] = x[4]
          /\ f[3 + 4] = x[5] /\ f[3 + 5] = x[6] /\ f[3 + 6] = x[7]
          /\ f[3 + 7] = x[8]
      BY <2>3, FirstEight
    <2>5. t \in Nat
      BY <1>1, UpperNat
    <2>6. Combine64(f, 3) = n
      BY <1>1, <2>2, <2>4, Read64
    <2> QED
      BY <2>1, <2>2, <2>6, Zenon DEF Says, x
  <1> QED
    BY <1>1, <1>2, <1>3, <1>4, SMT

\* The length that a browser sends is the one that encodeFrame would send,
\* with the mask bit.
LEMMA BrowsersLength ==
  ASSUME NEW n \in Nat
  PROVE  /\ BrowserLength(n) \in Seq(Byte)
         /\ Len(BrowserLength(n)) = 1 + Len(Extension(n))
         /\ BrowserLength(n)[1] = 128 + PayloadLen(n)
         /\ \A i \in 1..Len(Extension(n)) :
              BrowserLength(n)[1 + i] = Extension(n)[i]
  <1>1. PayloadLen(n) \in Nat /\ PayloadLen(n) <= 127 /\ 128 + PayloadLen(n) \in Byte
    BY SMT DEF PayloadLen, Byte
  <1>2. BrowserLength(n) = <<128 + PayloadLen(n)>> \o Extension(n)
    <2>1. CASE n <= 125
      <3>1. PayloadLen(n) = n /\ Extension(n) = <<>>
        <4>1. PayloadLen(n) = n /\ n # 126 /\ n # 127
          BY <2>1, SMT DEF PayloadLen
        <4> QED
          BY <4>1, Zenon DEF Extension
      <3>2. BrowserLength(n) = <<128 + n>>
        BY <2>1, SMT DEF BrowserLength
      <3>3. <<128 + n>> \in Seq(Nat)
        OBVIOUS
      <3>4. <<128 + n>> \o <<>> = <<128 + n>>
        BY <3>3
      <3> QED
        BY <3>1, <3>2, <3>4, Zenon
    <2>2. CASE n > 125 /\ n <= 65535
      <3>1. PayloadLen(n) = 126 /\ Extension(n) = AppendBits16(n)
        BY <2>2, Extending, SMT
      <3>2. BrowserLength(n) = <<254>> \o AppendBits16(n)
        BY <2>2, SMT DEF BrowserLength
      <3>3. 128 + PayloadLen(n) = 254
        BY <3>1, SMT
      <3>4. <<128 + PayloadLen(n)>> = <<254>>
        BY <3>3, Zenon
      <3> QED
        BY <3>1, <3>2, <3>4, Zenon
    <2>3. CASE n > 65535
      <3>1. PayloadLen(n) = 127 /\ Extension(n) = AppendBits64(n)
        BY <2>3, Extending, SMT
      <3>2. BrowserLength(n) = <<255>> \o AppendBits64(n)
        BY <2>3, SMT DEF BrowserLength
      <3>3. 128 + PayloadLen(n) = 255
        BY <3>1, SMT
      <3>4. <<128 + PayloadLen(n)>> = <<255>>
        BY <3>3, Zenon
      <3> QED
        BY <3>1, <3>2, <3>4, Zenon
    <2> QED
      BY <2>1, <2>2, <2>3, SMT
  <1>3. Extension(n) \in Seq(Byte)
    BY Extending
  <1> DEFINE b == 128 + PayloadLen(n)
             x == Extension(n)
             L == BrowserLength(n)
  <1>4. L = <<b>> \o x /\ b \in Byte /\ x \in Seq(Byte)
    BY <1>1, <1>2, <1>3
  <1> HIDE DEF b, x, L
  <1>5. /\ <<b>> \o x \in Seq(Byte) /\ Len(<<b>> \o x) = 1 + Len(x)
        /\ (<<b>> \o x)[1] = b
        /\ \A i \in 1..Len(x) : (<<b>> \o x)[1 + i] = x[i]
    BY <1>4, Fronted, Zenon
  <1>6. /\ L \in Seq(Byte) /\ Len(L) = 1 + Len(x) /\ L[1] = b
        /\ \A i \in 1..Len(x) : L[1 + i] = x[i]
    BY <1>4, <1>5, Zenon
  <1> QED
    BY <1>6, Zenon DEF b, x, L

\* Four bytes are a masking key.
LEMMA FourLong ==
  ASSUME NEW s \in Seq(Byte), Len(s) = 4
  PROVE  s \in [1..4 -> Byte]
  <1>1. s \in [1..Len(s) -> Byte]
    <2>1. ASSUME NEW S, NEW r \in Seq(S) PROVE r \in [1..Len(r) -> S]
      OBVIOUS
    <2> QED
      BY <2>1, Zenon
  <1> QED
    BY <1>1, Zenon

\* A number of 7 bits is what it is modulo 128.
LEMMA SevenBits == \A v \in Nat : v <= 127 => v % 128 = v
  BY SMT

\* A browser masks as the server does.
LEMMA BrowserMasks ==
  ASSUME NEW s \in Seq(Byte), NEW key
  PROVE  [i \in 1..Len(s) |-> Xor(s[i], key[((i + 3) % 4) + 1])] = Masked(s, key)
  <1> DEFINE n == Len(s)
  <1>1. n \in Nat /\ DOMAIN s = 1..n
    OBVIOUS
  <1> HIDE DEF n
  <1>2. ASSUME NEW i \in 1..n
        PROVE  Xor(s[i], key[((i + 3) % 4) + 1]) = Xor(s[i], key[((i - 1) % 4) + 1])
    <2>1. (i + 3) % 4 = (i - 1) % 4
      BY <1>1, SMT
    <2> QED
      BY <2>1, Zenon
  <1>3. [i \in 1..n |-> Xor(s[i], key[((i + 3) % 4) + 1])] =
          [i \in 1..n |-> Xor(s[i], key[((i - 1) % 4) + 1])]
    BY <1>2, Zenon
  <1> QED
    BY <1>1, <1>3, Zenon DEF Masked, n

\* decodeFrame takes from a browser's frame what the browser put into it.
LEMMA BrowserFrameRead ==
  ASSUME NEW s \in Seq(Byte), Len(s) \in Word64, NEW key \in [1..4 -> Byte]
  PROVE  /\ BrowserFrame(s, key) \in Seq(Byte)
         /\ IsFrame(BrowserFrame(s, key))
         /\ DecodeFrame(BrowserFrame(s, key)) = s
  <1> DEFINE n == Len(s)
             L == BrowserLength(n)
             x == Extension(n)
             e == Len(x)
             t == Masked(s, key)
             f == <<130>> \o L \o key \o t
  <1>1. BrowserFrame(s, key) = f
    BY BrowserMasks, Zenon DEF BrowserFrame
  <1>2. n \in Nat /\ n \in Word64
    BY DEF Word64
  <1>3. t \in Seq(Byte) /\ Len(t) = n /\ Masked(t, key) = s
    BY MaskedBytes
  <1>4. key \in Seq(Byte) /\ Len(key) = 4
    BY KeyIsSeq
  <1>5. /\ L \in Seq(Byte) /\ Len(L) = 1 + e /\ L[1] = 128 + PayloadLen(n)
        /\ \A i \in 1..e : L[1 + i] = x[i]
    BY <1>2, BrowsersLength
  <1>6. e \in Nat
    <2>1. x \in Seq(Byte)
      BY <1>2, Extending
    <2> QED
      BY <2>1
  <1>7. PayloadLen(n) \in Nat /\ PayloadLen(n) <= 127
    BY <1>2, SMT DEF PayloadLen
  <1> HIDE DEF n, L, x, e, t
  <1>8. /\ f \in Seq(Byte) /\ Len(f) = (6 + e) + Len(t) /\ f[1] = 130
        /\ \A i \in 1..(1 + e) : f[1 + i] = L[i]
        /\ SubSeq(f, 3 + e, 6 + e) = key
        /\ SubSeq(f, 7 + e, (6 + e) + Len(t)) = t
    <2>1. LaidOut(<<130>> \o L \o key \o t, L, e, key, t)
      BY <1>3, <1>4, <1>5, <1>6, FrameLayout
    <2> QED
      BY <2>1, Zenon DEF LaidOut, f
  <1> HIDE DEF f
  <1>9. f[2] = 128 + PayloadLen(n)
    BY <1>5, <1>6, <1>8
  <1>10. f[2] % 128 = PayloadLen(n) /\ f[2] >= 128
    BY <1>7, <1>9, SMT
  <1>11. ASSUME NEW i \in 1..e PROVE f[2 + i] = x[i]
    <2>1. 1 + i \in 1..(1 + e) /\ 1 + (1 + i) = 2 + i
      BY <1>6
    <2>2. f[1 + (1 + i)] = L[1 + i] /\ L[1 + i] = x[i]
      BY <1>5, <1>8, <2>1
    <2> QED
      BY <2>1, <2>2
  <1>12. Says(f, e, n)
    BY <1>2, <1>10, <1>11, LengthSaid DEF e, x
  <1>13. IsFrame(f) /\ DecodeFrame(f) = Masked(t, key)
    <2>1. Says(f, e, Len(t)) /\ Len(t) \in Nat
      BY <1>2, <1>3, <1>12
    <2> QED
      BY <1>6, <1>8, <1>10, <2>1, DecodesFrame
  <1> QED
    BY <1>1, <1>3, <1>8, <1>13

\* What decodeFrame returns are bytes.
LEMMA DecodedBytes ==
  ASSUME NEW f \in Seq(Byte), IsFrame(f)
  PROVE  DecodeFrame(f) \in Seq(Byte)
  <1> DEFINE short   == f[2] % 128
             extSize == CASE short = 126 -> 2 [] short = 127 -> 8 [] OTHER -> 0
             length  == IF extSize = 0 THEN short ELSE Extended(f)
             masked  == f[2] >= 128
             pos     == (2 + extSize) + IF masked THEN 4 ELSE 0
             key     == SubSeq(f, 3 + extSize, 6 + extSize)
             d       == Fields(f)
  <1>1. Len(f) \in Nat /\ Len(f) >= 2
    BY DEF IsFrame
  <1>2. f[2] \in Nat
    BY <1>1, ByteNat
  <1>3. short \in Nat
    BY <1>2, SMT
  <1>4. extSize \in Nat /\ length \in Nat
    <2>1. CASE short = 126
      <3>1. Len(f) >= 4
        BY <2>1 DEF IsFrame
      <3>2. Combine16(f, 3) \in Nat
        BY <1>1, <3>1, CombinedNat
      <3> QED
        BY <2>1, <3>2 DEF Extended
    <2>2. CASE short = 127
      <3>1. Len(f) >= 10
        BY <2>2 DEF IsFrame
      <3>2. Combine64(f, 3) \in Nat
        BY <1>1, <3>1, CombinedNat
      <3> QED
        BY <2>2, <3>2 DEF Extended
    <2>3. CASE short # 126 /\ short # 127
      BY <1>3, <2>3
    <2> QED
      BY <2>1, <2>2, <2>3
  <1>5. d = [masked |-> masked, key |-> key, first |-> pos + 1, last |-> pos + length]
    BY Zenon DEF Fields, d
  <1> HIDE DEF extSize, length, short
  <1>6. /\ pos \in Nat /\ (masked => pos = 6 + extSize)
    BY <1>4
  <1> HIDE DEF pos, key, masked, d
  <1>7. /\ d.masked = masked /\ d.key = key /\ d.first = pos + 1
        /\ d.last = pos + length
    BY <1>5
  <1>8. Len(f) >= pos /\ Len(f) >= pos + length
    <2>1. Len(f) >= d.first - 1 /\ Len(f) >= d.last
      BY DEF IsFrame, d
    <2> QED
      BY <1>6, <1>7, <2>1
  <1>9. SubSeq(f, pos + 1, pos + length) \in Seq(Byte)
    BY <1>1, <1>4, <1>6, <1>8
  <1>10. CASE masked
    <2>1. 6 + extSize <= Len(f)
      BY <1>4, <1>6, <1>8, <1>10
    <2>2. key \in Seq(Byte) /\ Len(key) = 4
      BY <1>1, <1>4, <2>1 DEF key
    <2>3. key \in [1..4 -> Byte]
      BY <2>2, FourLong
    <2>4. Masked(SubSeq(f, pos + 1, pos + length), key) \in Seq(Byte)
      BY <1>9, <2>3, MaskedBytes
    <2> QED
      BY <1>7, <1>10, <2>4 DEF DecodeFrame, d
  <1>11. CASE ~masked
    BY <1>7, <1>9, <1>11 DEF DecodeFrame, d
  <1> QED
    BY <1>10, <1>11

\* What encodeFrame makes of a payload, whatever length it is given.
LEMMA EncodedBytes ==
  ASSUME NEW n \in Nat, NEW s \in Seq(Byte)
  PROVE  LET f == EncodeFrame(n, s)
             x == Extension(n)
         IN /\ f \in Seq(Byte) /\ f[2] = PayloadLen(n)
            /\ \A i \in 1..Len(x) : f[2 + i] = x[i]
            /\ SubSeq(f, 3 + Len(x), Len(f)) = s
            /\ Len(f) = (2 + Len(x)) + Len(s)
  <1> DEFINE a == <<128 + BINARY, PayloadLen(n)>>
             x == Extension(n)
             h == a \o x
             f == EncodeFrame(n, s)
  <1>1. PayloadLen(n) \in Byte /\ 128 + BINARY \in Byte
    BY SMT DEF PayloadLen, Byte, BINARY
  <1>2. a \in Seq(Byte)
    BY <1>1
  <1>3. Len(a) = 2 /\ a[2] = PayloadLen(n)
    OBVIOUS
  <1>4. x \in Seq(Byte)
    BY Extending
  <1>5. f = h \o s
    BY DEF EncodeFrame
  <1> HIDE DEF a, x, f
  <1>6. /\ h \in Seq(Byte) /\ Len(h) = Len(a) + Len(x)
        /\ \A i \in 1..Len(a) : h[i] = a[i]
        /\ \A i \in 1..Len(x) : h[Len(a) + i] = x[i]
    BY <1>2, <1>4, Joined
  <1> HIDE DEF h
  <1>7. /\ f \in Seq(Byte) /\ Len(f) = Len(h) + Len(s)
        /\ \A i \in 1..Len(h) : f[i] = h[i]
        /\ SubSeq(f, Len(h) + 1, Len(f)) = s
    <2>1. /\ h \o s \in Seq(Byte) /\ Len(h \o s) = Len(h) + Len(s)
          /\ \A i \in 1..Len(h) : (h \o s)[i] = h[i]
      <3>1. h \in Seq(Byte)
        BY <1>6
      <3> QED
        BY <3>1, Joined, Zenon
    <2>2. SubSeq(h \o s, Len(h) + 1, Len(h \o s)) = s
      BY <1>6, Behind
    <2> QED
      BY <1>5, <2>1, <2>2, Zenon
  <1>8. Len(x) \in Nat /\ Len(h) = 2 + Len(x) /\ Len(h) + 1 = 3 + Len(x)
    BY <1>3, <1>4, <1>6
  <1>9. f[2] = PayloadLen(n)
    <2>1. 2 \in 1..Len(h) /\ 2 \in 1..Len(a)
      BY <1>3, <1>8
    <2> QED
      BY <1>3, <1>6, <1>7, <2>1, Zenon
  <1>10. ASSUME NEW i \in 1..Len(x) PROVE f[2 + i] = x[i]
    <2>1. 2 + i \in 1..Len(h)
      BY <1>8
    <2>2. h[2 + i] = x[i]
      BY <1>3, <1>6
    <2> QED
      BY <1>7, <2>1, <2>2, Zenon
  <1>11. SubSeq(f, 3 + Len(x), Len(f)) = s /\ Len(f) = (2 + Len(x)) + Len(s)
    BY <1>7, <1>8, Zenon
  <1> QED
    BY <1>7, <1>9, <1>10, <1>11 DEF f, x

\* A browser takes from a frame of the server what was put into it, when the
\* constructor was given its length.
LEMMA BrowserPayloadRead ==
  ASSUME NEW s \in Seq(Byte), Len(s) \in Word64
  PROVE  BrowserPayload(EncodeFrame(Len(s), s)) = s
  <1> DEFINE n == Len(s)
             f == EncodeFrame(n, s)
             x == Extension(n)
             e == Len(x)
  <1>1. n \in Nat /\ n \in Word64
    BY DEF Word64
  <1>2. /\ f \in Seq(Byte) /\ f[2] = PayloadLen(n)
        /\ \A i \in 1..e : f[2 + i] = x[i]
        /\ SubSeq(f, 3 + e, Len(f)) = s /\ Len(f) = (2 + e) + n
    BY <1>1, EncodedBytes
  <1>3. PayloadLen(n) \in Nat /\ PayloadLen(n) <= 127
    BY <1>1, SMT DEF PayloadLen
  <1> HIDE DEF n, f
  <1>4. f[2] % 128 = f[2] /\ f[2] \in Nat
    BY <1>2, <1>3, SevenBits
  <1>5. Says(f, e, n)
    BY <1>1, <1>2, <1>4, LengthSaid
  <1> HIDE DEF e, x
  <1>6. CASE e = 0 /\ f[2] % 128 = n /\ n <= 125
    <2>1. f[2] < 126 /\ f[2] = n /\ 3 + e = 3 /\ (2 + e) + n = 2 + f[2]
      BY <1>4, <1>6, SMT
    <2>2. BrowserPayload(f) = SubSeq(f, 3, 2 + f[2])
      BY <2>1, Zenon DEF BrowserPayload
    <2> QED
      BY <1>2, <2>1, <2>2, Zenon DEF f, n
  <1>7. CASE e = 2 /\ f[2] % 128 = 126 /\ Combine16(f, 3) = n
    <2>1. f[2] = 126 /\ 3 + e = 5 /\ (2 + e) + n = 4 + Combine16(f, 3)
      BY <1>1, <1>4, <1>7, SMT
    <2>2. BrowserPayload(f) = SubSeq(f, 5, 4 + Combine16(f, 3))
      BY <2>1, SMT DEF BrowserPayload
    <2> QED
      BY <1>2, <2>1, <2>2, Zenon DEF f, n
  <1>8. CASE e = 8 /\ f[2] % 128 = 127 /\ Combine64(f, 3) = n
    <2>1. f[2] = 127 /\ 3 + e = 11 /\ (2 + e) + n = 10 + Combine64(f, 3)
      BY <1>1, <1>4, <1>8, SMT
    <2>2. BrowserPayload(f) = SubSeq(f, 11, 10 + Combine64(f, 3))
      BY <2>1, SMT DEF BrowserPayload
    <2> QED
      BY <1>2, <2>1, <2>2, Zenon DEF f, n
  <1> QED
    BY <1>5, <1>6, <1>7, <1>8 DEF Says

-----------------------------------------------------------------------------
(* From browser to browser.                                                  *)

\* What the frame of a packet of a positive number of bytes can say.
LEMMA FrameOfPacket ==
  ASSUME NEW p \in Seq(Byte), Len(p) \in Word64, ~ARGS_RIGHT_TO_LEFT
  PROVE  BrowserPayload(Frame(p)) = p
  <1>1. Frame(p) = EncodeFrame(Len(p), p)
    BY Zenon DEF Frame
  <1> QED
    BY <1>1, BrowserPayloadRead, Zenon

\* A packet is not std::nullopt.
LEMMA IsPacket ==
  ASSUME NEW p \in CppPacket
  PROVE  p # NoPacket
  BY PacketAssumption, Zenon

\* The browser and the router build a message in the same way.
LEMMA MessageBytes ==
  ASSUME NEW u \in Positive32 \ {0}, NEW m \in Word16 \ {0}, NEW data \in Seq(Byte)
  PROVE  /\ TsCreateMsgPacket(u, m, data) = CppCreateMsg(1, u, m, data)
         /\ \A type \in {1, 2} :
              /\ CppCreateMsg(type, u, m, data) \in Seq(Byte)
              /\ Len(CppCreateMsg(type, u, m, data)) = 7 + Len(data)
  <1>1. u \in Word32 /\ m \in Word16 /\ u # 0 /\ m # 0
    BY PositiveIsWord
  <1>2. u \in Nat /\ m \in Nat
    BY <1>1 DEF Word32, Word16
  <1>3. ~(u <= 0 \/ m > 65535 \/ m <= 0)
    BY <1>1, <1>2, SMT DEF Word16
  <1>4. TsCreateMsgPacket(u, m, data) = <<1>> \o AppendBits32(u) \o AppendBits16(m) \o data
    <2>1. NumberToBytes(u, 4) = AppendBits32(u)
      BY Zenon DEF NumberToBytes
    <2>2. NumberToBytes(m, 2) = AppendBits16(m)
      BY SMT DEF NumberToBytes
    <2>3. TsCreateMsgPacket(u, m, data) =
            <<1>> \o NumberToBytes(u, 4) \o NumberToBytes(m, 2) \o data
      BY <1>3, SMT DEF TsCreateMsgPacket
    <2> QED
      BY <2>1, <2>2, <2>3, Zenon
  <1>5. ASSUME NEW type \in {1, 2}
        PROVE  /\ CppCreateMsg(type, u, m, data) \in Seq(Byte)
               /\ Len(CppCreateMsg(type, u, m, data)) = 7 + Len(data)
    <2>1. type \in Byte
      BY DEF Byte
    <2> QED
      BY <1>2, <2>1, MsgBytes DEF HasHeader
  <1> QED
    BY <1>4, <1>5, Zenon DEF CppCreateMsg

\* One message, all the way (sendMessage, websocketHandler, tcpHandler,
\* handlePacket): what a user types, with a user id below 2^31 and a message
\* id of 16 bits, reaches the router's decodeFrame as it was encoded, whatever
\* the browser's key; and the frame that the router of the peer makes of it
\* shows the peer the same ids and the same text, under type 2.  Nothing goes
\* back.  ARGS_RIGHT_TO_LEFT would tell encodeFrame a length of 0.
THEOREM MessageRelayed ==
  ASSUME NEW u \in Positive32 \ {0}, NEW m \in Word16 \ {0},
         NEW data \in Seq(Byte) \ {<<>>}, 7 + Len(data) \in Word64,
         NEW key \in [1..4 -> Byte], ~ARGS_RIGHT_TO_LEFT
  PROVE  LET typed   == TsCreateMsgPacket(u, m, data)
             frame   == BrowserFrame(typed, key)
             relayed == ToBrowser(CppDecodePacket(typed))
         IN /\ TsDecodePacket(typed) =
                 [type |-> 1, userId |-> u, msgId |-> m, msg_data |-> data]
            /\ IsFrame(frame) /\ DecodeFrame(frame) = typed
            /\ TsDecodePacket(BrowserPayload(relayed)) =
                 [type |-> 2, userId |-> u, msgId |-> m, msg_data |-> data]
            /\ ToPeers(CppDecodePacket(typed)) = NoPacket
  <1> DEFINE typed   == TsCreateMsgPacket(u, m, data)
             frame   == BrowserFrame(typed, key)
             packet  == CppDecodePacket(typed)
             onward  == CppCreateMsg(2, u, m, data)
  <1>1. u \in Word32 /\ m \in Word16 /\ u \in Positive32 /\ data \in Seq(Byte)
        /\ data # <<>>
    BY PositiveIsWord
  <1>2. /\ typed = CppCreateMsg(1, u, m, data)
        /\ typed \in Seq(Byte) /\ Len(typed) = 7 + Len(data)
        /\ onward \in Seq(Byte) /\ Len(onward) = 7 + Len(data)
    BY <1>1, MessageBytes
  <1>3. TsDecodePacket(typed) =
          [type |-> 1, userId |-> u, msgId |-> m, msg_data |-> data]
    BY <1>1, <1>2, TsReadsMessage
  <1>4. packet = [type |-> 1, user_id |-> u, msg_id |-> m, msg_data |-> data]
    BY <1>1, <1>2, CppReadsMessage
  <1>5. TsDecodePacket(onward) =
          [type |-> 2, userId |-> u, msgId |-> m, msg_data |-> data]
    BY <1>1, TsReadsMessage
  <1> HIDE DEF typed, onward, packet
  <1>6. IsFrame(frame) /\ DecodeFrame(frame) = typed
    BY <1>2, BrowserFrameRead, Zenon
  <1>7. packet # NoPacket
    <2>1. u \in Nat /\ m \in Nat
      BY <1>1 DEF Word32, Word16
    <2>2. packet \in CppPacket
      BY <1>1, <1>4, <2>1 DEF CppPacket
    <2> QED
      BY <2>2, IsPacket
  <1>8. ToBrowser(packet) = Frame(onward)
    <2>1. /\ packet.type = 1 /\ packet.user_id = u /\ packet.msg_id = m
          /\ packet.msg_data = data
      BY <1>4
    <2>2. ToBrowser(packet) =
            Frame(CppCreateMsg(2, packet.user_id, packet.msg_id, packet.msg_data))
      BY <1>7, <2>1, SMT DEF ToBrowser
    <2> QED
      BY <2>1, <2>2, Zenon DEF onward
  <1>9. BrowserPayload(Frame(onward)) = onward
    BY <1>2, FrameOfPacket, Zenon
  <1>10. ToPeers(packet) = NoPacket
    <2>1. packet.type # 3
      BY <1>4
    <2> QED
      BY <2>1, Zenon DEF ToPeers
  <1> QED
    BY <1>3, <1>5, <1>6, <1>8, <1>9, <1>10, Zenon DEF typed, packet

\* One request, all the way (sendUserRequest, websocketHandler, tcpHandler):
\* the router reads the port that was asked for; it shows the request to its
\* own browser and confirms it with the same address and port; the router
\* that gets the confirmation shows the same to the user who asked, and does
\* not confirm the confirmation.
THEOREM RequestAnswered ==
  ASSUME NEW ip \in [1..4 -> Byte], NEW port \in Word16,
         NEW key \in [1..4 -> Byte], ~ARGS_RIGHT_TO_LEFT
  PROVE  LET sent    == TsCreateUserPacket(ip, port)
             frame   == BrowserFrame(sent, key)
             request == CppDecodePacket(sent)
             answer  == CppDecodePacket(ToPeers(request))
             shown   == [type |-> 4, ip |-> ip, port |-> port, userId |-> 1]
         IN /\ IsFrame(frame) /\ DecodeFrame(frame) = sent
            /\ request # NoPacket /\ request.type = 3 /\ request.port = port
            /\ TsDecodePacket(BrowserPayload(ToBrowser(request))) = shown
            /\ TsDecodePacket(BrowserPayload(ToBrowser(answer))) = shown
            /\ ToPeers(answer) = NoPacket
  <1> DEFINE q       == TsCreateUserPacket(ip, port)
             frame   == BrowserFrame(q, key)
             request == CppDecodePacket(q)
             a       == Combine32(ip, 1)
             c       == CppCreateConfirmation(a, port, 1)
             answer  == CppDecodePacket(c)
  <1>1. ip \in Seq(Byte) /\ Len(ip) = 4
    BY KeyIsSeq
  <1>2. a \in Word32 /\ AppendBits32(a) = ip /\ port \in Nat /\ a \in Nat
    BY <1>1, FourBytes DEF Word32, Word16
  <1>3. 1 \in Positive32 /\ 7 \in Word64 /\ 11 \in Word64
    BY SMT DEF Positive32, Word64, Upper
  <1>4. request = [type |-> 3, ip |-> a, port |-> port]
    BY <1>1, CppReadsRequest
  <1>5. q \in Seq(Byte) /\ Len(q) = 7
    <2>1. q = Header(3, a, port) /\ 3 \in Byte
      BY <1>1, RequestBytes DEF Byte
    <2>2. HasHeader(Header(3, a, port), 3, a, port) /\ Len(Header(3, a, port)) = 7
      BY <1>2, <2>1, HeaderBytes
    <2> QED
      BY <2>1, <2>2, Zenon DEF HasHeader
  <1>6. c \in Seq(Byte) /\ Len(c) = 11
    <2>1. HasHeader(c, 4, a, port) /\ Len(c) = 11
      BY <1>2, ConfirmationBytes
    <2> QED
      BY <2>1, Zenon DEF HasHeader
  <1>7. /\ answer = [type |-> 4, ip |-> a, port |-> port, user_id |-> 1]
        /\ TsDecodePacket(c) =
             [type |-> 4, ip |-> ip, port |-> port, userId |-> 1]
    BY <1>2, <1>3, ConfirmationRead
  <1> HIDE DEF q, request, a, c, answer
  <1>8. IsFrame(frame) /\ DecodeFrame(frame) = q
    BY <1>3, <1>5, BrowserFrameRead, Zenon
  <1>9. /\ request.type = 3 /\ request.ip = a /\ request.port = port
        /\ answer.type = 4 /\ answer.ip = a /\ answer.port = port
    BY <1>4, <1>7
  <1>10. request # NoPacket /\ answer # NoPacket
    <2>1. request \in CppPacket /\ answer \in CppPacket
      BY <1>2, <1>4, <1>7 DEF CppPacket
    <2> QED
      BY <2>1, IsPacket
  <1>11. Confirmation(request) = c /\ Confirmation(answer) = c
    BY <1>9, Zenon DEF Confirmation, c
  <1>12. /\ ToPeers(request) = c /\ ToPeers(answer) = NoPacket
         /\ ToBrowser(request) = Frame(c) /\ ToBrowser(answer) = Frame(c)
    BY <1>9, <1>10, <1>11, SMT DEF ToPeers, ToBrowser
  <1>13. BrowserPayload(Frame(c)) = c
    BY <1>3, <1>6, FrameOfPacket, Zenon
  <1> QED
    BY <1>7, <1>8, <1>9, <1>10, <1>12, <1>13, Zenon DEF q, request, answer

-----------------------------------------------------------------------------
(* The ports in order.                                                       *)

\* A set of natural numbers that is not empty has a least member.
LEMMA LeastMember ==
  ASSUME NEW S \in SUBSET Nat, S # {}
  PROVE  \E x \in S : \A y \in S : x <= y
  <1>1. PICK x \in S : \A y \in S : <<y, x>> \notin OpToRel(<, Nat)
    BY NatLessThanWellFounded, WFMin
  <1>2. ASSUME NEW y \in S PROVE ~(y < x)
    BY <1>1 DEF OpToRel
  <1>3. \A y \in S : x \in Nat /\ y \in Nat
    OBVIOUS
  <1> QED
    BY <1>2, <1>3

\* A set of natural numbers that holds 0, and n + 1 with n, holds them all.
LEMMA NatInductive ==
  ASSUME NEW S \in SUBSET Nat, 0 \in S, \A n \in Nat : n \in S => n + 1 \in S
  PROVE  S = Nat
  <1>1. SUFFICES ASSUME Nat \ S # {} PROVE FALSE
    OBVIOUS
  <1>2. PICK x \in Nat \ S : \A y \in Nat \ S : x <= y
    BY <1>1, LeastMember
  <1>3. x # 0 /\ x - 1 \in Nat /\ x - 1 \in S
    BY <1>2
  <1> QED
    BY <1>2, <1>3

Sorted(s, n) == \A i, j \in 1..n : i < j => s[i] < s[j]

\* A number below all others goes in front of them.
LEMMA InFront ==
  ASSUME NEW k \in Nat, NEW T \in SUBSET Nat, NEW x \in T,
         \A y \in T : x <= y, NEW s \in [1..k -> T \ {x}], Sorted(s, k)
  PROVE  \E t \in [1..(k + 1) -> T] : Sorted(t, k + 1)
  <1> DEFINE t == [i \in 1..(k + 1) |-> IF i = 1 THEN x ELSE s[i - 1]]
  <1>1. ASSUME NEW i \in 1..(k + 1), i # 1 PROVE i - 1 \in 1..k /\ t[i] = s[i - 1]
    BY <1>1
  <1>2. t[1] = x
    OBVIOUS
  <1>3. ASSUME NEW i \in 1..(k + 1) PROVE t[i] \in T
    <2>1. CASE i = 1
      BY <1>2, <2>1
    <2>2. CASE i # 1
      BY <1>1, <2>2
    <2> QED
      BY <2>1, <2>2
  <1>4. t \in [1..(k + 1) -> T]
    BY <1>3
  <1> HIDE DEF t
  <1>5. ASSUME NEW i \in 1..(k + 1), NEW j \in 1..(k + 1), i < j PROVE t[i] < t[j]
    <2>1. j - 1 \in 1..k /\ t[j] = s[j - 1]
      BY <1>1, <1>5
    <2>2. CASE i = 1
      <3>1. t[j] \in T \ {x} /\ x \in Nat /\ t[j] \in Nat
        BY <2>1
      <3>2. x <= t[j] /\ x # t[j]
        BY <3>1
      <3> QED
        BY <1>2, <2>2, <3>1, <3>2
    <2>3. CASE i # 1
      <3>1. i - 1 \in 1..k /\ t[i] = s[i - 1] /\ i - 1 < j - 1
        BY <1>1, <1>5, <2>3
      <3> QED
        BY <2>1, <3>1 DEF Sorted
    <2> QED
      BY <2>2, <2>3
  <1>6. Sorted(t, k + 1)
    BY <1>5 DEF Sorted
  <1> QED
    BY <1>4, <1>6

\* The members of a finite set of numbers can be put in ascending order.
LEMMA CanAscend ==
  ASSUME NEW S \in SUBSET Nat, IsFiniteSet(S)
  PROVE  Ascending(S) \in [1..Cardinality(S) -> S] /\ Cardinality(S) \in Nat
  <1> DEFINE Can(T, k) == \E s \in [1..k -> T] : Sorted(s, k)
             G == {k \in Nat : \A T \in SUBSET Nat :
                     IsFiniteSet(T) /\ Cardinality(T) = k => Can(T, k)}
  <1>1. 0 \in G
    <2>1. ASSUME NEW T \in SUBSET Nat PROVE Can(T, 0)
      <3> DEFINE e == [i \in 1..0 |-> 0]
      <3>1. e \in [1..0 -> T] /\ Sorted(e, 0)
        BY DEF Sorted
      <3> QED
        BY <3>1
    <2> QED
      BY <2>1
  <1>2. ASSUME NEW k \in Nat, k \in G PROVE k + 1 \in G
    <2>1. ASSUME NEW T \in SUBSET Nat, IsFiniteSet(T), Cardinality(T) = k + 1
          PROVE  Can(T, k + 1)
      <3>1. T # {}
        BY <2>1, FS_EmptySet
      <3>2. PICK x \in T : \A y \in T : x <= y
        BY <3>1, LeastMember
      <3>3. IsFiniteSet(T \ {x}) /\ Cardinality(T \ {x}) = k
        <4>1. IF x \in T THEN Cardinality(T \ {x}) = Cardinality(T) - 1
              ELSE Cardinality(T \ {x}) = Cardinality(T)
          BY <2>1, FS_RemoveElement, Zenon
        <4>2. IsFiniteSet(T \ {x})
          BY <2>1, FS_RemoveElement, Zenon
        <4>3. Cardinality(T \ {x}) = (k + 1) - 1
          BY <2>1, <4>1, Zenon
        <4> HIDE DEF G, Can
        <4> QED
          BY <4>2, <4>3
      <3>4. Can(T \ {x}, k)
        BY <1>2, <3>3
      <3>5. PICK s \in [1..k -> T \ {x}] : Sorted(s, k)
        BY <3>4
      <3> QED
        BY <3>2, <3>5, InFront
    <2> QED
      BY <2>1
  <1> HIDE DEF Can
  <1>3. G = Nat
    <2>1. G \in SUBSET Nat
      OBVIOUS
    <2> HIDE DEF G
    <2> QED
      BY <1>1, <1>2, <2>1, NatInductive
  <1>4. Cardinality(S) \in Nat
    BY FS_CardinalityType
  <1>5. Can(S, Cardinality(S))
    BY <1>3, <1>4
  <1>6. PICK s \in [1..Cardinality(S) -> S] : Sorted(s, Cardinality(S))
    BY <1>5 DEF Can
  <1>7. \E r \in [1..Cardinality(S) -> S] :
          \A i, j \in DOMAIN r : i < j => r[i] < r[j]
    <2>1. DOMAIN s = 1..Cardinality(S)
      OBVIOUS
    <2> QED
      BY <1>6, <2>1, Zenon DEF Sorted
  <1> QED
    BY <1>4, <1>7, Zenon DEF Ascending

\* What tcpHandler hands on is a sequence of what it has made.
LEMMA InOrderTyped ==
  ASSUME NEW V, NEW R \in SUBSET Nat, IsFiniteSet(R),
         NEW reply \in [R -> V \cup {NoPacket}]
  PROVE  InOrder(reply) \in Seq(V)
  <1> DEFINE S == {p \in DOMAIN reply : reply[p] # NoPacket}
             n == Cardinality(S)
             ports == Ascending(S)
  <1>1. S \in SUBSET R /\ S \in SUBSET Nat
    OBVIOUS
  <1>2. \A p \in S : reply[p] \in V
    OBVIOUS
  <1>3. IsFiniteSet(S)
    BY <1>1, FS_Subset
  <1>4. InOrder(reply) = [i \in DOMAIN ports |-> reply[ports[i]]]
    BY Zenon DEF InOrder
  <1> HIDE DEF S
  <1>5. ports \in [1..n -> S] /\ n \in Nat
    BY <1>1, <1>3, CanAscend
  <1> HIDE DEF ports, n
  <1>6. DOMAIN ports = 1..n /\ \A i \in 1..n : reply[ports[i]] \in V
    BY <1>2, <1>5
  <1>7. InOrder(reply) \in [1..n -> V]
    BY <1>4, <1>6
  <1> QED
    BY <1>5, <1>7

-----------------------------------------------------------------------------
(* What is sent are bytes.                                                   *)

\* What a browser sends are bytes, whatever the packet.
LEMMA BrowserBytes ==
  ASSUME NEW s \in Seq(Byte), NEW key \in [1..4 -> Byte]
  PROVE  BrowserFrame(s, key) \in Seq(Byte)
  <1> DEFINE L == BrowserLength(Len(s))
             t == Masked(s, key)
  <1>1. L \in Seq(Byte)
    <2>1. Len(s) \in Nat
      OBVIOUS
    <2> QED
      BY <2>1, BrowsersLength
  <1>2. t \in Seq(Byte) /\ key \in Seq(Byte)
    BY MaskedBytes, KeyIsSeq
  <1>3. BrowserFrame(s, key) = <<130>> \o L \o key \o t
    BY BrowserMasks, Zenon DEF BrowserFrame
  <1> HIDE DEF L, t
  <1>4. HasParts(<<130>> \o L \o key \o t, L, key, t)
    BY <1>1, <1>2, FrameParts
  <1> QED
    BY <1>3, <1>4, Zenon DEF HasParts

\* The packets that users can enter.
LEMMA MessageTyped ==
  ASSUME NEW data \in Seq(Byte)
  PROVE  TsCreateMsgPacket(1, 1, data) \in Seq(Byte)
  <1>1. 1 \in Positive32 \ {0} /\ 1 \in Word16 \ {0}
    BY SMT DEF Positive32, Word16, Upper
  <1> QED
    BY <1>1, MessageBytes, Zenon

\* The same for a request.
LEMMA RequestTyped ==
  ASSUME NEW ip \in [1..4 -> Byte], NEW port \in Word16
  PROVE  TsCreateUserPacket(ip, port) \in Seq(Byte)
  <1>1. ip \in Seq(Byte) /\ Len(ip) = 4
    BY KeyIsSeq
  <1>2. Combine32(ip, 1) \in Nat /\ port \in Nat /\ 3 \in Byte
    BY <1>1, FourBytes DEF Word32, Word16, Byte
  <1>3. HasHeader(Header(3, Combine32(ip, 1), port), 3, Combine32(ip, 1), port)
    BY <1>2, HeaderBytes
  <1>4. TsCreateUserPacket(ip, port) = Header(3, Combine32(ip, 1), port)
    BY <1>1, RequestBytes
  <1> QED
    BY <1>3, <1>4, Zenon DEF HasHeader

\* What the router sends for a packet that it has read.
LEMMA FrameTyped ==
  ASSUME NEW s \in Seq(Byte)
  PROVE  Frame(s) \in Seq(Byte)
  <1>1. Len(s) \in Nat /\ 0 \in Nat
    OBVIOUS
  <1>2. EncodeFrame(0, s) \in Seq(Byte) /\ EncodeFrame(Len(s), s) \in Seq(Byte)
    BY <1>1, EncodedBytes, Zenon
  <1>3. CASE ARGS_RIGHT_TO_LEFT
    BY <1>2, <1>3, Zenon DEF Frame
  <1>4. CASE ~ARGS_RIGHT_TO_LEFT
    BY <1>2, <1>4, Zenon DEF Frame
  <1> QED
    BY <1>3, <1>4

\* A confirmation is bytes.
LEMMA ConfirmationTyped ==
  ASSUME NEW packet, packet.ip \in Nat, packet.port \in Nat
  PROVE  Confirmation(packet) \in Seq(Byte)
  <1>1. HasHeader(CppCreateConfirmation(packet.ip, packet.port, 1), 4,
                  packet.ip, packet.port)
    <2>1. 1 \in Nat
      OBVIOUS
    <2> QED
      BY <2>1, ConfirmationBytes
  <1> QED
    BY <1>1, Zenon DEF HasHeader, Confirmation

\* The fields of a packet of each type.
LEMMA PacketFields ==
  ASSUME NEW packet \in CppPacket
  PROVE  /\ packet.type \in {1, 2, 3, 4}
         /\ packet.type = 1 => /\ packet.user_id \in Nat /\ packet.msg_id \in Nat
                               /\ packet.msg_data \in Seq(Byte)
         /\ packet.type \in {3, 4} => packet.ip \in Nat /\ packet.port \in Nat
  <1>1. CASE packet \in
          [type : {1, 2}, user_id : Nat, msg_id : Nat, msg_data : Seq(Byte)]
    BY <1>1
  <1>2. CASE packet \in [type : {3}, ip : Nat, port : Nat]
    BY <1>2
  <1>3. CASE packet \in [type : {4}, ip : Nat, port : Nat, user_id : Nat]
    BY <1>3
  <1> QED
    BY <1>1, <1>2, <1>3 DEF CppPacket

\* What tcpHandler sends, if anything, are bytes.
LEMMA SentTyped ==
  ASSUME NEW packet \in CppPacket \cup {NoPacket}
  PROVE  /\ ToBrowser(packet) \in Seq(Byte) \cup {NoPacket}
         /\ ToPeers(packet) \in Seq(Byte) \cup {NoPacket}
  <1>1. CASE packet = NoPacket
    BY <1>1, Zenon DEF ToBrowser, ToPeers
  <1>2. CASE packet # NoPacket
    <2>1. packet \in CppPacket
      BY <1>2
    <2>2. packet.type \in {1, 2, 3, 4}
      BY <2>1, PacketFields
    <2>3. CASE packet.type = 1
      <3> DEFINE m == CppCreateMsg(2, packet.user_id, packet.msg_id, packet.msg_data)
      <3>1. m \in Seq(Byte)
        <4>1. /\ packet.user_id \in Nat /\ packet.msg_id \in Nat
              /\ packet.msg_data \in Seq(Byte) /\ 2 \in Byte
          BY <2>1, <2>3, PacketFields DEF Byte
        <4>2. HasHeader(m, 2, packet.user_id, packet.msg_id)
          BY <4>1, MsgBytes
        <4> QED
          BY <4>2, Zenon DEF HasHeader
      <3>2. Frame(m) \in Seq(Byte)
        BY <3>1, FrameTyped, Zenon
      <3>3. ToBrowser(packet) = Frame(m) /\ ToPeers(packet) = NoPacket
        <4> HIDE DEF m
        <4>1. packet.type # 3
          BY <2>3
        <4>2. ToPeers(packet) = NoPacket
          BY <4>1, Zenon DEF ToPeers
        <4>3. ToBrowser(packet) = Frame(m)
          BY <1>2, <2>3, SMT DEF ToBrowser, m
        <4> QED
          BY <4>2, <4>3
      <3> QED
        BY <3>2, <3>3, Zenon
    <2>4. CASE packet.type \in {3, 4}
      <3>1. Confirmation(packet) \in Seq(Byte)
        BY <2>1, <2>4, PacketFields, ConfirmationTyped
      <3>2. Frame(Confirmation(packet)) \in Seq(Byte)
        BY <3>1, FrameTyped, Zenon
      <3>3. ToBrowser(packet) = Frame(Confirmation(packet))
        BY <1>2, <2>4, SMT DEF ToBrowser
      <3>4. ToPeers(packet) \in {Confirmation(packet), NoPacket}
        BY Zenon DEF ToPeers
      <3> QED
        BY <3>1, <3>2, <3>3, <3>4
    <2>5. CASE packet.type = 2
      <3>1. ToBrowser(packet) = NoPacket
        BY <1>2, <2>5, SMT DEF ToBrowser
      <3>2. ToPeers(packet) = NoPacket
        BY <2>5, SMT DEF ToPeers
      <3> QED
        BY <3>1, <3>2
    <2> QED
      BY <2>2, <2>3, <2>4, <2>5
  <1> QED
    BY <1>1, <1>2

-----------------------------------------------------------------------------
(* Segments.                                                                 *)

SegmentSet == [flag : {"SYN", "SYN_ACK", "ACK"}, data : Seq(Byte)]

\* A stream with no SYN, with nothing but SYNs, and with a SYN in front at most.
NoSyn(s)    == \A i \in 1..Len(s) : s[i].flag # "SYN"
OnlySyn(s)  == \A i \in 1..Len(s) : s[i].flag = "SYN"
SynFirst(s) == \A i \in 1..Len(s) : s[i].flag = "SYN" => i = 1

\* What is sent behind something else.
LEMMA SentBehind ==
  ASSUME NEW s \in Seq(SegmentSet), NEW t \in Seq(SegmentSet), NoSyn(t)
  PROVE  /\ NoSyn(s) => NoSyn(s \o t)
         /\ SynFirst(s) => SynFirst(s \o t)
  <1> DEFINE r == s \o t
  <1>1. /\ Len(r) = Len(s) + Len(t) /\ Len(s) \in Nat /\ Len(t) \in Nat
        /\ \A i \in 1..Len(s) : r[i] = s[i]
        /\ \A i \in 1..Len(t) : r[Len(s) + i] = t[i]
    BY Joined
  <1> HIDE DEF r
  <1>2. ASSUME NEW i \in 1..Len(r)
        PROVE  (i \in 1..Len(s) /\ r[i] = s[i]) \/ r[i].flag # "SYN"
    <2>1. CASE i <= Len(s)
      BY <1>1, <2>1
    <2>2. CASE ~(i <= Len(s))
      <3>1. i - Len(s) \in 1..Len(t) /\ Len(s) + (i - Len(s)) = i
        BY <1>1, <2>2
      <3>2. r[i] = t[i - Len(s)]
        BY <1>1, <3>1
      <3> QED
        BY <3>1, <3>2 DEF NoSyn
    <2> QED
      BY <2>1, <2>2
  <1>3. NoSyn(s) => NoSyn(r)
    BY <1>2 DEF NoSyn
  <1>4. SynFirst(s) => SynFirst(r)
    BY <1>2 DEF SynFirst
  <1> QED
    BY <1>3, <1>4 DEF r

\* What is left when the first segment has been received.
LEMMA Received ==
  ASSUME NEW s \in Seq(SegmentSet), s # <<>>
  PROVE  /\ Tail(s) \in Seq(SegmentSet) /\ Head(s) \in SegmentSet
         /\ SynFirst(s) => NoSyn(Tail(s)) /\ SynFirst(Tail(s))
         /\ OnlySyn(s) => Head(s).flag = "SYN" /\ OnlySyn(Tail(s))
         /\ NoSyn(s) => Head(s).flag # "SYN" /\ NoSyn(Tail(s))
  <1> DEFINE t == Tail(s)
  <1>1. /\ t \in Seq(SegmentSet) /\ Len(s) \in Nat /\ Len(s) >= 1 /\ Len(t) = Len(s) - 1
        /\ \A i \in 1..Len(t) : t[i] = s[i + 1]
        /\ Head(s) = s[1] /\ Head(s) \in SegmentSet
    OBVIOUS
  <1> HIDE DEF t
  <1>2. 1 \in 1..Len(s) /\ \A i \in 1..Len(t) : i + 1 \in 1..Len(s) /\ i + 1 # 1
    BY <1>1
  <1>3. SynFirst(s) => NoSyn(t)
    BY <1>1, <1>2 DEF SynFirst, NoSyn
  <1>4. NoSyn(t) => SynFirst(t)
    BY DEF SynFirst, NoSyn
  <1>5. OnlySyn(s) => Head(s).flag = "SYN" /\ OnlySyn(t)
    BY <1>1, <1>2 DEF OnlySyn
  <1>6. NoSyn(s) => Head(s).flag # "SYN" /\ NoSyn(t)
    BY <1>1, <1>2 DEF NoSyn
  <1> QED
    BY <1>1, <1>3, <1>4, <1>5, <1>6 DEF t

\* One segment that is no SYN, or none.
LEMMA OneSegment ==
  ASSUME NEW seg \in SegmentSet, seg.flag # "SYN"
  PROVE  <<seg>> \in Seq(SegmentSet) /\ NoSyn(<<seg>>)
  BY DEF NoSyn

\* The same where nothing is sent.
LEMMA NoSegment == <<>> \in Seq(SegmentSet) /\ NoSyn(<<>>)
  BY DEF NoSyn

\* A segment is one.
LEMMA BareSegment ==
  ASSUME NEW flag \in {"SYN", "SYN_ACK", "ACK"}, NEW data \in Seq(Byte)
  PROVE  Segment(flag, data) \in SegmentSet /\ Segment(flag, data).flag = flag
  BY DEF Segment, SegmentSet

\* sendMessages sends an ACK, or nothing, and not more than there is.
LEMMA SendMessagesDoes ==
  ASSUME NEW c \in Client, NEW buf \in Seq(Byte), c.lastByteSent <= Len(buf),
         NEW w \in BOOLEAN
  PROVE  LET r == SendMessages(c, buf, w)
         IN /\ r.c \in Client /\ r.c.state = c.state
            /\ r.c.lastByteSent <= Len(buf)
            /\ r.snd \in Seq(SegmentSet) /\ NoSyn(r.snd)
  <1> DEFINE start == c.lastByteSent
             end   == IF Len(buf) - start < MAX_DATA_SIZE THEN Len(buf)
                      ELSE start + MAX_DATA_SIZE
             data  == SubSeq(buf, start + 1, end)
             d     == [c EXCEPT !.lastByteSent = end]
             r     == SendMessages(c, buf, w)
  <1>1. start \in Nat /\ Len(buf) \in Nat /\ start <= Len(buf)
    BY DEF Client
  <1>2. end \in Nat /\ start <= end /\ end <= Len(buf)
    <2>1. MAX_DATA_SIZE \in Nat
      BY RouterAssumption, SMT
    <2> HIDE DEF start
    <2> QED
      BY <1>1, <2>1, SMT
  <1>3. data \in Seq(Byte)
    <2> HIDE DEF start, end
    <2> QED
      BY <1>1, <1>2
  <1>4. d \in Client /\ d.state = c.state /\ d.lastByteSent = end
    <2> HIDE DEF end
    <2> QED
      BY <1>2 DEF Client
  <1>5. CASE start < Len(buf)
    <2>1. r = [c |-> d, snd |-> <<Segment("ACK", data)>>]
      BY <1>5, Zenon DEF SendMessages
    <2> HIDE DEF d, data, r
    <2>2. r.c = d /\ r.snd = <<Segment("ACK", data)>>
      BY <2>1
    <2>3. <<Segment("ACK", data)>> \in Seq(SegmentSet) /\ NoSyn(<<Segment("ACK", data)>>)
      BY <1>3, BareSegment, OneSegment
    <2> QED
      BY <1>2, <1>4, <2>2, <2>3, Zenon DEF r
  <1>6. CASE ~(start < Len(buf))
    <2>1. r = [c |-> c, snd |-> IF w THEN <<Ack>> ELSE <<>>]
      BY <1>6, Zenon DEF SendMessages
    <2>2. <<Ack>> \in Seq(SegmentSet) /\ NoSyn(<<Ack>>)
      <3>1. <<>> \in Seq(Byte)
        OBVIOUS
      <3>2. Ack \in SegmentSet /\ Ack.flag = "ACK"
        BY <3>1, BareSegment, Zenon DEF Ack
      <3> QED
        BY <3>2, OneSegment
    <2> HIDE DEF r
    <2>3. r.c = c /\ r.snd \in {<<Ack>>, <<>>}
      BY <2>1
    <2> QED
      BY <1>1, <2>2, <2>3, NoSegment, Zenon DEF r
  <1> QED
    BY <1>5, <1>6

\* What communicate makes of a client and of a segment from it.  Only a SYN may
\* come from a peer that is no client yet.
LEMMA HandleDoes ==
  ASSUME NEW c \in Client \cup {NoClient}, NEW seg \in SegmentSet,
         NEW buf \in Seq(Byte), c # NoClient => c.lastByteSent <= Len(buf),
         seg.flag # "SYN" => c # NoClient
  PROVE  LET h == Handle(c, seg, buf)
         IN /\ h.c \in Client /\ h.c.lastByteSent <= Len(buf)
            /\ h.snd \in Seq(SegmentSet) /\ NoSyn(h.snd)
            /\ seg.flag # "SYN" => h.c.state = "ESTABLISHED"
            /\ seg.flag = "SYN" => h.c.state = "SYN_SENT"
  <1> DEFINE h == Handle(c, seg, buf)
             d == IF c = NoClient THEN NewClient ELSE c
             e == [c EXCEPT !.state = "ESTABLISHED",
                            !.receivedData = IF seg.data = <<>> THEN @
                                             ELSE Append(@, seg.data)]
  <1>1. seg.flag \in {"SYN", "SYN_ACK", "ACK"} /\ seg.data \in Seq(Byte)
    BY DEF SegmentSet
  <1>2. <<>> \in Seq(Byte) /\ <<>> \in Seq(Seq(Byte))
    OBVIOUS
  <1>3. CASE seg.flag = "SYN"
    <2> DEFINE s == [d EXCEPT !.state = "SYN_SENT"]
               a == Segment("SYN_ACK", <<>>)
    <2>1. d \in Client /\ d.lastByteSent <= Len(buf)
      <3>1. NewClient \in Client /\ NewClient.lastByteSent <= Len(buf)
        BY <1>2 DEF NewClient, Client
      <3> QED
        BY <3>1
    <2>2. h = [c |-> s, snd |-> <<a>>]
      BY <1>3, SMT DEF Handle
    <2>3. a \in SegmentSet /\ a.flag # "SYN"
      BY <1>2, BareSegment
    <2> HIDE DEF h, d, a
    <2>4. s \in Client /\ s.lastByteSent = d.lastByteSent /\ s.state = "SYN_SENT"
      BY <2>1 DEF Client
    <2> HIDE DEF s
    <2>5. h.c = s /\ h.snd = <<a>>
      BY <2>2
    <2> QED
      BY <1>3, <2>1, <2>3, <2>4, <2>5, OneSegment DEF h
  <1>4. CASE seg.flag = "SYN_ACK"
    <2> DEFINE s == [c EXCEPT !.state = "ESTABLISHED"]
    <2>1. c \in Client /\ c.lastByteSent <= Len(buf)
      BY <1>4
    <2>2. h = [c |-> s, snd |-> <<Ack>>]
      BY <1>4, SMT DEF Handle
    <2>3. Ack \in SegmentSet /\ Ack.flag # "SYN"
      BY <1>2, BareSegment, Zenon DEF Ack
    <2> HIDE DEF h
    <2>4. s \in Client /\ s.lastByteSent = c.lastByteSent /\ s.state = "ESTABLISHED"
      BY <2>1 DEF Client
    <2> HIDE DEF s
    <2>5. h.c = s /\ h.snd = <<Ack>>
      BY <2>2
    <2> QED
      BY <1>4, <2>1, <2>3, <2>4, <2>5, OneSegment DEF h
  <1>5. CASE seg.flag = "ACK"
    <2>1. c \in Client /\ c.lastByteSent <= Len(buf)
      BY <1>5
    <2>2. h = SendMessages(e, buf, seg.data # <<>>)
      BY <1>5, SMT DEF Handle
    <2>3. e \in Client /\ e.lastByteSent = c.lastByteSent /\ e.state = "ESTABLISHED"
      <3> DEFINE r == IF seg.data = <<>> THEN c.receivedData
                      ELSE Append(c.receivedData, seg.data)
      <3>1. r \in Seq(Seq(Byte))
        <4>1. c.receivedData \in Seq(Seq(Byte))
          BY <2>1 DEF Client
        <4> QED
          BY <1>1, <4>1
      <3>2. e = [c EXCEPT !.state = "ESTABLISHED", !.receivedData = r]
        OBVIOUS
      <3> HIDE DEF e, r
      <3> QED
        BY <2>1, <3>1, <3>2 DEF Client
    <2> HIDE DEF h, e
    <2>4. /\ h.c \in Client /\ h.c.state = e.state /\ h.c.lastByteSent <= Len(buf)
          /\ h.snd \in Seq(SegmentSet) /\ NoSyn(h.snd)
      <3>1. e.lastByteSent <= Len(buf) /\ (seg.data # <<>>) \in BOOLEAN
        BY <2>1, <2>3
      <3> QED
        BY <2>2, <2>3, <3>1, SendMessagesDoes, Zenon
    <2> QED
      BY <1>5, <2>3, <2>4 DEF h
  <1> QED
    BY <1>1, <1>3, <1>4, <1>5

\* One entry of a table changes.
LEMMA OneEntry ==
  ASSUME NEW N, NEW V, NEW f \in [N -> [N -> V]], NEW a \in N, NEW b \in N, NEW v \in V
  PROVE  /\ [f EXCEPT ![a][b] = v] \in [N -> [N -> V]]
         /\ \A x, y \in N : [f EXCEPT ![a][b] = v][x][y] =
                              IF x = a /\ y = b THEN v ELSE f[x][y]
  OBVIOUS

\* Entries outside the table do not change it.
LEMMA NoEntry ==
  ASSUME NEW N, NEW V, NEW f \in [N -> [N -> V]], NEW a \in N, NEW b, b \notin N,
         NEW v
  PROVE  [f EXCEPT ![a][b] = v] = f
  OBVIOUS

-----------------------------------------------------------------------------
(* The invariant.                                                            *)

RouterTypes ==
  /\ uplink \in [Node -> Seq(Byte)] /\ sendBuffer \in [Node -> Seq(Byte)]
  /\ ws_receiver_queue \in [Node -> Seq(Seq(Byte))]
  /\ ws_sender_queue \in [Node -> Seq(Seq(Byte))]
  /\ tcp_input_queue \in [Node -> Seq(Seq(Byte))]
  /\ clients \in [Node -> [Node -> Client \cup {NoClient}]]
  /\ stream \in [Node -> [Node -> Seq(SegmentSet)]]

\* No client has been sent more than there is.
SentBound ==
  \A n, p \in Node :
    clients[n][p] # NoClient => clients[n][p].lastByteSent <= Len(sendBuffer[n])

\* From n to p: a program without a client sends it nothing, and gets nothing
\* but a SYN from it; a SYN comes first, and never to where the connection
\* stands.
LinkOK(n, p) ==
  /\ clients[n][p] = NoClient =>
       /\ stream[n][p] = <<>> /\ ~Established(clients[p][n])
       /\ OnlySyn(stream[p][n])
  /\ SynFirst(stream[n][p])
  /\ Established(clients[p][n]) => NoSyn(stream[n][p])

Links == \A n, p \in Node : LinkOK(n, p)

RouterInv == RouterTypes /\ SentBound /\ Links

\* A step that neither dials nor receives: clients stay what they are, and
\* where the connection stands, something is sent that is no SYN.
Quiet ==
  \A n, p \in Node :
    /\ (clients'[n][p] = NoClient) <=> (clients[n][p] = NoClient)
    /\ Established(clients'[n][p]) <=> Established(clients[n][p])
    /\ \E t \in Seq(SegmentSet) :
         /\ NoSyn(t) /\ stream'[n][p] = stream[n][p] \o t
         /\ ~Established(clients[n][p]) => t = <<>>

\* Quiet steps keep the links in order.
LEMMA QuietKeeps ==
  ASSUME RouterTypes, Links, Quiet
  PROVE  Links'
  <1> SUFFICES ASSUME NEW n \in Node, NEW p \in Node PROVE LinkOK(n, p)'
    BY DEF Links
  <1>1. LinkOK(n, p)
    BY DEF Links
  <1>2. PICK t \in Seq(SegmentSet) :
          /\ NoSyn(t) /\ stream'[n][p] = stream[n][p] \o t
          /\ ~Established(clients[n][p]) => t = <<>>
    BY DEF Quiet
  <1>3. PICK u \in Seq(SegmentSet) :
          /\ NoSyn(u) /\ stream'[p][n] = stream[p][n] \o u
          /\ ~Established(clients[p][n]) => u = <<>>
    BY DEF Quiet
  <1>4. stream[n][p] \in Seq(SegmentSet) /\ stream[p][n] \in Seq(SegmentSet)
    BY DEF RouterTypes
  <1>5. /\ (clients'[n][p] = NoClient) <=> (clients[n][p] = NoClient)
        /\ Established(clients'[p][n]) <=> Established(clients[p][n])
    BY DEF Quiet
  <1>6. SynFirst(stream'[n][p])
    BY <1>1, <1>2, <1>4, SentBehind DEF LinkOK
  <1>7. Established(clients'[p][n]) => NoSyn(stream'[n][p])
    BY <1>1, <1>2, <1>4, <1>5, SentBehind DEF LinkOK
  <1>8. ASSUME clients'[n][p] = NoClient
        PROVE  /\ stream'[n][p] = <<>> /\ ~Established(clients'[p][n])
               /\ OnlySyn(stream'[p][n])
    <2>1. /\ stream[n][p] = <<>> /\ ~Established(clients[p][n])
          /\ OnlySyn(stream[p][n]) /\ ~Established(clients[n][p])
      BY <1>1, <1>5, <1>8, Zenon DEF LinkOK, Established
    <2>2. t = <<>> /\ u = <<>>
      BY <1>2, <1>3, <2>1
    <2>3. stream'[n][p] = <<>> /\ stream'[p][n] = stream[p][n]
      BY <1>2, <1>3, <1>4, <2>1, <2>2
    <2> QED
      BY <1>5, <2>1, <2>3, Zenon
  <1> QED
    BY <1>6, <1>7, <1>8, Zenon DEF LinkOK, Established

\* A connection that stands goes on standing.
Stays == \A n, p \in Node : Established(clients[n][p]) => Established(clients'[n][p])

\* A new client has been sent nothing and is not connected.
LEMMA NewClientTyped ==
  /\ NewClient \in Client /\ NewClient # NoClient /\ NewClient.lastByteSent = 0
  /\ ~Established(NewClient)
  <1>1. <<>> \in Seq(Seq(Byte))
    OBVIOUS
  <1>2. NewClient \in Client /\ NewClient.lastByteSent = 0 /\ NewClient.state = "SYN_SENT"
    BY <1>1 DEF NewClient, Client
  <1> QED
    BY <1>2, ClientAssumption, Zenon DEF Established

\* addClient, for a peer that is no client.
LEMMA DialKeeps ==
  ASSUME RouterTypes, Links, NEW n \in Node, NEW p \in Node, NEW syn \in SegmentSet,
         syn.flag = "SYN", clients[n][p] = NoClient,
         \A a, b \in Node : clients'[a][b] =
           IF a = n /\ b = p THEN NewClient ELSE clients[a][b],
         \A a, b \in Node : stream'[a][b] =
           IF a = n /\ b = p THEN Append(stream[n][p], syn) ELSE stream[a][b]
  PROVE  Links' /\ Stays
  <1>1. LinkOK(n, p) /\ LinkOK(p, n)
    BY DEF Links
  <1>2. /\ stream[n][p] = <<>> /\ ~Established(clients[p][n])
        /\ OnlySyn(stream[p][n]) /\ SynFirst(stream[p][n])
    BY <1>1 DEF LinkOK
  <1>3. stream'[n][p] = <<syn>>
    BY <1>2
  <1>4. SynFirst(<<syn>>) /\ OnlySyn(<<syn>>)
    BY DEF SynFirst, OnlySyn
  <1>5. clients'[n][p] = NewClient
    OBVIOUS
  <1>6. ~Established(clients'[n][p]) /\ clients'[n][p] # NoClient
    BY <1>5, NewClientTyped
  <1>7. ~Established(clients'[p][n])
    BY <1>2, <1>6
  <1>8. LinkOK(n, p)'
    BY <1>3, <1>4, <1>6, <1>7, Zenon DEF LinkOK, Established
  <1>9. LinkOK(p, n)'
    <2>1. CASE p = n
      BY <1>8, <2>1
    <2>2. CASE p # n
      <3>1. stream'[p][n] = stream[p][n] /\ clients'[p][n] = clients[p][n]
        BY <2>2
      <3>2. clients[p][n] = NoClient => stream[p][n] = <<>>
        BY <1>1 DEF LinkOK
      <3> QED
        BY <1>2, <1>3, <1>4, <1>6, <3>1, <3>2, Zenon DEF LinkOK, Established
    <2> QED
      BY <2>1, <2>2
  <1>10. ASSUME NEW a \in Node, NEW b \in Node, ~(a = n /\ b = p), ~(a = p /\ b = n)
         PROVE  LinkOK(a, b)'
    <2>1. /\ clients'[a][b] = clients[a][b] /\ clients'[b][a] = clients[b][a]
          /\ stream'[a][b] = stream[a][b] /\ stream'[b][a] = stream[b][a]
      BY <1>10, Zenon
    <2>2. LinkOK(a, b)
      BY DEF Links
    <2> QED
      BY <2>1, <2>2, Zenon DEF LinkOK, Established
  <1>11. Links'
    BY <1>8, <1>9, <1>10, Zenon DEF Links
  <1>12. Stays
    <2>1. ~Established(clients[n][p])
      BY Zenon DEF Established
    <2> QED
      BY <2>1, Zenon DEF Stays
  <1> QED
    BY <1>11, <1>12

\* The client of n for p becomes c, a segment from p is taken and snd sent.
Answered(n, p, c, snd) ==
  /\ \A a, b \in Node : clients'[a][b] =
       IF a = n /\ b = p THEN c ELSE clients[a][b]
  /\ \A a, b \in Node : stream'[a][b] =
       IF a = n /\ b = p
       THEN (IF a = p /\ b = n THEN Tail(stream[a][b]) ELSE stream[a][b]) \o snd
       ELSE IF a = p /\ b = n THEN Tail(stream[a][b]) ELSE stream[a][b]

\* A segment from p is received by n, who answers.
LEMMA ReceiveKeeps ==
  ASSUME RouterTypes, Links, NEW n \in Node, NEW p \in Node,
         NEW c \in Client, NEW snd \in Seq(SegmentSet), NoSyn(snd),
         stream[p][n] # <<>>,
         Established(c) <=> Head(stream[p][n]).flag # "SYN",
         Answered(n, p, c, snd)
  PROVE  Links' /\ Stays
  <1> USE DEF Answered
  <1>1. LinkOK(n, p) /\ LinkOK(p, n)
    BY DEF Links
  <1>2. stream[n][p] \in Seq(SegmentSet) /\ stream[p][n] \in Seq(SegmentSet)
    BY DEF RouterTypes
  <1>3. SynFirst(stream[p][n]) /\ SynFirst(stream[n][p]) /\ clients[p][n] # NoClient
    BY <1>1 DEF LinkOK
  <1>4. /\ Tail(stream[p][n]) \in Seq(SegmentSet)
        /\ NoSyn(Tail(stream[p][n])) /\ SynFirst(Tail(stream[p][n]))
    BY <1>2, <1>3, Received
  <1>5. c # NoClient /\ clients'[n][p] = c
    BY ClientAssumption
  <1>6. Established(clients[n][p]) => Established(c)
    <2>1. Established(clients[n][p]) => NoSyn(stream[p][n])
      BY <1>1 DEF LinkOK
    <2> QED
      BY <1>2, <2>1, Received
  <1>7. LinkOK(n, p)' /\ LinkOK(p, n)'
    <2>1. CASE n = p
      <3>1. stream'[n][p] = Tail(stream[p][n]) \o snd
        BY <2>1
      <3>2. NoSyn(Tail(stream[p][n]) \o snd) /\ SynFirst(Tail(stream[p][n]) \o snd)
        BY <1>4, SentBehind
      <3>3. LinkOK(n, p)'
        BY <1>5, <3>1, <3>2, Zenon DEF LinkOK, Established
      <3> QED
        BY <2>1, <3>3
    <2>2. CASE n # p
      <3>1. /\ stream'[n][p] = stream[n][p] \o snd /\ stream'[p][n] = Tail(stream[p][n])
            /\ clients'[p][n] = clients[p][n]
        BY <2>2
      <3>2. SynFirst(stream[n][p] \o snd)
        BY <1>2, <1>3, SentBehind
      <3>3. Established(clients[p][n]) => NoSyn(stream[n][p] \o snd)
        <4>1. Established(clients[p][n]) => NoSyn(stream[n][p])
          BY <1>1 DEF LinkOK
        <4> QED
          BY <1>2, <4>1, SentBehind
      <3>4. LinkOK(n, p)'
        BY <1>5, <3>1, <3>2, <3>3, Zenon DEF LinkOK, Established
      <3>5. LinkOK(p, n)'
        BY <1>3, <1>4, <3>1, Zenon DEF LinkOK, Established
      <3> QED
        BY <3>4, <3>5
    <2> QED
      BY <2>1, <2>2
  <1>8. ASSUME NEW a \in Node, NEW b \in Node, ~(a = n /\ b = p), ~(a = p /\ b = n)
        PROVE  LinkOK(a, b)'
    <2>1. /\ clients'[a][b] = clients[a][b] /\ clients'[b][a] = clients[b][a]
          /\ stream'[a][b] = stream[a][b] /\ stream'[b][a] = stream[b][a]
      BY <1>8, Zenon
    <2>2. LinkOK(a, b)
      BY DEF Links
    <2> QED
      BY <2>1, <2>2, Zenon DEF LinkOK, Established
  <1>9. Links'
    BY <1>7, <1>8, Zenon DEF Links
  <1>10. Stays
    BY <1>6, Zenon DEF Stays
  <1> QED
    BY <1>9, <1>10

\* Where neither clients nor streams change.
LEMMA QuietStays ==
  ASSUME Quiet
  PROVE  Stays
  BY Zenon DEF Quiet, Stays

\* A step that leaves clients, streams and sendBuffer alone.
LEMMA Untouched ==
  ASSUME RouterTypes, Links, SentBound, clients' = clients, stream' = stream,
         sendBuffer' = sendBuffer
  PROVE  Links' /\ SentBound' /\ Stays
  BY Zenon DEF Links, LinkOK, SentBound, Stays, Established

-----------------------------------------------------------------------------
(* The steps.                                                                *)

\* A port is a number of 16 bits.
LEMMA PortsAreWords == \A p \in Node : p \in Word16
  <1>1. \A p \in Node : p \in Port
    BY RouterAssumption, Zenon
  <1>2. \A p \in Port : p \in Word16
    BY SMT DEF Port, Word16
  <1> QED
    BY <1>1, <1>2, Zenon

\* There are only so many ports.
LEMMA NodesAreFinite == IsFiniteSet(Node) /\ Node \in SUBSET Nat
  <1>1. \A p \in Node : p \in Nat /\ p <= 65535
    BY PortsAreWords, SMT DEF Word16
  <1>2. Node \in SUBSET Nat
    BY <1>1, SMT
  <1>3. PICK k \in Nat : k = 65535
    BY SMT
  <1>4. \A p \in Node : p <= k
    BY <1>1, <1>3, SMT
  <1>5. IsFiniteSet(Node)
    BY <1>2, <1>4, FS_BoundedSetOfNaturals, SMT
  <1> QED
    BY <1>2, <1>5

\* The data of users and browsers.
LEMMA InputsTyped ==
  /\ \A text \in Text : text \in Seq(Byte)
  /\ \A key \in MaskKey : key \in [1..4 -> Byte]
  /\ IpBytes \in [1..4 -> Byte]
  <1>1. \A text \in Text : text \in Seq(Byte)
    BY RouterAssumption, Zenon
  <1>2. (\A key \in MaskKey : key \in Bytes4) /\ IpBytes \in Bytes4
    BY RouterAssumption, Zenon
  <1> QED
    BY <1>1, <1>2, Zenon DEF Bytes4

\* The step of a browser that sends a packet,
LEMMA SendKeeps ==
  ASSUME RouterInv, NEW n \in Node, NEW packet \in Seq(Byte) \cup {NoPacket},
         Send(n, packet)
  PROVE  RouterInv' /\ Stays
  <1>1. packet \in Seq(Byte)
    BY DEF Send
  <1>2. PICK key \in MaskKey :
          uplink' = [uplink EXCEPT ![n] = uplink[n] \o BrowserFrame(packet, key)]
    BY Zenon DEF Send
  <1>3. BrowserFrame(packet, key) \in Seq(Byte)
    BY <1>1, <1>2, InputsTyped, BrowserBytes
  <1>4. UNCHANGED <<ws_receiver_queue, ws_sender_queue, tcp_input_queue, clients,
                    sendBuffer, stream>>
    BY DEF Send, tcpVars
  <1>5. uplink' \in [Node -> Seq(Byte)]
    <2> DEFINE f == BrowserFrame(packet, key)
    <2>1. uplink \in [Node -> Seq(Byte)] /\ f \in Seq(Byte)
      BY <1>3 DEF RouterInv, RouterTypes
    <2> HIDE DEF f
    <2>2. uplink[n] \o f \in Seq(Byte)
      BY <2>1
    <2> QED
      BY <1>2, <2>1, <2>2 DEF f
  <1>6. RouterTypes'
    BY <1>4, <1>5, Zenon DEF RouterInv, RouterTypes
  <1> QED
    BY <1>4, <1>6, Untouched, Zenon DEF RouterInv

\* of sendMessage,
LEMMA SendMessageKeeps ==
  ASSUME RouterInv, NEW n \in Node, SendMessage(n)
  PROVE  RouterInv' /\ Stays
  <1>1. PICK text \in Text : Send(n, TsCreateMsgPacket(1, 1, text))
    BY Zenon DEF SendMessage
  <1>2. TsCreateMsgPacket(1, 1, text) \in Seq(Byte)
    BY InputsTyped, MessageTyped
  <1> QED
    BY <1>1, <1>2, SendKeeps, Zenon

\* of sendUserRequest,
LEMMA SendUserRequestKeeps ==
  ASSUME RouterInv, NEW n \in Node, NEW p \in Node, SendUserRequest(n, p)
  PROVE  RouterInv' /\ Stays
  <1>1. Send(n, TsCreateUserPacket(IpBytes, p))
    BY Zenon DEF SendUserRequest
  <1>2. TsCreateUserPacket(IpBytes, p) \in Seq(Byte)
    BY InputsTyped, PortsAreWords, RequestTyped
  <1> QED
    BY <1>1, <1>2, SendKeeps, Zenon

\* of receiveData,
LEMMA ReceiveDataKeeps ==
  ASSUME RouterInv, NEW n \in Node, ReceiveData(n)
  PROVE  RouterInv' /\ Stays
  <1> DEFINE size == IF Len(uplink[n]) < BUFFER_SIZE THEN Len(uplink[n])
                     ELSE BUFFER_SIZE
             got  == SubSeq(uplink[n], 1, size)
             left == SubSeq(uplink[n], size + 1, Len(uplink[n]))
  <1>1. BUFFER_SIZE \in Nat
    BY RouterAssumption, SMT
  <1>2. uplink[n] \in Seq(Byte) /\ Len(uplink[n]) \in Nat
    BY DEF RouterInv, RouterTypes
  <1>3. size \in Nat /\ size <= Len(uplink[n])
    BY <1>1, <1>2
  <1>4. /\ ws_receiver_queue' = [ws_receiver_queue EXCEPT ![n] =
             Append(ws_receiver_queue[n], got)]
        /\ uplink' = [uplink EXCEPT ![n] = left]
        /\ UNCHANGED <<ws_sender_queue, tcp_input_queue, clients, sendBuffer, stream>>
    BY Zenon DEF ReceiveData, tcpVars
  <1> HIDE DEF size
  <1>5. got \in Seq(Byte) /\ left \in Seq(Byte)
    BY <1>2, <1>3
  <1> HIDE DEF got, left
  <1>6. uplink' \in [Node -> Seq(Byte)]
    BY <1>4, <1>5 DEF RouterInv, RouterTypes
  <1>7. ws_receiver_queue' \in [Node -> Seq(Seq(Byte))]
    <2>1. ws_receiver_queue \in [Node -> Seq(Seq(Byte))]
      BY DEF RouterInv, RouterTypes
    <2>2. Append(ws_receiver_queue[n], got) \in Seq(Seq(Byte))
      BY <1>5, <2>1
    <2> QED
      BY <1>4, <2>1, <2>2
  <1>8. RouterTypes'
    BY <1>4, <1>6, <1>7, Zenon DEF RouterInv, RouterTypes
  <1> QED
    BY <1>4, <1>8, Untouched, Zenon DEF RouterInv

\* and of sendData.
LEMMA SendDataKeeps ==
  ASSUME RouterInv, NEW n \in Node, SendData(n)
  PROVE  RouterInv' /\ Stays
  <1>1. /\ ws_sender_queue[n] # <<>>
        /\ ws_sender_queue' = [ws_sender_queue EXCEPT ![n] = Tail(ws_sender_queue[n])]
        /\ UNCHANGED <<uplink, ws_receiver_queue, tcp_input_queue, clients,
                       sendBuffer, stream>>
    BY Zenon DEF SendData, tcpVars
  <1>2. ws_sender_queue' \in [Node -> Seq(Seq(Byte))]
    <2>1. ws_sender_queue \in [Node -> Seq(Seq(Byte))]
      BY DEF RouterInv, RouterTypes
    <2>2. Tail(ws_sender_queue[n]) \in Seq(Seq(Byte))
      BY <1>1, <2>1
    <2> QED
      BY <1>1, <2>1, <2>2
  <1>3. RouterTypes'
    BY <1>1, <1>2, Zenon DEF RouterInv, RouterTypes
  <1> QED
    BY <1>1, <1>3, Untouched, Zenon DEF RouterInv

\* What is at the head of a stream for the router, decoded.
LEMMA FrameHeard ==
  ASSUME RouterInv, NEW n \in Node, HasFrame(n)
  PROVE  DecodeFrame(Head(ws_receiver_queue[n])) \in Seq(Byte)
  <1>1. ws_receiver_queue[n] \in Seq(Seq(Byte))
    BY DEF RouterInv, RouterTypes
  <1>2. ws_receiver_queue[n] # <<>> /\ IsFrame(Head(ws_receiver_queue[n]))
    BY Zenon DEF HasFrame
  <1>3. Head(ws_receiver_queue[n]) \in Seq(Byte)
    BY <1>1, <1>2
  <1> QED
    BY <1>2, <1>3, DecodedBytes, Zenon

\* A new client, or none: the port may be that of no program.
LEMMA ForwardLinks ==
  ASSUME RouterInv, NEW n \in Node, NEW packet, NEW payload, sendBuffer' = sendBuffer,
         Forward(n, packet, payload)
  PROVE  /\ clients' \in [Node -> [Node -> Client \cup {NoClient}]]
         /\ stream' \in [Node -> [Node -> Seq(SegmentSet)]]
         /\ Links' /\ SentBound' /\ Stays
  <1> DEFINE p   == packet.port
             syn == Segment("SYN", <<>>)
             C   == Client \cup {NoClient}
             S   == Seq(SegmentSet)
  <1>1. /\ clients \in [Node -> [Node -> C]] /\ stream \in [Node -> [Node -> S]]
        /\ RouterTypes /\ Links /\ SentBound
    BY DEF RouterInv, RouterTypes
  <1>2. CASE Dials(n, packet) /\ p \in Node
    <2>1. clients[n][p] = NoClient
      BY <1>2, Zenon DEF Dials
    <2>2. /\ clients' = [clients EXCEPT ![n][p] =
               IF clients[n][p] = NoClient THEN NewClient
               ELSE [clients[n][p] EXCEPT !.state = "SYN_SENT"]]
          /\ stream' = [stream EXCEPT ![n][p] = Append(stream[n][p], syn)]
      BY <1>2, Zenon DEF Forward
    <2>3. clients' = [clients EXCEPT ![n][p] = NewClient]
      BY <2>1, <2>2, Zenon
    <2>4. syn \in SegmentSet /\ syn.flag = "SYN"
      <3>1. <<>> \in Seq(Byte)
        OBVIOUS
      <3> QED
        BY <3>1, BareSegment, Zenon
    <2> HIDE DEF syn
    <2>5. NewClient \in C /\ Append(stream[n][p], syn) \in S
      <3>1. stream[n][p] \in Seq(SegmentSet)
        BY <1>1, <1>2
      <3> QED
        BY <2>4, <3>1, NewClientTyped
    <2> HIDE DEF C, S, p
    <2>6. /\ clients' \in [Node -> [Node -> C]]
          /\ \A a, b \in Node : clients'[a][b] =
               IF a = n /\ b = p THEN NewClient ELSE clients[a][b]
      <3> DEFINE g == [clients EXCEPT ![n][p] = NewClient]
      <3>1. /\ g \in [Node -> [Node -> C]]
            /\ \A a, b \in Node : g[a][b] =
                 IF a = n /\ b = p THEN NewClient ELSE clients[a][b]
        BY <1>1, <1>2, <2>5
      <3> QED
        BY <2>3, <3>1, Zenon
    <2>7. /\ stream' \in [Node -> [Node -> S]]
          /\ \A a, b \in Node : stream'[a][b] =
               IF a = n /\ b = p THEN Append(stream[n][p], syn) ELSE stream[a][b]
      <3> DEFINE t == Append(stream[n][p], syn)
                 g == [stream EXCEPT ![n][p] = t]
      <3>1. t \in S /\ stream' = g
        BY <2>2, <2>5, Zenon
      <3> HIDE DEF t
      <3>2. /\ g \in [Node -> [Node -> S]]
            /\ \A a, b \in Node : g[a][b] =
                 IF a = n /\ b = p THEN t ELSE stream[a][b]
        BY <1>1, <1>2, <3>1
      <3> QED
        BY <3>1, <3>2, Zenon DEF t
    <2>8. Links' /\ Stays
      BY <1>1, <1>2, <2>1, <2>4, <2>6, <2>7, DialKeeps
    <2>9. SentBound'
      <3>1. \A a \in Node : sendBuffer'[a] = sendBuffer[a] /\ Len(sendBuffer[a]) \in Nat
        BY <1>1 DEF RouterTypes
      <3>2. \A a \in Node : 0 <= Len(sendBuffer[a])
        BY <3>1
      <3>3. ASSUME NEW a \in Node, NEW b \in Node, clients'[a][b] # NoClient
            PROVE  clients'[a][b].lastByteSent <= Len(sendBuffer'[a])
        <4>1. CASE a = n /\ b = p
          <5>1. clients'[a][b] = NewClient
            BY <2>6, <4>1
          <5> QED
            BY <3>1, <3>2, <5>1, NewClientTyped
        <4>2. CASE ~(a = n /\ b = p)
          <5>1. clients'[a][b] = clients[a][b]
            BY <2>6, <4>2
          <5> QED
            BY <1>1, <3>1, <3>3, <5>1 DEF SentBound
        <4> QED
          BY <4>1, <4>2
      <3> QED
        BY <3>3, Zenon DEF SentBound
    <2> QED
      BY <2>6, <2>7, <2>8, <2>9, Zenon DEF C, S
  <1>3. CASE ~(Dials(n, packet) /\ p \in Node)
    <2>1. clients' = clients /\ stream' = stream
      <3>1. CASE Dials(n, packet)
        <4> DEFINE v == IF clients[n][p] = NoClient THEN NewClient
                        ELSE [clients[n][p] EXCEPT !.state = "SYN_SENT"]
                   w == Append(stream[n][p], syn)
        <4>1. p \notin Node
          BY <1>3, <3>1
        <4>2. /\ clients' = [clients EXCEPT ![n][p] = v]
              /\ stream' = [stream EXCEPT ![n][p] = w]
          BY <3>1, Zenon DEF Forward
        <4> HIDE DEF v, w, p, C, S
        <4>3. [clients EXCEPT ![n][p] = v] = clients
          BY <1>1, <4>1, NoEntry
        <4>4. [stream EXCEPT ![n][p] = w] = stream
          BY <1>1, <4>1, NoEntry
        <4> QED
          BY <4>2, <4>3, <4>4
      <3>2. CASE ~Dials(n, packet)
        BY <3>2, Zenon DEF Forward
      <3> QED
        BY <3>1, <3>2
    <2>2. Links' /\ SentBound' /\ Stays
      BY <1>1, <2>1, Untouched, Zenon
    <2> QED
      BY <1>1, <2>1, <2>2
  <1> QED
    BY <1>2, <1>3

\* websocketHandler takes a frame, and may dial.
LEMMA WebsocketHandlerKeeps ==
  ASSUME RouterInv, NEW n \in Node, WebsocketHandler(n)
  PROVE  RouterInv' /\ Stays
  <1> DEFINE payload == DecodeFrame(Head(ws_receiver_queue[n]))
             packet  == CppDecodePacket(payload)
  <1>1. /\ HasFrame(n)
        /\ ws_receiver_queue' = [ws_receiver_queue EXCEPT ![n] = Tail(ws_receiver_queue[n])]
        /\ UNCHANGED <<uplink, ws_sender_queue, sendBuffer>>
    BY Zenon DEF WebsocketHandler
  <1>2. \/ packet = NoPacket /\ UNCHANGED <<tcp_input_queue, clients, stream>>
        \/ Forward(n, packet, payload)
    BY Zenon DEF WebsocketHandler
  <1>3. payload \in Seq(Byte)
    BY <1>1, FrameHeard
  <1> HIDE DEF payload, packet
  <1>4. ws_receiver_queue' \in [Node -> Seq(Seq(Byte))]
    <2>1. ws_receiver_queue \in [Node -> Seq(Seq(Byte))]
      BY DEF RouterInv, RouterTypes
    <2>2. Tail(ws_receiver_queue[n]) \in Seq(Seq(Byte))
      <3>1. ws_receiver_queue[n] # <<>>
        BY <1>1 DEF HasFrame
      <3> QED
        BY <2>1, <3>1
    <2> QED
      BY <1>1, <2>1, <2>2
  <1>5. CASE packet = NoPacket /\ UNCHANGED <<tcp_input_queue, clients, stream>>
    <2>1. RouterTypes'
      BY <1>1, <1>4, <1>5, Zenon DEF RouterInv, RouterTypes
    <2> QED
      BY <1>1, <1>5, <2>1, Untouched, Zenon DEF RouterInv
  <1>6. CASE Forward(n, packet, payload)
    <2>1. tcp_input_queue' =
            [tcp_input_queue EXCEPT ![n] = Append(tcp_input_queue[n], payload)]
      BY <1>6, Zenon DEF Forward
    <2>2. tcp_input_queue' \in [Node -> Seq(Seq(Byte))]
      <3>1. tcp_input_queue \in [Node -> Seq(Seq(Byte))]
        BY DEF RouterInv, RouterTypes
      <3>2. Append(tcp_input_queue[n], payload) \in Seq(Seq(Byte))
        BY <1>3, <3>1
      <3> QED
        BY <2>1, <3>1, <3>2
    <2>3. /\ clients' \in [Node -> [Node -> Client \cup {NoClient}]]
          /\ stream' \in [Node -> [Node -> Seq(SegmentSet)]]
          /\ Links' /\ SentBound' /\ Stays
      BY <1>1, <1>6, ForwardLinks
    <2>4. RouterTypes'
      BY <1>1, <1>4, <2>2, <2>3, Zenon DEF RouterInv, RouterTypes
    <2> QED
      BY <2>3, <2>4, Zenon DEF RouterInv
  <1> QED
    BY <1>2, <1>5, <1>6

\* What is read from the clients is a packet or none.
LEMMA PeerHeard ==
  ASSUME RouterInv, NEW n \in Node, NEW p \in Readable(n)
  PROVE  /\ p \in Node /\ clients[n][p] \in Client
         /\ [clients[n][p] EXCEPT !.receivedData = Tail(@)] \in Client
         /\ CppDecodePacket(Head(clients[n][p].receivedData)) \in CppPacket \cup {NoPacket}
  <1> DEFINE c == clients[n][p]
  <1>1. p \in Node /\ c # NoClient /\ c.receivedData # <<>>
    BY DEF Readable
  <1>2. c \in Client
    BY <1>1 DEF RouterInv, RouterTypes
  <1> HIDE DEF c
  <1>3. c.receivedData \in Seq(Seq(Byte))
    BY <1>2 DEF Client
  <1>4. Head(c.receivedData) \in Seq(Byte) /\ Tail(c.receivedData) \in Seq(Seq(Byte))
    BY <1>1, <1>3
  <1>5. [c EXCEPT !.receivedData = Tail(c.receivedData)] \in Client
    <2> DEFINE t == Tail(c.receivedData)
    <2> HIDE DEF t
    <2>1. t \in Seq(Seq(Byte))
      BY <1>4 DEF t
    <2>2. [c EXCEPT !.receivedData = t] \in Client
      BY <1>2, <2>1 DEF Client
    <2> QED
      BY <2>2 DEF t
  <1>6. CppDecodePacket(Head(c.receivedData)) \in CppPacket \cup {NoPacket}
    BY <1>4, CppDecodes, Zenon
  <1> QED
    BY <1>1, <1>2, <1>5, <1>6 DEF c

\* The answers that tcpHandler hands on, to the browser and to the peers.
LEMMA AnswersTyped ==
  ASSUME RouterInv, NEW n \in Node
  PROVE  LET packet(p) == CppDecodePacket(Head(clients[n][p].receivedData))
         IN /\ InOrder([p \in Readable(n) |-> ToBrowser(packet(p))]) \in Seq(Seq(Byte))
            /\ InOrder([p \in Readable(n) |-> ToPeers(packet(p))]) \in Seq(Seq(Byte))
  <1> DEFINE packet(p) == CppDecodePacket(Head(clients[n][p].receivedData))
             R == Readable(n)
             V == Seq(Byte)
             b == [p \in R |-> ToBrowser(packet(p))]
             q == [p \in R |-> ToPeers(packet(p))]
  <1>1. R \in SUBSET Nat /\ IsFiniteSet(R)
    <2>1. R \in SUBSET Node
      BY DEF Readable
    <2> HIDE DEF R
    <2>2. IsFiniteSet(R)
      BY <2>1, NodesAreFinite, FS_Subset
    <2> QED
      BY <2>1, <2>2, NodesAreFinite
  <1>2. \A p \in R : /\ ToBrowser(packet(p)) \in V \cup {NoPacket}
                     /\ ToPeers(packet(p)) \in V \cup {NoPacket}
    BY PeerHeard, SentTyped, Zenon
  <1> HIDE DEF packet, R, V
  <1>3. b \in [R -> V \cup {NoPacket}] /\ q \in [R -> V \cup {NoPacket}]
    BY <1>2
  <1> HIDE DEF b, q
  <1>4. InOrder(b) \in Seq(V) /\ InOrder(q) \in Seq(V)
    BY <1>1, <1>3, InOrderTyped
  <1> QED
    BY <1>4 DEF b, q, packet, R, V

\* tcpHandler takes an item of each client and leaves their state alone.
LEMMA TcpHandlerKeeps ==
  ASSUME RouterInv, NEW n \in Node, TcpHandler(n)
  PROVE  RouterInv' /\ Stays
  <1> DEFINE ready == Readable(n)
             packet(p) == CppDecodePacket(Head(clients[n][p].receivedData))
             forBrowser == InOrder([p \in ready |-> ToBrowser(packet(p))])
             forPeers   == InOrder([p \in ready |-> ToPeers(packet(p))])
             got(p) == [clients[n][p] EXCEPT !.receivedData = Tail(@)]
             row == [p \in Node |-> IF p \in ready THEN got(p) ELSE clients[n][p]]
  <1>1. /\ ws_receiver_queue' = [ws_receiver_queue EXCEPT ![n] =
             IF ws_receiver_queue[n] = <<>> THEN ws_receiver_queue[n]
             ELSE Tail(ws_receiver_queue[n])]
        /\ clients' = [clients EXCEPT ![n] = row]
        /\ ws_sender_queue' = [ws_sender_queue EXCEPT ![n] =
             ws_sender_queue[n] \o forBrowser]
        /\ tcp_input_queue' = [tcp_input_queue EXCEPT ![n] =
             tcp_input_queue[n] \o forPeers]
        /\ UNCHANGED <<uplink, sendBuffer, stream>>
    <2>1. ws_receiver_queue' = [ws_receiver_queue EXCEPT ![n] =
             IF ws_receiver_queue[n] = <<>> THEN ws_receiver_queue[n]
             ELSE Tail(ws_receiver_queue[n])]
      BY Zenon DEF TcpHandler
    <2>2. clients' = [clients EXCEPT ![n] = row]
      BY Zenon DEF TcpHandler
    <2>3. ws_sender_queue' = [ws_sender_queue EXCEPT ![n] =
             ws_sender_queue[n] \o forBrowser]
      BY Zenon DEF TcpHandler
    <2>4. tcp_input_queue' = [tcp_input_queue EXCEPT ![n] =
             tcp_input_queue[n] \o forPeers]
      BY Zenon DEF TcpHandler
    <2>5. UNCHANGED <<uplink, sendBuffer, stream>>
      BY Zenon DEF TcpHandler
    <2> QED
      BY <2>1, <2>2, <2>3, <2>4, <2>5
  <1>2. forBrowser \in Seq(Seq(Byte)) /\ forPeers \in Seq(Seq(Byte))
    BY AnswersTyped
  <1>3. \A p \in ready : clients[n][p] \in Client /\ got(p) \in Client
    BY PeerHeard, Zenon
  <1>4. \A p \in ready : /\ got(p).state = clients[n][p].state
                         /\ got(p).lastByteSent = clients[n][p].lastByteSent
    <2> SUFFICES ASSUME NEW p \in ready
                 PROVE  /\ got(p).state = clients[n][p].state
                        /\ got(p).lastByteSent = clients[n][p].lastByteSent
      OBVIOUS
    <2>1. clients[n][p] \in Client
      BY <1>3
    <2> QED
      BY <2>1 DEF Client
  <1> HIDE DEF ready, packet, forBrowser, forPeers, got
  <1>5. /\ clients \in [Node -> [Node -> Client \cup {NoClient}]]
        /\ RouterTypes /\ Links /\ SentBound
    BY DEF RouterInv, RouterTypes
  <1>6. /\ row \in [Node -> Client \cup {NoClient}]
        /\ \A p \in Node : row[p] = IF p \in ready THEN got(p) ELSE clients[n][p]
    BY <1>3, <1>5
  <1> HIDE DEF row
  <1>7. /\ clients' \in [Node -> [Node -> Client \cup {NoClient}]]
        /\ \A a, b \in Node : clients'[a][b] = IF a = n THEN row[b] ELSE clients[a][b]
    BY <1>1, <1>5, <1>6
  <1>8. ASSUME NEW a \in Node, NEW b \in Node
        PROVE  /\ (clients'[a][b] = NoClient) <=> (clients[a][b] = NoClient)
               /\ clients[a][b] # NoClient =>
                    /\ clients'[a][b].state = clients[a][b].state
                    /\ clients'[a][b].lastByteSent = clients[a][b].lastByteSent
    <2>1. CASE a = n /\ b \in ready
      <3>1. clients'[a][b] = got(b)
        BY <1>6, <1>7, <2>1
      <3>2. got(b) \in Client /\ clients[a][b] \in Client
        BY <1>3, <2>1
      <3>3. clients'[a][b] # NoClient /\ clients[a][b] # NoClient
        BY <3>1, <3>2, ClientAssumption
      <3> QED
        BY <1>4, <2>1, <3>1, <3>3
    <2>2. CASE ~(a = n /\ b \in ready)
      <3>1. clients'[a][b] = clients[a][b]
        BY <1>6, <1>7, <2>2
      <3> QED
        BY <3>1
    <2> QED
      BY <2>1, <2>2
  <1>9. Quiet
    <2>1. ASSUME NEW a \in Node, NEW b \in Node
          PROVE  /\ stream'[a][b] = stream[a][b] \o <<>>
                 /\ <<>> \in Seq(SegmentSet) /\ NoSyn(<<>>)
      <3>1. stream[a][b] \in Seq(SegmentSet)
        BY <1>5 DEF RouterTypes
      <3>2. stream[a][b] \o <<>> = stream[a][b]
        BY <3>1
      <3> QED
        BY <1>1, <3>2, NoSegment
    <2>2. ASSUME NEW a \in Node, NEW b \in Node
          PROVE  Established(clients'[a][b]) <=> Established(clients[a][b])
      BY <1>8, Zenon DEF Established
    <2> QED
      BY <1>8, <2>1, <2>2, Zenon DEF Quiet
  <1>10. Links' /\ Stays
    BY <1>5, <1>9, QuietKeeps, QuietStays
  <1>11. SentBound'
    BY <1>1, <1>5, <1>8, Zenon DEF SentBound
  <1>12. ws_receiver_queue' \in [Node -> Seq(Seq(Byte))]
    <2> DEFINE left == IF ws_receiver_queue[n] = <<>> THEN ws_receiver_queue[n]
                       ELSE Tail(ws_receiver_queue[n])
    <2>1. ws_receiver_queue \in [Node -> Seq(Seq(Byte))]
      BY <1>5 DEF RouterTypes
    <2>2. ws_receiver_queue[n] \in Seq(Seq(Byte))
      BY <2>1
    <2>3. left \in Seq(Seq(Byte))
      BY <2>2
    <2> HIDE DEF left
    <2>4. ws_receiver_queue' = [ws_receiver_queue EXCEPT ![n] = left]
      BY <1>1 DEF left
    <2> QED
      BY <2>1, <2>3, <2>4
  <1>13. /\ ws_sender_queue' \in [Node -> Seq(Seq(Byte))]
         /\ tcp_input_queue' \in [Node -> Seq(Seq(Byte))]
    <2>1. /\ ws_sender_queue \in [Node -> Seq(Seq(Byte))]
          /\ tcp_input_queue \in [Node -> Seq(Seq(Byte))]
      BY <1>5 DEF RouterTypes
    <2>2. /\ ws_sender_queue[n] \o forBrowser \in Seq(Seq(Byte))
          /\ tcp_input_queue[n] \o forPeers \in Seq(Seq(Byte))
      BY <1>2, <2>1
    <2> QED
      BY <1>1, <2>1, <2>2
  <1>14. RouterTypes'
    BY <1>1, <1>5, <1>7, <1>12, <1>13, Zenon DEF RouterTypes
  <1> QED
    BY <1>10, <1>11, <1>14, Zenon DEF RouterInv

\* sendMessages to every client with which the connection stands.
LEMMA InsertInputKeeps ==
  ASSUME RouterInv, NEW n \in Node, InsertInput(n)
  PROVE  RouterInv' /\ Stays
  <1> DEFINE buf == sendBuffer[n] \o Head(tcp_input_queue[n])
             e(p) == IF Established(clients[n][p])
                     THEN SendMessages(clients[n][p], buf, FALSE)
                     ELSE [c |-> clients[n][p], snd |-> <<>>]
             h == [p \in Node |-> e(p)]
             C == Client \cup {NoClient}
             crow == [p \in Node |-> h[p].c]
             srow == [p \in Node |-> stream[n][p] \o h[p].snd]
  <1>1. /\ tcp_input_queue[n] # <<>>
        /\ tcp_input_queue' = [tcp_input_queue EXCEPT ![n] = Tail(tcp_input_queue[n])]
        /\ sendBuffer' = [sendBuffer EXCEPT ![n] = buf]
        /\ clients' = [clients EXCEPT ![n] = crow]
        /\ stream' = [stream EXCEPT ![n] = srow]
        /\ UNCHANGED <<uplink, ws_receiver_queue, ws_sender_queue>>
    BY Zenon DEF InsertInput
  <1>2. /\ clients \in [Node -> [Node -> C]]
        /\ stream \in [Node -> [Node -> Seq(SegmentSet)]]
        /\ sendBuffer \in [Node -> Seq(Byte)]
        /\ tcp_input_queue \in [Node -> Seq(Seq(Byte))]
        /\ RouterTypes /\ Links /\ SentBound
    BY DEF RouterInv, RouterTypes
  <1>3. /\ buf \in Seq(Byte) /\ Len(sendBuffer[n]) <= Len(buf)
        /\ Len(sendBuffer[n]) \in Nat /\ Len(buf) \in Nat
    <2> DEFINE x == Head(tcp_input_queue[n])
               s == sendBuffer[n]
    <2>1. s \in Seq(Byte) /\ x \in Seq(Byte)
      BY <1>1, <1>2
    <2> HIDE DEF s, x
    <2>2. /\ s \o x \in Seq(Byte) /\ Len(s) <= Len(s \o x)
          /\ Len(s) \in Nat /\ Len(s \o x) \in Nat
      BY <2>1
    <2> QED
      BY <2>2, Zenon DEF s, x
  <1>4. tcp_input_queue' \in [Node -> Seq(Seq(Byte))]
    <2>1. Tail(tcp_input_queue[n]) \in Seq(Seq(Byte))
      BY <1>1, <1>2
    <2> QED
      BY <1>1, <1>2, <2>1
  <1> HIDE DEF buf
  <1>5. ASSUME NEW p \in Node
        PROVE  /\ e(p).c \in C /\ e(p).snd \in Seq(SegmentSet) /\ NoSyn(e(p).snd)
               /\ (e(p).c = NoClient) <=> (clients[n][p] = NoClient)
               /\ Established(e(p).c) <=> Established(clients[n][p])
               /\ e(p).c # NoClient => e(p).c.lastByteSent <= Len(buf)
               /\ ~Established(clients[n][p]) => e(p).snd = <<>>
    <2> DEFINE c == clients[n][p]
    <2>1. c \in C
      BY <1>2
    <2>2. c # NoClient => c \in Client /\ c.lastByteSent \in Nat /\
                          c.lastByteSent <= Len(buf)
      <3>1. c # NoClient => c.lastByteSent <= Len(sendBuffer[n])
        BY <1>2 DEF SentBound
      <3> HIDE DEF c
      <3>2. c # NoClient => c \in Client /\ c.lastByteSent \in Nat
        BY <2>1 DEF Client
      <3> QED
        BY <1>3, <3>1, <3>2
    <2>3. CASE Established(c)
      <3> DEFINE r == SendMessages(c, buf, FALSE)
      <3>1. c # NoClient /\ c.state = "ESTABLISHED"
        BY <2>3 DEF Established
      <3>2. e(p) = r
        BY <2>3, Zenon
      <3> HIDE DEF c
      <3>3. /\ r.c \in Client /\ r.c.state = c.state
            /\ r.c.lastByteSent <= Len(buf)
            /\ r.snd \in Seq(SegmentSet) /\ NoSyn(r.snd)
        <4>1. FALSE \in BOOLEAN /\ c \in Client /\ c.lastByteSent <= Len(buf)
          BY <2>2, <3>1
        <4> QED
          BY <1>3, <4>1, SendMessagesDoes, Zenon
      <3> HIDE DEF r, e
      <3>4. r.c # NoClient /\ Established(r.c)
        BY <3>1, <3>3, ClientAssumption, Zenon DEF Established
      <3> QED
        BY <2>3, <3>1, <3>2, <3>3, <3>4 DEF c
    <2>4. CASE ~Established(c)
      <3>1. e(p) = [c |-> c, snd |-> <<>>]
        BY <2>4, Zenon
      <3> HIDE DEF c, e
      <3>2. e(p).c = c /\ e(p).snd = <<>>
        BY <3>1
      <3> QED
        BY <2>1, <2>2, <3>2, NoSegment, Zenon DEF c
    <2> QED
      BY <2>3, <2>4
  <1>6. \A p \in Node : h[p] = e(p)
    OBVIOUS
  <1> HIDE DEF e, h, C
  <1>7. /\ crow \in [Node -> C] /\ srow \in [Node -> Seq(SegmentSet)]
        /\ \A p \in Node : crow[p] = e(p).c /\ srow[p] = stream[n][p] \o e(p).snd
    <2>1. ASSUME NEW p \in Node PROVE stream[n][p] \o e(p).snd \in Seq(SegmentSet)
      <3>1. stream[n][p] \in Seq(SegmentSet)
        BY <1>2
      <3> QED
        BY <1>5, <3>1
    <2> QED
      BY <1>5, <1>6, <2>1
  <1> HIDE DEF crow, srow
  <1>8. /\ clients' \in [Node -> [Node -> C]]
        /\ \A a, b \in Node : clients'[a][b] = IF a = n THEN e(b).c ELSE clients[a][b]
    BY <1>1, <1>2, <1>7
  <1>9. /\ stream' \in [Node -> [Node -> Seq(SegmentSet)]]
        /\ \A a, b \in Node : stream'[a][b] =
             IF a = n THEN stream[n][b] \o e(b).snd ELSE stream[a][b]
    BY <1>1, <1>2, <1>7
  <1>10. sendBuffer' \in [Node -> Seq(Byte)]
    BY <1>1, <1>2, <1>3
  <1>11. Quiet
    <2> SUFFICES ASSUME NEW a \in Node, NEW b \in Node
                 PROVE  /\ (clients'[a][b] = NoClient) <=> (clients[a][b] = NoClient)
                        /\ Established(clients'[a][b]) <=> Established(clients[a][b])
                        /\ \E t \in Seq(SegmentSet) :
                             /\ NoSyn(t) /\ stream'[a][b] = stream[a][b] \o t
                             /\ ~Established(clients[a][b]) => t = <<>>
      BY Zenon DEF Quiet
    <2>1. CASE a = n
      <3>1. clients'[a][b] = e(b).c /\ stream'[a][b] = stream[a][b] \o e(b).snd
        BY <1>8, <1>9, <2>1
      <3> QED
        BY <1>5, <2>1, <3>1, Zenon
    <2>2. CASE a # n
      <3>1. clients'[a][b] = clients[a][b] /\ stream'[a][b] = stream[a][b]
        BY <1>8, <1>9, <2>2
      <3>2. stream[a][b] \o <<>> = stream[a][b]
        <4>1. stream[a][b] \in Seq(SegmentSet)
          BY <1>2
        <4> QED
          BY <4>1
      <3> QED
        BY <3>1, <3>2, NoSegment, Zenon
    <2> QED
      BY <2>1, <2>2
  <1>12. Links' /\ Stays
    BY <1>2, <1>11, QuietKeeps, QuietStays
  <1>13. SentBound'
    <2> SUFFICES ASSUME NEW a \in Node, NEW b \in Node, clients'[a][b] # NoClient
                 PROVE  clients'[a][b].lastByteSent <= Len(sendBuffer'[a])
      BY Zenon DEF SentBound
    <2>1. CASE a = n
      <3>1. clients'[a][b] = e(b).c /\ sendBuffer'[a] = buf
        BY <1>1, <1>2, <1>8, <2>1
      <3> QED
        BY <1>5, <3>1
    <2>2. CASE a # n
      <3>1. clients'[a][b] = clients[a][b] /\ sendBuffer'[a] = sendBuffer[a]
        BY <1>1, <1>2, <1>8, <2>2
      <3> QED
        BY <1>2, <3>1 DEF SentBound
    <2> QED
      BY <2>1, <2>2
  <1>14. RouterTypes'
    BY <1>1, <1>2, <1>4, <1>8, <1>9, <1>10, Zenon DEF RouterTypes, C
  <1> QED
    BY <1>12, <1>13, <1>14, Zenon DEF RouterInv

\* The switch of communicate.
LEMMA ReceiveStepKeeps ==
  ASSUME RouterInv, NEW n \in Node, NEW p \in Node, Receive(n, p)
  PROVE  RouterInv' /\ Stays
  <1> DEFINE c   == clients[n][p]
             seg == Head(stream[p][n])
             h   == Handle(c, seg, sendBuffer[n])
             C   == Client \cup {NoClient}
             S   == Seq(SegmentSet)
             T   == [stream EXCEPT ![p][n] = Tail(stream[p][n])]
             snd == h.snd
             new == T[n][p] \o snd
  <1>1. /\ stream[p][n] # <<>>
        /\ clients' = [clients EXCEPT ![n][p] = h.c]
        /\ stream' = [T EXCEPT ![n][p] = new]
        /\ UNCHANGED <<uplink, ws_receiver_queue, ws_sender_queue, tcp_input_queue,
                       sendBuffer>>
    <2>1. stream[p][n] # <<>>
      BY Zenon DEF Receive
    <2>2. clients' = [clients EXCEPT ![n][p] = h.c]
      BY Zenon DEF Receive
    <2>3. stream' = [T EXCEPT ![n][p] = new]
      BY Zenon DEF Receive
    <2>4. UNCHANGED <<uplink, ws_receiver_queue, ws_sender_queue, tcp_input_queue,
                       sendBuffer>>
      BY Zenon DEF Receive
    <2> QED
      BY <2>1, <2>2, <2>3, <2>4
  <1>2. /\ clients \in [Node -> [Node -> C]] /\ stream \in [Node -> [Node -> S]]
        /\ sendBuffer \in [Node -> Seq(Byte)]
        /\ RouterTypes /\ Links /\ SentBound
    BY DEF RouterInv, RouterTypes
  <1>3. LinkOK(n, p) /\ LinkOK(p, n)
    BY <1>2 DEF Links
  <1>4. /\ seg \in SegmentSet /\ Tail(stream[p][n]) \in S
        /\ OnlySyn(stream[p][n]) => seg.flag = "SYN"
    <2>1. stream[p][n] \in Seq(SegmentSet)
      BY <1>2
    <2> QED
      BY <1>1, <2>1, Received
  <1>5. seg.flag # "SYN" => c # NoClient
    BY <1>3, <1>4 DEF LinkOK
  <1>6. c \in C /\ sendBuffer[n] \in Seq(Byte)
    BY <1>2
  <1>7. c # NoClient => c.lastByteSent <= Len(sendBuffer[n])
    BY <1>2 DEF SentBound
  <1> HIDE DEF seg, c
  <1>8. /\ h.c \in Client /\ h.c.lastByteSent <= Len(sendBuffer[n])
        /\ snd \in Seq(SegmentSet) /\ NoSyn(snd)
        /\ seg.flag # "SYN" => h.c.state = "ESTABLISHED"
        /\ seg.flag = "SYN" => h.c.state = "SYN_SENT"
    BY <1>4, <1>5, <1>6, <1>7, HandleDoes, Zenon
  <1> HIDE DEF h, snd
  <1>9. Established(h.c) <=> seg.flag # "SYN"
    <2>1. h.c # NoClient
      BY <1>8, ClientAssumption, Zenon
    <2>2. "SYN_SENT" # "ESTABLISHED"
      OBVIOUS
    <2> QED
      BY <1>8, <2>1, <2>2, Zenon DEF Established
  <1> HIDE DEF C, S
  <1>10. /\ clients' \in [Node -> [Node -> C]]
         /\ \A a, b \in Node : clients'[a][b] =
              IF a = n /\ b = p THEN h.c ELSE clients[a][b]
    <2>1. h.c \in C
      BY <1>8 DEF C
    <2> DEFINE v == h.c
    <2> HIDE DEF v
    <2>2. v \in C /\ clients' = [clients EXCEPT ![n][p] = v]
      BY <1>1, <2>1 DEF v
    <2>3. /\ clients' \in [Node -> [Node -> C]]
          /\ \A a, b \in Node : clients'[a][b] =
               IF a = n /\ b = p THEN v ELSE clients[a][b]
      BY <1>2, <2>2
    <2> QED
      BY <2>3 DEF v
  <1>11. /\ T \in [Node -> [Node -> S]]
         /\ \A a, b \in Node : T[a][b] =
              IF a = p /\ b = n THEN Tail(stream[a][b]) ELSE stream[a][b]
    <2> DEFINE v == Tail(stream[p][n])
    <2>1. v \in S
      BY <1>4
    <2> HIDE DEF v
    <2>2. T = [stream EXCEPT ![p][n] = v]
      BY DEF v
    <2> HIDE DEF T
    <2>3. /\ T \in [Node -> [Node -> S]]
          /\ \A a, b \in Node : T[a][b] =
               IF a = p /\ b = n THEN v ELSE stream[a][b]
      BY <1>2, <2>1, <2>2
    <2> QED
      BY <2>3 DEF v
  <1> HIDE DEF T
  <1>12. new \in S
    <2>1. T[n][p] \in Seq(SegmentSet)
      BY <1>11 DEF S
    <2> QED
      BY <1>8, <2>1 DEF S
  <1> HIDE DEF new
  <1>13. /\ stream' \in [Node -> [Node -> S]]
         /\ \A a, b \in Node : stream'[a][b] =
              IF a = n /\ b = p THEN new ELSE T[a][b]
    BY <1>1, <1>11, <1>12
  <1>14. \A a, b \in Node : stream'[a][b] =
           IF a = n /\ b = p
           THEN (IF a = p /\ b = n THEN Tail(stream[a][b]) ELSE stream[a][b]) \o snd
           ELSE IF a = p /\ b = n THEN Tail(stream[a][b]) ELSE stream[a][b]
    <2> SUFFICES ASSUME NEW a \in Node, NEW b \in Node
                 PROVE  stream'[a][b] =
           IF a = n /\ b = p
           THEN (IF a = p /\ b = n THEN Tail(stream[a][b]) ELSE stream[a][b]) \o snd
           ELSE IF a = p /\ b = n THEN Tail(stream[a][b]) ELSE stream[a][b]
      BY Zenon
    <2>1. T[a][b] = IF a = p /\ b = n THEN Tail(stream[a][b]) ELSE stream[a][b]
      BY <1>11, Zenon
    <2>2. CASE a = n /\ b = p
      <3>1. stream'[a][b] = T[a][b] \o snd
        BY <1>13, <2>2, Zenon DEF new
      <3> QED
        BY <2>1, <2>2, <3>1, Zenon
    <2>3. CASE ~(a = n /\ b = p)
      <3>1. stream'[a][b] = T[a][b]
        BY <1>13, <2>3, Zenon
      <3> QED
        BY <2>1, <2>3, <3>1, Zenon
    <2> QED
      BY <2>2, <2>3
  <1>15. Links' /\ Stays
    <2> DEFINE v == h.c
    <2>1. v \in Client /\ (Established(v) <=> Head(stream[p][n]).flag # "SYN")
      BY <1>8, <1>9 DEF seg
    <2>2. \A a, b \in Node : clients'[a][b] =
            IF a = n /\ b = p THEN v ELSE clients[a][b]
      BY <1>10
    <2> HIDE DEF v
    <2>3. Answered(n, p, v, snd)
      BY <1>14, <2>2, Zenon DEF Answered
    <2> QED
      BY <1>1, <1>2, <1>8, <2>1, <2>3, ReceiveKeeps
  <1>16. SentBound'
    <2> SUFFICES ASSUME NEW a \in Node, NEW b \in Node, clients'[a][b] # NoClient
                 PROVE  clients'[a][b].lastByteSent <= Len(sendBuffer'[a])
      BY Zenon DEF SentBound
    <2>1. CASE a = n /\ b = p
      BY <1>1, <1>8, <1>10, <2>1
    <2>2. CASE ~(a = n /\ b = p)
      <3>1. clients'[a][b] = clients[a][b]
        BY <1>10, <2>2
      <3> QED
        BY <1>1, <1>2, <3>1 DEF SentBound
    <2> QED
      BY <2>1, <2>2
  <1>17. RouterTypes'
    BY <1>1, <1>2, <1>10, <1>13, Zenon DEF RouterTypes, C, S
  <1> QED
    BY <1>15, <1>16, <1>17, Zenon DEF RouterInv

\* At first there are no clients, and nothing is under way.
LEMMA RouterInit ==
  ASSUME Init
  PROVE  RouterInv
  <1>1. /\ <<>> \in Seq(Byte) /\ <<>> \in Seq(Seq(Byte)) /\ <<>> \in Seq(SegmentSet)
        /\ SynFirst(<<>>) /\ OnlySyn(<<>>) /\ NoSyn(<<>>)
    BY DEF SynFirst, OnlySyn, NoSyn
  <1>2. RouterTypes
    <2>1. /\ uplink \in [Node -> Seq(Byte)] /\ sendBuffer \in [Node -> Seq(Byte)]
          /\ ws_receiver_queue \in [Node -> Seq(Seq(Byte))]
          /\ ws_sender_queue \in [Node -> Seq(Seq(Byte))]
          /\ tcp_input_queue \in [Node -> Seq(Seq(Byte))]
      BY <1>1 DEF Init
    <2>2. clients \in [Node -> [Node -> Client \cup {NoClient}]]
      BY DEF Init
    <2>3. stream \in [Node -> [Node -> Seq(SegmentSet)]]
      BY <1>1 DEF Init
    <2> QED
      BY <2>1, <2>2, <2>3, Zenon DEF RouterTypes
  <1>3. \A n, p \in Node : clients[n][p] = NoClient /\ stream[n][p] = <<>>
    BY DEF Init
  <1>4. SentBound
    BY <1>3, Zenon DEF SentBound
  <1>5. Links
    BY <1>1, <1>3, Zenon DEF Links, LinkOK, Established
  <1> QED
    BY <1>2, <1>4, <1>5, Zenon DEF RouterInv

\* Every step keeps the invariant, and what stands goes on standing.
LEMMA RouterNext ==
  ASSUME RouterInv, [Next]_vars
  PROVE  RouterInv' /\ Stays
  <1>1. CASE UNCHANGED vars
    <2>1. RouterTypes'
      BY <1>1, Zenon DEF vars, RouterInv, RouterTypes
    <2>2. Links' /\ SentBound' /\ Stays
      BY <1>1, Untouched, Zenon DEF vars, RouterInv
    <2> QED
      BY <2>1, <2>2, Zenon DEF RouterInv
  <1>2. CASE Next
    <2>1. PICK n \in Node : \/ User(n) \/ WebSocketServer(n)
                            \/ Router(n) \/ Communicate(n)
      BY <1>2, Zenon DEF Next
    <2>2. CASE User(n)
      BY <2>2, SendMessageKeeps, SendUserRequestKeeps, Zenon DEF User
    <2>3. CASE WebSocketServer(n)
      BY <2>3, ReceiveDataKeeps, SendDataKeeps, Zenon DEF WebSocketServer
    <2>4. CASE Router(n)
      BY <2>4, WebsocketHandlerKeeps, TcpHandlerKeeps, Zenon DEF Router
    <2>5. CASE Communicate(n)
      BY <2>5, InsertInputKeeps, ReceiveStepKeeps, Zenon DEF Communicate
    <2> QED
      BY <2>1, <2>2, <2>3, <2>4, <2>5
  <1> QED
    BY <1>1, <1>2

\* At every time, for every number of programs, every text and every key, the
\* links between the programs are in order: a SYN never meets a connection that
\* stands, and nobody but a client is sent anything (addClient, communicate).
THEOREM RouterInvariant == Spec => []RouterInv
  <1>1. RouterInv /\ [Next]_vars => RouterInv'
    BY RouterNext
  <1> QED
    BY <1>1, RouterInit, PTL DEF Spec

\* The invariant implies the type invariant of the module.
LEMMA TypeOKFollows ==
  ASSUME RouterInv
  PROVE  TypeOK
  <1>1. RouterTypes /\ SentBound
    BY DEF RouterInv
  <1> SUFFICES ASSUME NEW n \in Node, NEW p \in Node
               PROVE  /\ \/ clients[n][p] = NoClient
                         \/ /\ clients[n][p].state \in {"SYN_SENT", "ESTABLISHED"}
                            /\ clients[n][p].lastByteSent \in 0..Len(sendBuffer[n])
                            /\ clients[n][p].receivedData \in Seq(Seq(Byte))
                      /\ stream[n][p] \in Seq([flag : {"SYN", "SYN_ACK", "ACK"},
                                               data : Seq(Byte)])
    BY <1>1, Zenon DEF RouterTypes, TypeOK
  <1>2. stream[n][p] \in Seq(SegmentSet)
    BY <1>1 DEF RouterTypes
  <1>3. CASE clients[n][p] # NoClient
    <2> DEFINE c == clients[n][p]
    <2>1. c \in Client /\ Len(sendBuffer[n]) \in Nat
      BY <1>1, <1>3 DEF RouterTypes
    <2>2. c.lastByteSent <= Len(sendBuffer[n])
      BY <1>1, <1>3 DEF SentBound
    <2> HIDE DEF c
    <2>3. /\ c.state \in {"SYN_SENT", "ESTABLISHED"}
          /\ c.lastByteSent \in 0..Len(sendBuffer[n])
          /\ c.receivedData \in Seq(Seq(Byte))
      BY <2>1, <2>2 DEF Client
    <2> QED
      BY <1>2, <2>3, Zenon DEF SegmentSet, c
  <1> QED
    BY <1>2, <1>3, Zenon DEF SegmentSet

\* The queues, buffers and clients hold what TypeOK says, whatever users type
\* and peers send (the whole router, both codecs and the WebSocket).
THEOREM RouterTypeOK == Spec => []TypeOK
  <1>1. RouterInv => TypeOK
    BY TypeOKFollows
  <1> QED
    BY <1>1, RouterInvariant, PTL

\* A connection that stands is never dialled again (websocketHandler,
\* addClient, communicate).
THEOREM ConnectionsStay == Spec => LinksStay
  <1>1. RouterInv /\ [Next]_vars =>
          [\A n, p \in Node :
             Established(clients[n][p]) => Established(clients'[n][p])]_vars
    BY RouterNext, Zenon DEF Stays
  <1> QED
    BY <1>1, RouterInvariant, PTL DEF Spec, LinksStay

=============================================================================
