--------------------------- MODULE SegmentProofs ----------------------------
(***************************************************************************)
(* What Segment.tla says of the checksum, proved for every segment, every  *)
(* content of sendBuffer and every pair of addresses.                      *)
(*                                                                         *)
(* The checksum is a sum of words modulo 65535.  A spoilt byte changes one *)
(* word, and the sum by less than 65535, hence not by a multiple of it;    *)
(* encode completes the sum to such a multiple.                            *)
(***************************************************************************)
EXTENDS Segment, SequenceTheorems, WellFoundedInduction, TLAPS

-----------------------------------------------------------------------------
(* Induction, in a form without an operator parameter.                     *)

\* A set of natural numbers that is not empty has a least member.
LEMMA LeastMember ==
  ASSUME NEW S \in SUBSET Nat, S # {}
  PROVE  \E x \in S : \A y \in S : x <= y
<1>1. PICK x \in S : \A y \in S : <<y, x>> \notin OpToRel(<, Nat)
  BY NatLessThanWellFounded, WFMin
<1>2. ASSUME NEW y \in S PROVE ~(y < x)
  BY <1>1 DEF OpToRel
<1>3. \A y \in S : x \in Nat /\ y \in Nat
  OBVIOUS
<1> QED
  BY <1>2, <1>3

\* A set of natural numbers that holds 0, and n + 1 with n, holds them all.
LEMMA NatInductive ==
  ASSUME NEW S \in SUBSET Nat, 0 \in S, \A n \in Nat : n \in S => n + 1 \in S
  PROVE  S = Nat
<1>1. SUFFICES ASSUME Nat \ S # {} PROVE FALSE
  OBVIOUS
<1>2. PICK x \in Nat \ S : \A y \in Nat \ S : x <= y
  BY <1>1, LeastMember
<1>3. x # 0 /\ x - 1 \in Nat /\ x - 1 \in S
  BY <1>2
<1> QED
  BY <1>2, <1>3

-----------------------------------------------------------------------------
(* The carries.                                                            *)

\* What is left of a sum when its carries have been added: the number in
\* 1..65535 that is equal to it modulo 65535, and 0 for 0.
Folded(total) == IF total = 0 THEN 0 ELSE 1 + ((total - 1) % 65535)

\* The high and the low word of a sum, and what their sum leaves modulo 65535.
LEMMA CarriesOnce ==
  ASSUME NEW s \in Nat, NEW q \in Nat, NEW r \in Nat, q >= 1, s = 65536 * q + r
  PROVE  q + r \in Nat /\ q + r < s /\ q + r # 0
         /\ (s - 1) % 65535 = ((q + r) - 1) % 65535
<1>1. q + r \in Nat /\ q + r < s /\ q + r # 0
  BY SMT
<1>2. s - 1 \in Nat /\ (q + r) - 1 \in Nat /\ s - 1 = 65535 * q + ((q + r) - 1)
  BY SMT
<1>3. ASSUME NEW x \in Nat, NEW y \in Nat, x = 65535 * q + y
      PROVE  x % 65535 = y % 65535
  BY <1>3, SMT
<1> QED
  BY <1>1, <1>2, <1>3

\* A sum with something in it.
LEMMA FoldedPositive ==
  ASSUME NEW t \in Nat, t # 0
  PROVE  Folded(t) = 1 + ((t - 1) % 65535)
BY DEF Folded

\* Adding the carries once does not change what is left.
LEMMA FoldedOnce ==
  ASSUME NEW s \in Nat, s > 65535
  PROVE  /\ (s \div 65536) + (s % 65536) \in Nat
         /\ (s \div 65536) + (s % 65536) < s
         /\ Folded((s \div 65536) + (s % 65536)) = Folded(s)
<1> DEFINE q == s \div 65536
           r == s % 65536
<1>1. q \in Nat /\ r \in Nat /\ s = 65536 * q + r /\ q >= 1
  BY SMT
<1> SUFFICES /\ q + r \in Nat /\ q + r < s
             /\ Folded(q + r) = Folded(s)
  OBVIOUS
<1> HIDE DEF q, r
<1>2. /\ q + r \in Nat /\ q + r < s /\ q + r # 0 /\ s # 0
      /\ (s - 1) % 65535 = ((q + r) - 1) % 65535
  BY <1>1, CarriesOnce
<1>3. Folded(q + r) = 1 + (((q + r) - 1) % 65535)
  BY <1>2, FoldedPositive
<1>4. Folded(s) = 1 + ((s - 1) % 65535)
  BY <1>2, FoldedPositive
<1> QED
  BY <1>2, <1>3, <1>4

CarriesOf(f) ==
  f = [sum \in Nat |-> IF sum <= 65535 THEN sum
                       ELSE f[(sum \div 65536) + (sum % 65536)]]

\* AddCarries computes what is left (calculateCheckSum's second loop).
LEMMA AddCarriesFolds ==
  ASSUME NEW total \in Nat
  PROVE  AddCarries(total) = Folded(total)
<1> DEFINE F == [s \in Nat |-> Folded(s)]
<1>1. ASSUME NEW s \in Nat, s <= 65535
      PROVE  Folded(s) = s
  BY <1>1 DEF Folded
<1>2. ASSUME NEW s \in Nat
      PROVE  F[s] = IF s <= 65535 THEN s ELSE F[(s \div 65536) + (s % 65536)]
  <2>1. CASE s <= 65535
    BY <2>1, <1>1
  <2>2. CASE s > 65535
    BY <2>2, FoldedOnce
  <2> QED
    BY <2>1, <2>2
<1>3. CarriesOf(F)
  BY <1>2 DEF CarriesOf
<1> DEFINE G == CHOOSE f : CarriesOf(f)
<1>4. CarriesOf(G)
  BY <1>3
<1>5. AddCarries(total) = G[total]
  BY DEF AddCarries, CarriesOf
<1> HIDE DEF F, G
<1>6. ASSUME NEW s \in Nat
      PROVE  G[s] = IF s <= 65535 THEN s ELSE G[(s \div 65536) + (s % 65536)]
  BY <1>4 DEF CarriesOf
<1> DEFINE Bad == {s \in Nat : G[s] # Folded(s)}
<1>7. Bad = {}
  <2>1. SUFFICES ASSUME Bad # {} PROVE FALSE
    OBVIOUS
  <2>2. PICK s \in Bad : \A t \in Bad : s <= t
    BY <2>1, LeastMember
  <2>3. s \in Nat /\ s > 65535 /\ G[s] = G[(s \div 65536) + (s % 65536)]
    BY <2>2, <1>1, <1>6
  <2> DEFINE t == (s \div 65536) + (s % 65536)
  <2>4. t \in Nat /\ t < s /\ Folded(t) = Folded(s)
    BY <2>3, FoldedOnce
  <2>5. G[t] = Folded(t)
    BY <2>2, <2>3, <2>4
  <2> QED
    BY <2>2, <2>3, <2>4, <2>5
<1> QED
  BY <1>5, <1>7

\* How often 65535 has been taken away from a sum.
Rounds(total) == (total - 1) \div 65535

\* What is left of a sum that is not 0 is in 1..65535.
LEMMA FoldedDivides ==
  ASSUME NEW s \in Nat, s > 0
  PROVE  /\ Folded(s) \in Nat /\ Folded(s) > 0 /\ Folded(s) <= 65535
         /\ Rounds(s) \in Nat
         /\ s = 65535 * Rounds(s) + Folded(s)
<1>1. Folded(s) \in Nat /\ Folded(s) > 0 /\ Folded(s) <= 65535
  BY SMT DEF Folded
<1>2. Rounds(s) \in Nat
  BY SMT DEF Rounds
<1>3. s = 65535 * Rounds(s) + Folded(s)
  BY SMT DEF Folded, Rounds
<1> QED
  BY <1>1, <1>2, <1>3

\* A sum that is completed to a multiple of 65535 leaves 65535.
LEMMA FoldedCompleted ==
  ASSUME NEW s \in Nat, s > 0
  PROVE  Folded(s + (65535 - Folded(s))) = 65535
<1> DEFINE t == s + (65535 - Folded(s))
<1>0. /\ Folded(s) \in Nat /\ Folded(s) > 0 /\ Folded(s) <= 65535
      /\ Rounds(s) \in Nat /\ s = 65535 * Rounds(s) + Folded(s)
  BY FoldedDivides, SMT
<1>1. t \in Nat /\ t > 0 /\ t = 65535 * (Rounds(s) + 1)
  BY <1>0, SMT
<1>2. t = 65535 * Rounds(t) + Folded(t) /\ Rounds(t) \in Nat
  BY <1>1, FoldedDivides, SMT
<1>3. Folded(t) \in Nat /\ Folded(t) > 0 /\ Folded(t) <= 65535
  BY <1>1, FoldedDivides, SMT
<1> HIDE DEF t
<1>4. Folded(t) = 65535
  BY <1>0, <1>1, <1>2, <1>3, SMT
<1> QED
  BY <1>4 DEF t

\* Two sums of which the same is left do not differ by less than 65535.
LEMMA FoldedApart ==
  ASSUME NEW s \in Nat, s > 0, NEW t \in Nat, t > 0, Folded(s) = Folded(t),
         t - s < 65535, s - t < 65535
  PROVE  s = t
<1>1. /\ s = 65535 * Rounds(s) + Folded(s) /\ Rounds(s) \in Nat
      /\ Folded(s) \in Nat
  BY FoldedDivides, SMT
<1>2. t = 65535 * Rounds(t) + Folded(t) /\ Rounds(t) \in Nat
  BY FoldedDivides, SMT
<1> QED
  BY <1>1, <1>2, SMT

-----------------------------------------------------------------------------
(* The sum of the words.                                                   *)

WordCount(bytes) == (Len(bytes) + 1) \div 2

\* f is the table of the sums of a packet's first words (calculateCheckSum's
\* first loop).
SumsOf(f, base, bytes) ==
  f = [i \in 0..WordCount(bytes) |->
         IF i = 0 THEN base ELSE f[i - 1] + WordAt(bytes, 2 * i - 1)]

\* A byte is a number.
LEMMA ByteBounds ==
  ASSUME NEW b \in Byte
  PROVE  b \in Nat /\ b <= 255
BY SMT DEF Byte

\* A member of a packet is a byte.
LEMMA ByteAt ==
  ASSUME NEW bytes \in Seq(Byte), NEW i \in 1..Len(bytes)
  PROVE  bytes[i] \in Nat /\ bytes[i] <= 255
<1>1. bytes[i] \in Byte
  BY ElementOfSeq
<1> QED
  BY <1>1, ByteBounds

\* A word is a number.
LEMMA WordAtNat ==
  ASSUME NEW bytes \in Seq(Byte), NEW i \in 1..WordCount(bytes)
  PROVE  WordAt(bytes, 2 * i - 1) \in Nat
<1>1. Len(bytes) \in Nat /\ 2 * i - 1 \in 1..Len(bytes)
  BY DEF WordCount
<1>2. \A j \in 1..Len(bytes) : bytes[j] \in Nat
  BY ByteAt
<1>3. CASE 2 * i - 1 = Len(bytes)
  BY <1>1, <1>2, <1>3 DEF WordAt
<1>4. CASE 2 * i - 1 # Len(bytes)
  <2>1. 2 * i - 1 + 1 \in 1..Len(bytes)
    BY <1>1, <1>4
  <2> QED
    BY <1>1, <1>2, <1>4, <2>1 DEF WordAt
<1> QED
  BY <1>3, <1>4

\* The table of sums exists, for words that are numbers.
LEMMA SumsExist ==
  ASSUME NEW base \in Nat, NEW bytes \in Seq(Byte)
  PROVE  \E f : SumsOf(f, base, bytes)
<1> DEFINE W(i) == WordAt(bytes, 2 * i - 1)
           Upto(n, f) == f = [i \in 0..n |-> IF i = 0 THEN base ELSE f[i - 1] + W(i)]
           S == {n \in Nat : \E f : Upto(n, f)}
<1>1. 0 \in S
  <2>1. Upto(0, [i \in 0..0 |-> base])
    OBVIOUS
  <2> QED
    BY <2>1
<1>2. ASSUME NEW n \in Nat, n \in S PROVE n + 1 \in S
  <2>1. PICK f : Upto(n, f)
    BY <1>2
  <2> HIDE DEF W
  <2> DEFINE g == [i \in 0..(n + 1) |-> IF i <= n THEN f[i] ELSE f[n] + W(n + 1)]
  <2>2. \A i \in 0..n : f[i] = IF i = 0 THEN base ELSE f[i - 1] + W(i)
    BY <2>1
  <2>3. ASSUME NEW i \in 0..(n + 1)
        PROVE  g[i] = IF i = 0 THEN base ELSE g[i - 1] + W(i)
    <3>1. CASE i = 0
      BY <3>1, <2>2
    <3>2. CASE i \in 1..n
      <4>1. i - 1 \in 0..(n + 1) /\ i - 1 <= n /\ i <= n /\ i # 0
        BY <3>2
      <4>2. g[i] = f[i] /\ g[i - 1] = f[i - 1]
        BY <4>1
      <4> QED
        BY <3>2, <4>1, <4>2, <2>2
    <3>3. CASE i = n + 1
      <4>1. i - 1 = n /\ g[i - 1] = f[n] /\ g[i] = f[n] + W(n + 1)
        BY <3>3
      <4> QED
        BY <3>3, <4>1
    <3> QED
      BY <3>1, <3>2, <3>3
  <2>4. Upto(n + 1, g)
    BY <2>3
  <2> HIDE DEF g, Upto
  <2> QED
    BY <2>4
<1> HIDE DEF Upto
<1>3. S = Nat
  BY <1>1, <1>2, NatInductive
<1>4. WordCount(bytes) \in Nat
  BY DEF WordCount
<1>5. PICK f : Upto(WordCount(bytes), f)
  BY <1>3, <1>4
<1> QED
  BY <1>5 DEF Upto, SumsOf

\* WordSum is the last sum of the table.
LEMMA WordSumTable ==
  ASSUME NEW base \in Nat, NEW bytes \in Seq(Byte)
  PROVE  \E f : /\ WordSum(base, bytes) = f[WordCount(bytes)]
                /\ f[0] = base
                /\ \A i \in 1..WordCount(bytes) :
                     f[i] = f[i - 1] + WordAt(bytes, 2 * i - 1)
                /\ \A i \in 0..WordCount(bytes) : f[i] \in Nat /\ f[i] >= base
<1> DEFINE f == CHOOSE g : SumsOf(g, base, bytes)
<1>1. SumsOf(f, base, bytes)
  BY SumsExist
<1>2. WordSum(base, bytes) = f[WordCount(bytes)]
  BY DEF WordSum, WordCount, SumsOf
<1> HIDE DEF f
<1>3. WordCount(bytes) \in Nat
  BY DEF WordCount
<1>4. f[0] = base
  BY <1>1, <1>3 DEF SumsOf
<1>5. ASSUME NEW i \in 1..WordCount(bytes)
      PROVE  f[i] = f[i - 1] + WordAt(bytes, 2 * i - 1)
  <2>1. i \in 0..WordCount(bytes) /\ i # 0
    BY <1>3
  <2> QED
    BY <1>1, <2>1 DEF SumsOf
<1> DEFINE S == {i \in Nat : i <= WordCount(bytes) => f[i] \in Nat /\ f[i] >= base}
<1>6. S = Nat
  <2>1. 0 \in S
    BY <1>4
  <2>2. ASSUME NEW i \in Nat, i \in S PROVE i + 1 \in S
    <3>1. SUFFICES ASSUME i + 1 <= WordCount(bytes)
                   PROVE  f[i + 1] \in Nat /\ f[i + 1] >= base
      OBVIOUS
    <3>2. i + 1 \in 1..WordCount(bytes)
      BY <3>1, <1>3
    <3>3. f[i + 1] = f[i] + WordAt(bytes, 2 * (i + 1) - 1)
      <4>1. f[i + 1] = f[(i + 1) - 1] + WordAt(bytes, 2 * (i + 1) - 1)
        BY <3>2, <1>5
      <4> QED
        BY <4>1
    <3>4. WordAt(bytes, 2 * (i + 1) - 1) \in Nat
      BY <3>2, WordAtNat
    <3>5. f[i] \in Nat /\ f[i] >= base
      BY <2>2, <3>1, <1>3
    <3> QED
      BY <3>3, <3>4, <3>5
  <2> HIDE DEF S
  <2> QED
    BY <2>1, <2>2, NatInductive DEF S
<1> QED
  BY <1>2, <1>3, <1>4, <1>5, <1>6

-----------------------------------------------------------------------------
(* Two packets that differ in one byte.                                    *)

\* c is b with another byte at j, or b itself.
OneOff(b, c, j) ==
  /\ b \in Seq(Byte) /\ c \in Seq(Byte) /\ Len(c) = Len(b) /\ j \in 1..Len(b)
  /\ \A i \in 1..Len(b) : i # j => c[i] = b[i]

\* What a difference d at j comes to in a word: the odd places are the high ones.
Place(j, d) == IF j % 2 = 1 THEN 256 * d ELSE d

\* The word that holds the byte at j.
WordOf(j) == (j + 1) \div 2

\* The odd places are the high bytes of their words.
LEMMA WordOfPlace ==
  ASSUME NEW j \in Nat, j > 0
  PROVE  /\ WordOf(j) \in Nat /\ WordOf(j) > 0
         /\ j % 2 = 1 => j = 2 * WordOf(j) - 1
         /\ j % 2 # 1 => j = 2 * WordOf(j)
BY SMT DEF WordOf

\* The word that holds j differs by the place of the difference, the others
\* are equal.
LEMMA WordsDiffer ==
  ASSUME NEW b, NEW c, NEW j, OneOff(b, c, j), NEW i \in 1..WordCount(b)
  PROVE  WordAt(c, 2 * i - 1) =
           WordAt(b, 2 * i - 1) + IF i = WordOf(j) THEN Place(j, c[j] - b[j]) ELSE 0
<1> DEFINE n == Len(b)
           o == 2 * i - 1
<1>1. /\ b \in Seq(Byte) /\ c \in Seq(Byte) /\ Len(c) = n /\ n \in Nat
      /\ j \in 1..n
      /\ \A h \in 1..n : h # j => c[h] = b[h]
  BY DEF OneOff
<1>2. \A h \in 1..n : b[h] \in Nat /\ c[h] \in Nat
  BY <1>1, ByteAt
<1>3. i \in Nat /\ i > 0 /\ o \in 1..n
  BY <1>1, SMT DEF WordCount
<1>4. /\ WordOf(j) \in Nat
      /\ j % 2 = 1 => j = 2 * WordOf(j) - 1
      /\ j % 2 # 1 => j = 2 * WordOf(j)
  BY <1>1, WordOfPlace
<1> HIDE DEF n
<1>5. CASE o = n
  <2>1. WordAt(c, o) = c[o] * 256 /\ WordAt(b, o) = b[o] * 256
    BY <1>1, <1>5, SMT DEF WordAt, n
  <2>2. CASE i = WordOf(j)
    <3>1. j = o /\ j % 2 = 1
      BY <1>1, <1>3, <1>4, <1>5, <2>2, SMT
    <3>2. c[o] \in Nat /\ b[o] \in Nat
      BY <1>2, <1>3
    <3> QED
      BY <2>1, <2>2, <3>1, <3>2, SMT DEF Place
  <2>3. CASE i # WordOf(j)
    <3>1. j # o
      BY <1>1, <1>3, <1>4, <2>3, SMT
    <3>2. c[o] = b[o] /\ b[o] \in Nat
      BY <1>1, <1>2, <1>3, <3>1
    <3> QED
      BY <2>1, <2>3, <3>2, SMT
  <2> QED
    BY <2>2, <2>3
<1>6. CASE o # n
  <2>1. /\ WordAt(c, o) = c[o] * 256 + c[o + 1]
        /\ WordAt(b, o) = b[o] * 256 + b[o + 1]
    BY <1>1, <1>6, SMT DEF WordAt, n
  <2>2. o + 1 \in 1..n
    BY <1>1, <1>3, <1>6, SMT
  <2>3. c[o] \in Nat /\ b[o] \in Nat /\ c[o + 1] \in Nat /\ b[o + 1] \in Nat
    BY <1>2, <1>3, <2>2
  <2>4. CASE i = WordOf(j) /\ j % 2 = 1
    <3>1. j = o /\ o + 1 # o
      BY <1>1, <1>3, <1>4, <2>4, SMT
    <3>2. c[o + 1] = b[o + 1]
      BY <1>1, <2>2, <3>1
    <3> QED
      BY <2>1, <2>3, <2>4, <3>1, <3>2, SMT DEF Place
  <2>5. CASE i = WordOf(j) /\ j % 2 # 1
    <3>1. j = o + 1 /\ o + 1 # o
      BY <1>1, <1>3, <1>4, <2>5, SMT
    <3>2. c[o] = b[o]
      BY <1>1, <1>3, <3>1
    <3> QED
      BY <2>1, <2>3, <2>5, <3>1, <3>2, SMT DEF Place
  <2>6. CASE i # WordOf(j)
    <3>1. j # o /\ j # o + 1
      <4>1. j \in Nat
        BY <1>1, SMT
      <4>2. CASE j % 2 = 1
        BY <1>3, <1>4, <2>6, <4>1, <4>2, SMT
      <4>3. CASE j % 2 # 1
        BY <1>3, <1>4, <2>6, <4>1, <4>3, SMT
      <4> QED
        BY <4>2, <4>3
    <3>2. c[o] = b[o] /\ c[o + 1] = b[o + 1]
      BY <1>1, <1>3, <2>2, <3>1
    <3> QED
      BY <2>1, <2>3, <2>6, <3>2, SMT
  <2> QED
    BY <2>4, <2>5, <2>6
<1> QED
  BY <1>5, <1>6

\* The sums of two packets that differ in one byte differ by its place.
LEMMA SumsDiffer ==
  ASSUME NEW base \in Nat, NEW b, NEW c, NEW j, OneOff(b, c, j)
  PROVE  WordSum(base, c) = WordSum(base, b) + Place(j, c[j] - b[j])
<1> DEFINE n == WordCount(b)
           d == Place(j, c[j] - b[j])
<1>1. /\ b \in Seq(Byte) /\ c \in Seq(Byte) /\ Len(c) = Len(b) /\ Len(b) \in Nat
      /\ j \in 1..Len(b) /\ WordCount(c) = n
  BY DEF OneOff, WordCount
<1>2. b[j] \in Nat /\ c[j] \in Nat
  BY <1>1, ByteAt
<1>3. d \in Int
  BY <1>2, SMT DEF Place
<1>4. n \in Nat /\ WordOf(j) \in Nat /\ WordOf(j) > 0 /\ WordOf(j) <= n
  BY <1>1, SMT DEF WordOf, WordCount
<1>5. PICK f : /\ WordSum(base, b) = f[n] /\ f[0] = base
               /\ \A i \in 1..n : f[i] = f[i - 1] + WordAt(b, 2 * i - 1)
               /\ \A i \in 0..n : f[i] \in Nat
  BY <1>1, WordSumTable
<1>6. PICK g : /\ WordSum(base, c) = g[n] /\ g[0] = base
               /\ \A i \in 1..n : g[i] = g[i - 1] + WordAt(c, 2 * i - 1)
               /\ \A i \in 0..n : g[i] \in Nat
  <2>1. \E h : /\ WordSum(base, c) = h[WordCount(c)] /\ h[0] = base
               /\ \A i \in 1..WordCount(c) :
                    h[i] = h[i - 1] + WordAt(c, 2 * i - 1)
               /\ \A i \in 0..WordCount(c) : h[i] \in Nat
    BY <1>1, WordSumTable
  <2> QED
    BY <1>1, <2>1
<1>7. \A i \in 1..n : /\ WordAt(b, 2 * i - 1) \in Nat
                      /\ WordAt(c, 2 * i - 1) =
                           WordAt(b, 2 * i - 1) + IF i = WordOf(j) THEN d ELSE 0
  BY <1>1, WordAtNat, WordsDiffer
<1> HIDE DEF n, d
<1> DEFINE S == {i \in Nat : i <= n => g[i] = f[i] + IF i < WordOf(j) THEN 0 ELSE d}
<1>8. 0 \in S
  BY <1>4, <1>5, <1>6
<1>9. ASSUME NEW i \in Nat, i \in S PROVE i + 1 \in S
  <2>1. SUFFICES ASSUME i + 1 <= n
                 PROVE  g[i + 1] = f[i + 1] + IF i + 1 < WordOf(j) THEN 0 ELSE d
    OBVIOUS
  <2>2. i + 1 \in 1..n /\ i \in 0..n /\ (i + 1) - 1 = i
    BY <1>4, <2>1
  <2>3. g[i] = f[i] + IF i < WordOf(j) THEN 0 ELSE d
    BY <1>9, <2>2
  <2> DEFINE w == WordAt(b, 2 * (i + 1) - 1)
             v == WordAt(c, 2 * (i + 1) - 1)
  <2>4. f[i + 1] = f[i] + w /\ g[i + 1] = g[i] + v
    BY <1>5, <1>6, <2>2
  <2>5. w \in Nat /\ v = w + IF i + 1 = WordOf(j) THEN d ELSE 0
    BY <1>7, <2>2
  <2>6. f[i] \in Nat
    BY <1>5, <2>2
  <2> HIDE DEF w, v
  <2> QED
    BY <1>3, <1>4, <2>3, <2>4, <2>5, <2>6, SMT
<1> HIDE DEF S
<1>10. n \in S
  BY <1>4, <1>8, <1>9, NatInductive DEF S
<1> QED
  BY <1>4, <1>5, <1>6, <1>10 DEF S, d

-----------------------------------------------------------------------------
(* The fields.                                                             *)

\* A word is a natural number below 2^16, and such a number is a word.
LEMMA WordRange == \A w : w \in Word <=> w \in Nat /\ w <= 65535
<1> DEFINE n == 65535
<1>1. n \in Int
  BY SMT
<1>2. Word = 0..n
  BY SMT DEF Word
<1> SUFFICES \A w : w \in Word <=> w \in Nat /\ w <= n
  OBVIOUS
<1> HIDE DEF n
<1> QED
  BY <1>1, <1>2, SMT

\* A word is a number.
LEMMA WordNat ==
  ASSUME NEW w \in Word
  PROVE  w \in Nat /\ w <= 65535
BY WordRange

\* A natural below 2^16 is a word.
LEMMA NatWord ==
  ASSUME NEW w \in Nat, w <= 65535
  PROVE  w \in Word
BY WordRange

\* A word is the two bytes that appendBits makes of it.
LEMMA WordBytes ==
  ASSUME NEW w \in Word
  PROVE  /\ w \in Nat /\ w <= 65535
         /\ w \div 256 \in Byte /\ w % 256 \in Byte
         /\ (w \div 256) * 256 + (w % 256) = w
<1>1. w \in Nat /\ w <= 65535
  BY WordNat
<1>2. /\ w \div 256 \in Byte /\ w % 256 \in Byte
      /\ (w \div 256) * 256 + (w % 256) = w
  BY <1>1, SMT DEF Byte
<1> QED
  BY <1>1, <1>2

\* k is h with the word w at its end.
Longer(h, k, w) ==
  /\ k \in Seq(Byte) /\ Len(k) = Len(h) + 2
  /\ CombineWord(k, Len(h)) = w
  /\ \A at \in Nat : at + 2 <= Len(h) => CombineWord(k, at) = CombineWord(h, at)

\* Two bytes appended are read back as a word, and what was there as before.
LEMMA PairAppended ==
  ASSUME NEW h \in Seq(Byte), NEW a \in Byte, NEW b \in Byte
  PROVE  Longer(h, h \o <<a, b>>, a * 256 + b)
<1> DEFINE t == <<a, b>>
           k == h \o t
<1>1. t \in Seq(Byte) /\ Len(t) = 2 /\ t[1] = a /\ t[2] = b
  OBVIOUS
<1> HIDE DEF t
<1>2. /\ k \in Seq(Byte) /\ Len(k) = Len(h) + Len(t)
      /\ \A i \in 1..Len(h) + Len(t) :
           k[i] = IF i <= Len(h) THEN h[i] ELSE t[i - Len(h)]
  BY <1>1, ConcatProperties
<1> HIDE DEF k
<1>3. Len(h) \in Nat
  BY LenProperties
<1>4. k[Len(h) + 1] = a /\ k[Len(h) + 2] = b
  BY <1>1, <1>2, <1>3, SMTT(30)
<1>5. ASSUME NEW at \in Nat, at + 2 <= Len(h)
      PROVE  k[at + 1] = h[at + 1] /\ k[at + 2] = h[at + 2]
  BY <1>1, <1>2, <1>3, <1>5, SMT
<1>6. Longer(h, k, a * 256 + b)
  BY <1>1, <1>2, <1>4, <1>5 DEF Longer, CombineWord
<1> QED
  BY <1>6 DEF k, t

\* What appendBits appends is read back by combineBytes: 16 bits, and 32.
LEMMA WordAppended ==
  ASSUME NEW h \in Seq(Byte), NEW w \in Word
  PROVE  Longer(h, h \o AppendWord(w), w)
BY PairAppended, WordBytes DEF AppendWord

\* A double word appends its two words, the high one first.
LEMMA DWordAppended ==
  ASSUME NEW h \in Seq(Byte), NEW d \in DWord
  PROVE  \E m : /\ Longer(h, m, d[1])
                /\ Longer(m, h \o AppendDWord(d), d[2])
<1> DEFINE m == h \o AppendWord(d[1])
<1>1. d[1] \in Word /\ d[2] \in Word
  BY DEF DWord
<1>2. Longer(h, m, d[1])
  BY <1>1, WordAppended
<1>3. m \in Seq(Byte)
  BY <1>2 DEF Longer
<1>4. Longer(m, m \o AppendWord(d[2]), d[2])
  BY <1>1, <1>3, WordAppended
<1>5. AppendWord(d[1]) \in Seq(Byte) /\ AppendWord(d[2]) \in Seq(Byte)
  BY <1>1, WordBytes, SMTT(30) DEF AppendWord
<1>6. m \o AppendWord(d[2]) = h \o AppendDWord(d)
  <2> DEFINE a == AppendWord(d[1])
             b == AppendWord(d[2])
  <2>1. (h \o a) \o b = h \o (a \o b)
    <3> HIDE DEF a, b
    <3>1. a \in Seq(Byte) /\ b \in Seq(Byte)
      BY <1>5 DEF a, b
    <3> QED
      BY <3>1, ConcatAssociative, SMTT(30)
  <2> QED
    BY <2>1, Zenon DEF AppendDWord
<1> QED
  BY <1>2, <1>4, <1>6

\* A segment's fields are as wide as in the code.
Fields == [srcPrt : Word, destPrt : Word, seqNum : DWord, ackNum : DWord,
           kind : SentKind, window : Word, urgentPtr : Word, start : Nat,
           end : 0..Len(sendBuffer)]

\* The header, before the checksum is entered.
Header(seg) ==
  AppendWord(seg.srcPrt) \o AppendWord(seg.destPrt)
    \o AppendDWord(seg.seqNum) \o AppendDWord(seg.ackNum)
    \o <<(HEADER_SIZE \div 4) * 16, FlagsOf(seg.kind)>>
    \o AppendWord(seg.window) \o <<0, 0>> \o AppendWord(seg.urgentPtr)

\* decodeFlags undoes createFlag for every kind that is sent.
LEMMA FlagByte ==
  ASSUME NEW kind \in SentKind
  PROVE  /\ FlagsOf(kind) \in Byte
         /\ DecodeFlags(FlagsOf(kind)) = kind
         /\ kind # "INVALID"
<1>1. CASE kind = "SYN"
  <2>1. FlagsOf(kind) = 2
    BY <1>1 DEF FlagsOf, CreateFlag, Flag
  <2> QED
    BY <1>1, <2>1, SMT DEF DecodeFlags, Has, Flag, Byte
<1>2. CASE kind = "SYN_ACK"
  <2>1. FlagsOf(kind) = 18
    BY <1>2 DEF FlagsOf, CreateFlag, Flag
  <2> QED
    BY <1>2, <2>1, SMT DEF DecodeFlags, Has, Flag, Byte
<1>3. CASE kind = "ACK"
  <2>1. FlagsOf(kind) = 16
    BY <1>3 DEF FlagsOf, CreateFlag, Flag
  <2> QED
    BY <1>3, <2>1, SMT DEF DecodeFlags, Has, Flag, Byte
<1>4. CASE kind = "FIN"
  <2>1. FlagsOf(kind) = 1
    BY <1>4 DEF FlagsOf, CreateFlag, Flag
  <2> QED
    BY <1>4, <2>1, SMT DEF DecodeFlags, Has, Flag, Byte
<1>5. CASE kind = "FIN_ACK"
  <2>1. FlagsOf(kind) = 17
    BY <1>5 DEF FlagsOf, CreateFlag, Flag
  <2> QED
    BY <1>5, <2>1, SMT DEF DecodeFlags, Has, Flag, Byte
<1> QED
  BY <1>1, <1>2, <1>3, <1>4, <1>5 DEF SentKind

\* Every field of the header is read back as it was appended.
LEMMA HeaderRead ==
  ASSUME NEW seg \in Fields
  PROVE  /\ Header(seg) \in Seq(Byte) /\ Len(Header(seg)) = 20
         /\ CombineWord(Header(seg), 0) = seg.srcPrt
         /\ CombineWord(Header(seg), 2) = seg.destPrt
         /\ CombineDWord(Header(seg), 4) = seg.seqNum
         /\ CombineDWord(Header(seg), 8) = seg.ackNum
         /\ Header(seg)[14] = FlagsOf(seg.kind)
         /\ CombineWord(Header(seg), 14) = seg.window
         /\ Header(seg)[17] = 0 /\ Header(seg)[18] = 0
         /\ CombineWord(Header(seg), 18) = seg.urgentPtr
<1>1. /\ seg.srcPrt \in Word /\ seg.destPrt \in Word /\ seg.seqNum \in DWord
      /\ seg.ackNum \in DWord /\ seg.kind \in SentKind /\ seg.window \in Word
      /\ seg.urgentPtr \in Word
  BY DEF Fields
<1>2. (HEADER_SIZE \div 4) * 16 = 80
  BY SMT DEF HEADER_SIZE
<1> DEFINE flags == FlagsOf(seg.kind)
           h2 == AppendWord(seg.srcPrt)
           h4 == h2 \o AppendWord(seg.destPrt)
           h8 == h4 \o AppendDWord(seg.seqNum)
           h12 == h8 \o AppendDWord(seg.ackNum)
           h14 == h12 \o <<80, flags>>
           h16 == h14 \o AppendWord(seg.window)
           h18 == h16 \o <<0, 0>>
           h20 == h18 \o AppendWord(seg.urgentPtr)
<1>3. Header(seg) = h20
  BY <1>2 DEF Header
<1>4. h2 \in Seq(Byte) /\ Len(h2) = 2 /\ CombineWord(h2, 0) = seg.srcPrt
  BY <1>1, WordBytes DEF AppendWord, CombineWord
<1> HIDE DEF h2
<1>5. Longer(h2, h4, seg.destPrt)
  BY <1>1, <1>4, WordAppended
<1> HIDE DEF h4
<1>6. PICK h6 : Longer(h4, h6, seg.seqNum[1]) /\ Longer(h6, h8, seg.seqNum[2])
  BY <1>1, <1>5, DWordAppended DEF Longer
<1> HIDE DEF h8
<1>7. PICK h10 : Longer(h8, h10, seg.ackNum[1]) /\ Longer(h10, h12, seg.ackNum[2])
  BY <1>1, <1>6, DWordAppended DEF Longer
<1> HIDE DEF h12
<1>8. flags \in Byte /\ 80 \in Byte /\ 0 \in Byte
  BY <1>1, FlagByte, SMT DEF Byte
<1>9. Longer(h12, h14, 80 * 256 + flags)
  BY <1>7, <1>8, PairAppended DEF Longer
<1> HIDE DEF h14
<1>10. Longer(h14, h16, seg.window)
  BY <1>1, <1>9, WordAppended DEF Longer
<1> HIDE DEF h16
<1>11. Longer(h16, h18, 0 * 256 + 0)
  BY <1>8, <1>10, PairAppended DEF Longer
<1> HIDE DEF h18
<1>12. Longer(h18, h20, seg.urgentPtr)
  BY <1>1, <1>11, WordAppended DEF Longer
<1> HIDE DEF h20
<1>13. /\ Len(h4) = 4 /\ Len(h6) = 6 /\ Len(h8) = 8 /\ Len(h10) = 10
       /\ Len(h12) = 12 /\ Len(h14) = 14 /\ Len(h16) = 16 /\ Len(h18) = 18
       /\ Len(h20) = 20 /\ h20 \in Seq(Byte)
  BY <1>4, <1>5, <1>6, <1>7, <1>9, <1>10, <1>11, <1>12, SMT DEF Longer
<1> DEFINE Same(k, n) == \A at \in Nat : at + 2 <= n =>
                           CombineWord(h20, at) = CombineWord(k, at)
<1>14. Same(h18, 18)
  BY <1>12, <1>13, SMT DEF Longer
<1>15. Same(h16, 16)
  BY <1>11, <1>13, <1>14, SMT DEF Longer
<1>16. Same(h14, 14)
  BY <1>10, <1>13, <1>15, SMT DEF Longer
<1>17. Same(h12, 12)
  BY <1>9, <1>13, <1>16, SMT DEF Longer
<1>18. Same(h10, 10)
  <2>1. \A at \in Nat : at + 2 <= 10 => CombineWord(h12, at) = CombineWord(h10, at)
    BY <1>7, <1>13 DEF Longer
  <2> QED
    BY <1>17, <2>1, SMT
<1>19. Same(h8, 8)
  BY <1>7, <1>13, <1>18, SMT DEF Longer
<1>20. Same(h6, 6)
  BY <1>6, <1>13, <1>19, SMT DEF Longer
<1>21. Same(h4, 4)
  BY <1>6, <1>13, <1>20, SMT DEF Longer
<1>22. Same(h2, 2)
  BY <1>5, <1>4, <1>13, <1>21, SMT DEF Longer
<1>23. CombineWord(h20, 0) = seg.srcPrt /\ CombineWord(h20, 2) = seg.destPrt
  BY <1>4, <1>5, <1>13, <1>21, <1>22, SMT DEF Longer
<1>24. CombineDWord(h20, 4) = seg.seqNum
  <2>1. CombineWord(h20, 4) = seg.seqNum[1]
    BY <1>6, <1>13, <1>20, SMT DEF Longer
  <2>2. CombineWord(h20, 6) = seg.seqNum[2]
    BY <1>6, <1>13, <1>19, SMT DEF Longer
  <2> QED
    BY <1>1, <2>1, <2>2 DEF CombineDWord, DWord
<1>25. CombineDWord(h20, 8) = seg.ackNum
  <2>1. CombineWord(h20, 8) = seg.ackNum[1]
    BY <1>7, <1>13, <1>18, SMT DEF Longer
  <2>2. CombineWord(h20, 10) = seg.ackNum[2]
    BY <1>7, <1>13, <1>17, SMT DEF Longer
  <2> QED
    BY <1>1, <2>1, <2>2 DEF CombineDWord, DWord
<1>26. h20[14] = flags
  <2>1. CombineWord(h20, 12) = 80 * 256 + flags
    BY <1>9, <1>13, <1>16, SMT DEF Longer
  <2>2. /\ h20[13] \in Nat /\ h20[13] <= 255
        /\ h20[14] \in Nat /\ h20[14] <= 255
    <3>1. 13 \in 1..Len(h20) /\ 14 \in 1..Len(h20)
      BY <1>13, SMT
    <3>2. h20 \in Seq(Byte)
      BY <1>13
    <3>3. h20[13] \in Nat /\ h20[13] <= 255
      BY <3>1, <3>2, ByteAt, Zenon
    <3>4. h20[14] \in Nat /\ h20[14] <= 255
      BY <3>1, <3>2, ByteAt, Zenon
    <3> QED
      BY <3>3, <3>4
  <2>3. flags \in Nat /\ flags <= 255
    BY <1>8, ByteBounds
  <2> HIDE DEF flags
  <2> QED
    BY <2>1, <2>2, <2>3, SMT DEF CombineWord
<1>27. CombineWord(h20, 14) = seg.window
  BY <1>10, <1>13, <1>15, SMT DEF Longer
<1>29. h20[17] = 0 /\ h20[18] = 0
  <2>1. CombineWord(h20, 16) = 0
    BY <1>11, <1>13, <1>14, SMT DEF Longer
  <2>2. h20[17] \in Nat /\ h20[18] \in Nat
    <3>1. 17 \in 1..Len(h20) /\ 18 \in 1..Len(h20)
      BY <1>13, SMT
    <3>2. h20 \in Seq(Byte)
      BY <1>13
    <3>3. h20[17] \in Nat /\ h20[17] <= 255
      BY <3>1, <3>2, ByteAt, Zenon
    <3>4. h20[18] \in Nat /\ h20[18] <= 255
      BY <3>1, <3>2, ByteAt, Zenon
    <3> QED
      BY <3>3, <3>4
  <2> QED
    BY <2>1, <2>2, SMT DEF CombineWord
<1>28. CombineWord(h20, 18) = seg.urgentPtr
  BY <1>12, <1>13, SMT DEF Longer
<1> QED
  BY <1>3, <1>13, <1>23, <1>24, <1>25, <1>26, <1>27, <1>28, <1>29

-----------------------------------------------------------------------------
(* What encode makes and decode reads.                                     *)

\* The protocol number alone keeps the sum from being 0.
LEMMA PseudoHeaderPositive ==
  ASSUME NEW bytes \in Seq(Byte)
  PROVE  /\ PseudoHeader(SourceIP, DestinationIP, bytes) \in Nat
         /\ PseudoHeader(SourceIP, DestinationIP, bytes) > 0
<1>1. /\ SourceIP[1] \in Word /\ SourceIP[2] \in Word
      /\ DestinationIP[1] \in Word /\ DestinationIP[2] \in Word
  BY SegmentAssumption DEF DWord
<1>2. /\ SourceIP[1] \in Nat /\ SourceIP[2] \in Nat
      /\ DestinationIP[1] \in Nat /\ DestinationIP[2] \in Nat
  BY <1>1, WordNat
<1>3. Len(bytes) \in Nat
  BY LenProperties
<1> DEFINE a == SourceIP[1] + SourceIP[2]
           b == DestinationIP[1] + DestinationIP[2]
<1>4. a \in Nat /\ b \in Nat
  BY <1>2, SMT
<1>5. PseudoHeader(SourceIP, DestinationIP, bytes) = a + b + 6 + Len(bytes)
  BY <1>2, <1>3, <1>4, SMTT(30) DEF PseudoHeader, Protocol
<1> HIDE DEF a, b
<1> QED
  BY <1>3, <1>4, <1>5, SMT

\* The sum of a packet, before its carries are added.
Total(bytes) == WordSum(PseudoHeader(SourceIP, DestinationIP, bytes), bytes)

\* The checksum is what is left of the total.
LEMMA TotalPositive ==
  ASSUME NEW bytes \in Seq(Byte)
  PROVE  /\ Total(bytes) \in Nat /\ Total(bytes) > 0
         /\ CalculateCheckSum(SourceIP, DestinationIP, bytes) = Folded(Total(bytes))
<1> DEFINE base == PseudoHeader(SourceIP, DestinationIP, bytes)
<1>1. base \in Nat /\ base > 0
  BY PseudoHeaderPositive
<1>2. Total(bytes) = WordSum(base, bytes)
  BY DEF Total
<1> HIDE DEF base
<1>3. PICK f : /\ WordSum(base, bytes) = f[WordCount(bytes)]
               /\ \A i \in 0..WordCount(bytes) : f[i] \in Nat /\ f[i] >= base
  BY <1>1, WordSumTable
<1>4. WordCount(bytes) \in 0..WordCount(bytes)
  <2>1. Len(bytes) \in Nat
    BY LenProperties
  <2> QED
    BY <2>1, SMT DEF WordCount
<1>5. Total(bytes) \in Nat /\ Total(bytes) > 0
  BY <1>1, <1>2, <1>3, <1>4
<1> QED
  BY <1>5, AddCarriesFolds DEF CalculateCheckSum, Total

\* One byte exchanged moves the total by its place (calculateCheckSum).
LEMMA TotalsDiffer ==
  ASSUME NEW b, NEW c, NEW j, OneOff(b, c, j)
  PROVE  Total(c) = Total(b) + Place(j, c[j] - b[j])
<1>1. b \in Seq(Byte) /\ c \in Seq(Byte) /\ Len(c) = Len(b)
  BY DEF OneOff
<1>2. PseudoHeader(SourceIP, DestinationIP, c) = PseudoHeader(SourceIP, DestinationIP, b)
  BY <1>1 DEF PseudoHeader
<1> QED
  BY <1>1, <1>2, PseudoHeaderPositive, SumsDiffer DEF Total

\* A packet that is not the one whose checksum is right, by one byte, has not
\* got it right (check_checksum).
LEMMA OneByteSeen ==
  ASSUME NEW b, NEW c, NEW j, OneOff(b, c, j), c[j] # b[j],
         CheckCheckSum(SourceIP, DestinationIP, b)
  PROVE  ~CheckCheckSum(SourceIP, DestinationIP, c)
<1>1. SUFFICES ASSUME CheckCheckSum(SourceIP, DestinationIP, c) PROVE FALSE
  OBVIOUS
<1>2. b \in Seq(Byte) /\ c \in Seq(Byte) /\ j \in 1..Len(b) /\ j \in 1..Len(c)
  BY DEF OneOff
<1>3. /\ b[j] \in Nat /\ b[j] <= 255 /\ c[j] \in Nat /\ c[j] <= 255
  BY <1>2, ByteAt
<1>4. Total(c) = Total(b) + Place(j, c[j] - b[j])
  BY TotalsDiffer
<1>5. /\ Total(b) \in Nat /\ Total(b) > 0 /\ Total(c) \in Nat /\ Total(c) > 0
      /\ Folded(Total(b)) = Folded(Total(c))
  BY <1>1, <1>2, TotalPositive DEF CheckCheckSum
<1> DEFINE d == Place(j, c[j] - b[j])
<1>6. d \in Int /\ d # 0 /\ d < 65535 /\ d > -65535
  BY <1>3, SMT DEF Place
<1> HIDE DEF d
<1>7. Total(c) - Total(b) < 65535 /\ Total(b) - Total(c) < 65535
      /\ Total(c) # Total(b)
  BY <1>4, <1>5, <1>6, SMT DEF d
<1> QED
  BY <1>5, <1>7, FoldedApart, SMT

\* A packet as encode leaves it, before the checksum is entered.
Packet(seg, data) == Header(seg) \o data

\* Encode is the packet with two bytes exchanged.
LEMMA EncodeIsPacket ==
  ASSUME NEW seg, NEW data
  PROVE  LET sum == AppendWord(CreateCheckSum(SourceIP, DestinationIP,
                                              Packet(seg, data)))
         IN Encode(seg, data, SourceIP, DestinationIP) =
              [Packet(seg, data) EXCEPT ![17] = sum[1], ![18] = sum[2]]
BY DEF Encode, Packet, Header

\* A packet is its header and its data, with room for the checksum.
LEMMA PacketBytes ==
  ASSUME NEW seg \in Fields, NEW data \in Seq(Byte)
  PROVE  /\ Packet(seg, data) \in Seq(Byte)
         /\ Len(Packet(seg, data)) = 20 + Len(data)
         /\ \A i \in 1..20 : Packet(seg, data)[i] = Header(seg)[i]
         /\ \A i \in 1..Len(data) : Packet(seg, data)[20 + i] = data[i]
         /\ Packet(seg, data)[17] = 0 /\ Packet(seg, data)[18] = 0
<1> DEFINE h == Header(seg)
           p == Packet(seg, data)
<1>1. h \in Seq(Byte) /\ Len(h) = 20 /\ h[17] = 0 /\ h[18] = 0
  BY HeaderRead
<1>2. /\ p \in Seq(Byte) /\ Len(p) = Len(h) + Len(data)
      /\ \A i \in 1..Len(h) + Len(data) :
           p[i] = IF i <= Len(h) THEN h[i] ELSE data[i - Len(h)]
  BY <1>1, ConcatProperties DEF Packet
<1>3. Len(data) \in Nat
  BY LenProperties
<1> HIDE DEF h, p
<1>4. Len(p) = 20 + Len(data) /\ \A i \in 1..20 : p[i] = h[i]
  <2>1. ASSUME NEW i \in 1..20 PROVE p[i] = h[i]
    <3>1. i \in 1..Len(h) + Len(data) /\ i <= Len(h)
      BY <1>1, <1>3, SMT
    <3> QED
      BY <1>2, <3>1
  <2> QED
    BY <1>1, <1>2, <2>1
<1>5. ASSUME NEW i \in 1..Len(data) PROVE p[20 + i] = data[i]
  <2>1. 20 + i \in 1..Len(h) + Len(data) /\ ~(20 + i <= Len(h)) /\ 20 + i - Len(h) = i
    BY <1>1, <1>3, SMT
  <2> QED
    BY <1>2, <2>1
<1>6. p[17] = 0 /\ p[18] = 0
  BY <1>1, <1>4, SMT
<1>7. p \in Seq(Byte)
  BY <1>2
<1> QED
  BY <1>4, <1>5, <1>6, <1>7 DEF h, p

\* Encode enters a checksum that decode finds right, and only that (encode,
\* create_checksum, check_checksum).
LEMMA EncodeBytes ==
  ASSUME NEW seg \in Fields, NEW data \in Seq(Byte)
  PROVE  LET e == Encode(seg, data, SourceIP, DestinationIP)
         IN /\ e \in Seq(Byte) /\ Len(e) = 20 + Len(data)
            /\ \A i \in 1..20 : i # 17 /\ i # 18 => e[i] = Header(seg)[i]
            /\ \A i \in 1..Len(data) : e[20 + i] = data[i]
            /\ CheckCheckSum(SourceIP, DestinationIP, e)
<1> DEFINE p == Packet(seg, data)
           w == CreateCheckSum(SourceIP, DestinationIP, p)
           x == w \div 256
           y == w % 256
           m == [p EXCEPT ![17] = x]
           e == [m EXCEPT ![18] = y]
<1>1. Encode(seg, data, SourceIP, DestinationIP) = e
  BY EncodeIsPacket DEF AppendWord
<1>2. /\ p \in Seq(Byte) /\ Len(p) = 20 + Len(data)
      /\ \A i \in 1..20 : p[i] = Header(seg)[i]
      /\ \A i \in 1..Len(data) : p[20 + i] = data[i]
      /\ p[17] = 0 /\ p[18] = 0
  BY PacketBytes
<1>3. Len(data) \in Nat /\ 17 \in 1..Len(p) /\ 18 \in 1..Len(p)
  BY <1>2, LenProperties, SMT
<1>4. Total(p) \in Nat /\ Total(p) > 0 /\ w = 65535 - Folded(Total(p))
  BY <1>2, TotalPositive DEF CreateCheckSum
<1>5. Folded(Total(p)) \in Nat /\ Folded(Total(p)) > 0 /\ Folded(Total(p)) <= 65535
  BY <1>4, FoldedDivides, SMT
<1> HIDE DEF p, w
<1>6. w \in Word
  <2>1. w \in Nat /\ w <= 65535
    BY <1>4, <1>5, SMT
  <2> QED
    BY <2>1, NatWord
<1>7. x \in Byte /\ y \in Byte /\ x * 256 + y = w
  BY <1>6, WordBytes
<1> HIDE DEF x, y
<1>8. /\ m \in Seq(Byte) /\ Len(m) = Len(p)
      /\ \A j \in 1..Len(p) : m[j] = IF j = 17 THEN x ELSE p[j]
  BY <1>2, <1>3, <1>7, ExceptSeq, SMTT(30)
<1> HIDE DEF m
<1>9. /\ e \in Seq(Byte) /\ Len(e) = Len(m)
      /\ \A j \in 1..Len(m) : e[j] = IF j = 18 THEN y ELSE m[j]
  BY <1>3, <1>7, <1>8, ExceptSeq
<1> HIDE DEF e
<1>10. OneOff(p, m, 17) /\ m[17] = x
  BY <1>2, <1>3, <1>8 DEF OneOff
<1>11. OneOff(m, e, 18) /\ e[18] = y /\ m[18] = 0
  BY <1>2, <1>3, <1>8, <1>9, SMTT(30) DEF OneOff
<1>12. Total(e) = Total(p) + w
  <2>1. x \in Nat /\ y \in Nat
    BY <1>7, ByteBounds
  <2>2. Total(m) = Total(p) + Place(17, x - 0)
    <3>1. Total(m) = Total(p) + Place(17, m[17] - p[17])
      BY <1>10, TotalsDiffer
    <3> QED
      BY <1>2, <1>10, <3>1
  <2>3. Total(e) = Total(m) + Place(18, y - 0)
    BY <1>11, TotalsDiffer
  <2>4. Place(17, x - 0) = 256 * x /\ Place(18, y - 0) = y
    BY <2>1, SMT DEF Place
  <2> QED
    BY <1>4, <1>7, <2>1, <2>2, <2>3, <2>4, SMT
<1>13. CheckCheckSum(SourceIP, DestinationIP, e)
  <2>1. Folded(Total(e)) = 65535
    BY <1>4, <1>12, FoldedCompleted, SMT
  <2> QED
    BY <1>9, <2>1, TotalPositive DEF CheckCheckSum
<1>14. Len(e) = 20 + Len(data)
  BY <1>2, <1>8, <1>9
<1>15. ASSUME NEW i \in 1..20, i # 17, i # 18
       PROVE  e[i] = Header(seg)[i]
  <2>1. i \in 1..Len(p) /\ i \in 1..Len(m)
    BY <1>2, <1>3, <1>8, SMTT(30)
  <2> QED
    BY <1>2, <1>8, <1>9, <1>15, <2>1
<1>16. ASSUME NEW i \in 1..Len(data)
       PROVE  e[20 + i] = data[i]
  <2>1. 20 + i \in 1..Len(p) /\ 20 + i # 17 /\ 20 + i # 18
    BY <1>2, <1>3, SMT
  <2> QED
    BY <1>2, <1>8, <1>9, <2>1
<1> QED
  BY <1>1, <1>9, <1>13, <1>14, <1>15, <1>16

\* A segment's data are the bytes start..end-1, also when it has none.
LEMMA DataBytes ==
  ASSUME NEW seg \in Outgoing
  PROVE  /\ seg \in Fields
         /\ Data(seg) \in Seq(Byte)
         /\ Data(seg) = SubSeq(sendBuffer, seg.start + 1, seg.end)
<1>1. seg \in Fields /\ sendBuffer \in Seq(Byte)
  BY SegmentAssumption DEF Fields
<1>2. seg.start \in Nat /\ seg.end \in 0..Len(sendBuffer)
  BY <1>1 DEF Fields
<1>3. Len(sendBuffer) \in Nat
  BY <1>1, LenProperties
<1>4. \A i \in seg.start + 1 .. seg.end : sendBuffer[i] \in Byte
  <2>1. ASSUME NEW i \in seg.start + 1 .. seg.end PROVE i \in 1..Len(sendBuffer)
    BY <1>2, <1>3, SMT
  <2> QED
    BY <1>1, <2>1, ElementOfSeq
<1>5. seg.start + 1 \in Int /\ seg.end \in Int
  BY <1>2, <1>3, SMT
<1>6. SubSeq(sendBuffer, seg.start + 1, seg.end) \in Seq(Byte)
  BY <1>4, <1>5, SubSeqProperties
<1>7. CASE seg.end = 0
  <2>1. SubSeq(sendBuffer, seg.start + 1, seg.end) = <<>>
    BY <1>2, <1>5, <1>7, SubSeqEmpty, SMT
  <2> QED
    BY <1>1, <1>6, <1>7, <2>1 DEF Data
<1>8. CASE seg.end # 0
  BY <1>1, <1>6, <1>8 DEF Data
<1> QED
  BY <1>7, <1>8

\* What is encoded is decoded, field by field (encode, decode).
LEMMA DecodeEncode ==
  ASSUME NEW seg \in Fields, NEW data \in Seq(Byte)
  PROVE  Decode(Encode(seg, data, SourceIP, DestinationIP), SourceIP, DestinationIP)
           = Decoded(seg.srcPrt, seg.destPrt, seg.seqNum, seg.ackNum, seg.kind,
                     seg.window, seg.urgentPtr, data)
<1> DEFINE e == Encode(seg, data, SourceIP, DestinationIP)
           h == Header(seg)
<1>1. /\ e \in Seq(Byte) /\ Len(e) = 20 + Len(data)
      /\ \A i \in 1..20 : i # 17 /\ i # 18 => e[i] = h[i]
      /\ \A i \in 1..Len(data) : e[20 + i] = data[i]
      /\ CheckCheckSum(SourceIP, DestinationIP, e)
  BY EncodeBytes
<1>2. /\ CombineWord(h, 0) = seg.srcPrt /\ CombineWord(h, 2) = seg.destPrt
      /\ CombineDWord(h, 4) = seg.seqNum /\ CombineDWord(h, 8) = seg.ackNum
      /\ h[14] = FlagsOf(seg.kind) /\ CombineWord(h, 14) = seg.window
      /\ CombineWord(h, 18) = seg.urgentPtr
  BY HeaderRead
<1>3. seg.kind \in SentKind
  BY DEF Fields
<1> HIDE DEF e, h
<1>4. Len(data) \in Nat
  BY LenProperties
<1>5. /\ e[1] = h[1] /\ e[2] = h[2] /\ e[3] = h[3] /\ e[4] = h[4]
      /\ e[5] = h[5] /\ e[6] = h[6] /\ e[7] = h[7] /\ e[8] = h[8]
      /\ e[9] = h[9] /\ e[10] = h[10] /\ e[11] = h[11] /\ e[12] = h[12]
      /\ e[14] = h[14] /\ e[15] = h[15] /\ e[16] = h[16]
      /\ e[19] = h[19] /\ e[20] = h[20]
  BY <1>1, SMT
<1>6. CombineWord(e, 0) = seg.srcPrt /\ CombineWord(e, 2) = seg.destPrt
  BY <1>2, <1>5, SMT DEF CombineWord
<1>7. CombineDWord(e, 4) = seg.seqNum
  BY <1>2, <1>5, SMT DEF CombineDWord, CombineWord
<1>8. CombineDWord(e, 8) = seg.ackNum
  BY <1>2, <1>5, SMT DEF CombineDWord, CombineWord
<1>9. CombineWord(e, 14) = seg.window /\ CombineWord(e, 18) = seg.urgentPtr
  BY <1>2, <1>5, SMT DEF CombineWord
<1>10. DecodeFlags(e[14]) = seg.kind
  BY <1>2, <1>3, <1>5, FlagByte
<1>11. SubSeq(e, 21, Len(e)) = data
  <2>1. \A i \in 21..Len(e) : e[i] \in Byte
    <3>1. ASSUME NEW i \in 21..Len(e) PROVE i \in 1..Len(e)
      BY <1>1, <1>4, SMT
    <3> QED
      BY <1>1, <3>1, ElementOfSeq
  <2>2. 21 \in Int /\ Len(e) \in Int
    BY <1>1, <1>4, SMT
  <2> DEFINE t == SubSeq(e, 21, Len(e))
  <2>3. /\ t \in Seq(Byte)
        /\ Len(t) = IF 21 <= Len(e) THEN Len(e) - 21 + 1 ELSE 0
        /\ \A i \in 1..(Len(e) - 21 + 1) : t[i] = e[21 + i - 1]
    BY <2>1, <2>2, SubSeqProperties
  <2> HIDE DEF t
  <2>4. Len(t) = Len(data)
    BY <1>1, <1>4, <2>3, SMT
  <2>5. ASSUME NEW i \in 1..Len(t) PROVE t[i] = data[i]
    <3>1. i \in 1..(Len(e) - 21 + 1) /\ 21 + i - 1 = 20 + i /\ i \in 1..Len(data)
      BY <1>1, <1>4, <2>4, SMTT(30)
    <3>2. t[i] = e[20 + i]
      BY <2>3, <3>1
    <3> QED
      BY <1>1, <3>1, <3>2
  <2>6. t = data
    BY <2>3, <2>4, <2>5, SeqEqual
  <2> QED
    BY <2>6 DEF t
<1>12. ~(Len(e) < HEADER_SIZE)
  BY <1>1, <1>4, SMT DEF HEADER_SIZE
<1>13. Decode(e, SourceIP, DestinationIP) =
         Decoded(CombineWord(e, 0), CombineWord(e, 2), CombineDWord(e, 4),
                 CombineDWord(e, 8), DecodeFlags(e[14]), CombineWord(e, 14),
                 CombineWord(e, 18), SubSeq(e, 21, Len(e)))
  BY <1>1, <1>12 DEF Decode
<1> QED
  BY <1>6, <1>7, <1>8, <1>9, <1>10, <1>11, <1>13 DEF e

-----------------------------------------------------------------------------
(* The two threads.                                                        *)

\* What encode makes of a segment.
Coded(seg) == Encode(seg, Data(seg), SourceIP, DestinationIP)

\* While a datagram is on its way it is what encode has made of item, with as
\* many bytes exchanged as spoilt says: none, or one (more are not told apart).
OnItsWay ==
  /\ spoilt \in Nat
  /\ datagram # <<>> =>
       /\ item \in Outgoing
       /\ spoilt = 0 => datagram = Coded(item)
       /\ spoilt = 1 => \E j \in 1..Len(Coded(item)) :
            OneOff(Coded(item), datagram, j) /\ datagram[j] # Coded(item)[j]

CodecInv == OnItsWay /\ SpoiltDropped /\ IntactReceived

\* What the sender thread sends is not empty and passes the check.
LEMMA CodedBytes ==
  ASSUME NEW seg \in Outgoing
  PROVE  /\ Coded(seg) \in Seq(Byte) /\ Coded(seg) # <<>>
         /\ CheckCheckSum(SourceIP, DestinationIP, Coded(seg))
<1> DEFINE e == Coded(seg)
<1>1. seg \in Fields /\ Data(seg) \in Seq(Byte)
  BY DataBytes
<1>2. /\ e \in Seq(Byte) /\ Len(e) = 20 + Len(Data(seg))
      /\ CheckCheckSum(SourceIP, DestinationIP, e)
  BY <1>1, EncodeBytes DEF Coded
<1> HIDE DEF e
<1>3. Len(Data(seg)) \in Nat
  BY <1>1, LenProperties
<1>4. e # <<>>
  BY <1>2, <1>3, EmptySeq, SMT
<1> QED
  BY <1>2, <1>4 DEF e

\* The steps of the program keep the invariant.
LEMMA CodecInit == Init => CodecInv
BY DEF Init, CodecInv, OnItsWay, SpoiltDropped, IntactReceived, Arrived

\* A segment is sent as its code, unspoilt.
LEMMA SendStep == CodecInv /\ Send => CodecInv'
<1>1. SUFFICES ASSUME CodecInv, Send PROVE CodecInv'
  OBVIOUS
<1>2. PICK seg \in Outgoing : item' = seg /\ datagram' = Coded(seg)
  BY <1>1 DEF Send, Coded
<1>3. Coded(seg) # <<>> /\ spoilt' = 0
  BY <1>1, CodedBytes DEF Send
<1>4. datagram' = Coded(item') /\ item' \in Outgoing /\ datagram' # <<>>
  BY <1>2, <1>3
<1>5. OnItsWay'
  BY <1>3, <1>4 DEF OnItsWay, Coded, Data
<1> QED
  BY <1>4, <1>5 DEF CodecInv, SpoiltDropped, IntactReceived, Arrived

\* A changed byte differs from the one that was sent.
LEMMA SpoilStep == CodecInv /\ Spoil => CodecInv'
<1>1. SUFFICES ASSUME CodecInv, Spoil PROVE CodecInv'
  OBVIOUS
<1>2. PICK i \in DOMAIN datagram, b \in Byte :
        b # datagram[i] /\ datagram' = [datagram EXCEPT ![i] = b]
  BY <1>1 DEF Spoil
<1>3. spoilt \in Nat /\ spoilt' = spoilt + 1 /\ item' = item
  BY <1>1 DEF CodecInv, OnItsWay, Spoil
<1>4. datagram # <<>>
  <2>1. SUFFICES ASSUME datagram = <<>> PROVE FALSE
    OBVIOUS
  <2>2. DOMAIN <<>> = {}
    OBVIOUS
  <2> QED
    BY <1>2, <2>1, <2>2
<1>5. datagram' # <<>>
  <2>1. DOMAIN datagram' = DOMAIN datagram
    BY <1>2
  <2>2. DOMAIN <<>> = {}
    OBVIOUS
  <2> QED
    BY <1>2, <2>1, <2>2
<1>6. item \in Outgoing
  BY <1>1, <1>4 DEF CodecInv, OnItsWay
<1>7. ASSUME spoilt' = 1
      PROVE  \E j \in 1..Len(Coded(item)) :
               OneOff(Coded(item), datagram', j) /\ datagram'[j] # Coded(item)[j]
  <2>1. datagram = Coded(item)
    BY <1>1, <1>3, <1>4, <1>7 DEF CodecInv, OnItsWay
  <2>2. datagram \in Seq(Byte)
    BY <1>6, <2>1, CodedBytes
  <2>3. i \in 1..Len(datagram) /\ b \in Byte /\ b # datagram[i]
    BY <1>2, <2>2, LenProperties
  <2>4. /\ datagram' \in Seq(Byte) /\ Len(datagram') = Len(datagram)
        /\ \A j \in 1..Len(datagram) :
             datagram'[j] = IF j = i THEN b ELSE datagram[j]
    BY <1>2, <2>2, <2>3, ExceptSeq
  <2>5. OneOff(datagram, datagram', i) /\ datagram'[i] # datagram[i]
    BY <2>2, <2>3, <2>4 DEF OneOff
  <2> QED
    BY <2>1, <2>3, <2>5
<1>8. OnItsWay'
  <2>1. Coded(item)' = Coded(item)
    BY <1>3 DEF Coded, Data
  <2> QED
    BY <1>3, <1>5, <1>6, <1>7, <2>1 DEF OnItsWay
<1> QED
  BY <1>5, <1>8 DEF CodecInv, SpoiltDropped, IntactReceived, Arrived

\* The receiver thread's step is where both properties are decided.
LEMMA ReceiveStep == CodecInv /\ Receive => CodecInv'
<1>1. SUFFICES ASSUME CodecInv, Receive PROVE CodecInv'
  OBVIOUS
<1>2. /\ item \in Outgoing /\ spoilt \in Nat /\ datagram # <<>>
      /\ datagram' = <<>> /\ item' = item /\ spoilt' = spoilt
  BY <1>1 DEF Receive, CodecInv, OnItsWay
<1> DEFINE seg == Decode(datagram, SourceIP, DestinationIP)
<1>3. received' = IF seg # NoSegment /\ seg.kind # "INVALID" THEN seg ELSE NoSegment
  BY <1>1 DEF Receive
<1>4. ASSUME spoilt = 1 PROVE received' = NoSegment
  <2>1. PICK j \in 1..Len(Coded(item)) :
          OneOff(Coded(item), datagram, j) /\ datagram[j] # Coded(item)[j]
    BY <1>1, <1>2, <1>4 DEF CodecInv, OnItsWay
  <2>2. ~CheckCheckSum(SourceIP, DestinationIP, datagram)
    BY <1>2, <2>1, CodedBytes, OneByteSeen
  <2>3. seg = NoSegment
    BY <2>2 DEF Decode
  <2> QED
    BY <1>3, <2>3
<1>5. ASSUME spoilt = 0 PROVE received' = Sent
  <2>1. datagram = Coded(item)
    BY <1>1, <1>2, <1>5 DEF CodecInv, OnItsWay
  <2>2. /\ item \in Fields /\ Data(item) \in Seq(Byte)
        /\ Data(item) = SubSeq(sendBuffer, item.start + 1, item.end)
    BY <1>2, DataBytes
  <2>3. seg = Sent
    BY <2>1, <2>2, DecodeEncode DEF Coded, Sent
  <2>4. Sent.kind = item.kind /\ item.kind # "INVALID"
    <3>1. item.kind \in SentKind
      BY <2>2 DEF Fields
    <3> QED
      BY <3>1, FlagByte DEF Sent, Decoded
  <2> QED
    BY <1>3, <2>3, <2>4
<1>6. Sent' = Sent
  BY <1>2 DEF Sent
<1> QED
  BY <1>2, <1>4, <1>5, <1>6 DEF CodecInv, OnItsWay, SpoiltDropped, IntactReceived

\* Every step keeps the invariant of the codec.
LEMMA CodecNext == CodecInv /\ [Next]_vars => CodecInv'
<1>1. CASE Next
  BY <1>1, SendStep, SpoilStep, ReceiveStep DEF Next
<1>2. CASE UNCHANGED vars
  BY <1>2 DEF vars, CodecInv, OnItsWay, SpoiltDropped, IntactReceived, Arrived,
              Sent, Coded, Data
<1> QED
  BY <1>1, <1>2

\* What is on its way is what was encoded, but for the bytes spoilt, and what
\* has been received follows from it (SocketHandler::send, receive).
THEOREM CodecInvariant == Spec => []CodecInv
BY CodecInit, CodecNext, PTL DEF Spec

\* The checksum finds every change of a single byte, whichever the segment,
\* its data, the addresses, the byte and its new value (Segment::encode,
\* Segment::decode, SocketHandler::receive).
THEOREM SpoiltIsDropped == Spec => []SpoiltDropped
BY CodecInvariant, PTL DEF CodecInv

\* What arrives intact is received as it was sent: every field, the kind of
\* the segment, and the bytes start..end-1 of sendBuffer (Segment::encode,
\* Segment::decode, createFlag, decodeFlags).
THEOREM IntactIsReceived == Spec => []IntactReceived
BY CodecInvariant, PTL DEF CodecInv

=============================================================================
