-------------------------- MODULE RetentionProofs --------------------------
(* Proofs about what a sender can still retransmit, in an undisturbed       *)
(* transfer.  An entry of messagesSent is acknowledged as a whole: the      *)
(* acknowledgements of the receiver, and the ends of the segments on their  *)
(* way, lie between entries and not within one.  So checkFront never drops  *)
(* an entry with a byte that is not in the receiver's file.                 *)
EXTENDS StreamProofs

-----------------------------------------------------------------------------
(* What is kept.                                                            *)

\* The places in the buffer, up to the last byte sent, that cut no entry.
Bounds(c) ==
  {x \in Int :
     /\ x <= c.lastByteSent
     /\ \A i \in DOMAIN c.messagesSent :
          LET e == c.messagesSent[i]
          IN e.size > 0 => x <= e.start \/ e.start + e.size <= x}

\* No entry ends within another.
Whole(c) ==
  \A i \in DOMAIN c.messagesSent :
    c.messagesSent[i].start + c.messagesSent[i].size \in Bounds(c)

\* Every byte from k on that was sent is in an entry.
Keeps(c, k) ==
  \A x \in k .. (c.lastByteSent - 1) :
    \E i \in DOMAIN c.messagesSent :
      LET e == c.messagesSent[i] IN e.start <= x /\ x < e.start + e.size

EndsIn(X) == {s \in Segment : s.end \in X}
AcksIn(X) == {s \in Segment : s.ack - (ISN + 1) \in X}

\* n can retransmit what p has not written.
Remembers(n, p) ==
  LET c == clients[n][p]
      d == clients[p][n]
      k == Len(file[p][n])
      X == Bounds(c)
  IN Paired(n, p) =>
       /\ Whole(c) /\ Keeps(c, k) /\ k \in X
       /\ OnWay(n, p, EndsIn(X)) /\ d.messageBuffer \subseteq EndsIn(X)
       /\ OnWay(p, n, AcksIn(X)) /\ c.messageBuffer \subseteq AcksIn(X)

\* c becomes e, says snd, and keeps what lies from k on.
KeepsOn(c, e, snd, k) ==
  /\ Bounds(c) \subseteq Bounds(e) /\ Whole(e) /\ Keeps(e, k)
  /\ snd \in Seq(OutItem)
  /\ \A i \in DOMAIN snd : /\ snd[i].seg.end \in Bounds(e)
                           /\ snd[i].seg.ack = e.expected_ack

\* The numbers of an entry.
LEMMA EntryNumbers ==
  ASSUME NEW B \in Nat, NEW c \in ClientWithin(B), NEW i \in DOMAIN c.messagesSent
  PROVE  /\ c.messagesSent[i].start \in Nat /\ c.messagesSent[i].size \in Nat
         /\ c.messagesSent[i].seq \in Nat
  <1>1. c.messagesSent \in Seq(InfoWithin(B))
    BY ClientNumbers
  <1>2. c.messagesSent[i] \in InfoWithin(B)
    BY <1>1
  <1> QED
    BY <1>2 DEF InfoWithin, SegmentInfo

\* Whatever is not positive cuts nothing.
LEMMA OriginBound ==
  ASSUME NEW B \in Nat, NEW c \in ClientWithin(B), NEW x \in Int, x <= 0
  PROVE  x \in Bounds(c)
  <1>1. c.lastByteSent \in Nat
    BY ClientNumbers
  <1>2. \A i \in DOMAIN c.messagesSent : c.messagesSent[i].start \in Nat
    BY EntryNumbers
  <1>3. \A i \in DOMAIN c.messagesSent : x <= c.messagesSent[i].start
    BY <1>2
  <1> QED
    BY <1>1, <1>3 DEF Bounds

\* The last byte sent ends the last entry.
LEMMA LastBound ==
  ASSUME NEW B \in Nat, NEW c \in ClientWithin(B), Numbered(c)
  PROVE  c.lastByteSent \in Bounds(c)
  <1>1. c.lastByteSent \in Nat
    BY ClientNumbers
  <1>2. ASSUME NEW i \in DOMAIN c.messagesSent, c.messagesSent[i].size > 0
        PROVE  c.messagesSent[i].start + c.messagesSent[i].size <= c.lastByteSent
    BY <1>2 DEF Numbered, NumberedEntry
  <1> QED
    BY <1>1, <1>2 DEF Bounds

\* The same entries but for their marks.
LEMMA MarkedKeeps ==
  ASSUME NEW B \in Nat, NEW c \in ClientWithin(B), NEW e \in ClientWithin(B),
         SameEntries(c.messagesSent, e.messagesSent),
         e.lastByteSent = c.lastByteSent, NEW k \in Nat, Whole(c), Keeps(c, k)
  PROVE  Bounds(c) = Bounds(e) /\ Whole(e) /\ Keeps(e, k)
  <1> DEFINE q == c.messagesSent
             r == e.messagesSent
  <1>1. q \in Seq(InfoWithin(B)) /\ r \in Seq(InfoWithin(B))
    BY ClientNumbers
  <1>2. DOMAIN r = DOMAIN q
    BY <1>1 DEF SameEntries
  <1>3. \A i \in DOMAIN q : r[i].start = q[i].start /\ r[i].size = q[i].size
    BY <1>1 DEF SameEntries
  <1>4. Bounds(c) = Bounds(e)
    BY <1>2, <1>3 DEF Bounds
  <1>5. Whole(e)
    BY <1>2, <1>3, <1>4 DEF Whole
  <1>6. Keeps(e, k)
    BY <1>2, <1>3 DEF Keeps
  <1> QED
    BY <1>4, <1>5, <1>6

\* Acknowledged entries go, and nothing from k on with them.
LEMMA DroppedKeeps ==
  ASSUME NEW B \in Nat, NEW c \in ClientWithin(B), Numbered(c), NEW e,
         NEW ack \in Nat, Acknowledged(c, e, ack) \/ Unacknowledged(c, e),
         e.lastByteSent = c.lastByteSent, NEW k \in Nat, Whole(c), Keeps(c, k),
         ack - (ISN + 1) \in Bounds(c), ack - (ISN + 1) <= k
  PROVE  Bounds(c) \subseteq Bounds(e) /\ Whole(e) /\ Keeps(e, k)
  <1> DEFINE q == c.messagesSent
             r == e.messagesSent
             x == ack - (ISN + 1)
  <1>1. PICK m \in 0..Len(q) : Suffix(r, q, m) /\ \A i \in 1..m : q[i].seq < ack
    BY EntriesDropped
  <1>2. /\ q \in Seq(InfoWithin(B)) /\ c.lastByteSent \in Nat /\ ISN \in Nat
        /\ Len(q) \in Nat /\ DOMAIN q = 1..Len(q)
    BY ClientNumbers, SizeAssumption
  <1>3. \A i \in DOMAIN q : q[i].start \in Nat /\ q[i].size \in Nat
    BY EntryNumbers
  <1>4. /\ DOMAIN r = 1..(Len(q) - m)
        /\ \A i \in 1..(Len(q) - m) : i + m \in DOMAIN q /\ r[i] = q[i + m]
    BY <1>1 DEF Suffix
  <1>5. Bounds(c) \subseteq Bounds(e)
    BY <1>4 DEF Bounds
  <1>6. Whole(e)
    BY <1>4, <1>5 DEF Whole
  <1>7. ASSUME NEW y \in k..(e.lastByteSent - 1)
        PROVE  \E i \in DOMAIN r : r[i].start <= y /\ y < r[i].start + r[i].size
    <2>1. PICK j \in DOMAIN q : q[j].start <= y /\ y < q[j].start + q[j].size
      BY <1>7 DEF Keeps
    <2>2. q[j].start \in Nat /\ q[j].size \in Nat /\ y \in Int /\ k <= y /\ x \in Int
      BY <1>2, <1>3, <1>7
    <2>3. q[j].size > 0
      BY <2>1, <2>2
    <2>4. NumberedEntry(q[j], c.lastByteSent)
      BY DEF Numbered
    <2>5. q[j].seq = ISN + 1 + q[j].start
      BY <2>2, <2>3, <2>4 DEF NumberedEntry
    <2>6. j \notin 1..m
      <3> SUFFICES ASSUME j \in 1..m
                   PROVE  FALSE
        OBVIOUS
      <3>0. q[j].seq < ack /\ q[j].seq = ISN + 1 + q[j].start
        BY <1>1, <2>5
      <3>1. q[j].start < x
        <4> DEFINE y1 == q[j].seq
                   y2 == q[j].start
        <4>1. y1 < ack /\ y1 = ISN + 1 + y2 /\ y2 \in Nat /\ ISN \in Nat
          BY <1>2, <2>2, <3>0
        <4> HIDE DEF y1, y2
        <4>2. y2 < ack - (ISN + 1)
          BY <4>1
        <4> QED
          BY <4>2 DEF y2
      <3>2. x <= q[j].start \/ q[j].start + q[j].size <= x
        BY <2>3 DEF Bounds
      <3>3. x <= k
        OBVIOUS
      <3> HIDE DEF x, q
      <3> QED
        BY <2>1, <2>2, <3>1, <3>2, <3>3
    <2>7. j - m \in DOMAIN r /\ r[j - m] = q[j]
      <3>1. j - m \in 1..(Len(q) - m) /\ (j - m) + m = j
        BY <1>1, <1>2, <2>6
      <3> QED
        BY <1>4, <3>1
    <2> QED
      BY <2>1, <2>7
  <1>8. Keeps(e, k)
    BY <1>7 DEF Keeps
  <1> QED
    BY <1>5, <1>6, <1>8

\* What is sent is kept.
LEMMA SendsKeeps ==
  ASSUME NEW B \in Nat, NEW c \in ClientWithin(B), Numbered(c), NEW h,
         Sends(c, h, B), NEW k \in Nat, Whole(c), Keeps(c, k)
  PROVE  KeepsOn(c, h.c, h.snd, k)
  <1> DEFINE e == h.c
             snd == h.snd
             q == c.messagesSent
  <1>1. /\ e \in ClientWithin(B) /\ Numbered(e) /\ snd \in Seq(OutItem)
        /\ e.expected_ack = c.expected_ack
    BY SendsNumbered DEF SaidAll, Sends
  <1>2. /\ q \in Seq(InfoWithin(B)) /\ c.lastByteSent \in Nat /\ ISN \in Nat
        /\ c.expected_sequence = ISN + 1 + c.lastByteSent
    BY ClientNumbers, SizeAssumption DEF Numbered
  <1>3. CASE SendsNoData(c, h)
    <2>1. /\ e.lastByteSent = c.lastByteSent /\ e.messagesSent = q
          /\ \/ snd = <<>>
             \/ /\ Len(snd) = 1
                /\ snd[1].seg = Control("ACK", c.expected_sequence, c.expected_ack)
      BY <1>3 DEF SendsNoData
    <2> HIDE DEF e, snd
    <2>2. Bounds(c) = Bounds(e) /\ Whole(e) /\ Keeps(e, k)
      BY <2>1 DEF Bounds, Whole, Keeps
    <2>3. ASSUME NEW i \in DOMAIN snd
          PROVE  snd[i].seg.end = 0 /\ snd[i].seg.ack = e.expected_ack
      <3>1. i = 1 /\ snd[1].seg = Control("ACK", c.expected_sequence, c.expected_ack)
        BY <1>1, <2>1, <2>3
      <3> QED
        BY <1>1, <3>1 DEF Control
    <2>4. 0 \in Bounds(e)
      BY <1>1, OriginBound
    <2> QED
      BY <1>1, <2>2, <2>3, <2>4 DEF KeepsOn, e, snd
  <1>4. ASSUME NEW m \in Nat \ {0}, SendsData(c, h, m, B)
        PROVE  KeepsOn(c, e, snd, k)
    <2> DEFINE f == DataEntry(c, m)
               b == c.lastByteSent
    <2>1. /\ e.lastByteSent = b + m
          /\ e.messagesSent = Append(q, f)
          /\ Len(snd) = 1 /\ snd[1].seg = DataSegment(c, m)
      BY <1>2, <1>4, NumberedFront DEF SendsData
    <2>2. f.start = b /\ f.size = m /\ b \in Nat
      BY <1>2 DEF DataEntry
    <2>3. snd[1].seg.end = e.lastByteSent /\ snd[1].seg.ack = e.expected_ack
      BY <1>1, <2>1 DEF DataSegment
    <2> HIDE DEF f
    <2>4. /\ Len(q) \in Nat /\ DOMAIN q = 1..Len(q)
          /\ DOMAIN Append(q, f) = 1..(Len(q) + 1)
          /\ \A i \in 1..Len(q) : Append(q, f)[i] = q[i]
          /\ Append(q, f)[Len(q) + 1] = f
      BY <1>2
    <2> DEFINE r == e.messagesSent
    <2>5. DOMAIN r = 1..(Len(q) + 1)
      BY <2>1, <2>4
    <2>6. \A i \in DOMAIN r : (i \in DOMAIN q /\ r[i] = q[i]) \/ r[i] = f
      BY <2>1, <2>4
    <2>7. \A i \in DOMAIN q : i \in DOMAIN r /\ r[i] = q[i]
      BY <2>1, <2>4
    <2>8. Len(q) + 1 \in DOMAIN r /\ r[Len(q) + 1] = f
      BY <2>1, <2>4
    <2>9. b + m \in Bounds(e)
      BY <1>1, <2>1, LastBound
    <2> HIDE DEF r, q
    <2>10. ASSUME NEW x \in Bounds(c)
           PROVE  x \in Bounds(e)
      <3>1. x \in Int /\ x <= b
        BY DEF Bounds
      <3>2. x <= b + m
        BY <2>2, <3>1
      <3>3. ASSUME NEW i \in DOMAIN r, r[i].size > 0
            PROVE  x <= r[i].start \/ r[i].start + r[i].size <= x
        <4>1. CASE i \in DOMAIN q /\ r[i] = q[i]
          BY <3>3, <4>1 DEF Bounds, q
        <4>2. CASE r[i] = f
          BY <2>2, <3>1, <4>2
        <4> QED
          BY <2>6, <4>1, <4>2
      <3> QED
        BY <2>1, <3>1, <3>2, <3>3 DEF Bounds, r
    <2>11. Whole(e)
      <3>1. ASSUME NEW i \in DOMAIN r
            PROVE  r[i].start + r[i].size \in Bounds(e)
        <4>1. CASE i \in DOMAIN q /\ r[i] = q[i]
          BY <2>10, <4>1 DEF Whole, q
        <4>2. CASE r[i] = f
          BY <2>2, <2>9, <4>2
        <4> QED
          BY <2>6, <4>1, <4>2
      <3> QED
        BY <3>1 DEF Whole, r
    <2>12. Keeps(e, k)
      <3>1. ASSUME NEW x \in k..(e.lastByteSent - 1)
            PROVE  \E i \in DOMAIN r : r[i].start <= x /\ x < r[i].start + r[i].size
        <4>1. x \in Int /\ k <= x /\ x < b + m
          BY <2>1, <2>2, <3>1
        <4>2. CASE x < b
          <5>1. x \in k..(c.lastByteSent - 1)
            BY <2>2, <4>1, <4>2
          <5>2. PICK j \in DOMAIN q : q[j].start <= x /\ x < q[j].start + q[j].size
            BY <5>1 DEF Keeps, q
          <5> QED
            BY <2>7, <5>2
        <4>3. CASE ~(x < b)
          BY <2>2, <2>8, <4>1, <4>3
        <4> QED
          BY <4>2, <4>3
      <3> QED
        BY <3>1 DEF Keeps, r
    <2>13. \A i \in DOMAIN snd : snd[i].seg.end \in Bounds(e)
                                /\ snd[i].seg.ack = e.expected_ack
      <3>1. DOMAIN snd = 1..1
        BY <1>1, <2>1
      <3> QED
        BY <2>1, <2>3, <2>9, <3>1
    <2> QED
      BY <1>1, <2>10, <2>11, <2>12, <2>13 DEF KeepsOn
  <1> QED
    BY <1>3, <1>4 DEF Sends
\* A retransmission takes nothing away.
LEMMA RepeatsKeeps ==
  ASSUME NEW B \in Nat, NEW c \in ClientWithin(B), Numbered(c),
         c.messagesSent # <<>>, NEW k \in Nat, Whole(c), Keeps(c, k)
  PROVE  KeepsOn(c, Retransmit(c).c, Retransmit(c).snd, k)
  <1> DEFINE h == Retransmit(c)
             e == h.c
             snd == h.snd
             f == Head(c.messagesSent)
  <1>1. /\ h \in FrameWithin(B) /\ Steady(c, e) /\ e.messagesSent = c.messagesSent
        /\ Len(snd) = 1 /\ snd[1].seg = Repetition(c)
    BY RetransmitDoes
  <1> HIDE DEF h
  <1>2. snd \in Seq(OutItem)
    BY <1>1, WithinTyped DEF FrameWithin
  <1>3. e.expected_ack = c.expected_ack /\ e.lastByteSent = c.lastByteSent
    BY <1>1 DEF Steady
  <1>4. Bounds(c) = Bounds(e) /\ Whole(e) /\ Keeps(e, k)
    BY <1>1, <1>3 DEF Bounds, Whole, Keeps
  <1>5. f.start + f.size \in Bounds(c)
    <2>1. c.messagesSent \in Seq(InfoWithin(B))
      BY ClientNumbers
    <2>2. 1 \in DOMAIN c.messagesSent /\ f = c.messagesSent[1]
      BY <2>1
    <2> QED
      BY <2>2 DEF Whole
  <1>6. Repetition(c).end = f.start + f.size /\ Repetition(c).ack = c.expected_ack
    BY DEF Repetition
  <1> HIDE DEF e, snd, f
  <1>7. ASSUME NEW i \in DOMAIN snd
        PROVE  snd[i].seg.end \in Bounds(e) /\ snd[i].seg.ack = e.expected_ack
    <2>1. i = 1
      BY <1>1, <1>2
    <2> QED
      BY <1>1, <1>3, <1>4, <1>5, <1>6, <2>1
  <1> QED
    BY <1>2, <1>4, <1>7 DEF KeepsOn, e, snd, h

\* One thing after another.
LEMMA KeepsThrough ==
  ASSUME NEW c, NEW e, NEW f, NEW snd, NEW k,
         Bounds(c) \subseteq Bounds(e), KeepsOn(e, f, snd, k)
  PROVE  KeepsOn(c, f, snd, k)
  BY DEF KeepsOn

\* An acknowledgement that counts nothing from k on.
Counts(c, k) ==
  {s \in ValidSegment : /\ s.ack - (ISN + 1) \in Bounds(c)
                        /\ s.ack - (ISN + 1) <= k}

\* A client that has handled an acknowledgement keeps what the peer has not
\* written.
LEMMA AckKeeps ==
  ASSUME NEW B \in Nat, NEW c \in ClientWithin(B), Numbered(c), InUse(c),
         NEW seg \in Acks, NEW R \in SUBSET Acks, NEW last \in R,
         R \subseteq c.messageBuffer \cup {seg},
         NEW k \in Nat, Whole(c), Keeps(c, k),
         c.messageBuffer \cup {seg} \subseteq Counts(c, k)
  PROVE  LET h == HandleAck(c, seg, R, last, B, FALSE)
         IN /\ KeepsOn(c, h.c, h.snd, k)
            /\ h.c.messageBuffer \subseteq c.messageBuffer \cup {seg}
  <1> DEFINE h == HandleAck(c, seg, R, last, B, FALSE)
  <1> SUFFICES /\ KeepsOn(c, h.c, h.snd, k)
               /\ h.c.messageBuffer \subseteq c.messageBuffer \cup {seg}
    OBVIOUS
  <1>1. /\ c # NoClient /\ c.messageBuffer \subseteq Acks
        /\ c.state \in {"SYN_SENT", "ESTABLISHED"}
    BY ClientExists DEF InUse
  <1>2. AckHandled(c, h, seg, R, last, B)
    BY <1>1, HandleAckDoes
  <1>3. \A b \in c.messageBuffer \cup {seg} :
           /\ b.ack \in Nat /\ b.ack - (ISN + 1) \in Bounds(c)
           /\ b.ack - (ISN + 1) <= k
    BY DEF Counts, ValidSegment, Segment
  <1> HIDE DEF h
  <1>4. CASE ~InTurn(c, seg)
    <2> DEFINE e == h.c
    <2>1. h.snd = <<>> /\ Buffers(c, e, seg)
      BY <1>2, <1>4 DEF AckHandled
    <2>2. /\ Acknowledged(c, e, seg.ack) \/ Unacknowledged(c, e)
          /\ e.lastByteSent = c.lastByteSent
          /\ e.messageBuffer \subseteq c.messageBuffer \cup {seg}
      BY <2>1 DEF Buffers
    <2> HIDE DEF e
    <2>3. Bounds(c) \subseteq Bounds(e) /\ Whole(e) /\ Keeps(e, k)
      BY <1>3, <2>2, DroppedKeeps
    <2> QED
      BY <2>1, <2>2, <2>3 DEF KeepsOn, e
  <1>5. CASE InTurn(c, seg)
    <2>1. PICK b \in R \cup c.messageBuffer, e \in ClientWithin(B) :
            Consumes(c, e, b, NextSeq(last)) /\ Sends(e, h, B)
      BY <1>2, <1>5 DEF AckHandled
    <2>2. /\ Acknowledged(c, e, b.ack) /\ e.expected_sequence = c.expected_sequence
          /\ e.lastByteSent = c.lastByteSent
          /\ e.messageBuffer \subseteq c.messageBuffer
      BY <2>1 DEF Consumes
    <2>3. b \in c.messageBuffer \cup {seg}
      BY <2>1
    <2>4. Bounds(c) \subseteq Bounds(e) /\ Whole(e) /\ Keeps(e, k)
      BY <1>3, <2>2, <2>3, DroppedKeeps
    <2>5. Numbered(e)
      BY <1>3, <2>2, <2>3, NumberedKept
    <2>6. KeepsOn(e, h.c, h.snd, k)
      BY <2>1, <2>4, <2>5, SendsKeeps
    <2>7. h.c.messageBuffer = e.messageBuffer
      BY <2>1 DEF Sends
    <2> QED
      BY <2>2, <2>4, <2>6, <2>7, KeepsThrough
  <1> QED
    BY <1>4, <1>5

\* So does one that has handled the SYN_ACK.
LEMMA SynAckKeeps ==
  ASSUME NEW B \in Nat, NEW c \in ClientWithin(B), NEW seg, Numbered(c),
         NEW k \in Nat, Whole(c), Keeps(c, k), seg \in Counts(c, k)
  PROVE  LET h == HandleSynAck(c, seg)
         IN /\ KeepsOn(c, h.c, h.snd, k) /\ h.c.messageBuffer = c.messageBuffer
  <1> DEFINE h == HandleSynAck(c, seg)
             e == h.c
             snd == h.snd
  <1> SUFFICES KeepsOn(c, e, snd, k) /\ e.messageBuffer = c.messageBuffer
    OBVIOUS
  <1>1. /\ seg.ack \in Nat /\ seg.ack - (ISN + 1) \in Bounds(c)
        /\ seg.ack - (ISN + 1) <= k /\ seg \in ValidSegment
    BY DEF Counts, ValidSegment, Segment
  <1>2. Completed(c, h, seg, B)
    BY <1>1, HandleSynAckDoes
  <1> HIDE DEF h
  <1>3. CASE e = c /\ snd = <<>>
    BY <1>3 DEF KeepsOn
  <1>4. CASE /\ h \in FrameWithin(B) /\ e.expected_ack = seg.seq + 1
             /\ e.lastByteSent = c.lastByteSent
             /\ e.messageBuffer = c.messageBuffer
             /\ Acknowledged(c, e, seg.ack)
             /\ Len(snd) = 1
             /\ snd[1].seg = Control("ACK", c.expected_sequence, seg.seq + 1)
    <2>1. e \in ClientWithin(B) /\ snd \in Seq(OutItem)
      BY <1>4, WithinTyped DEF FrameWithin
    <2> HIDE DEF e
    <2>2. Bounds(c) \subseteq Bounds(e) /\ Whole(e) /\ Keeps(e, k)
      BY <1>1, <1>4, DroppedKeeps
    <2>3. 0 \in Bounds(e)
      BY <2>1, OriginBound
    <2> HIDE DEF snd
    <2>4. ASSUME NEW i \in DOMAIN snd
          PROVE  snd[i].seg.end = 0 /\ snd[i].seg.ack = e.expected_ack
      <3>1. i = 1
        BY <1>4, <2>1
      <3> QED
        BY <1>4, <3>1 DEF Control
    <2> QED
      BY <1>4, <2>1, <2>2, <2>3, <2>4 DEF KeepsOn
  <1> QED
    BY <1>2, <1>3, <1>4 DEF Completed

\* A run ends where one of its segments does, or writes nothing.
LEMMA RunEnds ==
  ASSUME NEW c, NEW seg \in Acks, NEW R \in SUBSET Acks, NEW last \in R,
         IsRun(R, last, c, seg), NEW d, NEW D, R \subseteq Said(d, D),
         NEW X, NEW k \in X, k \in Nat, seg.seq = ISN + 1 + k,
         R \subseteq EndsIn(X)
  PROVE  NextSeq(last) - (ISN + 1) \in X
  <1>1. \A b \in Acks : /\ b.seq \in Nat /\ b.start \in Nat /\ b.end \in Nat
                        /\ b.start <= b.end /\ b.flag = "ACK"
    BY DEF Acks, ValidSegment, Segment
  <1>2. ISN \in Nat
    BY SizeAssumption
  <1>3. NextSeq(last) = last.seq + (last.end - last.start)
    BY DEF NextSeq, SizeOf
  <1>4. CASE last.start < last.end
    <2>1. last.seq = ISN + 1 + last.start
      BY <1>1, <1>4 DEF Said, RightlyNumbered
    <2>2. NextSeq(last) - (ISN + 1) = last.end
      BY <1>1, <1>2, <1>3, <2>1
    <2> QED
      BY <2>2 DEF EndsIn
  <1>5. CASE ~(last.start < last.end)
    <2>1. last = seg
      BY <1>1, <1>5 DEF IsRun, SizeOf
    <2>2. NextSeq(last) - (ISN + 1) = k
      <3>1. last.seq \in Nat /\ last.start \in Nat /\ last.end = last.start
        BY <1>1, <1>5
      <3>2. last.seq = ISN + 1 + k
        BY <2>1
      <3>3. NextSeq(last) = last.seq
        BY <1>3, <3>1
      <3> QED
        BY <1>2, <3>2, <3>3
    <2> QED
      BY <2>2
  <1> QED
    BY <1>4, <1>5
-----------------------------------------------------------------------------
(* What is remembered, when one end moves.                                   *)

\* A client c becomes e, whose file o becomes r, and says snd; the peer's client
\* is d, and has q of c's bytes.
Moves(c, e, snd, d, q, o, r) ==
  /\ KeepsOn(c, e, snd, Len(q))
  /\ e.messageBuffer \subseteq AcksIn(Bounds(c)) \cap EndsIn(Bounds(d))
  /\ Len(o) <= Len(r) /\ Len(r) \in Bounds(d)

\* What is kept from k on is kept from a later place on.
LEMMA KeepsLater ==
  ASSUME NEW c, NEW k \in Nat, NEW m \in Nat, k <= m, c.lastByteSent \in Nat,
         Keeps(c, k)
  PROVE  Keeps(c, m)
  <1>1. \A x \in m..(c.lastByteSent - 1) : x \in k..(c.lastByteSent - 1)
    OBVIOUS
  <1> QED
    BY <1>1 DEF Keeps

\* Both ends remember when one of them has moved and the other has not.
LEMMA MoveRemembers ==
  ASSUME NEW n \in Node, NEW p \in Node, Flowing(n, p),
         Remembers(n, p), Remembers(p, n), Streams(p, n)', SameSide(p, n),
         NEW snd, Passes(n, p, snd), Passes(p, n, <<>>),
         Paired(n, p)' =>
           /\ Paired(n, p)
           /\ Moves(clients[n][p], clients'[n][p], snd, clients[p][n],
                    file[p][n], file[n][p], file'[n][p])
  PROVE  Remembers(n, p)' /\ Remembers(p, n)'
  <1> DEFINE c == clients[n][p]
             e == clients'[n][p]
             d == clients[p][n]
             q == file[p][n]
             o == file[n][p]
             r == file'[n][p]
  <1>1. /\ clients'[p][n] = d /\ file'[p][n] = q
    BY DEF SameSide
  <1>2. CASE ~Paired(n, p)'
    BY <1>2 DEF Remembers, Paired
  <1>3. CASE Paired(n, p)'
    <2>1. /\ Paired(n, p) /\ Paired(p, n) /\ e # NoClient /\ d # NoClient
          /\ c # NoClient /\ Moves(c, e, snd, d, q, o, r)
      BY <1>3 DEF Paired
    <2>2. /\ Counters(d) /\ Counters(e) /\ q \in Seq(Nat) /\ o \in Seq(Nat) /\ r \in Seq(Nat)
          /\ \E D \in Nat : d \in ClientWithin(D)
      BY <2>1, PeerNumbers, PeerNumbersNext DEF Flowing, TypedPair
    <2>3. Expects(e, r)
      BY <1>1, <2>1 DEF Streams, Receiving
    <2>4. PICK X, Y, Z : X = Bounds(c) /\ Y = Bounds(e) /\ Z = Bounds(d)
      OBVIOUS
    <2>5. /\ Whole(d) /\ Keeps(d, Len(o)) /\ Len(q) \in X
          /\ OnWay(n, p, EndsIn(X)) /\ d.messageBuffer \subseteq EndsIn(X)
          /\ OnWay(p, n, AcksIn(X)) /\ OnWay(p, n, EndsIn(Z))
          /\ OnWay(n, p, AcksIn(Z)) /\ d.messageBuffer \subseteq AcksIn(Z)
      BY <2>1, <2>4 DEF Remembers
    <2>6. /\ X \subseteq Y /\ Whole(e) /\ Keeps(e, Len(q))
          /\ snd \in Seq(OutItem)
          /\ \A i \in DOMAIN snd : snd[i].seg.end \in Y /\ snd[i].seg.ack = e.expected_ack
          /\ e.messageBuffer \subseteq AcksIn(X) /\ e.messageBuffer \subseteq EndsIn(Z)
          /\ Len(o) <= Len(r) /\ Len(r) \in Z
      BY <2>1, <2>4 DEF Moves, KeepsOn
    <2>7. EndsIn(X) \subseteq EndsIn(Y) /\ AcksIn(X) \subseteq AcksIn(Y)
      BY <2>6 DEF EndsIn, AcksIn
    <2>8. \A i \in DOMAIN snd : snd[i].seg \in Segment
      <3>1. \A i \in DOMAIN snd : snd[i] \in OutItem
        BY <2>6
      <3> QED
        BY <3>1 DEF OutItem
    <2>9. e.expected_ack - (ISN + 1) \in Z
      <3>1. CASE e.expected_ack = ISN + 1 + Len(r)
        <4>1. e.expected_ack - (ISN + 1) = Len(r)
          BY <2>2, <3>1, SizeAssumption
        <4> QED
          BY <2>6, <4>1
      <3>2. CASE e.expected_ack = 0
        <4>1. e.expected_ack - (ISN + 1) \in Int /\ e.expected_ack - (ISN + 1) <= 0
          BY <3>2, SizeAssumption
        <4> QED
          BY <2>2, <2>4, <4>1, OriginBound
      <3> QED
        BY <2>3, <3>1, <3>2 DEF Expects
    <2>10. \A i \in DOMAIN snd : snd[i].seg \in EndsIn(Y) /\ snd[i].seg \in AcksIn(Z)
      BY <2>6, <2>8, <2>9 DEF EndsIn, AcksIn
    <2>11. OnWay(n, p, EndsIn(Y)) /\ OnWay(p, n, AcksIn(Y))
      BY <2>5, <2>7, OnWayMonotone
    <2>12. OnWay(n, p, EndsIn(Y))' /\ OnWay(n, p, AcksIn(Z))'
      <3>1. PICK S, T : S = EndsIn(Y) /\ T = AcksIn(Z)
        OBVIOUS
      <3>2. OnWay(n, p, S)' /\ OnWay(n, p, T)'
        BY <2>5, <2>10, <2>11, <3>1 DEF Passes
      <3> QED
        BY <3>1, <3>2
    <2>13. OnWay(p, n, AcksIn(Y))' /\ OnWay(p, n, EndsIn(Z))'
      <3>1. PICK S, T : S = AcksIn(Y) /\ T = EndsIn(Z)
        OBVIOUS
      <3>2. OnWay(p, n, S)' /\ OnWay(p, n, T)'
        BY <2>5, <2>11, <3>1 DEF Passes
      <3> QED
        BY <3>1, <3>2
    <2>14. OnWay(n, p, EndsIn(Bounds(clients[n][p])))' /\ OnWay(p, n, AcksIn(Bounds(clients[n][p])))'
      BY <2>4, <2>12, <2>13
    <2>15. OnWay(n, p, AcksIn(Bounds(clients[p][n])))' /\ OnWay(p, n, EndsIn(Bounds(clients[p][n])))'
      BY <1>1, <2>4, <2>12, <2>13
    <2>16. Keeps(d, Len(r))
      BY <2>1, <2>2, <2>5, <2>6, KeepsLater DEF Counters
    <2>17. /\ Len(q) \in Y /\ d.messageBuffer \subseteq EndsIn(Y)
           /\ e.messageBuffer \subseteq AcksIn(Y)
      BY <2>5, <2>6, <2>7
    <2>18. Remembers(n, p)'
      BY <1>1, <2>4, <2>6, <2>14, <2>17 DEF Remembers
    <2>19. Remembers(p, n)'
      BY <1>1, <2>4, <2>5, <2>6, <2>15, <2>16 DEF Remembers
    <2> QED
      BY <2>18, <2>19
  <1> QED
    BY <1>2, <1>3
\* A pair whose ends remember, in a step that keeps the streams.
Remembering(n, p) ==
  /\ Flowing(n, p) /\ Streams(n, p)' /\ Streams(p, n)'
  /\ Remembers(n, p) /\ Remembers(p, n)

\* What is known of a pair that remembers.
LEMMA PairRemembers ==
  ASSUME NEW n \in Node, NEW p \in Node, Remembering(n, p), Paired(n, p)
  PROVE  LET c == clients[n][p]
             d == clients[p][n]
         IN /\ c # NoClient /\ d # NoClient /\ c \in ClientWithin(sendBuffer[n])
            /\ sendBuffer[n] \in Nat /\ file[p][n] \in Seq(Nat) /\ file[n][p] \in Seq(Nat)
            /\ Whole(c) /\ Keeps(c, Len(file[p][n]))
            /\ c.messageBuffer \subseteq AcksIn(Bounds(c)) \cap EndsIn(Bounds(d))
            /\ Len(file[n][p]) \in Bounds(d)
            /\ OnWay(p, n, AcksIn(Bounds(c))) /\ OnWay(p, n, EndsIn(Bounds(d)))
  <1>1. TypedPair(n, p) /\ Paired(p, n) /\ clients[n][p] # NoClient /\ clients[p][n] # NoClient
    BY DEF Remembering, Flowing, Paired
  <1>2. /\ clients[n][p] \in ClientWithin(sendBuffer[n]) /\ sendBuffer[n] \in Nat
        /\ file[p][n] \in Seq(Nat) /\ file[n][p] \in Seq(Nat)
    BY <1>1, PeerNumbers DEF TypedPair
  <1>3. Remembers(n, p) /\ Remembers(p, n)
    BY DEF Remembering
  <1> QED
    BY <1>1, <1>2, <1>3 DEF Remembers

\* n's client is as it was, up to the marks of its entries.
LEMMA SteadyRemembers ==
  ASSUME NEW n \in Node, NEW p \in Node, Remembering(n, p),
         Passes(n, p, <<>>), Passes(p, n, <<>>), SameSide(p, n),
         file'[n][p] = file[n][p],
         \/ clients'[n][p] = clients[n][p]
         \/ \E mark \in SendMark, seq \in Nat :
              /\ clients[n][p] # NoClient
              /\ clients'[n][p] = Stamp(clients[n][p], seq, mark)
  PROVE  Remembers(n, p)' /\ Remembers(p, n)'
  <1> DEFINE c == clients[n][p]
             e == clients'[n][p]
             d == clients[p][n]
             q == file[p][n]
             o == file[n][p]
  <1>1. ASSUME Paired(n, p)'
        PROVE  Paired(n, p) /\ Moves(c, e, <<>>, d, q, o, o)
    <2>1. Paired(n, p)
      <3>1. c # NoClient \/ e = c
        OBVIOUS
      <3>2. e # NoClient /\ clients'[p][n] # NoClient
        BY <1>1 DEF Paired
      <3> QED
        BY <3>1, <3>2 DEF SameSide, Paired
    <2> DEFINE B == sendBuffer[n]
    <2>2. /\ c \in ClientWithin(B) /\ B \in Nat /\ q \in Seq(Nat) /\ o \in Seq(Nat)
          /\ Whole(c) /\ Keeps(c, Len(q))
          /\ c.messageBuffer \subseteq AcksIn(Bounds(c)) \cap EndsIn(Bounds(d))
          /\ Len(o) \in Bounds(d)
      BY <2>1, PairRemembers
    <2>3. Len(q) \in Nat /\ Len(o) \in Nat
      BY <2>2
    <2>4. \/ e = c
          \/ \E mark \in SendMark, seq \in Nat : e = Stamp(c, seq, mark)
      OBVIOUS
    <2> HIDE DEF c, e, d, q, o, B
    <2>5. CASE e = c
      BY <2>1, <2>2, <2>3, <2>5 DEF Moves, KeepsOn
    <2>6. ASSUME NEW mark \in SendMark, NEW seq \in Nat, e = Stamp(c, seq, mark)
          PROVE  Moves(c, e, <<>>, d, q, o, o)
      <3>1. /\ e \in ClientWithin(B) /\ Steady(c, e)
            /\ SameEntries(c.messagesSent, e.messagesSent)
        BY <2>2, <2>6, StampFields
      <3>2. e.lastByteSent = c.lastByteSent /\ e.messageBuffer = c.messageBuffer
        BY <3>1 DEF Steady
      <3>3. Bounds(c) = Bounds(e) /\ Whole(e) /\ Keeps(e, Len(q))
        BY <2>2, <2>3, <3>1, <3>2, MarkedKeeps
      <3> QED
        BY <2>2, <2>3, <3>2, <3>3 DEF Moves, KeepsOn
    <2> QED
      BY <2>1, <2>4, <2>5, <2>6
  <1> QED
    BY <1>1, MoveRemembers DEF Remembering

\* The sender thread, the network, the receiver thread, and segments of
\* unknown programs.
LEMMA QuietRemembers ==
  ASSUME UndisturbedTransfer, NEW n \in Node, NEW p \in Node, Remembering(n, p),
         \/ Leaves(n, p) \/ Arrives(n, p) \/ GoesWrong(n, p) \/ Discards(n, p)
         \/ Still(n, p) /\ Still(p, n)
  PROVE  Remembers(n, p)' /\ Remembers(p, n)'
  <1>1. TypedPair(n, p) /\ TypedPair(n, p)' /\ TypedPair(p, n) /\ TypedPair(p, n)'
    BY DEF Remembering, Flowing, TypedPair
  <1>2. CASE Leaves(n, p)
    <2>1. Head(senderQueue[n][p]).seg.seq \in Nat
      <3>1. senderQueue[n][p] \in Seq(OutItem) /\ senderQueue[n][p] # <<>>
        BY <1>1, <1>2 DEF TypedPair, Typed, Leaves
      <3>2. Head(senderQueue[n][p]) \in OutItem
        BY <3>1
      <3> QED
        BY <3>2 DEF OutItem, Segment
    <2>2. \/ clients'[n][p] = clients[n][p]
          \/ \E mark \in SendMark, seq \in Nat :
               /\ clients[n][p] # NoClient
               /\ clients'[n][p] = Stamp(clients[n][p], seq, mark)
      BY <1>2, <2>1 DEF Leaves
    <2>3. SameSide(p, n) /\ file'[n][p] = file[n][p]
      BY <1>2 DEF Leaves, Still
    <2>4. Passes(n, p, <<>>) /\ Passes(p, n, <<>>)
      BY <1>1, <1>2, CarriedPasses
    <2> QED
      BY <2>2, <2>3, <2>4, SteadyRemembers
  <1>3. CASE Arrives(n, p) \/ GoesWrong(n, p)
    <2>1. /\ SameSide(p, n) /\ clients'[n][p] = clients[n][p]
          /\ file'[n][p] = file[n][p]
      BY <1>3 DEF Arrives, GoesWrong, Still, SameSide
    <2>2. Passes(n, p, <<>>) /\ Passes(p, n, <<>>)
      BY <1>1, <1>3, CarriedPasses
    <2> QED
      BY <2>1, <2>2, SteadyRemembers
  <1>4. CASE Discards(n, p)
    <2>1. Takes(n, p) /\ Still(n, p)
      BY <1>4 DEF Discards, Takes, Still
    <2>2. /\ SameSide(p, n) /\ clients'[n][p] = clients[n][p]
          /\ file'[n][p] = file[n][p]
      BY <2>1 DEF Takes, Still, SameSide
    <2>3. Passes(n, p, <<>>) /\ Passes(p, n, <<>>)
      BY <1>1, <2>1, TakesPasses, StillPasses
    <2> QED
      BY <2>2, <2>3, SteadyRemembers
  <1>5. CASE Still(n, p) /\ Still(p, n)
    <2>1. /\ SameSide(p, n) /\ clients'[n][p] = clients[n][p]
          /\ file'[n][p] = file[n][p]
      BY <1>5 DEF Still, SameSide
    <2>2. Passes(n, p, <<>>) /\ Passes(p, n, <<>>)
      BY <1>1, <1>5, StillPasses
    <2> QED
      BY <2>1, <2>2, SteadyRemembers
  <1> QED
    BY <1>2, <1>3, <1>4, <1>5

\* n speaks of its own accord.
LEMMA UnpromptedRemembers ==
  ASSUME NEW n \in Node, NEW p \in Node, Remembering(n, p), Unprompted(n, p),
         NEW snd \in Seq(OutItem),
         senderQueue'[n][p] = senderQueue[n][p] \o snd, clients[n][p] # NoClient,
         clients'[n][p].messageBuffer = clients[n][p].messageBuffer,
         Paired(n, p) => KeepsOn(clients[n][p], clients'[n][p], snd, Len(file[p][n]))
  PROVE  Remembers(n, p)' /\ Remembers(p, n)'
  <1>1. /\ TypedPair(n, p) /\ TypedPair(n, p)' /\ TypedPair(p, n) /\ TypedPair(p, n)'
        /\ file'[n][p] = file[n][p] /\ SameWire(n, p) /\ Still(p, n)
    BY DEF Remembering, Flowing, TypedPair, Unprompted
  <1>2. Passes(n, p, snd)
    BY <1>1, SpeaksPasses
  <1>3. Passes(p, n, <<>>)
    BY <1>1, StillPasses
  <1>4. SameSide(p, n)
    BY <1>1 DEF Still
  <1>5. Paired(n, p)' =>
          /\ Paired(n, p)
          /\ Moves(clients[n][p], clients'[n][p], snd, clients[p][n],
                   file[p][n], file[n][p], file'[n][p])
    <2>1. Paired(n, p)' => Paired(n, p)
      BY <1>4 DEF Paired, SameSide
    <2>2. ASSUME Paired(n, p)
          PROVE  Moves(clients[n][p], clients'[n][p], snd, clients[p][n],
                       file[p][n], file[n][p], file'[n][p])
      <3>1. /\ clients[n][p].messageBuffer
                 \subseteq AcksIn(Bounds(clients[n][p])) \cap EndsIn(Bounds(clients[p][n]))
            /\ Len(file[n][p]) \in Bounds(clients[p][n])
            /\ Len(file[n][p]) \in Nat
        BY <2>2, PairRemembers
      <3> QED
        BY <1>1, <2>2, <3>1 DEF Moves
    <2> QED
      BY <2>1, <2>2
  <1> QED
    BY <1>2, <1>3, <1>4, <1>5, MoveRemembers DEF Remembering
\* InsertInput.
LEMMA OffersRemembers ==
  ASSUME NEW n \in Node, NEW p \in Node, Remembering(n, p), Offers(n, p)
  PROVE  Remembers(n, p)' /\ Remembers(p, n)'
  <1> DEFINE c == clients[n][p]
             B == sendBuffer'[n]
             h == SendMessages(Frame(c), B, FALSE)
             snd == h.snd
             e == h.c
             k == Len(file[p][n])
  <1>1. /\ Unprompted(n, p) /\ c # NoClient /\ Speaks(n, p, h.c, h.snd)
        /\ c.state # "NONE" /\ Sending(c)
    BY DEF Offers, Remembering, Flowing, Streams
  <1>2. c \in ClientWithin(B) /\ B \in Nat
    <2>1. sendBuffer[n] \in Nat /\ B \in Nat /\ c \in ClientWithin(sendBuffer[n])
      BY <1>1 DEF Remembering, Flowing, TypedPair, Typed
    <2> QED
      BY <2>1, WithinMonotone DEF Remembering, Flowing
  <1>3. Numbered(c)
    BY <1>1 DEF Sending
  <1>4. clients'[n][p] = e /\ senderQueue'[n][p] = senderQueue[n][p] \o snd
    BY <1>1 DEF Speaks
  <1>5. Paired(n, p) => Whole(c) /\ Keeps(c, k) /\ k \in Nat
    BY PairRemembers
  <1> HIDE DEF c, B, k
  <1>6. Sends(c, h, B)
    BY <1>2, SendMessagesSends
  <1> HIDE DEF h
  <1>7. SaidAll(snd, e, B) /\ e.messageBuffer = c.messageBuffer
    BY <1>2, <1>3, <1>6, SendsNumbered DEF Sends
  <1>8. snd \in Seq(OutItem)
    BY <1>7 DEF SaidAll
  <1>9. Paired(n, p) => KeepsOn(c, e, snd, k)
    BY <1>2, <1>3, <1>5, <1>6, SendsKeeps
  <1> HIDE DEF e, snd
  <1> QED
    BY <1>1, <1>4, <1>7, <1>8, <1>9, UnpromptedRemembers DEF c, k

\* MessageResendCheck: a retransmission.
LEMMA RepeatsRemembers ==
  ASSUME NEW n \in Node, NEW p \in Node, Remembering(n, p), Repeats(n, p),
         InUse(clients[n][p])
  PROVE  Remembers(n, p)' /\ Remembers(p, n)'
  <1> DEFINE c == clients[n][p]
             B == sendBuffer[n]
             h == Retransmit(c)
             snd == h.snd
             e == h.c
             k == Len(file[p][n])
  <1>1. /\ Unprompted(n, p) /\ c # NoClient /\ Speaks(n, p, h.c, h.snd)
        /\ c.messagesSent # <<>> /\ c.state # "NONE" /\ Sending(c)
    BY DEF Repeats, Remembering, Flowing, Streams, InUse
  <1>2. c \in ClientWithin(B) /\ B \in Nat
    BY <1>1 DEF Remembering, Flowing, TypedPair, Typed
  <1>3. Numbered(c)
    BY <1>1 DEF Sending
  <1>4. clients'[n][p] = e /\ senderQueue'[n][p] = senderQueue[n][p] \o snd
    BY <1>1 DEF Speaks
  <1>5. Paired(n, p) => Whole(c) /\ Keeps(c, k) /\ k \in Nat
    BY PairRemembers
  <1> HIDE DEF c, B, k
  <1>6. h \in FrameWithin(B) /\ Steady(c, e)
    BY <1>1, <1>2, RetransmitDoes
  <1>7. Paired(n, p) => KeepsOn(c, e, snd, k)
    BY <1>1, <1>2, <1>3, <1>5, RepeatsKeeps
  <1> HIDE DEF h
  <1>8. snd \in Seq(OutItem) /\ e.messageBuffer = c.messageBuffer
    BY <1>2, <1>6, WithinTyped DEF FrameWithin, Steady
  <1> HIDE DEF e, snd
  <1> QED
    BY <1>1, <1>4, <1>7, <1>8, UnpromptedRemembers DEF c, k

\* MessageResendCheck: the client is given up, and with it the pair.
LEMMA GivesUpRemembers ==
  ASSUME NEW n \in Node, NEW p \in Node, GivesUp(n, p)
  PROVE  Remembers(n, p)' /\ Remembers(p, n)'
  BY DEF GivesUp, Remembers, Paired

\* What was said to c counts only what the peer's client d has written.
LEMMA SaidCounts ==
  ASSUME NEW c, NEW d, d # NoClient, Counters(d), NEW D, NEW q \in Seq(Nat),
         Expects(d, q), NEW s \in Said(d, D), s \in AcksIn(Bounds(c))
  PROVE  s \in Counts(c, Len(q))
  <1>1. s \in ValidSegment /\ s.ack \in Nat /\ s.ack <= d.expected_ack
        /\ s.ack - (ISN + 1) \in Bounds(c)
    BY DEF Said, SegmentWithin, ValidSegment, Segment, AcksIn
  <1>2. ISN \in Nat /\ d.expected_ack \in Nat /\ Len(q) \in Nat
    BY SizeAssumption DEF Counters
  <1>3. d.expected_ack = ISN + 1 + Len(q) \/ d.expected_ack = 0
    BY DEF Expects
  <1>4. s.ack - (ISN + 1) <= Len(q)
    BY <1>1, <1>2, <1>3
  <1> QED
    BY <1>1, <1>4 DEF Counts

\* A file grows by whole segments.
LEMMA FileEnds ==
  ASSUME NEW B \in Nat, NEW c \in ClientWithin(B), InUse(c), NEW seg \in Acks,
         NEW R \in SUBSET Acks, NEW last \in R,
         R \subseteq c.messageBuffer \cup {seg}, IsRun(R, last, c, seg),
         NEW D \in Nat, NEW d, Counters(d), seg \in Said(d, D),
         NEW q \in Seq(Nat), Receiving(c, q, d, D),
         NEW X, Len(q) \in X, R \subseteq EndsIn(X)
  PROVE  LET r == IF InTurn(c, seg) THEN q \o Written(R, seg, last) ELSE q
         IN Len(q) <= Len(r) /\ Len(r) \in X
  <1> DEFINE w == Written(R, seg, last)
             next == NextSeq(last)
             k == Len(q)
  <1>1. CASE ~InTurn(c, seg)
    BY <1>1
  <1>2. CASE InTurn(c, seg)
    <2>1. c # NoClient
      BY ClientExists
    <2>2. R \subseteq Said(d, D)
      BY <2>1 DEF Receiving
    <2>3. seg.seq \in Nat /\ seg.seq > ISN /\ ISN \in Nat /\ k \in Nat
      BY SizeAssumption DEF Said, RightlyNumbered, Acks, ValidSegment, Segment
    <2>4. RunWritten(R, seg, last, d, D)
      BY <2>2, <2>3, RunWrites
    <2>5. seg.seq = ISN + 1 + k
      BY <1>2, <2>1, <2>3 DEF InTurn, Receiving, Expects
    <2>6. /\ next \in Nat /\ seg.seq <= next /\ Len(w) = next - seg.seq
          /\ w \in Seq(Nat)
      BY <2>4 DEF RunWritten
    <2>7. next - (ISN + 1) \in X
      BY <2>2, <2>3, <2>5, RunEnds
    <2> HIDE DEF w, next
    <2>8. Len(q \o w) = k + Len(w) /\ Len(w) \in Nat
      <3>1. w \in Seq(Nat)
        BY <2>6
      <3> QED
        BY <3>1, ConcatProperties
    <2> HIDE DEF k
    <2>9. k + Len(w) = next - (ISN + 1) /\ k <= k + Len(w)
      BY <2>3, <2>5, <2>6, <2>8
    <2>10. Len(q \o w) \in X /\ k <= Len(q \o w)
      BY <2>7, <2>8, <2>9
    <2> QED
      BY <1>2, <2>10 DEF k, w
  <1> QED
    BY <1>1, <1>2

\* An acknowledgement, with or without data (ReceiveAck).
LEMMA HearsRemembers ==
  ASSUME NEW n \in Node, NEW p \in Node, Remembering(n, p), Hears(n, p), Used(n, p)
  PROVE  Remembers(n, p)' /\ Remembers(p, n)'
  <1> DEFINE c   == clients[n][p]
             d   == clients[p][n]
             seg == Heard(n)
             B   == sendBuffer[n]
             D   == sendBuffer[p]
             q   == file[p][n]
             o   == file[n][p]
  <1>1. /\ Takes(n, p) /\ c # NoClient /\ Flowing(n, p)
        /\ TypedPair(n, p) /\ TypedPair(n, p)' /\ TypedPair(p, n) /\ TypedPair(p, n)'
    BY DEF Hears, Remembering, Flowing, TypedPair
  <1>2. /\ c \in ClientWithin(B) /\ B \in Nat /\ D \in Nat /\ Counters(d)
        /\ o \in Seq(Nat) /\ q \in Seq(Nat)
    BY <1>1, PeerNumbers DEF TypedPair
  <1>3. seg \in Acks /\ seg \in Said(d, D)
    BY <1>1, TakesWire DEF TypedPair, Used, Flowing, Streams
  <1>4. /\ InUse(c) /\ Sending(c) /\ Receiving(c, o, d, D)
        /\ d # NoClient => Expects(d, q)
    BY <1>1 DEF Used, Flowing, Streams, Receiving
  <1>5. Numbered(c)
    BY <1>1, <1>4 DEF InUse, Sending
  <1>6. PICK R \in {X \cup {seg} : X \in SUBSET c.messageBuffer} : \E last \in R :
          LET h == HandleAck(c, seg, R, last, B, FALSE)
          IN /\ IsRun(R, last, c, seg)
             /\ Speaks(n, p, h.c, h.snd)
             /\ file'[n][p] = IF InTurn(c, seg) THEN o \o Written(R, seg, last)
                              ELSE o
    BY DEF Hears, InTurn
  <1>7. PICK last \in R :
          LET h == HandleAck(c, seg, R, last, B, FALSE)
          IN /\ IsRun(R, last, c, seg)
             /\ Speaks(n, p, h.c, h.snd)
             /\ file'[n][p] = IF InTurn(c, seg) THEN o \o Written(R, seg, last)
                              ELSE o
    BY <1>6
  <1>8. R \in SUBSET Acks /\ R \subseteq c.messageBuffer \cup {seg}
    BY <1>1, <1>3, <1>4 DEF InUse
  <1> DEFINE h == HandleAck(c, seg, R, last, B, FALSE)
             e == h.c
             snd == h.snd
             r == IF InTurn(c, seg) THEN o \o Written(R, seg, last) ELSE o
  <1>9. IsRun(R, last, c, seg) /\ Speaks(n, p, e, snd) /\ file'[n][p] = r
    BY <1>7
  <1>10. ASSUME Paired(n, p)
         PROVE  Moves(c, e, snd, d, q, o, r)
    <2>1. /\ c # NoClient /\ d # NoClient /\ Whole(c) /\ Keeps(c, Len(q))
          /\ c.messageBuffer \subseteq AcksIn(Bounds(c))
          /\ c.messageBuffer \subseteq EndsIn(Bounds(d))
          /\ Len(o) \in Bounds(d)
          /\ OnWay(p, n, AcksIn(Bounds(c))) /\ OnWay(p, n, EndsIn(Bounds(d)))
      BY <1>10, PairRemembers
    <2>2. seg \in AcksIn(Bounds(c)) /\ seg \in EndsIn(Bounds(d))
      BY <1>1, <2>1, TakesWire DEF TypedPair
    <2> HIDE DEF c, d, seg, B, D, q, o
    <2>3. c.messageBuffer \subseteq Said(d, D) /\ Expects(d, q)
      BY <1>4, <2>1 DEF Receiving
    <2>4. c.messageBuffer \cup {seg} \subseteq Counts(c, Len(q))
      <3>1. ASSUME NEW s \in c.messageBuffer \cup {seg}
            PROVE  s \in Counts(c, Len(q))
        <4>1. s \in Said(d, D) /\ s \in AcksIn(Bounds(c))
          BY <1>3, <2>1, <2>2, <2>3
        <4> QED
          BY <1>2, <2>1, <2>3, <4>1, SaidCounts
      <3> QED
        BY <3>1
    <2>5. Len(q) \in Nat
      BY <1>2
    <2>6. KeepsOn(c, e, snd, Len(q)) /\ e.messageBuffer \subseteq c.messageBuffer \cup {seg}
      BY <1>2, <1>3, <1>4, <1>5, <1>8, <2>1, <2>4, <2>5, AckKeeps
    <2>7. R \subseteq EndsIn(Bounds(d))
      BY <1>8, <2>1, <2>2
    <2>8. Len(o) <= Len(r) /\ Len(r) \in Bounds(d)
      <3> DEFINE X == Bounds(d)
      <3>1. Len(o) \in X /\ R \subseteq EndsIn(X)
        BY <2>1, <2>7
      <3> HIDE DEF X
      <3>2. Len(o) <= Len(r) /\ Len(r) \in X
        BY <1>2, <1>3, <1>4, <1>8, <1>9, <3>1, FileEnds
      <3> QED
        BY <3>2 DEF X
    <2> HIDE DEF e, r, snd
    <2>9. e.messageBuffer \subseteq AcksIn(Bounds(c)) \cap EndsIn(Bounds(d))
      BY <2>1, <2>2, <2>6
    <2> QED
      BY <2>6, <2>8, <2>9 DEF Moves
  <1> HIDE DEF h, e, snd, r
  <1>11. clients'[n][p] = e /\ senderQueue'[n][p] = senderQueue[n][p] \o snd
         /\ SameSide(p, n) /\ SameWire(n, p)
    BY <1>1, <1>9 DEF Speaks, Takes
  <1>12. Paired(n, p)' => Paired(n, p)
    BY <1>1, <1>11 DEF Paired, SameSide
  <1>13. snd \in Seq(OutItem)
    <2> HIDE DEF c, d, seg, B, D, q, o
    <2>1. Talks(c, e, snd, B)
      BY <1>2, <1>3, <1>4, <1>5, <1>8, <1>9, AckTalks DEF h, e, snd
    <2> QED
      BY <2>1 DEF Talks, SaidAll
  <1>14. Passes(n, p, snd) /\ Passes(p, n, <<>>)
    BY <1>1, <1>11, <1>13, SpeaksPasses, TakesPasses
  <1>15. Paired(n, p)' =>
           /\ Paired(n, p)
           /\ Moves(clients[n][p], clients'[n][p], snd, clients[p][n],
                    file[p][n], file[n][p], file'[n][p])
    BY <1>9, <1>10, <1>11, <1>12
  <1> QED
    BY <1>11, <1>14, <1>15, MoveRemembers DEF Remembering

\* ReceiveSynAck.
LEMMA CompletesRemembers ==
  ASSUME NEW n \in Node, NEW p \in Node, Remembering(n, p), Completes(n, p),
         clients[n][p].state # "NONE", file[n][p] = <<>>
  PROVE  Remembers(n, p)' /\ Remembers(p, n)'
  <1> DEFINE c   == clients[n][p]
             d   == clients[p][n]
             seg == Heard(n)
             B   == sendBuffer[n]
             D   == sendBuffer[p]
             q   == file[p][n]
             o   == file[n][p]
             h   == HandleSynAck(c, seg)
             e   == h.c
             snd == h.snd
  <1>1. /\ Takes(n, p) /\ c # NoClient /\ Flowing(n, p)
        /\ TypedPair(n, p) /\ TypedPair(n, p)' /\ TypedPair(p, n) /\ TypedPair(p, n)'
        /\ seg.flag = "SYN_ACK" /\ Speaks(n, p, e, snd) /\ file'[n][p] = o
    BY DEF Completes, Remembering, Flowing, TypedPair
  <1>2. /\ c \in ClientWithin(B) /\ B \in Nat /\ D \in Nat /\ Counters(d)
        /\ o \in Seq(Nat) /\ q \in Seq(Nat)
    BY <1>1, PeerNumbers DEF TypedPair
  <1>3. seg \in Said(d, D) /\ seg \in ValidSegment
    <2>1. seg \in Said(d, D)
      BY <1>1, TakesWire DEF TypedPair, Flowing, Streams
    <2> QED
      BY <2>1 DEF Said, SegmentWithin
  <1>4. /\ Numbered(c) /\ Receiving(c, <<>>, d, D)
        /\ d # NoClient => Expects(d, q)
    BY <1>1 DEF Flowing, Streams, Sending, Receiving
  <1>5. ASSUME Paired(n, p)
        PROVE  Moves(c, e, snd, d, q, o, o)
    <2>1. /\ c # NoClient /\ d # NoClient /\ Whole(c) /\ Keeps(c, Len(q))
          /\ c.messageBuffer \subseteq AcksIn(Bounds(c)) \cap EndsIn(Bounds(d))
          /\ Len(o) \in Bounds(d)
          /\ OnWay(p, n, AcksIn(Bounds(c)))
      BY <1>5, PairRemembers
    <2>2. seg \in AcksIn(Bounds(c))
      BY <1>1, <2>1, TakesWire DEF TypedPair
    <2> HIDE DEF c, d, seg, B, D, q, o
    <2>3. seg \in Counts(c, Len(q)) /\ Len(q) \in Nat /\ Len(o) \in Nat
      BY <1>2, <1>3, <1>4, <2>1, <2>2, SaidCounts
    <2>4. KeepsOn(c, e, snd, Len(q)) /\ e.messageBuffer = c.messageBuffer
      BY <1>2, <1>4, <2>1, <2>3, SynAckKeeps
    <2> HIDE DEF e, snd
    <2> QED
      BY <2>1, <2>3, <2>4 DEF Moves
  <1>6. snd \in Seq(OutItem)
    <2> HIDE DEF c, d, seg, B, D
    <2>1. Talks(c, e, snd, B)
      BY <1>1, <1>2, <1>3, <1>4, SynAckTalks
    <2> HIDE DEF h, e, snd
    <2> QED
      BY <2>1 DEF Talks, SaidAll
  <1> HIDE DEF h, e, snd
  <1>7. clients'[n][p] = e /\ senderQueue'[n][p] = senderQueue[n][p] \o snd
         /\ SameSide(p, n) /\ SameWire(n, p)
    BY <1>1 DEF Speaks, Takes
  <1>8. Paired(n, p)' => Paired(n, p)
    BY <1>1, <1>7 DEF Paired, SameSide
  <1>9. Passes(n, p, snd) /\ Passes(p, n, <<>>)
    BY <1>1, <1>6, <1>7, SpeaksPasses, TakesPasses
  <1>10. Paired(n, p)' =>
           /\ Paired(n, p)
           /\ Moves(clients[n][p], clients'[n][p], snd, clients[p][n],
                    file[p][n], file[n][p], file'[n][p])
    BY <1>1, <1>5, <1>7, <1>8
  <1> QED
    BY <1>7, <1>9, <1>10, MoveRemembers DEF Remembering
\* A connection in use.
LEMMA UsedRemembers ==
  ASSUME UndisturbedTransfer, NEW n \in Node, NEW p \in Node, Remembering(n, p),
         Event(n, p), ~Calls(n, p), Used(n, p)
  PROVE  Remembers(n, p)' /\ Remembers(p, n)'
  <1>1. InUse(clients[n][p]) /\ TypedPair(n, p)
    BY DEF Used, Remembering, Flowing
  <1>2. Takes(n, p) => Heard(n).flag = "ACK"
    BY <1>1, TakesWire DEF TypedPair, Used, Acks
  <1>3. ~Answers(n, p) /\ ~Completes(n, p)
    BY <1>2 DEF Answers, Completes
  <1>4. CASE Offers(n, p)
    BY <1>4, OffersRemembers
  <1>5. CASE Repeats(n, p)
    BY <1>1, <1>5, RepeatsRemembers
  <1>6. CASE GivesUp(n, p)
    BY <1>6, GivesUpRemembers
  <1>7. CASE Hears(n, p)
    BY <1>7, HearsRemembers
  <1>8. CASE Discards(n, p) \/ Leaves(n, p) \/ Arrives(n, p) \/ GoesWrong(n, p)
    BY <1>8, QuietRemembers
  <1> QED
    BY <1>3, <1>4, <1>5, <1>6, <1>7, <1>8 DEF Event

\* Two clients that know of nothing but the handshake have nothing to forget.
LEMMA UnheardRemembers ==
  ASSUME NEW n \in Node, NEW p \in Node, TypedPair(n, p),
         Streams(n, p), Streams(p, n), NoFiles(n, p),
         Unheard(clients[n][p]), Unheard(clients[p][n])
  PROVE  Remembers(n, p)
  <1> DEFINE c == clients[n][p]
             d == clients[p][n]
             B == sendBuffer[n]
             D == sendBuffer[p]
             X == Bounds(c)
  <1>1. /\ c # NoClient /\ d # NoClient /\ c \in ClientWithin(B) /\ B \in Nat
        /\ Counters(d) /\ Counters(c)
    BY PeerNumbers DEF TypedPair, Unheard
  <1>2. /\ c.lastByteSent = 0 /\ c.messageBuffer = {} /\ d.messageBuffer = {}
        /\ file[p][n] = <<>> /\ Len(<<>>) = 0 /\ Entries(c, {"SYN", "SYN_ACK"})
    BY DEF Unheard, NoFiles
  <1>3. Numbered(c) /\ Expects(d, <<>>)
    BY <1>1, <1>2 DEF Unheard, Streams, Sending, Receiving
  <1>4. /\ OnWay(n, p, Said(c, B)) /\ OnWay(p, n, Said(d, D))
    BY DEF Streams
  <1> HIDE DEF c, d, B, D
  <1>5. \A x \in Int : x <= 0 => x \in X
    BY <1>1, OriginBound
  <1> HIDE DEF X
  <1>6. Whole(c)
    <2>1. ASSUME NEW i \in DOMAIN c.messagesSent
          PROVE  c.messagesSent[i].start + c.messagesSent[i].size = 0
      <3>1. NumberedEntry(c.messagesSent[i], c.lastByteSent)
        BY <1>3 DEF Numbered
      <3>2. c.messagesSent[i].flag \in {"SYN", "SYN_ACK"}
        BY <1>2 DEF Entries
      <3>3. c.messagesSent[i].start = 0 /\ c.messagesSent[i].size = 0
        BY <3>1, <3>2 DEF NumberedEntry
      <3> QED
        BY <3>3
    <2>2. 0 \in X
      BY <1>5
    <2> QED
      BY <2>1, <2>2 DEF Whole, X
  <1>7. Keeps(c, 0)
    BY <1>2 DEF Keeps
  <1>8. Said(c, B) \subseteq EndsIn(X)
    <2>1. ASSUME NEW s \in Said(c, B)
          PROVE  s \in Segment /\ s.end \in Nat /\ s.end <= 0
      BY <1>1, <1>2 DEF Said, SegmentWithin, ValidSegment, Segment
    <2> QED
      BY <1>5, <2>1 DEF EndsIn
  <1>9. Said(d, D) \subseteq AcksIn(X)
    <2>1. ASSUME NEW s \in Said(d, D)
          PROVE  s \in Segment /\ s.ack \in Nat /\ s.ack <= d.expected_ack
      BY <1>1 DEF Said, SegmentWithin, ValidSegment, Segment
    <2>2. d.expected_ack \in Nat /\ d.expected_ack <= ISN + 1 /\ ISN \in Nat
      BY <1>1, <1>2, <1>3, SizeAssumption DEF Expects, Counters
    <2>3. ASSUME NEW s \in Said(d, D)
          PROVE  s.ack - (ISN + 1) \in Int /\ s.ack - (ISN + 1) <= 0
      BY <2>1, <2>2
    <2> QED
      BY <1>5, <2>1, <2>3 DEF AcksIn
  <1>10. OnWay(n, p, EndsIn(X)) /\ OnWay(p, n, AcksIn(X))
    BY <1>4, <1>8, <1>9, OnWayMonotone
  <1> QED
    BY <1>2, <1>5, <1>6, <1>7, <1>10 DEF Remembers, c, d, X

\* Any event, at the stage at which it happens; the SYN_ACK makes the pair.
LEMMA EventRemembers ==
  ASSUME UndisturbedTransfer, NEW n \in Node, NEW p \in Node, Remembering(n, p),
         PairInv(n, p), Event(n, p),
         Answered(p, n)' => Remembers(n, p)' /\ Remembers(p, n)'
  PROVE  Remembers(n, p)' /\ Remembers(p, n)'
  <1>1. TypedPair(n, p) /\ TypedPair(n, p)' /\ TypedPair(p, n) /\ TypedPair(p, n)'
    BY DEF Remembering, Flowing, TypedPair
  <1>2. CASE Target[n] = p
    <2>1. Linked(n, p)
      BY <1>2 DEF PairInv
    <2>2. CASE \/ phase[n] = "starting"
               \/ phase[n] # "starting" /\ Calling(n, p)
      <3>1. Calling(n, p)'
        BY <1>1, <1>2, <2>1, <2>2, BeforeEvent, CallingEvent DEF Linked
      <3> QED
        BY <3>1 DEF Calling, Remembers, Paired
    <2>3. CASE phase[n] # "starting" /\ Answered(n, p)
      <3>1. Completes(n, p)
        BY <1>1, <1>2, <2>3, AnsweredEvent
      <3>2. clients[n][p].state # "NONE" /\ file[n][p] = <<>>
        BY <2>3 DEF Answered, Unheard, NoFiles
      <3> QED
        BY <3>1, <3>2, CompletesRemembers
    <2>4. CASE phase[n] # "starting" /\ Connected(n, p)
      <3>1. Used(n, p) /\ ~Calls(n, p)
        BY <2>4 DEF Used, Connected, Calls
      <3> QED
        BY <3>1, UsedRemembers
    <2> QED
      BY <2>1, <2>2, <2>3, <2>4 DEF Linked
  <1>3. CASE Target[p] = n
    <2>1. Linked(p, n)
      BY <1>3 DEF PairInv
    <2>2. ~Calls(n, p)
      BY <1>3 DEF Calls, UndisturbedTransfer
    <2>3. CASE phase[p] = "starting"
      <3>1. Before(p, n)
        BY <2>1, <2>3 DEF Linked
      <3> QED
        BY <1>1, <1>3, <3>1, BeforeEvent
    <2>4. CASE phase[p] # "starting" /\ Calling(p, n)
      <3>1. Answered(p, n)'
        BY <1>1, <1>3, <2>4, CallingEvent
      <3> QED
        BY <3>1
    <2>5. CASE phase[p] # "starting" /\ Answered(p, n)
      <3>1. Leaves(n, p) \/ Arrives(n, p)
        BY <1>1, <1>3, <2>5, AnsweredEvent
      <3> QED
        BY <3>1, QuietRemembers
    <2>6. CASE phase[p] # "starting" /\ Connected(p, n)
      <3>1. Used(n, p)
        BY <2>6 DEF Used, Connected
      <3> QED
        BY <2>2, <3>1, UsedRemembers
    <2> QED
      BY <2>1, <2>3, <2>4, <2>5, <2>6 DEF Linked
  <1>4. CASE Target[n] # p /\ Target[p] # n
    <2>1. Stranger(n, p) /\ Stranger(p, n)
      BY <1>4 DEF PairInv
    <2>2. ~Event(n, p)
      BY <1>1, <1>4, <2>1, StrangerEvent
    <2> QED
      BY <2>2
  <1> QED
    BY <1>2, <1>3, <1>4

\* Nothing is forgotten between any two programs.
MInv == \A n, p \in Node : Remembers(n, p)

\* What is true of every pair once its SYN_ACK is said.
AnsweredMInv ==
  \A n, p \in Node : Answered(n, p) => Remembers(n, p) /\ Remembers(p, n)

\* Every step keeps it.
LEMMA NextMInv ==
  ASSUME UndisturbedTransfer, IInv, IInv', HInv, NInv, NInv', MInv,
         AnsweredMInv', [Next]_vars
  PROVE  MInv'
  <1>1. ASSUME NEW n \in Node, NEW p \in Node
        PROVE  Remembering(n, p)
    <2>1. TypedPair(n, p) /\ TypedPair(n, p)'
      BY PairTyped, PairTypedNext DEF TypedPair
    <2>2. sendBuffer[n] <= sendBuffer'[n] /\ sendBuffer[p] <= sendBuffer'[p]
      BY BufferGrows
    <2>3. Streams(n, p)' /\ Streams(p, n)'
      BY DEF NInv
    <2> QED
      BY <2>1, <2>2, <2>3 DEF Remembering, Flowing, NInv, MInv
  <1>2. ASSUME NEW n \in Node, NEW p \in Node, Event(n, p)
        PROVE  Remembers(n, p)' /\ Remembers(p, n)'
    <2>1. PairInv(n, p)
      BY DEF HInv
    <2>2. Answered(p, n)' => Remembers(n, p)' /\ Remembers(p, n)'
      BY DEF AnsweredMInv
    <2> QED
      BY <1>1, <1>2, <2>1, <2>2, EventRemembers
  <1>3. ASSUME NEW n \in Node, NEW p \in Node
        PROVE  Remembers(n, p)'
    <2>1. PairEvent(n, p)
      BY StepIsEvent
    <2>2. CASE NoEvent(n, p)
      <3>1. Still(n, p) /\ Still(p, n)
        BY <2>2 DEF NoEvent
      <3> QED
        BY <1>1, <3>1, QuietRemembers
    <2>3. CASE Event(n, p) \/ Event(p, n)
      BY <1>2, <2>3
    <2> QED
      BY <2>1, <2>2, <2>3 DEF PairEvent
  <1> QED
    BY <1>3 DEF MInv

\* A byte that has been sent is in the receiver's file or in an entry that can
\* be retransmitted.
THEOREM StreamRemembered == UndisturbedTransfer => (Spec => []NothingForgotten)
  <1> SUFFICES ASSUME UndisturbedTransfer
               PROVE  Spec => []NothingForgotten
    OBVIOUS
  <1>1. Init => MInv
    <2> SUFFICES ASSUME Init, NEW n \in Node, NEW p \in Node
                 PROVE  ~Paired(n, p)
      BY DEF MInv, Remembers
    <2>1. Target[n] # p \/ Target[p] # n
      BY DEF UndisturbedTransfer
    <2>2. clients[n][p] = NoClient \/ clients[p][n] = NoClient
      BY <2>1 DEF Init
    <2> QED
      BY <2>2 DEF Paired
  <1>2. IInv /\ NInv => AnsweredMInv
    <2> SUFFICES ASSUME IInv, NInv, NEW n \in Node, NEW p \in Node, Answered(n, p)
                 PROVE  Remembers(n, p) /\ Remembers(p, n)
      BY DEF AnsweredMInv
    <2>1. /\ TypedPair(n, p) /\ TypedPair(p, n) /\ Streams(n, p) /\ Streams(p, n)
          /\ Unheard(clients[n][p]) /\ Unheard(clients[p][n])
          /\ NoFiles(n, p) /\ NoFiles(p, n)
      BY PairTyped DEF TypedPair, NInv, Answered, NoFiles
    <2> QED
      BY <2>1, UnheardRemembers
  <1>3. /\ IInv /\ IInv' /\ HInv /\ NInv /\ NInv' /\ AnsweredMInv' /\ MInv
        /\ [Next]_vars
        => MInv'
    BY NextMInv
  <1>4. MInv => NothingForgotten
    BY DEF MInv, Remembers, Keeps, NothingForgotten
  <1> QED
    BY <1>1, <1>2, <1>3, <1>4, StreamInvariant, PTL DEF Spec

=============================================================================
