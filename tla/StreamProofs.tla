---------------------------- MODULE StreamProofs ----------------------------
(* Proofs about the byte stream of an undisturbed transfer: sequence numbers *)
(* count the bytes of the sender's buffer from ISN + 1, a receiver expects   *)
(* the number after its file, and an acknowledgement is never ahead of it.   *)
EXTENDS HandshakeProofs

-----------------------------------------------------------------------------
(* What a sender has said, and what a receiver makes of it.                  *)

\* The sequence number is the place of the first byte in the sender's buffer;
\* an acknowledgement never carries the number of the handshake.
RightlyNumbered(s) ==
  /\ s.flag \in {"SYN", "SYN_ACK"} => s.seq = ISN
  /\ s.flag = "ACK" => /\ s.seq > ISN
                       /\ s.start < s.end => s.seq = ISN + 1 + s.start

\* The segments that client c, over a buffer of B bytes, can have sent.
Said(c, B) ==
  {s \in SegmentWithin(B) :
     /\ RightlyNumbered(s)
     /\ c # NoClient => s.end <= c.lastByteSent /\ s.ack <= c.expected_ack}

\* An entry of messagesSent below the first k bytes.
NumberedEntry(e, k) ==
  \/ e.flag \in {"SYN", "SYN_ACK"} /\ e.seq = ISN /\ e.start = 0 /\ e.size = 0
  \/ /\ e.flag = "ACK" /\ e.size > 0
     /\ e.seq = ISN + 1 + e.start /\ e.start + e.size <= k

Numbered(c) ==
  /\ c.expected_sequence = ISN + 1 + c.lastByteSent
  /\ \A i \in DOMAIN c.messagesSent :
       NumberedEntry(c.messagesSent[i], c.lastByteSent)

Sending(c) == c # NoClient => (c.state = "NONE" \/ Numbered(c))

InOrder(q) == \A i \in DOMAIN q : q[i] = i - 1

\* The client expects the byte after file q, or has not heard the peer's ISN.
Expects(d, q) ==
  \/ d.expected_ack = ISN + 1 + Len(q)
  \/ d.expected_ack = 0 /\ q = <<>> /\ d.state # "ESTABLISHED"

\* Client d, whose file is q, receives from client c over a buffer of B bytes.
Receiving(d, q, c, B) ==
  /\ InOrder(q) /\ Len(q) <= B
  /\ d # NoClient => d.messageBuffer \subseteq Said(c, B) /\ Expects(d, q)
  /\ c # NoClient => Len(q) <= c.lastByteSent
  /\ c # NoClient /\ d # NoClient => d.last_ack <= c.expected_ack

\* The stream from n to p.
Streams(n, p) ==
  /\ OnWay(n, p, Said(clients[n][p], sendBuffer[n]))
  /\ Sending(clients[n][p])
  /\ Receiving(clients[p][n], file[p][n], clients[n][p], sendBuffer[n])

NInv == \A n, p \in Node : Streams(n, p)
-----------------------------------------------------------------------------
(* A client that has moved on.                                              *)

\* Between c and e, segments have only been heard and sent, or e is given up.
Onward(c, e) ==
  e # NoClient => /\ c # NoClient
                  /\ c.expected_ack <= e.expected_ack
                  /\ c.lastByteSent <= e.lastByteSent

Counters(c) == c # NoClient => c.expected_ack \in Nat /\ c.lastByteSent \in Nat

\* What a client can have sent stays so.
LEMMA SaidMonotone ==
  ASSUME NEW B \in Nat, NEW D \in Nat, B <= D, NEW c, NEW e,
         Counters(c), Counters(e), Onward(c, e)
  PROVE  Said(c, B) \subseteq Said(e, D)
  <1> SUFFICES ASSUME NEW s \in Said(c, B)
               PROVE  s \in Said(e, D)
    OBVIOUS
  <1>1. s \in SegmentWithin(D) /\ RightlyNumbered(s) /\ s.end \in Nat /\ s.ack \in Nat
    BY DEF Said, SegmentWithin, ValidSegment, Segment
  <1>2. e # NoClient => s.end <= e.lastByteSent /\ s.ack <= e.expected_ack
    BY <1>1 DEF Said, Onward, Counters
  <1> QED
    BY <1>1, <1>2 DEF Said

\* What was received is right when the sender has moved on.
LEMMA ReceivingMonotone ==
  ASSUME NEW B \in Nat, NEW D \in Nat, B <= D, NEW c, NEW e,
         Counters(c), Counters(e), Onward(c, e),
         NEW d, d # NoClient => d.last_ack \in Nat, NEW q \in Seq(Nat),
         Receiving(d, q, c, B)
  PROVE  Receiving(d, q, e, D)
  <1>1. Len(q) \in Nat /\ Len(q) <= D
    BY DEF Receiving
  <1>2. d # NoClient => d.messageBuffer \subseteq Said(e, D) /\ Expects(d, q)
    BY SaidMonotone DEF Receiving
  <1>3. e # NoClient => Len(q) <= e.lastByteSent
    BY <1>1 DEF Receiving, Onward, Counters
  <1>4. e # NoClient /\ d # NoClient => d.last_ack <= e.expected_ack
    BY DEF Receiving, Onward, Counters
  <1> QED
    BY <1>1, <1>2, <1>3, <1>4 DEF Receiving

\* The numbers of a client.
LEMMA ClientNumbers ==
  ASSUME NEW B \in Nat, NEW c \in ClientWithin(B)
  PROVE  /\ c # NoClient /\ Counters(c)
         /\ c.expected_ack \in Nat /\ c.lastByteSent \in Nat /\ c.last_ack \in Nat
         /\ c.expected_sequence \in Nat /\ c.messagesSent \in Seq(InfoWithin(B))
  BY ClientExists DEF ClientWithin, ClientRecord, Counted, Counters

\* The next number to be sent is none of an entry's.
LEMMA NumberedFront ==
  ASSUME NEW B \in Nat, NEW c \in ClientWithin(B), Numbered(c)
  PROVE  FrontSeqNum(c) # c.expected_sequence
  <1> DEFINE q == c.messagesSent
  <1>1. q \in Seq(InfoWithin(B)) /\ c.lastByteSent \in Nat
    BY DEF ClientWithin, ClientRecord, Counted
  <1>2. c.expected_sequence = ISN + 1 + c.lastByteSent /\ ISN \in Nat
    BY SizeAssumption DEF Numbered
  <1>3. CASE q = <<>>
    BY <1>1, <1>2, <1>3 DEF FrontSeqNum
  <1>4. CASE q # <<>>
    <2>1. Head(q) = q[1] /\ 1 \in DOMAIN q
      BY <1>1, <1>4
    <2>2. NumberedEntry(q[1], c.lastByteSent) /\ q[1] \in InfoWithin(B)
      BY <1>1, <2>1 DEF Numbered
    <2>3. q[1].start \in Nat /\ q[1].size \in Nat /\ q[1].seq \in Nat
      BY <2>2 DEF InfoWithin, SegmentInfo
    <2>4. q[1].seq # ISN + 1 + c.lastByteSent
      BY <1>1, <1>2, <2>2, <2>3 DEF NumberedEntry
    <2> QED
      BY <1>2, <1>4, <2>1, <2>4 DEF FrontSeqNum
  <1> QED
    BY <1>3, <1>4

\* Each of the entries that an acknowledgement counts is below it.
LEMMA AckedBelow ==
  ASSUME NEW q \in Seq(SegmentInfo), NEW ack \in Nat
  PROVE  \A i \in 1..Acked(q, ack) : q[i].seq < ack
  <1> DEFINE K == {i \in 1..Len(q) : \A j \in 1..i : q[j].seq < ack}
             k == Cardinality(K)
  <1>1. Len(q) \in Nat /\ k \in 0..Len(q)
    BY AckedBound DEF Acked
  <1>2. SUFFICES ASSUME NEW i \in 1..k, ~(q[i].seq < ack)
                 PROVE  FALSE
    BY DEF Acked
  <1>3. K \subseteq 1..(i - 1) /\ i - 1 \in Nat
    BY <1>1, <1>2
  <1> HIDE DEF K
  <1>4. IsFiniteSet(1..(i - 1)) /\ Cardinality(1..(i - 1)) = i - 1
    BY <1>3, FS_Interval
  <1>5. k <= i - 1
    BY <1>3, <1>4, FS_Subset
  <1> QED
    BY <1>1, <1>2, <1>5

\* q is r after k entries.
Suffix(r, q, k) ==
  /\ DOMAIN r = 1..(Len(q) - k)
  /\ \A i \in 1..(Len(q) - k) : i + k \in DOMAIN q /\ r[i] = q[i + k]

\* Entries are removed from the front, if at all, and only below the
\* acknowledgement.
LEMMA EntriesDropped ==
  ASSUME NEW B \in Nat, NEW c \in ClientWithin(B), NEW d, NEW ack \in Nat,
         Acknowledged(c, d, ack) \/ Unacknowledged(c, d)
  PROVE  \E k \in 0..Len(c.messagesSent) :
            /\ Suffix(d.messagesSent, c.messagesSent, k)
            /\ \A i \in 1..k : c.messagesSent[i].seq < ack
  <1> DEFINE q == c.messagesSent
             k == Acked(q, ack)
  <1>1. q \in Seq(SegmentInfo)
    <2>1. q \in Seq(InfoWithin(B))
      BY DEF ClientWithin, ClientRecord
    <2> QED
      BY <2>1, SeqMonotone DEF InfoWithin
  <1> HIDE DEF k, q
  <1>2. k \in 0..Len(q) /\ Len(q) \in Nat /\ DOMAIN q = 1..Len(q)
    <2>1. k \in 0..Len(q)
      BY <1>1, AckedBound DEF k
    <2> QED
      BY <1>1, <2>1
  <1>3. CASE Acknowledged(c, d, ack)
    <2>1. d.messagesSent = SubSeq(q, k + 1, Len(q))
      BY <1>3 DEF Acknowledged, k, q
    <2>2. /\ DOMAIN SubSeq(q, k + 1, Len(q)) = 1..(Len(q) - k)
          /\ \A i \in 1..(Len(q) - k) :
               SubSeq(q, k + 1, Len(q))[i] = q[k + 1 + i - 1]
      BY <1>1, <1>2, SubSeqProperties
    <2>3. \A i \in 1..(Len(q) - k) : i + k \in DOMAIN q /\ k + 1 + i - 1 = i + k
      BY <1>2
    <2>4. Suffix(d.messagesSent, q, k)
      BY <2>1, <2>2, <2>3 DEF Suffix
    <2>5. \A i \in 1..k : q[i].seq < ack
      BY <1>1, AckedBelow DEF k
    <2> QED
      BY <1>2, <2>4, <2>5 DEF q
  <1>4. CASE Unacknowledged(c, d)
    <2>1. d.messagesSent = q
      BY <1>4 DEF Unacknowledged, q
    <2>2. Suffix(d.messagesSent, q, 0) /\ 0 \in 0..Len(q)
      BY <1>2, <2>1 DEF Suffix
    <2>3. \A i \in 1..0 : q[i].seq < ack
      OBVIOUS
    <2> QED
      BY <2>2, <2>3 DEF q
  <1> QED
    BY <1>3, <1>4

\* The entries that remain are numbered as before.
LEMMA NumberedKept ==
  ASSUME NEW B \in Nat, NEW c \in ClientWithin(B), Numbered(c), NEW d,
         NEW ack \in Nat, Acknowledged(c, d, ack) \/ Unacknowledged(c, d),
         d.expected_sequence = c.expected_sequence,
         d.lastByteSent = c.lastByteSent
  PROVE  Numbered(d)
  <1>1. PICK k \in 0..Len(c.messagesSent) :
          Suffix(d.messagesSent, c.messagesSent, k)
    BY EntriesDropped
  <1> QED
    BY <1>1 DEF Numbered, Suffix

\* A stamp does not change the numbers of an entry.
LEMMA NumberedMarked ==
  ASSUME NEW B \in Nat, NEW c \in ClientWithin(B), NEW d \in ClientWithin(B),
         Numbered(c), Steady(c, d), SameEntries(c.messagesSent, d.messagesSent)
  PROVE  Numbered(d)
  <1> DEFINE q == c.messagesSent
             r == d.messagesSent
  <1>1. q \in Seq(InfoWithin(B)) /\ r \in Seq(InfoWithin(B))
    BY DEF ClientWithin, ClientRecord, Counted
  <1>2. DOMAIN r = 1..Len(q) /\ DOMAIN q = 1..Len(q)
    BY <1>1 DEF SameEntries
  <1>3. ASSUME NEW i \in DOMAIN r
        PROVE  NumberedEntry(r[i], d.lastByteSent)
    <2>1. NumberedEntry(q[i], c.lastByteSent)
      BY <1>2, <1>3 DEF Numbered
    <2>2. /\ r[i].flag = q[i].flag /\ r[i].seq = q[i].seq
          /\ r[i].start = q[i].start /\ r[i].size = q[i].size
      BY <1>2, <1>3 DEF SameEntries
    <2> QED
      BY <2>1, <2>2 DEF Steady, NumberedEntry
  <1> QED
    BY <1>3 DEF Steady, Numbered
-----------------------------------------------------------------------------
(* The handlers, as sender and as receiver.                                 *)

SaidAll(snd, c, B) ==
  snd \in Seq(OutItem) /\ \A i \in DOMAIN snd : snd[i].seg \in Said(c, B)

\* SendMessages numbers its bytes from the last one sent.
LEMMA SendsNumbered ==
  ASSUME NEW B \in Nat, NEW c \in ClientWithin(B), Numbered(c), NEW h,
         Sends(c, h, B)
  PROVE  /\ Numbered(h.c) /\ SaidAll(h.snd, h.c, B) /\ Onward(c, h.c)
         /\ h.c \in ClientWithin(B)
  <1> DEFINE d == h.c
             snd == h.snd
             q == c.messagesSent
  <1>1. /\ d \in ClientWithin(B) /\ snd \in Seq(ItemWithin(B)) /\ snd \in Seq(OutItem)
    BY WithinTyped DEF Sends, FrameWithin
  <1>2. /\ c.expected_sequence = ISN + 1 + c.lastByteSent /\ ISN \in Nat
        /\ c.lastByteSent \in Nat /\ c.expected_ack \in Nat
        /\ d.lastByteSent \in Nat
        /\ q \in Seq(InfoWithin(B))
    BY <1>1, SizeAssumption DEF Numbered, ClientWithin, ClientRecord, Counted
  <1>3. d.expected_ack = c.expected_ack /\ c # NoClient /\ d # NoClient
    BY <1>1, ClientExists DEF Sends
  <1>4. \A i \in DOMAIN snd : snd[i].seg \in SegmentWithin(B)
    <2>1. \A i \in DOMAIN snd : snd[i] \in ItemWithin(B)
      BY <1>1
    <2> QED
      BY <2>1 DEF ItemWithin
  <1>5. CASE SendsNoData(c, h)
    <2>1. Numbered(d) /\ Onward(c, d)
      BY <1>2, <1>3, <1>5 DEF SendsNoData, Numbered, Onward
    <2>2. ASSUME NEW i \in DOMAIN snd
          PROVE  snd[i].seg \in Said(d, B)
      <3>1. i = 1 /\ snd[1].seg = Control("ACK", c.expected_sequence, c.expected_ack)
        BY <1>1, <1>5 DEF SendsNoData
      <3> DEFINE s == snd[i].seg
      <3>2. /\ s.flag = "ACK" /\ s.seq = c.expected_sequence
            /\ s.ack = c.expected_ack /\ s.start = 0 /\ s.end = 0
        BY <3>1 DEF Control
      <3>3. s \in SegmentWithin(B)
        BY <1>4
      <3> HIDE DEF s, d
      <3>4. RightlyNumbered(s)
        BY <1>2, <3>2 DEF RightlyNumbered
      <3> QED
        BY <1>2, <1>3, <3>2, <3>3, <3>4 DEF Said, s
    <2> QED
      BY <1>1, <2>1, <2>2 DEF SaidAll
  <1>6. ASSUME NEW k \in Nat \ {0}, SendsData(c, h, k, B)
        PROVE  Numbered(d) /\ SaidAll(snd, d, B) /\ Onward(c, d)
    <2> DEFINE e == DataEntry(c, k)
    <2>1. /\ d.lastByteSent = c.lastByteSent + k
          /\ d.expected_sequence = ISN + 1 + d.lastByteSent
          /\ d.messagesSent = Append(q, e)
      BY <1>2, <1>6, NumberedFront DEF SendsData
    <2>2. NumberedEntry(e, d.lastByteSent)
      BY <1>2, <2>1 DEF NumberedEntry, DataEntry
    <2>3. \A i \in DOMAIN q : NumberedEntry(q[i], d.lastByteSent)
      <3>0. \A y \in Nat : y <= c.lastByteSent => y <= d.lastByteSent
        BY <1>2, <2>1
      <3>1. ASSUME NEW i \in DOMAIN q
            PROVE  NumberedEntry(q[i], d.lastByteSent)
        <4>1. NumberedEntry(q[i], c.lastByteSent) /\ q[i] \in InfoWithin(B)
          BY <1>2 DEF Numbered
        <4>2. q[i].start \in Nat /\ q[i].size \in Nat
          BY <4>1 DEF InfoWithin, SegmentInfo
        <4> QED
          BY <3>0, <4>1, <4>2 DEF NumberedEntry
      <3> QED
        BY <3>1
    <2> HIDE DEF e, q
    <2>4. /\ Len(q) \in Nat /\ DOMAIN q = 1..Len(q)
          /\ DOMAIN Append(q, e) = 1..(Len(q) + 1)
          /\ \A i \in 1..Len(q) : Append(q, e)[i] = q[i]
          /\ Append(q, e)[Len(q) + 1] = e
      BY <1>2
    <2>5. ASSUME NEW i \in DOMAIN d.messagesSent
          PROVE  NumberedEntry(d.messagesSent[i], d.lastByteSent)
      <3>1. CASE i \in DOMAIN q
        BY <2>1, <2>3, <2>4, <3>1
      <3>2. CASE i = Len(q) + 1
        BY <2>1, <2>2, <2>4, <3>2
      <3> QED
        BY <2>1, <2>4, <2>5, <3>1, <3>2
    <2>6. Numbered(d)
      BY <2>1, <2>5 DEF Numbered
    <2>7. ASSUME NEW i \in DOMAIN snd
          PROVE  snd[i].seg \in Said(d, B)
      <3>1. i = 1 /\ snd[1].seg = DataSegment(c, k)
        BY <1>1, <1>6 DEF SendsData
      <3> DEFINE s == snd[i].seg
      <3>2. /\ s.flag = "ACK" /\ s.seq = ISN + 1 + s.start
            /\ s.ack = c.expected_ack /\ s.start = c.lastByteSent
            /\ s.end = d.lastByteSent
        BY <1>2, <2>1, <3>1 DEF DataSegment
      <3>3. s \in SegmentWithin(B)
        BY <1>4
      <3> HIDE DEF s, d
      <3>4. RightlyNumbered(s)
        BY <1>2, <3>2 DEF RightlyNumbered
      <3> QED
        BY <1>2, <1>3, <3>2, <3>3, <3>4 DEF Said, s
    <2>8. Onward(c, d)
      BY <1>2, <1>3, <2>1 DEF Onward
    <2> QED
      BY <1>1, <2>6, <2>7, <2>8 DEF SaidAll
  <1> QED
    BY <1>1, <1>5, <1>6 DEF Sends

\* A retransmission repeats what was said.
LEMMA RepetitionSaid ==
  ASSUME NEW B \in Nat, NEW c \in ClientWithin(B), Numbered(c),
         c.messagesSent # <<>>
  PROVE  Repetition(c) \in Said(c, B) /\ Repetition(c) \in Said(NoClient, B)
  <1> DEFINE f == Head(c.messagesSent)
             s == Repetition(c)
  <1>1. /\ c.messagesSent \in Seq(InfoWithin(B)) /\ c.lastByteSent \in Nat
        /\ c.expected_ack \in Nat /\ c.windowSize \in Nat
    BY DEF ClientWithin, ClientRecord, Counted
  <1>2. f \in InfoWithin(B) /\ f = c.messagesSent[1] /\ 1 \in DOMAIN c.messagesSent
    BY <1>1
  <1>3. NumberedEntry(f, c.lastByteSent)
    BY <1>2 DEF Numbered
  <1>4. /\ f.start \in Nat /\ f.size \in Nat /\ f.seq \in Nat /\ f.flag \in Flag
        /\ f.start + f.size <= B
    BY <1>2 DEF InfoWithin, SegmentInfo
  <1> HIDE DEF f
  <1>5. /\ s.flag = f.flag /\ s.seq = f.seq /\ s.ack = c.expected_ack
        /\ s.start = f.start /\ s.end = f.start + f.size
    BY DEF Repetition, f
  <1>6. s \in SegmentWithin(B)
    <2>1. f.start + f.size \in Nat /\ f.start <= f.start + f.size
      BY <1>4
    <2>2. s \in Segment
      BY <1>1, <1>4, <2>1 DEF Repetition, f, Segment
    <2> QED
      BY <1>4, <1>5, <2>1, <2>2 DEF SegmentWithin, ValidSegment
  <1> HIDE DEF s
  <1>7. ISN \in Nat
    BY SizeAssumption
  <1>8. RightlyNumbered(s) /\ s.end <= c.lastByteSent /\ s.ack <= c.expected_ack
    <2>1. CASE f.flag \in {"SYN", "SYN_ACK"} /\ f.seq = ISN /\ f.start = 0 /\ f.size = 0
      BY <1>1, <1>5, <2>1 DEF RightlyNumbered
    <2>2. CASE /\ f.flag = "ACK" /\ f.size > 0
               /\ f.seq = ISN + 1 + f.start /\ f.start + f.size <= c.lastByteSent
      <3>1. f.seq > ISN
        BY <1>4, <1>7, <2>2
      <3> QED
        BY <1>1, <1>5, <2>2, <3>1 DEF RightlyNumbered
    <2> QED
      BY <1>3, <2>1, <2>2 DEF NumberedEntry
  <1> QED
    BY <1>6, <1>8 DEF Said, s

\* What a run writes: the bytes between its first and its last number, in
\* the places that the numbers say.
RunWritten(R, seg, last, d, B) ==
  LET next == NextSeq(last)
      w    == Written(R, seg, last)
  IN /\ seg.seq \in Nat /\ next \in Nat /\ seg.seq <= next
     /\ Len(w) = next - seg.seq /\ w \in Seq(Nat)
     /\ \A i \in 1..Len(w) : w[i] = seg.seq + i - 1 - (ISN + 1)
     /\ next # seg.seq => /\ next <= ISN + 1 + B
                          /\ d # NoClient => next <= ISN + 1 + d.lastByteSent

\* Each number of a run is that of one place in the sender's buffer.
LEMMA RunWrites ==
  ASSUME NEW B \in Nat, NEW d, NEW c, NEW seg \in Acks, NEW R \in SUBSET Acks,
         NEW last \in R, IsRun(R, last, c, seg), Counters(d),
         R \subseteq Said(d, B), seg.seq > ISN
  PROVE  RunWritten(R, seg, last, d, B)
  <1> DEFINE next == NextSeq(last)
             w == Written(R, seg, last)
  <1>1. \A b \in Acks : /\ b.seq \in Nat /\ b.start \in Nat /\ b.end \in Nat
                        /\ b.start <= b.end /\ b.flag = "ACK"
    BY DEF Acks, ValidSegment, Segment
  <1>2. \A b \in R : NextSeq(b) = b.seq + (b.end - b.start)
    BY DEF NextSeq, SizeOf
  <1>3. ISN \in Nat
    BY SizeAssumption
  <1>4. seg \in R /\ seg.seq <= last.seq
    BY DEF IsRun
  <1>5. seg.seq \in Nat /\ next \in Nat /\ seg.seq <= next
    BY <1>1, <1>2, <1>4
  <1>6. ASSUME NEW b \in R, NEW k \in Nat, Covers(b, k)
        PROVE  /\ b.start + (k - b.seq) = k - (ISN + 1)
               /\ k + 1 <= ISN + 1 + B
               /\ d # NoClient => k + 1 <= ISN + 1 + b.end /\ b.end <= d.lastByteSent
    <2>1. b.seq <= k /\ k < b.seq + (b.end - b.start)
      BY <1>2, <1>6 DEF Covers
    <2>2. b \in Said(d, B) /\ b \in Acks
      OBVIOUS
    <2>3. b.start < b.end
      BY <1>1, <2>1, <2>2
    <2>4. b.seq = ISN + 1 + b.start /\ b.end <= B
      BY <1>1, <2>2, <2>3 DEF Said, RightlyNumbered, SegmentWithin
    <2>5. d # NoClient => b.end <= d.lastByteSent
      BY <2>2 DEF Said
    <2>6. b.start \in Nat /\ b.end \in Nat
      BY <1>1, <2>2
    <2> QED
      BY <1>3, <2>1, <2>4, <2>5, <2>6
  <1>7. ASSUME NEW k \in seg.seq..(next - 1)
        PROVE  k \in Nat /\ \E b \in R : Covers(b, k)
    BY <1>5, <1>7 DEF IsRun
  <1> DEFINE cover(k) == CHOOSE x \in R : Covers(x, k)
             Place(k) == cover(k).start + (k - cover(k).seq)
             v == [i \in 1..(next - seg.seq) |-> seg.seq + i - 1 - (ISN + 1)]
  <1>8. \A k \in seg.seq..(next - 1) : Place(k) = k - (ISN + 1)
    <2>1. ASSUME NEW k \in seg.seq..(next - 1)
          PROVE  Place(k) = k - (ISN + 1)
      <3>1. k \in Nat /\ cover(k) \in R /\ Covers(cover(k), k)
        BY <1>7
      <3> HIDE DEF cover
      <3>2. cover(k).start + (k - cover(k).seq) = k - (ISN + 1)
        BY <1>6, <3>1
      <3> QED
        BY <3>2
    <2> QED
      BY <2>1
  <1>9. w = [i \in 1..(next - seg.seq) |-> Place(seg.seq + i - 1)]
    BY DEF Written
  <1> HIDE DEF Place, next
  <1>10. w = v
    <2>1. \A i \in 1..(next - seg.seq) : seg.seq + i - 1 \in seg.seq..(next - 1)
      BY <1>5
    <2>2. ASSUME NEW i \in 1..(next - seg.seq)
          PROVE  Place(seg.seq + i - 1) = seg.seq + i - 1 - (ISN + 1)
      <3> DEFINE k == seg.seq + i - 1
      <3>1. k \in seg.seq..(next - 1)
        BY <2>1
      <3> HIDE DEF k
      <3>2. Place(k) = k - (ISN + 1)
        BY <1>8, <3>1
      <3> QED
        BY <1>3, <1>5, <3>2 DEF k
    <2> HIDE DEF w
    <2> QED
      BY <1>9, <2>2
  <1>11. v \in Seq(Nat) /\ Len(v) = next - seg.seq
    <2> DEFINE k == next - seg.seq
               e(i) == seg.seq + i - 1 - (ISN + 1)
    <2>1. k \in Nat /\ \A i \in 1..k : e(i) \in Nat
      BY <1>3, <1>5
    <2> HIDE DEF k, e
    <2>2. [i \in 1..k |-> e(i)] \in Seq(Nat) /\ Len([i \in 1..k |-> e(i)]) = k
      BY <2>1
    <2> QED
      BY <2>2 DEF k, e
  <1>12. \A i \in 1..(next - seg.seq) : v[i] = seg.seq + i - 1 - (ISN + 1)
    OBVIOUS
  <1>13. next # seg.seq =>
           /\ next <= ISN + 1 + B
           /\ d # NoClient => \E b \in R : /\ next <= ISN + 1 + b.end
                                           /\ b.end <= d.lastByteSent
    <2> SUFFICES ASSUME next # seg.seq
                 PROVE  /\ next <= ISN + 1 + B
                        /\ d # NoClient => \E b \in R : /\ next <= ISN + 1 + b.end
                                                        /\ b.end <= d.lastByteSent
      OBVIOUS
    <2> DEFINE k == next - 1
    <2>1. k \in seg.seq..(next - 1) /\ k + 1 = next
      BY <1>5
    <2> HIDE DEF k, next
    <2>2. PICK b \in R : Covers(b, k)
      BY <1>7, <2>1
    <2>3. k \in Nat
      BY <1>7, <2>1
    <2> QED
      BY <1>6, <2>1, <2>2, <2>3
  <1>14. d # NoClient /\ next # seg.seq => next <= ISN + 1 + d.lastByteSent
    <2> SUFFICES ASSUME d # NoClient, next # seg.seq
                 PROVE  next <= ISN + 1 + d.lastByteSent
      OBVIOUS
    <2> HIDE DEF next
    <2>1. PICK b \in R : next <= ISN + 1 + b.end /\ b.end <= d.lastByteSent
      BY <1>13
    <2> QED
      BY <1>1, <1>3, <1>5, <2>1 DEF Counters
  <1> HIDE DEF next, w, v
  <1>15. Len(w) = next - seg.seq /\ w \in Seq(Nat)
    BY <1>10, <1>11
  <1>16. \A i \in 1..Len(w) : w[i] = seg.seq + i - 1 - (ISN + 1)
    BY <1>10, <1>12, <1>15
  <1> QED
    BY <1>5, <1>13, <1>14, <1>15, <1>16 DEF RunWritten, next, w
-----------------------------------------------------------------------------
\* n's client c becomes e and says snd, over a buffer of B bytes.
Talks(c, e, snd, B) == Onward(c, e) /\ Sending(e) /\ SaidAll(snd, e, B)

\* A client that has handled an acknowledgement has said the right thing, and
\* has received what the peer's client d sent.
LEMMA AckTalks ==
  ASSUME NEW B \in Nat, NEW c \in ClientWithin(B), Numbered(c), InUse(c),
         NEW seg \in Acks, NEW R \in SUBSET Acks, NEW last \in R,
         R \subseteq c.messageBuffer \cup {seg}, IsRun(R, last, c, seg),
         NEW D \in Nat, NEW d, Counters(d), seg \in Said(d, D),
         NEW q \in Seq(Nat), Receiving(c, q, d, D)
  PROVE  LET h == HandleAck(c, seg, R, last, B, FALSE)
             r == IF InTurn(c, seg) THEN q \o Written(R, seg, last) ELSE q
         IN Talks(c, h.c, h.snd, B) /\ Receiving(h.c, r, d, D)
  <1> DEFINE h == HandleAck(c, seg, R, last, B, FALSE)
             r == IF InTurn(c, seg) THEN q \o Written(R, seg, last) ELSE q
  <1> SUFFICES Talks(c, h.c, h.snd, B) /\ Receiving(h.c, r, d, D)
    OBVIOUS
  <1>1. /\ c # NoClient /\ c.messageBuffer \subseteq Said(d, D)
        /\ c.messageBuffer \subseteq Acks
        /\ c.state \in {"SYN_SENT", "ESTABLISHED"}
    BY ClientExists DEF Receiving, InUse
  <1>2. /\ c.expected_ack \in Nat /\ c.lastByteSent \in Nat /\ c.last_ack \in Nat
        /\ Len(q) \in Nat /\ ISN \in Nat \ {0}
    BY SizeAssumption DEF ClientWithin, ClientRecord, Counted
  <1>3. AckHandled(c, h, seg, R, last, B)
    BY <1>1, HandleAckDoes
  <1>4. seg.ack \in Nat /\ seg.seq \in Nat /\ seg.seq > ISN
    BY DEF Acks, ValidSegment, Segment, Said, RightlyNumbered
  <1>5. h \in FrameWithin(B) /\ h.c \in ClientWithin(B) /\ h.c # NoClient
    <2>1. h \in FrameWithin(B)
      BY HandleAckWithin DEF Acks
    <2> QED
      BY <2>1, ClientExists DEF FrameWithin
  <1>8. r = IF InTurn(c, seg) THEN q \o Written(R, seg, last) ELSE q
    OBVIOUS
  <1> HIDE DEF h, r
  <1>6. CASE ~InTurn(c, seg)
    <2> DEFINE e == h.c
    <2>1. h.snd = <<>> /\ Buffers(c, e, seg) /\ r = q
      BY <1>3, <1>6, <1>8 DEF AckHandled
    <2>2. Acknowledged(c, e, seg.ack) \/ Unacknowledged(c, e)
      BY <2>1 DEF Buffers
    <2> HIDE DEF e
    <2>3. Numbered(e)
      BY <1>4, <2>1, <2>2, NumberedKept DEF Buffers
    <2>4. Onward(c, e)
      BY <1>1, <1>2, <2>1 DEF Buffers, Onward
    <2>5. SaidAll(h.snd, e, B)
      BY <2>1 DEF SaidAll
    <2>6. e.messageBuffer \subseteq Said(d, D)
      BY <1>1, <2>1 DEF Buffers
    <2>7. Expects(e, r)
      BY <1>1, <2>1 DEF Buffers, Receiving, Expects
    <2>8. d # NoClient => e.last_ack <= d.expected_ack
      BY <1>1, <2>2 DEF Acknowledged, Unacknowledged, Said, Receiving
    <2>9. Receiving(e, r, d, D)
      BY <2>1, <2>6, <2>7, <2>8 DEF Receiving
    <2> QED
      BY <2>3, <2>4, <2>5, <2>9 DEF e, Talks, Sending
  <1>7. CASE InTurn(c, seg)
    <2> DEFINE next == NextSeq(last)
               w == Written(R, seg, last)
    <2>1. PICK b \in R \cup c.messageBuffer, e \in ClientWithin(B) :
            Consumes(c, e, b, next) /\ Sends(e, h, B)
      BY <1>3, <1>7 DEF AckHandled
    <2>2. b \in Said(d, D) /\ b \in Acks /\ b.ack \in Nat /\ R \subseteq Said(d, D)
      <3>1. R \subseteq Said(d, D) /\ b \in Said(d, D) /\ b \in Acks
        BY <1>1
      <3> QED
        BY <3>1 DEF Acks, ValidSegment, Segment
    <2>3. RunWritten(R, seg, last, d, D)
      BY <1>4, <2>2, RunWrites
    <2>4. r = q \o w
      BY <1>7, <1>8
    <2> HIDE DEF next, w
    <2>5. seg.seq = ISN + 1 + Len(q) /\ c.expected_ack = seg.seq
      BY <1>1, <1>2, <1>4, <1>7 DEF InTurn, Receiving, Expects
    <2> DEFINE k == Len(q)
               m == Len(w)
    <2>17. /\ seg.seq \in Nat /\ next \in Nat /\ seg.seq <= next
           /\ m = next - seg.seq /\ w \in Seq(Nat)
           /\ \A i \in 1..m : w[i] = seg.seq + i - 1 - (ISN + 1)
           /\ next # seg.seq => /\ next <= ISN + 1 + D
                                /\ d # NoClient => next <= ISN + 1 + d.lastByteSent
      BY <2>3 DEF RunWritten, next, w
    <2>18. k \in Nat /\ m \in Nat /\ ISN \in Nat /\ seg.seq = ISN + 1 + k
      BY <1>2, <2>5, <2>17
    <2>6. /\ r \in Seq(Nat) /\ Len(r) = k + m
          /\ \A i \in 1..(k + m) : r[i] = IF i <= k THEN q[i] ELSE w[i - k]
      <3> DEFINE x == q \o w
      <3>1. /\ x \in Seq(Nat) /\ Len(x) = Len(q) + Len(w)
            /\ \A i \in 1..(Len(q) + Len(w)) :
                 x[i] = IF i <= Len(q) THEN q[i] ELSE w[i - Len(q)]
        <4>1. w \in Seq(Nat)
          BY <2>17
        <4> HIDE DEF k, m
        <4> QED
          BY <4>1, ConcatProperties
      <3> HIDE DEF x
      <3>2. r = x
        BY <2>4 DEF x
      <3> QED
        BY <3>1, <3>2
    <2> HIDE DEF k, m
    <2>7. InOrder(r)
      <3>1. ASSUME NEW i \in 1..(k + m)
            PROVE  r[i] = i - 1
        <4>1. CASE i <= k
          <5>1. i \in 1..k /\ DOMAIN q = 1..k
            BY <2>18, <4>1 DEF k
          <5> QED
            BY <2>6, <4>1, <5>1 DEF Receiving, InOrder
        <4>2. CASE ~(i <= k)
          <5> DEFINE j == i - k
          <5>1. j \in 1..m /\ r[i] = w[j] /\ i \in Nat
            BY <2>18, <2>6, <4>2
          <5>2. w[j] = seg.seq + j - 1 - (ISN + 1)
            BY <2>17, <5>1
          <5>3. seg.seq + j - 1 - (ISN + 1) = i - 1
            BY <2>18, <5>1
          <5> QED
            BY <5>1, <5>2, <5>3
        <4> QED
          BY <4>1, <4>2
      <3>2. DOMAIN r = 1..(k + m)
        BY <2>6
      <3> QED
        BY <3>1, <3>2 DEF InOrder
    <2>8. next = ISN + 1 + Len(r) /\ Len(r) \in Nat
      <3>1. Len(r) = k + m
        BY <2>6
      <3>2. /\ seg.seq \in Nat /\ next \in Nat /\ m = next - seg.seq
            /\ k \in Nat /\ m \in Nat /\ ISN \in Nat /\ seg.seq = ISN + 1 + k
        BY <2>17, <2>18
      <3> QED
        BY <3>1, <3>2
    <2>9. Len(r) <= D /\ (d # NoClient => Len(r) <= d.lastByteSent)
      <3>1. CASE next = seg.seq
        <4>1. Len(r) = Len(q)
          BY <2>17, <2>18, <2>6, <3>1 DEF k
        <4> QED
          BY <4>1 DEF Receiving
      <3>2. CASE next # seg.seq
        <4>1. /\ next <= ISN + 1 + D
              /\ d # NoClient => next <= ISN + 1 + d.lastByteSent
          BY <2>17, <3>2
        <4>2. d # NoClient => d.lastByteSent \in Nat
          BY DEF Counters
        <4>3. /\ next = ISN + 1 + Len(r) /\ Len(r) \in Nat /\ ISN \in Nat
              /\ next \in Nat
          BY <2>8, <2>17, <2>18
        <4> QED
          BY <4>1, <4>2, <4>3
      <3> QED
        BY <3>1, <3>2
    <2>10. Acknowledged(c, e, b.ack) /\ e.expected_sequence = c.expected_sequence
           /\ e.lastByteSent = c.lastByteSent /\ e.expected_ack = next
           /\ e.messageBuffer \subseteq c.messageBuffer
      BY <2>1 DEF Consumes
    <2>11. Numbered(e)
      BY <2>2, <2>10, NumberedKept
    <2>12. /\ Numbered(h.c) /\ SaidAll(h.snd, h.c, B) /\ Onward(e, h.c)
      BY <2>1, <2>11, SendsNumbered
    <2>13. e # NoClient /\ e.expected_ack \in Nat /\ e.lastByteSent \in Nat
      BY <2>1, ClientNumbers
    <2>14. Onward(c, h.c)
      <3>1. h.c.expected_ack \in Nat /\ h.c.lastByteSent \in Nat
        BY <1>5, ClientNumbers
      <3> QED
        BY <1>1, <1>2, <1>5, <2>5, <2>17, <2>10, <2>12, <2>13, <3>1 DEF Onward
    <2>15. /\ h.c.expected_ack = next /\ h.c.last_ack = b.ack
           /\ h.c.messageBuffer = e.messageBuffer
      BY <2>1, <2>10 DEF Sends, Acknowledged
    <2>16. Receiving(h.c, r, d, D)
      BY <1>1, <1>5, <2>2, <2>7, <2>8, <2>9, <2>10, <2>15
         DEF Receiving, Expects, Said
    <2> QED
      BY <2>12, <2>14, <2>16 DEF Talks, Sending
  <1> QED
    BY <1>6, <1>7

\* The SYN_ACK is heard, and the handshake's last acknowledgement said.
LEMMA SynAckTalks ==
  ASSUME NEW B \in Nat, NEW c \in ClientWithin(B), Numbered(c),
         NEW seg \in ValidSegment, seg.flag = "SYN_ACK",
         NEW D \in Nat, NEW d, seg \in Said(d, D), Receiving(c, <<>>, d, D)
  PROVE  LET h == HandleSynAck(c, seg)
         IN Talks(c, h.c, h.snd, B) /\ Receiving(h.c, <<>>, d, D)
  <1> DEFINE h == HandleSynAck(c, seg)
             e == h.c
  <1> SUFFICES Talks(c, e, h.snd, B) /\ Receiving(e, <<>>, d, D)
    OBVIOUS
  <1>1. Completed(c, h, seg, B)
    BY HandleSynAckDoes
  <1> HIDE DEF h
  <1>2. /\ c # NoClient /\ c.expected_ack \in Nat /\ c.lastByteSent \in Nat
        /\ c.expected_sequence = ISN + 1 + c.lastByteSent
        /\ ISN \in Nat \ {0} /\ seg.ack \in Nat /\ seg.seq = ISN
    <2>1. c # NoClient
      BY ClientExists
    <2>2. c.expected_ack \in Nat /\ c.lastByteSent \in Nat
      BY ClientNumbers
    <2>3. c.expected_sequence = ISN + 1 + c.lastByteSent
      BY DEF Numbered
    <2>4. ISN \in Nat \ {0} /\ seg.ack \in Nat
      BY SizeAssumption DEF ValidSegment, Segment
    <2>5. seg.seq = ISN
      BY DEF Said, RightlyNumbered
    <2> QED
      BY <2>1, <2>2, <2>3, <2>4, <2>5
  <1>3. CASE e = c /\ h.snd = <<>>
    BY <1>2, <1>3 DEF Talks, Onward, Sending, SaidAll
  <1>4. CASE /\ h \in FrameWithin(B)
             /\ h.c.state = "ESTABLISHED" /\ h.c.expected_ack = seg.seq + 1
             /\ h.c.expected_sequence = c.expected_sequence
             /\ h.c.lastByteSent = c.lastByteSent
             /\ h.c.messageBuffer = c.messageBuffer
             /\ Acknowledged(c, h.c, seg.ack)
             /\ Len(h.snd) = 1
             /\ h.snd[1].seg = Control("ACK", c.expected_sequence, seg.seq + 1)
    <2>1. /\ e \in ClientWithin(B) /\ e # NoClient /\ h.snd \in Seq(ItemWithin(B))
          /\ h.snd \in Seq(OutItem)
      BY <1>4, ClientExists, WithinTyped DEF FrameWithin
    <2>2. Numbered(e)
      BY <1>2, <1>4, NumberedKept
    <2>3. Expects(c, <<>>) /\ Len(<<>>) = 0
      BY <1>2 DEF Receiving
    <2>4. Onward(c, e)
      BY <1>2, <1>4, <2>3 DEF Onward, Expects
    <2>5. ASSUME NEW i \in DOMAIN h.snd
          PROVE  h.snd[i].seg \in Said(e, B)
      <3> DEFINE s == h.snd[i].seg
      <3>1. i = 1
        BY <1>4, <2>1
      <3>2. s \in SegmentWithin(B)
        <4>1. h.snd[i] \in ItemWithin(B)
          BY <2>1
        <4> QED
          BY <4>1 DEF ItemWithin
      <3>3. /\ s.flag = "ACK" /\ s.seq = c.expected_sequence
            /\ s.ack = ISN + 1 /\ s.start = 0 /\ s.end = 0
        BY <1>2, <1>4, <3>1 DEF Control
      <3> HIDE DEF s, e
      <3>4. RightlyNumbered(s)
        BY <1>2, <3>3 DEF RightlyNumbered
      <3>5. e.expected_ack = ISN + 1 /\ e.lastByteSent = c.lastByteSent
        BY <1>2, <1>4 DEF e
      <3> QED
        BY <1>2, <3>2, <3>3, <3>4, <3>5 DEF Said, s
    <2>6. SaidAll(h.snd, e, B)
      BY <2>1, <2>5 DEF SaidAll
    <2>7. Expects(e, <<>>) /\ (d # NoClient => e.last_ack <= d.expected_ack)
      BY <1>2, <1>4, <2>3 DEF Expects, Acknowledged, Said
    <2>8. Receiving(e, <<>>, d, D)
      BY <1>2, <1>4, <2>7 DEF Receiving
    <2> QED
      BY <2>2, <2>4, <2>6, <2>8 DEF Talks, Sending
  <1> QED
    BY <1>1, <1>3, <1>4 DEF Completed
-----------------------------------------------------------------------------
(* A step of a pair, in either direction.                                   *)

\* What is on its way from n to p after the step was before, or is in snd.
Passes(n, p, snd) ==
  \A S : OnWay(n, p, S) /\ (\A i \in DOMAIN snd : snd[i].seg \in S)
           => OnWay(n, p, S)'

\* The stream after a step, from what was on its way and what was said.
LEMMA StreamsNext ==
  ASSUME NEW n \in Node, NEW p \in Node, NEW snd, Passes(n, p, snd),
         OnWay(n, p, Said(clients'[n][p], sendBuffer'[n])),
         SaidAll(snd, clients'[n][p], sendBuffer'[n]),
         Sending(clients'[n][p]),
         Receiving(clients'[p][n], file'[p][n], clients'[n][p], sendBuffer'[n])
  PROVE  Streams(n, p)'
  <1>1. PICK S : S = Said(clients'[n][p], sendBuffer'[n])
    OBVIOUS
  <1>2. OnWay(n, p, S) /\ \A i \in DOMAIN snd : snd[i].seg \in S
    BY <1>1 DEF SaidAll, OnWay
  <1>3. OnWay(n, p, S)'
    BY <1>2 DEF Passes
  <1>4. OnWay(n, p, Said(clients[n][p], sendBuffer[n]))'
    BY <1>1, <1>3 DEF OnWay
  <1> QED
    BY <1>4 DEF Streams

\* A larger set.
LEMMA OnWayMonotone ==
  ASSUME NEW n, NEW p, NEW S, NEW T, S \subseteq T, OnWay(n, p, S)
  PROVE  OnWay(n, p, T)
  BY DEF OnWay, OnlyFrom

\* A client's numbers, or none.
LEMMA PeerNumbers ==
  ASSUME NEW n \in Node, NEW p \in Node, Typed(n, p)
  PROVE  /\ Counters(clients[n][p]) /\ sendBuffer[n] \in Nat
         /\ clients[n][p] # NoClient =>
              /\ clients[n][p].last_ack \in Nat
              /\ clients[n][p] \in ClientWithin(sendBuffer[n])
         /\ file[n][p] \in Seq(Nat)
  <1> DEFINE c == clients[n][p]
             B == sendBuffer[n]
  <1>1. B \in Nat /\ c \in ClientWithin(B) \cup {NoClient} /\ file[n][p] \in Seq(Nat)
    BY DEF Typed
  <1> HIDE DEF c, B
  <1>2. Counters(c) /\ (c # NoClient => c.last_ack \in Nat /\ c \in ClientWithin(B))
    BY <1>1, ClientNumbers DEF Counters
  <1> QED
    BY <1>1, <1>2 DEF c, B

\* The same after the step.
LEMMA PeerNumbersNext ==
  ASSUME NEW n \in Node, NEW p \in Node, Typed(n, p)'
  PROVE  /\ Counters(clients'[n][p]) /\ sendBuffer'[n] \in Nat
         /\ clients'[n][p] # NoClient =>
              /\ clients'[n][p].last_ack \in Nat
              /\ clients'[n][p] \in ClientWithin(sendBuffer'[n])
         /\ file'[n][p] \in Seq(Nat)
  <1> DEFINE c == clients'[n][p]
             B == sendBuffer'[n]
  <1>1. B \in Nat /\ c \in ClientWithin(B) \cup {NoClient} /\ file'[n][p] \in Seq(Nat)
    BY DEF Typed
  <1> HIDE DEF c, B
  <1>2. Counters(c) /\ (c # NoClient => c.last_ack \in Nat /\ c \in ClientWithin(B))
    BY <1>1, ClientNumbers DEF Counters
  <1> QED
    BY <1>1, <1>2 DEF c, B

\* n speaks, perhaps of what it has heard; p only sees its segments taken.
LEMMA SpokenStreams ==
  ASSUME NEW n \in Node, NEW p \in Node, TypedPair(n, p), TypedPair(n, p)',
         sendBuffer[n] <= sendBuffer'[n], sendBuffer[p] <= sendBuffer'[p],
         Streams(n, p), Streams(p, n),
         clients'[p][n] = clients[p][n], file'[p][n] = file[p][n],
         NEW snd, Passes(n, p, snd), Passes(p, n, <<>>),
         Talks(clients[n][p], clients'[n][p], snd, sendBuffer'[n]),
         Receiving(clients'[n][p], file'[n][p], clients[p][n], sendBuffer[p])
  PROVE  Streams(n, p)' /\ Streams(p, n)'
  <1> DEFINE c == clients[n][p]
             e == clients'[n][p]
             d == clients[p][n]
             B == sendBuffer[n]
             C == sendBuffer'[n]
             D == sendBuffer[p]
             E == sendBuffer'[p]
             q == file[p][n]
             r == file'[n][p]
  <1>1. /\ Counters(c) /\ Counters(d) /\ Counters(e)
        /\ B \in Nat /\ C \in Nat /\ D \in Nat /\ E \in Nat
        /\ q \in Seq(Nat) /\ r \in Seq(Nat)
        /\ d # NoClient => d.last_ack \in Nat
        /\ e # NoClient => e.last_ack \in Nat
    BY PeerNumbers, PeerNumbersNext DEF TypedPair
  <1>2. OnWay(n, p, Said(c, B)) /\ Receiving(d, q, c, B) /\ B <= C
    BY DEF Streams
  <1>3. OnWay(p, n, Said(d, D)) /\ Sending(d) /\ D <= E
    BY DEF Streams
  <1>4. Onward(c, e) /\ Sending(e) /\ SaidAll(snd, e, C)
    BY DEF Talks
  <1>5. Receiving(e, r, d, D)
    OBVIOUS
  <1>6. clients'[p][n] = d /\ file'[p][n] = q
    OBVIOUS
  <1> HIDE DEF c, e, d, B, C, D, E, q, r
  <1>7. Said(c, B) \subseteq Said(e, C)
    BY <1>1, <1>2, <1>4, SaidMonotone
  <1>8. Onward(d, d)
    BY <1>1 DEF Onward, Counters
  <1>9. Said(d, D) \subseteq Said(d, E)
    BY <1>1, <1>3, <1>8, SaidMonotone
  <1>10. Receiving(d, q, e, C)
    BY <1>1, <1>2, <1>4, ReceivingMonotone
  <1>11. Receiving(e, r, d, E)
    BY <1>1, <1>3, <1>5, <1>8, ReceivingMonotone
  <1>12. OnWay(n, p, Said(e, C)) /\ OnWay(p, n, Said(d, E))
    BY <1>2, <1>3, <1>7, <1>9, OnWayMonotone
  <1>13. Streams(n, p)'
    BY <1>4, <1>6, <1>10, <1>12, StreamsNext DEF e, C
  <1>14. SaidAll(<<>>, d, E)
    BY DEF SaidAll
  <1>15. Streams(p, n)'
    BY <1>3, <1>6, <1>11, <1>12, <1>14, StreamsNext DEF e, E, r
  <1> QED
    BY <1>13, <1>15

-----------------------------------------------------------------------------
(* The wire, under each event.                                              *)

\* Nothing of n's moves.
LEMMA StillPasses ==
  ASSUME NEW n \in Node, NEW p \in Node, TypedPair(n, p), TypedPair(n, p)',
         Still(n, p)
  PROVE  Passes(n, p, <<>>)
  BY StillWire DEF Still, SameSide, TypedPair, Passes

\* n speaks.
LEMMA SpeaksPasses ==
  ASSUME NEW n \in Node, NEW p \in Node, TypedPair(n, p), TypedPair(n, p)',
         SameWire(n, p), NEW snd \in Seq(OutItem),
         senderQueue'[n][p] = senderQueue[n][p] \o snd
  PROVE  Passes(n, p, snd)
  <1> SUFFICES ASSUME NEW S, OnWay(n, p, S), \A i \in DOMAIN snd : snd[i].seg \in S
               PROVE  OnWay(n, p, S)'
    BY DEF Passes
  <1> QED
    BY SpeaksWire DEF TypedPair

\* n takes a segment of p.
LEMMA TakesPasses ==
  ASSUME NEW n \in Node, NEW p \in Node, TypedPair(n, p), Takes(n, p)
  PROVE  Passes(p, n, <<>>)
  BY TakesWire DEF TypedPair, Passes

\* The sender thread, the network and the receiver thread add nothing.
LEMMA CarriedPasses ==
  ASSUME UndisturbedTransfer, NEW n \in Node, NEW p \in Node, TypedPair(n, p),
         TypedPair(n, p)', Leaves(n, p) \/ Arrives(n, p) \/ GoesWrong(n, p)
  PROVE  Passes(n, p, <<>>) /\ Passes(p, n, <<>>)
  <1>1. Passes(n, p, <<>>)
    BY LeavesWire, ArrivesWire, GoesWrongWire DEF TypedPair, Passes
  <1>2. Still(p, n) /\ TypedPair(p, n) /\ TypedPair(p, n)'
    BY DEF Leaves, Arrives, GoesWrong, TypedPair
  <1>3. Passes(p, n, <<>>)
    BY <1>2, StillPasses
  <1> QED
    BY <1>1, <1>3

\* The segments of a queue without its client.
LEMMA SameSegmentsPass ==
  ASSUME NEW n \in Node, NEW p \in Node, TypedPair(n, p), TypedPair(n, p)',
         SameWire(n, p), NEW snd \in Seq(OutItem),
         LET q == senderQueue[n][p] \o snd
         IN /\ Len(senderQueue'[n][p]) = Len(q)
            /\ \A i \in 1..Len(q) : senderQueue'[n][p][i].seg = q[i].seg
  PROVE  Passes(n, p, snd)
  <1> DEFINE q == senderQueue[n][p]
             r == senderQueue'[n][p]
  <1>1. q \in Seq(OutItem) /\ r \in Seq(OutItem)
    BY DEF TypedPair, Typed
  <1>2. /\ Len(r) = Len(q \o snd)
        /\ \A i \in 1..Len(q \o snd) : r[i].seg = (q \o snd)[i].seg
    OBVIOUS
  <1> SUFFICES ASSUME NEW S, OnWay(n, p, S), \A i \in DOMAIN snd : snd[i].seg \in S
               PROVE  OnWay(n, p, S)'
    BY DEF Passes
  <1>3. \A i \in DOMAIN q : q[i].seg \in S
    BY DEF OnWay
  <1> HIDE DEF q, r
  <1>4. /\ DOMAIN q = 1..Len(q) /\ DOMAIN snd = 1..Len(snd)
        /\ Len(q) \in Nat /\ Len(snd) \in Nat /\ DOMAIN r = 1..Len(r)
        /\ Len(q \o snd) = Len(q) + Len(snd)
        /\ \A j \in 1..(Len(q) + Len(snd)) :
             (q \o snd)[j] = IF j <= Len(q) THEN q[j] ELSE snd[j - Len(q)]
    BY <1>1, ConcatProperties
  <1>5. ASSUME NEW i \in DOMAIN r
        PROVE  r[i].seg \in S
    <2>1. i \in 1..(Len(q) + Len(snd)) /\ r[i].seg = (q \o snd)[i].seg
      BY <1>2, <1>4
    <2>2. CASE i <= Len(q)
      BY <1>3, <1>4, <2>1, <2>2
    <2>3. CASE ~(i <= Len(q))
      <3>1. i - Len(q) \in DOMAIN snd /\ (q \o snd)[i] = snd[i - Len(q)]
        BY <1>4, <2>1, <2>3
      <3> QED
        BY <2>1, <3>1
    <2> QED
      BY <2>2, <2>3
  <1>6. OnlyFrom(receiverQueue'[p], n, S)
    <2>1. receiverQueue[p] \in Seq(Arrival) /\ receiverQueue'[p] \in Seq(Arrival)
      BY DEF TypedPair, Typed
    <2>2. SameFrom(receiverQueue[p], receiverQueue'[p], n) /\ OnlyFrom(receiverQueue[p], n, S)
      BY DEF SameWire, OnWay
    <2> QED
      BY <2>1, <2>2, OthersPass
  <1>7. \A i \in DOMAIN network'[n][p] : network'[n][p][i] \in S
    BY DEF SameWire, OnWay
  <1> QED
    BY <1>5, <1>6, <1>7 DEF OnWay, r
-----------------------------------------------------------------------------
(* The streams of a pair, under each event.                                 *)

\* Both streams before a step, and what is known of its two ends.
Flowing(n, p) ==
  /\ TypedPair(n, p) /\ TypedPair(n, p)'
  /\ sendBuffer[n] <= sendBuffer'[n] /\ sendBuffer[p] <= sendBuffer'[p]
  /\ Streams(n, p) /\ Streams(p, n)

\* n's client is as it was, up to the marks of its entries.
LEMMA SteadyStreams ==
  ASSUME NEW n \in Node, NEW p \in Node, Flowing(n, p),
         Passes(n, p, <<>>), Passes(p, n, <<>>), SameSide(p, n),
         file'[n][p] = file[n][p],
         \/ clients'[n][p] = clients[n][p]
         \/ \E mark \in SendMark, seq \in Nat :
              /\ clients[n][p] # NoClient
              /\ clients'[n][p] = Stamp(clients[n][p], seq, mark)
  PROVE  Streams(n, p)' /\ Streams(p, n)'
  <1> DEFINE c == clients[n][p]
             e == clients'[n][p]
             d == clients[p][n]
             C == sendBuffer'[n]
             D == sendBuffer[p]
             q == file[n][p]
  <1>1. Counters(c) /\ Counters(e) /\ Sending(c) /\ Receiving(c, q, d, D)
    BY PeerNumbers, PeerNumbersNext DEF Flowing, TypedPair, Streams
  <1>2. Talks(c, e, <<>>, C) /\ Receiving(e, q, d, D)
    <2>1. SaidAll(<<>>, e, C)
      BY DEF SaidAll
    <2>2. CASE e = c
      <3> HIDE DEF c, e, d, C, D, q
      <3>1. Onward(c, e)
        BY <1>1, <2>2 DEF Onward, Counters
      <3> QED
        BY <1>1, <2>1, <2>2, <3>1 DEF Talks
    <2>3. ASSUME NEW mark \in SendMark, NEW seq \in Nat, c # NoClient,
                 e = Stamp(c, seq, mark)
          PROVE  Talks(c, e, <<>>, C) /\ Receiving(e, q, d, D)
      <3> DEFINE B == sendBuffer[n]
      <3>1. B \in Nat /\ c \in ClientWithin(B)
        BY <2>3, PeerNumbers DEF Flowing, TypedPair
      <3> HIDE DEF c, e, d, B, C, D, q
      <3>2. /\ e \in ClientWithin(B) /\ Steady(c, e)
            /\ SameEntries(c.messagesSent, e.messagesSent)
        BY <2>3, <3>1, StampFields
      <3>3. Sending(e)
        <4>1. CASE c.state = "NONE"
          BY <3>2, <4>1 DEF Sending, Steady
        <4>2. CASE Numbered(c)
          BY <3>1, <3>2, <4>2, NumberedMarked DEF Sending
        <4> QED
          BY <1>1, <2>3, <4>1, <4>2 DEF Sending
      <3>4. Onward(c, e)
        BY <1>1, <2>3, <3>2 DEF Onward, Steady, Counters
      <3>5. Receiving(e, q, d, D)
        BY <1>1, <2>3, <3>2 DEF Receiving, Steady, Expects
      <3> QED
        BY <2>1, <3>3, <3>4, <3>5 DEF Talks
    <2> QED
      BY <2>2, <2>3
  <1> QED
    BY <1>2, SpokenStreams DEF Flowing, SameSide

\* The sender thread, the network, the receiver thread, and segments of
\* unknown programs.
LEMMA QuietStreams ==
  ASSUME UndisturbedTransfer, NEW n \in Node, NEW p \in Node, Flowing(n, p),
         \/ Leaves(n, p) \/ Arrives(n, p) \/ GoesWrong(n, p) \/ Discards(n, p)
         \/ Still(n, p) /\ Still(p, n)
  PROVE  Streams(n, p)' /\ Streams(p, n)'
  <1>1. TypedPair(n, p) /\ TypedPair(n, p)' /\ TypedPair(p, n) /\ TypedPair(p, n)'
    BY DEF Flowing, TypedPair
  <1>2. CASE Leaves(n, p)
    <2>1. Head(senderQueue[n][p]).seg.seq \in Nat
      <3>1. senderQueue[n][p] \in Seq(OutItem) /\ senderQueue[n][p] # <<>>
        BY <1>1, <1>2 DEF TypedPair, Typed, Leaves
      <3>2. Head(senderQueue[n][p]) \in OutItem
        BY <3>1
      <3> QED
        BY <3>2 DEF OutItem, Segment
    <2>2. \/ clients'[n][p] = clients[n][p]
          \/ \E mark \in SendMark, seq \in Nat :
               /\ clients[n][p] # NoClient
               /\ clients'[n][p] = Stamp(clients[n][p], seq, mark)
      BY <1>2, <2>1 DEF Leaves
    <2>3. SameSide(p, n) /\ file'[n][p] = file[n][p]
      BY <1>2 DEF Leaves, Still
    <2>4. Passes(n, p, <<>>) /\ Passes(p, n, <<>>)
      BY <1>1, <1>2, CarriedPasses
    <2> QED
      BY <2>2, <2>3, <2>4, SteadyStreams
  <1>3. CASE Arrives(n, p) \/ GoesWrong(n, p)
    <2>1. /\ SameSide(p, n) /\ clients'[n][p] = clients[n][p]
          /\ file'[n][p] = file[n][p]
      BY <1>3 DEF Arrives, GoesWrong, Still, SameSide
    <2>2. Passes(n, p, <<>>) /\ Passes(p, n, <<>>)
      BY <1>1, <1>3, CarriedPasses
    <2> QED
      BY <2>1, <2>2, SteadyStreams
  <1>4. CASE Discards(n, p)
    <2>1. Takes(n, p) /\ Still(n, p)
      BY <1>4 DEF Discards, Takes, Still
    <2>2. /\ SameSide(p, n) /\ clients'[n][p] = clients[n][p]
          /\ file'[n][p] = file[n][p]
      BY <2>1 DEF Takes, Still, SameSide
    <2>3. Passes(n, p, <<>>) /\ Passes(p, n, <<>>)
      BY <1>1, <2>1, TakesPasses, StillPasses
    <2> QED
      BY <2>2, <2>3, SteadyStreams
  <1>5. CASE Still(n, p) /\ Still(p, n)
    <2>1. /\ SameSide(p, n) /\ clients'[n][p] = clients[n][p]
          /\ file'[n][p] = file[n][p]
      BY <1>5 DEF Still, SameSide
    <2>2. Passes(n, p, <<>>) /\ Passes(p, n, <<>>)
      BY <1>1, <1>5, StillPasses
    <2> QED
      BY <2>1, <2>2, SteadyStreams
  <1> QED
    BY <1>2, <1>3, <1>4, <1>5

\* n speaks without having heard anything, and receives nothing.
LEMMA UnpromptedStreams ==
  ASSUME NEW n \in Node, NEW p \in Node, Flowing(n, p), Unprompted(n, p),
         NEW snd \in Seq(OutItem), Passes(n, p, snd),
         Talks(clients[n][p], clients'[n][p], snd, sendBuffer'[n]),
         clients'[n][p] # NoClient =>
           /\ clients[n][p] # NoClient
           /\ clients'[n][p].messageBuffer = clients[n][p].messageBuffer
           /\ clients'[n][p].expected_ack = clients[n][p].expected_ack
           /\ clients'[n][p].last_ack = clients[n][p].last_ack
           /\ clients'[n][p].state = clients[n][p].state
  PROVE  Streams(n, p)' /\ Streams(p, n)'
  <1>1. TypedPair(p, n) /\ TypedPair(p, n)' /\ Still(p, n) /\ file'[n][p] = file[n][p]
    BY DEF Flowing, TypedPair, Unprompted
  <1>2. Passes(p, n, <<>>)
    BY <1>1, StillPasses
  <1>3. Receiving(clients[n][p], file[n][p], clients[p][n], sendBuffer[p])
    BY DEF Flowing, Streams
  <1>4. Receiving(clients'[n][p], file'[n][p], clients[p][n], sendBuffer[p])
    BY <1>1, <1>3 DEF Receiving, Expects
  <1> QED
    BY <1>1, <1>2, <1>4, SpokenStreams DEF Flowing, Still, SameSide

\* InsertInput.
LEMMA OffersStreams ==
  ASSUME NEW n \in Node, NEW p \in Node, Flowing(n, p), Offers(n, p)
  PROVE  Streams(n, p)' /\ Streams(p, n)'
  <1> DEFINE c == clients[n][p]
             B == sendBuffer'[n]
             h == SendMessages(Frame(c), B, FALSE)
             snd == h.snd
  <1>1. /\ Unprompted(n, p) /\ c # NoClient /\ Speaks(n, p, h.c, h.snd)
        /\ c.state # "NONE" /\ Sending(c)
    BY DEF Offers, Flowing, Streams
  <1>2. c \in ClientWithin(B) /\ B \in Nat
    <2>1. sendBuffer[n] \in Nat /\ B \in Nat /\ c \in ClientWithin(sendBuffer[n])
      BY <1>1 DEF Flowing, TypedPair, Typed
    <2> QED
      BY <2>1, WithinMonotone DEF Flowing
  <1>3. Numbered(c)
    BY <1>1 DEF Sending
  <1>4. clients'[n][p] = h.c /\ senderQueue'[n][p] = senderQueue[n][p] \o snd
    BY <1>1 DEF Speaks
  <1> HIDE DEF c, B
  <1>5. Sends(c, h, B)
    BY <1>2, SendMessagesSends
  <1> DEFINE e == h.c
  <1> HIDE DEF h
  <1>6. Numbered(e) /\ SaidAll(snd, e, B) /\ Onward(c, e) /\ c # NoClient
    BY <1>2, <1>3, <1>5, SendsNumbered, ClientExists
  <1>7. /\ e.messageBuffer = c.messageBuffer /\ e.expected_ack = c.expected_ack
        /\ e.last_ack = c.last_ack /\ e.state = c.state
    BY <1>5 DEF Sends
  <1> HIDE DEF e, snd
  <1>8. Talks(c, e, snd, B) /\ snd \in Seq(OutItem)
    BY <1>6 DEF Talks, Sending, SaidAll
  <1>9. clients'[n][p] = e
    BY <1>4 DEF e
  <1>10. Passes(n, p, snd)
    BY <1>1, <1>4, <1>8, SpeaksPasses DEF Flowing, Unprompted
  <1> QED
    BY <1>1, <1>6, <1>7, <1>8, <1>9, <1>10, UnpromptedStreams DEF c, B

\* MessageResendCheck: a retransmission.
LEMMA RepeatsStreams ==
  ASSUME NEW n \in Node, NEW p \in Node, Flowing(n, p), Repeats(n, p),
         InUse(clients[n][p])
  PROVE  Streams(n, p)' /\ Streams(p, n)'
  <1> DEFINE c == clients[n][p]
             B == sendBuffer'[n]
             h == Retransmit(c)
             snd == h.snd
             e == h.c
  <1>1. /\ Unprompted(n, p) /\ c # NoClient /\ Speaks(n, p, h.c, h.snd)
        /\ c.messagesSent # <<>> /\ c.state # "NONE" /\ Sending(c)
    BY DEF Repeats, Flowing, Streams, InUse
  <1>2. c \in ClientWithin(B) /\ B \in Nat
    <2>1. sendBuffer[n] \in Nat /\ B \in Nat /\ c \in ClientWithin(sendBuffer[n])
      BY <1>1 DEF Flowing, TypedPair, Typed
    <2> QED
      BY <2>1, WithinMonotone DEF Flowing
  <1>3. Numbered(c)
    BY <1>1 DEF Sending
  <1>4. clients'[n][p] = e /\ senderQueue'[n][p] = senderQueue[n][p] \o snd
    BY <1>1 DEF Speaks
  <1> HIDE DEF c, B
  <1>5. /\ h \in FrameWithin(B) /\ Steady(c, e) /\ e.messagesSent = c.messagesSent
        /\ Len(snd) = 1 /\ snd[1].seg = Repetition(c)
    BY <1>1, <1>2, RetransmitDoes
  <1> HIDE DEF h
  <1>6. snd \in Seq(OutItem) /\ e \in ClientWithin(B)
    BY <1>2, <1>5, WithinTyped DEF FrameWithin
  <1> HIDE DEF e, snd
  <1>8. Repetition(c) \in Said(c, B)
    BY <1>1, <1>2, <1>3, RepetitionSaid
  <1>9. e # NoClient /\ Onward(c, e) /\ Counters(c) /\ Counters(e)
    BY <1>1, <1>2, <1>5, <1>6, ClientNumbers DEF Onward, Steady, Counters
  <1>10. Repetition(c) \in Said(e, B)
    BY <1>2, <1>8, <1>9, SaidMonotone
  <1>11. SaidAll(snd, e, B)
    <2>1. DOMAIN snd = 1..1
      BY <1>5, <1>6
    <2> QED
      BY <1>5, <1>6, <1>10, <2>1 DEF SaidAll
  <1>12. Numbered(e)
    BY <1>3, <1>5 DEF Numbered, Steady
  <1>13. Talks(c, e, snd, B)
    BY <1>9, <1>11, <1>12 DEF Talks, Sending
  <1>14. Passes(n, p, snd)
    BY <1>1, <1>4, <1>6, SpeaksPasses DEF Flowing, Unprompted
  <1>15. /\ e.messageBuffer = c.messageBuffer /\ e.expected_ack = c.expected_ack
         /\ e.last_ack = c.last_ack /\ e.state = c.state
    BY <1>5 DEF Steady
  <1> QED
    BY <1>1, <1>4, <1>6, <1>13, <1>14, <1>15, UnpromptedStreams DEF c, B

\* MessageResendCheck: the client is given up.
LEMMA GivesUpStreams ==
  ASSUME NEW n \in Node, NEW p \in Node, Flowing(n, p), GivesUp(n, p),
         InUse(clients[n][p])
  PROVE  Streams(n, p)' /\ Streams(p, n)'
  <1> DEFINE c == clients[n][p]
             e == clients'[n][p]
             B == sendBuffer'[n]
             Same(q) == /\ Len(senderQueue'[n][p]) = Len(q)
                        /\ \A i \in 1..Len(q) : senderQueue'[n][p][i].seg = q[i].seg
  <1>1. /\ Unprompted(n, p) /\ c # NoClient /\ e = NoClient
        /\ c.state # "NONE" /\ Sending(c) /\ SameWire(n, p)
    BY DEF GivesUp, Flowing, Streams, InUse, Unprompted
  <1>2. c \in ClientWithin(B) /\ B \in Nat
    <2>1. sendBuffer[n] \in Nat /\ B \in Nat /\ c \in ClientWithin(sendBuffer[n])
      BY <1>1 DEF Flowing, TypedPair, Typed
    <2> QED
      BY <2>1, WithinMonotone DEF Flowing
  <1>3. senderQueue[n][p] \in Seq(OutItem)
    BY DEF Flowing, TypedPair, Typed
  <1>4. \E snd \in Seq(OutItem) :
           Passes(n, p, snd) /\ SaidAll(snd, NoClient, B)
    <2>1. CASE Same(senderQueue[n][p])
      <3>1. senderQueue[n][p] \o <<>> = senderQueue[n][p] /\ <<>> \in Seq(OutItem)
        BY <1>3, ConcatEmptySeq
      <3>2. Passes(n, p, <<>>)
        BY <1>1, <2>1, <3>1, SameSegmentsPass DEF Flowing
      <3>3. SaidAll(<<>>, NoClient, B)
        BY DEF SaidAll
      <3> QED
        BY <3>1, <3>2, <3>3
    <2>2. CASE c.messagesSent # <<>> /\ Same(senderQueue[n][p] \o Retransmit(c).snd)
      <3> DEFINE snd == Retransmit(c).snd
      <3>1. snd \in Seq(OutItem) /\ Len(snd) = 1 /\ snd[1].seg = Repetition(c)
        <4> HIDE DEF c, B
        <4> QED
          BY <1>2, <2>2, RetransmitDoes, WithinTyped DEF FrameWithin
      <3>2. Repetition(c) \in Said(NoClient, B)
        <4> HIDE DEF c, B
        <4> QED
          BY <1>1, <1>2, <2>2, RepetitionSaid DEF Sending
      <3>3. SaidAll(snd, NoClient, B)
        <4>1. DOMAIN snd = 1..1
          BY <3>1
        <4> HIDE DEF snd
        <4> QED
          BY <3>1, <3>2, <4>1 DEF SaidAll
      <3>4. Passes(n, p, snd)
        <4>1. LET q == senderQueue[n][p] \o snd
              IN /\ Len(senderQueue'[n][p]) = Len(q)
                 /\ \A i \in 1..Len(q) : senderQueue'[n][p][i].seg = q[i].seg
          BY <2>2
        <4> HIDE DEF snd
        <4> QED
          BY <1>1, <3>1, <4>1, SameSegmentsPass DEF Flowing
      <3> QED
        BY <3>1, <3>3, <3>4
    <2> QED
      BY <2>1, <2>2 DEF GivesUp
  <1>5. PICK snd \in Seq(OutItem) : Passes(n, p, snd) /\ SaidAll(snd, NoClient, B)
    BY <1>4
  <1>6. Talks(c, e, snd, B)
    BY <1>1, <1>5 DEF Talks, Onward, Sending
  <1> QED
    BY <1>1, <1>5, <1>6, UnpromptedStreams

\* An acknowledgement, with or without data (ReceiveAck).
LEMMA HearsStreams ==
  ASSUME NEW n \in Node, NEW p \in Node, Flowing(n, p), Hears(n, p), Used(n, p)
  PROVE  Streams(n, p)' /\ Streams(p, n)'
  <1> DEFINE c   == clients[n][p]
             d   == clients[p][n]
             seg == Heard(n)
             B   == sendBuffer[n]
             C   == sendBuffer'[n]
             D   == sendBuffer[p]
             q   == file[n][p]
  <1>1. /\ Takes(n, p) /\ c # NoClient /\ TypedPair(n, p) /\ TypedPair(n, p)'
        /\ TypedPair(p, n) /\ TypedPair(p, n)'
    BY DEF Hears, Flowing, TypedPair
  <1>2. /\ c \in ClientWithin(B) /\ B \in Nat /\ D \in Nat /\ Counters(d)
        /\ q \in Seq(Nat)
    BY <1>1, PeerNumbers DEF TypedPair
  <1>3. seg \in Acks /\ seg \in Said(d, D)
    BY <1>1, TakesWire DEF TypedPair, Used, Flowing, Streams
  <1>4. InUse(c) /\ Sending(c) /\ Receiving(c, q, d, D)
    BY DEF Used, Flowing, Streams
  <1>5. Numbered(c)
    BY <1>1, <1>4 DEF InUse, Sending
  <1>6. PICK R \in {X \cup {seg} : X \in SUBSET c.messageBuffer} : \E last \in R :
          LET h == HandleAck(c, seg, R, last, B, FALSE)
          IN /\ IsRun(R, last, c, seg)
             /\ Speaks(n, p, h.c, h.snd)
             /\ file'[n][p] = IF InTurn(c, seg) THEN q \o Written(R, seg, last)
                              ELSE q
    BY DEF Hears, InTurn
  <1>15. PICK last \in R :
          LET h == HandleAck(c, seg, R, last, B, FALSE)
          IN /\ IsRun(R, last, c, seg)
             /\ Speaks(n, p, h.c, h.snd)
             /\ file'[n][p] = IF InTurn(c, seg) THEN q \o Written(R, seg, last)
                              ELSE q
    BY <1>6
  <1>7. R \in SUBSET Acks /\ R \subseteq c.messageBuffer \cup {seg}
    BY <1>1, <1>3, <1>4 DEF InUse
  <1> DEFINE h == HandleAck(c, seg, R, last, B, FALSE)
             e == h.c
             snd == h.snd
             r == IF InTurn(c, seg) THEN q \o Written(R, seg, last) ELSE q
  <1>8. IsRun(R, last, c, seg) /\ Speaks(n, p, e, snd) /\ file'[n][p] = r
    BY <1>15
  <1> HIDE DEF c, d, seg, B, D, q
  <1>9. Talks(c, e, snd, B) /\ Receiving(e, r, d, D)
    BY <1>2, <1>3, <1>4, <1>5, <1>7, <1>8, AckTalks
  <1> HIDE DEF h, e, snd, r
  <1>10. snd \in Seq(OutItem)
    BY <1>9 DEF Talks, SaidAll
  <1>11. Passes(n, p, snd)
    BY <1>1, <1>8, <1>10, SpeaksPasses DEF Takes, Speaks
  <1>12. Passes(p, n, <<>>)
    BY <1>1, TakesPasses
  <1>13. clients'[n][p] = e /\ SameSide(p, n)
    BY <1>1, <1>8 DEF Speaks, Takes
  <1>14. Talks(c, e, snd, C)
    <2>1. B <= C /\ C \in Nat /\ Counters(e)
      <3>1. Counters(clients'[n][p]) /\ C \in Nat
        BY <1>1, PeerNumbersNext DEF TypedPair
      <3> QED
        BY <1>13, <3>1 DEF Flowing, B
    <2>2. Onward(e, e)
      BY <2>1 DEF Onward, Counters
    <2>3. Said(e, B) \subseteq Said(e, C)
      BY <1>2, <2>1, <2>2, SaidMonotone
    <2> QED
      BY <1>9, <2>3 DEF Talks, SaidAll
  <1> QED
    BY <1>8, <1>9, <1>11, <1>12, <1>13, <1>14, SpokenStreams
       DEF Flowing, SameSide, c, d, D

\* ReceiveSynAck.
LEMMA CompletesStreams ==
  ASSUME NEW n \in Node, NEW p \in Node, Flowing(n, p), Completes(n, p),
         clients[n][p].state # "NONE", file[n][p] = <<>>
  PROVE  Streams(n, p)' /\ Streams(p, n)'
  <1> DEFINE c   == clients[n][p]
             d   == clients[p][n]
             seg == Heard(n)
             B   == sendBuffer[n]
             C   == sendBuffer'[n]
             D   == sendBuffer[p]
             h   == HandleSynAck(c, seg)
             e   == h.c
             snd == h.snd
  <1>1. /\ Takes(n, p) /\ c # NoClient /\ TypedPair(n, p) /\ TypedPair(n, p)'
        /\ TypedPair(p, n) /\ TypedPair(p, n)' /\ seg.flag = "SYN_ACK"
        /\ Speaks(n, p, e, snd) /\ file'[n][p] = <<>>
    BY DEF Completes, Flowing, TypedPair
  <1>2. c \in ClientWithin(B) /\ B \in Nat /\ D \in Nat /\ Counters(d)
    BY <1>1, PeerNumbers DEF TypedPair
  <1>3. seg \in Said(d, D) /\ seg \in ValidSegment
    <2>1. seg \in Said(d, D)
      BY <1>1, TakesWire DEF TypedPair, Flowing, Streams
    <2> QED
      BY <2>1 DEF Said, SegmentWithin
  <1>4. Numbered(c) /\ Receiving(c, <<>>, d, D)
    BY <1>1 DEF Flowing, Streams, Sending
  <1> HIDE DEF c, d, seg, B, D
  <1>5. Talks(c, e, snd, B) /\ Receiving(e, <<>>, d, D)
    BY <1>1, <1>2, <1>3, <1>4, SynAckTalks
  <1> HIDE DEF h, e, snd
  <1>6. snd \in Seq(OutItem)
    BY <1>5 DEF Talks, SaidAll
  <1>7. Passes(n, p, snd)
    BY <1>1, <1>6, SpeaksPasses DEF Takes, Speaks
  <1>8. Passes(p, n, <<>>)
    BY <1>1, TakesPasses
  <1>9. clients'[n][p] = e /\ SameSide(p, n)
    BY <1>1 DEF Speaks, Takes
  <1>10. Talks(c, e, snd, C)
    <2>1. B <= C /\ C \in Nat /\ Counters(e)
      <3>1. Counters(clients'[n][p]) /\ C \in Nat
        BY <1>1, PeerNumbersNext DEF TypedPair
      <3> QED
        BY <1>9, <3>1 DEF Flowing, B
    <2>2. Onward(e, e)
      BY <2>1 DEF Onward, Counters
    <2>3. Said(e, B) \subseteq Said(e, C)
      BY <1>2, <2>1, <2>2, SaidMonotone
    <2> QED
      BY <1>5, <2>3 DEF Talks, SaidAll
  <1> QED
    BY <1>1, <1>5, <1>7, <1>8, <1>9, <1>10, SpokenStreams
       DEF Flowing, SameSide, c, d, D

\* The client and the first segment of a handshake.
LEMMA GreetingSaid ==
  ASSUME NEW B \in Nat, NEW e \in ClientWithin(B), NEW flag \in {"SYN", "SYN_ACK"},
         NEW ack \in Nat, Greets(e, flag, ack)
  PROVE  /\ Numbered(e)
         /\ Control(flag, ISN, ack) \in Said(e, B)
         /\ SaidAll(<<Greeting(Control(flag, ISN, ack))>>, e, B)
  <1> DEFINE s == Control(flag, ISN, ack)
             g == Greeting(s)
  <1>1. ISN \in Nat /\ e.messagesSent \in Seq(InfoWithin(B))
    BY SizeAssumption, ClientNumbers
  <1>2. Numbered(e)
    <2>1. DOMAIN e.messagesSent = 1..1
      BY <1>1 DEF Greets
    <2>2. NumberedEntry(e.messagesSent[1], e.lastByteSent)
      BY DEF Greets, NumberedEntry
    <2> QED
      BY <1>1, <2>1, <2>2 DEF Greets, Numbered
  <1>3. s \in SegmentWithin(B)
    BY <1>1, ControlWithin DEF Flag
  <1>4. /\ s.flag = flag /\ s.seq = ISN /\ s.ack = ack /\ s.start = 0 /\ s.end = 0
    BY DEF Control
  <1> HIDE DEF s
  <1>5. s \in Said(e, B)
    BY <1>3, <1>4 DEF Said, RightlyNumbered, Greets
  <1>6. g \in OutItem /\ g.seg = s
    BY <1>3 DEF Greeting, OutItem, SegmentWithin, ValidSegment
  <1> HIDE DEF g
  <1>7. /\ <<g>> \in Seq(OutItem) /\ DOMAIN <<g>> = {1} /\ <<g>>[1] = g
    BY <1>6
  <1>8. SaidAll(<<g>>, e, B)
    BY <1>5, <1>6, <1>7 DEF SaidAll
  <1> QED
    BY <1>2, <1>5, <1>8 DEF s, g

\* Start: the SYN.
LEMMA CallsStreams ==
  ASSUME NEW n \in Node, NEW p \in Node, Flowing(n, p), Calls(n, p), Before(n, p)
  PROVE  Streams(n, p)' /\ Streams(p, n)'
  <1> DEFINE c == clients[n][p]
             e == clients'[n][p]
             C == sendBuffer'[n]
             D == sendBuffer[p]
             g == Greeting(Control("SYN", ISN, 0))
             snd == <<g>>
  <1>1. /\ Greets(e, "SYN", 0) /\ file'[n][p] = file[n][p] /\ SameWire(n, p)
        /\ Still(p, n) /\ senderQueue'[n][p] = Append(senderQueue[n][p], g)
        /\ TypedPair(n, p) /\ TypedPair(n, p)' /\ TypedPair(p, n) /\ TypedPair(p, n)'
    BY DEF Calls, Flowing, TypedPair
  <1>2. /\ c = NewClient("NONE", 0) /\ clients[p][n] = NoClient
        /\ file[n][p] = <<>> /\ D \in Nat
    BY <1>1, PeerNumbers DEF Before, NoFiles, TypedPair
  <1>3. e \in ClientWithin(C) /\ C \in Nat /\ e # NoClient
    BY <1>1, PeerNumbersNext DEF Greets, TypedPair
  <1>4. c.expected_ack = 0 /\ c.lastByteSent = 0 /\ c # NoClient
    <2>1. sendBuffer[n] \in Nat
      BY <1>1, PeerNumbers DEF TypedPair
    <2>2. c \in ClientWithin(sendBuffer[n])
      BY <1>2, <2>1, NewClientWithin DEF State
    <2>3. c # NoClient
      BY <2>1, <2>2, ClientExists
    <2>4. c.expected_ack = 0 /\ c.lastByteSent = 0
      BY <1>2 DEF NewClient
    <2> QED
      BY <2>3, <2>4
  <1>5. /\ e.expected_ack = 0 /\ e.lastByteSent = 0 /\ e.messageBuffer = {}
        /\ e.state # "ESTABLISHED"
    BY <1>1 DEF Greets
  <1> HIDE DEF c, e, C, D
  <1>6. Numbered(e) /\ SaidAll(snd, e, C)
    BY <1>1, <1>3, GreetingSaid
  <1> HIDE DEF g
  <1>7. snd \in Seq(OutItem)
    BY <1>6 DEF SaidAll
  <1>8. Onward(c, e)
    BY <1>4, <1>5 DEF Onward
  <1>9. Talks(c, e, snd, C)
    BY <1>6, <1>8 DEF Talks, Sending
  <1>10. Receiving(e, <<>>, NoClient, D)
    BY <1>2, <1>5 DEF Receiving, InOrder, Expects
  <1>11. senderQueue'[n][p] = senderQueue[n][p] \o snd
    <2>1. senderQueue[n][p] \in Seq(OutItem) /\ g \in OutItem
      <3>1. snd[1] \in OutItem
        BY <1>7
      <3> QED
        BY <1>1, <3>1 DEF TypedPair, Typed
    <2> QED
      BY <1>1, <2>1
  <1>12. Passes(n, p, snd)
    BY <1>1, <1>7, <1>11, SpeaksPasses
  <1>13. Passes(p, n, <<>>)
    BY <1>1, StillPasses
  <1> QED
    BY <1>1, <1>2, <1>9, <1>10, <1>12, <1>13, SpokenStreams
       DEF Flowing, Still, SameSide, c, e, C, D

\* ReceiveSyn: the SYN_ACK.
LEMMA AnswersStreams ==
  ASSUME NEW n \in Node, NEW p \in Node, Flowing(n, p), Answers(n, p), Calling(p, n)
  PROVE  Streams(n, p)' /\ Streams(p, n)'
  <1> DEFINE e == clients'[n][p]
             d == clients[p][n]
             C == sendBuffer'[n]
             D == sendBuffer[p]
             E == sendBuffer'[p]
             seg == Heard(n)
             g == Greeting(Control("SYN_ACK", ISN, ISN + 1))
             snd == <<g>>
  <1>1. /\ Takes(n, p) /\ seg.flag = "SYN" /\ clients[n][p] = NoClient
        /\ file'[n][p] = file[n][p] /\ SameSide(p, n) /\ SameWire(n, p)
        /\ TypedPair(n, p) /\ TypedPair(n, p)' /\ TypedPair(p, n) /\ TypedPair(p, n)'
    BY DEF Answers, Takes, Flowing, TypedPair
  <1>2. seg \in Said(d, D)
    BY <1>1, TakesWire DEF TypedPair, Flowing, Streams
  <1>3. seg.seq = ISN /\ ISN \in Nat
    BY <1>1, <1>2, SizeAssumption DEF Said, RightlyNumbered
  <1>4. /\ Greets(e, "SYN_ACK", ISN + 1)
        /\ senderQueue'[n][p] = Append(senderQueue[n][p], g)
    BY <1>3 DEF Answers
  <1>5. e \in ClientWithin(C) /\ C \in Nat /\ e # NoClient
    BY <1>1, <1>4, PeerNumbersNext DEF Greets, TypedPair
  <1>6. /\ Unheard(d) /\ Silent(n, p) /\ file[n][p] = <<>> /\ file[p][n] = <<>>
        /\ clients'[p][n] = d /\ file'[n][p] = <<>> /\ file'[p][n] = <<>>
    BY <1>1 DEF Calling, NoFiles, SameSide
  <1>7. /\ Counters(d) /\ d # NoClient /\ D \in Nat /\ E \in Nat /\ D <= E
        /\ d.last_ack = 0 /\ d.messageBuffer = {} /\ d.lastByteSent = 0
        /\ Sending(d) /\ OnWay(p, n, Said(d, D)) /\ Expects(d, <<>>)
    BY <1>1, <1>6, PeerNumbers, PeerNumbersNext
       DEF Unheard, Flowing, TypedPair, Streams, Receiving
  <1>8. /\ e.expected_ack = ISN + 1 /\ e.lastByteSent = 0 /\ e.messageBuffer = {}
        /\ e.last_ack = 0
    BY <1>4 DEF Greets
  <1>9. OnWay(n, p, Said(e, C))
    BY <1>6 DEF Silent, OnWay, NoneFrom, OnlyFrom
  <1> HIDE DEF e, d, C, D, E, seg
  <1>10. Numbered(e) /\ SaidAll(snd, e, C)
    <2> DEFINE ack == ISN + 1
    <2>1. ack \in Nat /\ Greets(e, "SYN_ACK", ack) /\ "SYN_ACK" \in {"SYN", "SYN_ACK"}
      BY <1>3, <1>4
    <2> HIDE DEF ack
    <2>2. Numbered(e) /\ SaidAll(<<Greeting(Control("SYN_ACK", ISN, ack))>>, e, C)
      BY <1>5, <2>1, GreetingSaid
    <2> QED
      BY <2>2 DEF ack
  <1> HIDE DEF g
  <1>11. snd \in Seq(OutItem)
    BY <1>10 DEF SaidAll
  <1>12. senderQueue'[n][p] = senderQueue[n][p] \o snd
    <2>1. senderQueue[n][p] \in Seq(OutItem) /\ g \in OutItem
      <3>1. snd[1] \in OutItem
        BY <1>11
      <3> QED
        BY <1>1, <3>1 DEF TypedPair, Typed
    <2> QED
      BY <1>4, <2>1
  <1>13. Passes(n, p, snd)
    BY <1>1, <1>11, <1>12, SpeaksPasses
  <1>14. Passes(p, n, <<>>)
    BY <1>1, TakesPasses
  <1>15. Receiving(d, <<>>, e, C)
    BY <1>3, <1>5, <1>7, <1>8 DEF Receiving, InOrder
  <1>16. Streams(n, p)'
    BY <1>5, <1>6, <1>9, <1>10, <1>13, <1>15, StreamsNext DEF Sending, e, C
  <1>17. Onward(d, d)
    BY <1>7 DEF Onward, Counters
  <1>18. OnWay(p, n, Said(d, E))
    <2>1. Said(d, D) \subseteq Said(d, E)
      BY <1>7, <1>17, SaidMonotone
    <2> QED
      BY <1>7, <2>1, OnWayMonotone
  <1>19. Receiving(e, <<>>, d, E)
    BY <1>3, <1>5, <1>7, <1>8 DEF Receiving, InOrder, Expects, Counters
  <1>20. SaidAll(<<>>, d, E)
    BY DEF SaidAll
  <1>21. Streams(p, n)'
    BY <1>6, <1>7, <1>14, <1>18, <1>19, <1>20, StreamsNext DEF e, E
  <1> QED
    BY <1>16, <1>21
-----------------------------------------------------------------------------
\* A connection in use.
LEMMA UsedStreams ==
  ASSUME UndisturbedTransfer, NEW n \in Node, NEW p \in Node, Flowing(n, p),
         Event(n, p), ~Calls(n, p), Used(n, p)
  PROVE  Streams(n, p)' /\ Streams(p, n)'
  <1>1. InUse(clients[n][p]) /\ TypedPair(n, p)
    BY DEF Used, Flowing
  <1>2. Takes(n, p) => Heard(n).flag = "ACK"
    BY <1>1, TakesWire DEF TypedPair, Used, Acks
  <1>3. ~Answers(n, p) /\ ~Completes(n, p)
    BY <1>2 DEF Answers, Completes
  <1>4. CASE Offers(n, p)
    BY <1>4, OffersStreams
  <1>5. CASE Repeats(n, p)
    BY <1>1, <1>5, RepeatsStreams
  <1>6. CASE GivesUp(n, p)
    BY <1>1, <1>6, GivesUpStreams
  <1>7. CASE Hears(n, p)
    BY <1>7, HearsStreams
  <1>8. CASE Discards(n, p) \/ Leaves(n, p) \/ Arrives(n, p) \/ GoesWrong(n, p)
    BY <1>8, QuietStreams
  <1> QED
    BY <1>3, <1>4, <1>5, <1>6, <1>7, <1>8 DEF Event

\* Any event, at the stage at which it happens.
LEMMA EventStreams ==
  ASSUME UndisturbedTransfer, NEW n \in Node, NEW p \in Node, Flowing(n, p),
         PairInv(n, p), Event(n, p)
  PROVE  Streams(n, p)' /\ Streams(p, n)'
  <1>1. TypedPair(n, p) /\ TypedPair(n, p)' /\ TypedPair(p, n) /\ TypedPair(p, n)'
    BY DEF Flowing, TypedPair
  <1>2. CASE Target[n] = p
    <2>1. Linked(n, p)
      BY <1>2 DEF PairInv
    <2>2. CASE phase[n] = "starting"
      <3>1. Before(n, p)
        BY <2>1, <2>2 DEF Linked
      <3>2. Calls(n, p)
        BY <1>1, <1>2, <3>1, BeforeEvent
      <3> QED
        BY <3>1, <3>2, CallsStreams
    <2>3. CASE phase[n] # "starting" /\ Calling(n, p)
      <3>1. Leaves(n, p) \/ Arrives(n, p)
        BY <1>1, <1>2, <2>3, CallingEvent
      <3> QED
        BY <3>1, QuietStreams
    <2>4. CASE phase[n] # "starting" /\ Answered(n, p)
      <3>1. Completes(n, p)
        BY <1>1, <1>2, <2>4, AnsweredEvent
      <3>2. clients[n][p].state # "NONE" /\ file[n][p] = <<>>
        BY <2>4 DEF Answered, Unheard, NoFiles
      <3> QED
        BY <3>1, <3>2, CompletesStreams
    <2>5. CASE phase[n] # "starting" /\ Connected(n, p)
      <3>1. Used(n, p) /\ ~Calls(n, p)
        BY <2>5 DEF Used, Connected, Calls
      <3> QED
        BY <3>1, UsedStreams
    <2> QED
      BY <2>1, <2>2, <2>3, <2>4, <2>5 DEF Linked
  <1>3. CASE Target[p] = n
    <2>1. Linked(p, n)
      BY <1>3 DEF PairInv
    <2>2. ~Calls(n, p)
      BY <1>3 DEF Calls, UndisturbedTransfer
    <2>3. CASE phase[p] = "starting"
      <3>1. Before(p, n)
        BY <2>1, <2>3 DEF Linked
      <3> QED
        BY <1>1, <1>3, <3>1, BeforeEvent
    <2>4. CASE phase[p] # "starting" /\ Calling(p, n)
      <3>1. Answers(n, p)
        BY <1>1, <1>3, <2>4, CallingEvent
      <3> QED
        BY <2>4, <3>1, AnswersStreams
    <2>5. CASE phase[p] # "starting" /\ Answered(p, n)
      <3>1. Leaves(n, p) \/ Arrives(n, p)
        BY <1>1, <1>3, <2>5, AnsweredEvent
      <3> QED
        BY <3>1, QuietStreams
    <2>6. CASE phase[p] # "starting" /\ Connected(p, n)
      <3>1. Used(n, p)
        BY <2>6 DEF Used, Connected
      <3> QED
        BY <2>2, <3>1, UsedStreams
    <2> QED
      BY <2>1, <2>3, <2>4, <2>5, <2>6 DEF Linked
  <1>4. CASE Target[n] # p /\ Target[p] # n
    <2>1. Stranger(n, p) /\ Stranger(p, n)
      BY <1>4 DEF PairInv
    <2>2. ~Event(n, p)
      BY <1>1, <1>4, <2>1, StrangerEvent
    <2> QED
      BY <2>2
  <1> QED
    BY <1>2, <1>3, <1>4

\* Any step of a pair.
LEMMA PairStreams ==
  ASSUME UndisturbedTransfer, NEW n \in Node, NEW p \in Node, Flowing(n, p),
         PairInv(n, p), PairEvent(n, p)
  PROVE  Streams(n, p)'
  <1>1. CASE NoEvent(n, p)
    BY <1>1, QuietStreams DEF NoEvent
  <1>2. CASE Event(n, p)
    BY <1>2, EventStreams
  <1>3. CASE Event(p, n)
    <2>1. Flowing(p, n)
      BY DEF Flowing, TypedPair
    <2>2. PairInv(p, n)
      BY DEF PairInv
    <2> QED
      BY <1>3, <2>1, <2>2, EventStreams
  <1> QED
    BY <1>1, <1>2, <1>3 DEF PairEvent

\* The stream invariant holds initially.
LEMMA InitNInv ==
  ASSUME Init
  PROVE  NInv
  <1> SUFFICES ASSUME NEW n \in Node, NEW p \in Node
               PROVE  Streams(n, p)
    BY DEF NInv
  <1>1. /\ senderQueue[n][p] = <<>> /\ network[n][p] = <<>>
        /\ receiverQueue[p] = <<>> /\ file[p][n] = <<>> /\ sendBuffer[n] = 0
        /\ clients[n][p] \in {NewClient("NONE", 0), NoClient}
        /\ clients[p][n] \in {NewClient("NONE", 0), NoClient}
    BY DEF Init
  <1>2. OnWay(n, p, Said(clients[n][p], sendBuffer[n]))
    BY <1>1 DEF OnWay, OnlyFrom
  <1>3. Sending(clients[n][p])
    BY <1>1 DEF Sending, NewClient
  <1>4. Receiving(clients[p][n], file[p][n], clients[n][p], sendBuffer[n])
    <2>1. InOrder(<<>>) /\ Len(<<>>) = 0
      BY DEF InOrder
    <2>2. /\ clients[p][n] # NoClient =>
               /\ clients[p][n].messageBuffer = {} /\ clients[p][n].expected_ack = 0
               /\ clients[p][n].last_ack = 0 /\ clients[p][n].state # "ESTABLISHED"
          /\ clients[n][p] # NoClient =>
               clients[n][p].lastByteSent = 0 /\ clients[n][p].expected_ack = 0
      BY <1>1 DEF NewClient
    <2> QED
      BY <1>1, <2>1, <2>2 DEF Receiving, Expects
  <1> QED
    BY <1>2, <1>3, <1>4 DEF Streams

\* Every step keeps the stream invariant.
LEMMA NextNInv ==
  ASSUME UndisturbedTransfer, IInv, IInv', HInv, NInv, [Next]_vars
  PROVE  NInv'
  <1>1. ASSUME NEW n \in Node, NEW p \in Node
        PROVE  Streams(n, p)'
    <2>1. TypedPair(n, p) /\ TypedPair(n, p)'
      BY PairTyped, PairTypedNext DEF TypedPair
    <2>2. sendBuffer[n] <= sendBuffer'[n] /\ sendBuffer[p] <= sendBuffer'[p]
      BY BufferGrows
    <2>3. Flowing(n, p)
      BY <2>1, <2>2 DEF Flowing, NInv
    <2>4. PairInv(n, p)
      BY DEF HInv
    <2>5. PairEvent(n, p)
      BY StepIsEvent
    <2> QED
      BY <2>3, <2>4, <2>5, PairStreams
  <1> QED
    BY <1>1 DEF NInv

\* The inductive invariant of an undisturbed transfer.
THEOREM StreamInvariant == UndisturbedTransfer => (Spec => [](IInv /\ HInv /\ NInv))
  <1> SUFFICES ASSUME UndisturbedTransfer
               PROVE  Spec => [](IInv /\ HInv /\ NInv)
    OBVIOUS
  <1>1. Init => NInv
    BY InitNInv
  <1>2. IInv /\ IInv' /\ HInv /\ NInv /\ [Next]_vars => NInv'
    BY NextNInv
  <1> QED
    BY <1>1, <1>2, InductiveInvariant, HandshakeInOrder, PTL DEF Spec

\* What arrives is a prefix of what was entered: no byte is lost, duplicated
\* or out of order, whatever the network does to data and acknowledgements.
THEOREM StreamIntact == UndisturbedTransfer => (Spec => []StreamIntegrity)
  <1>1. NInv => StreamIntegrity
    BY DEF NInv, Streams, Receiving, InOrder, StreamIntegrity
  <1> QED
    BY <1>1, StreamInvariant, PTL

\* In any reachable state of a pair, its clients have left the state NONE.
LEMMA PairedInUse ==
  ASSUME HInv, NEW n \in Node, NEW p \in Node, Paired(n, p)
  PROVE  clients[n][p].state # "NONE"
  <1>1. PairInv(n, p)
    BY DEF HInv
  <1>2. CASE Target[n] = p
    BY <1>1, <1>2 DEF PairInv, Linked, Before, Calling, Answered, Connected,
                      Paired, Unheard, InUse
  <1>3. CASE Target[p] = n
    BY <1>1, <1>3 DEF PairInv, Linked, Before, Calling, Answered, Connected,
                      Paired, Unheard, InUse
  <1>4. CASE Target[n] # p /\ Target[p] # n
    BY <1>1, <1>4 DEF PairInv, Stranger, Paired
  <1> QED
    BY <1>2, <1>3, <1>4

\* The counters of the two ends stay in order: the acknowledgement recorded is
\* one that was given, and what is acknowledged was sent.
THEOREM AcknowledgedWasSent == UndisturbedTransfer => (Spec => []AckWindow)
  <1>1. ASSUME IInv, HInv, NInv
        PROVE  AckWindow
    <2> SUFFICES ASSUME NEW n \in Node, NEW p \in Node, Paired(n, p)
                 PROVE  /\ clients[n][p].last_ack <= clients[p][n].expected_ack
                        /\ clients[p][n].expected_ack <= clients[n][p].expected_sequence
      BY DEF AckWindow
    <2> DEFINE c == clients[n][p]
               d == clients[p][n]
               q == file[p][n]
    <2>1. Streams(n, p) /\ Streams(p, n) /\ c # NoClient /\ d # NoClient
      BY <1>1 DEF NInv, Paired
    <2>2. c.last_ack <= d.expected_ack
      BY <2>1 DEF Streams, Receiving
    <2>3. Numbered(c)
      BY <1>1, <2>1, PairedInUse DEF Streams, Sending
    <2>4. Expects(d, q) /\ Len(q) <= c.lastByteSent
      BY <2>1 DEF Streams, Receiving
    <2>5. c.lastByteSent \in Nat /\ Len(q) \in Nat /\ ISN \in Nat
      <3>1. Counters(c) /\ q \in Seq(Nat)
        BY <1>1, PairTyped, PeerNumbers
      <3> QED
        BY <2>1, <3>1, SizeAssumption DEF Counters
    <2> HIDE DEF c, d, q
    <2>6. d.expected_ack <= c.expected_sequence
      BY <2>3, <2>4, <2>5 DEF Numbered, Expects
    <2> QED
      BY <2>2, <2>6 DEF c, d
  <1> QED
    BY <1>1, StreamInvariant, PTL
\* While a connection is established, its next expected number follows its file.
LEMMA WrittenIsAcknowledged ==
  ASSUME NEW n \in Node, NEW p \in Node, NInv, clients[n][p] # NoClient,
         clients[n][p].state = "ESTABLISHED"
  PROVE  clients[n][p].expected_ack = ISN + 1 + Len(file[n][p])
  <1>1. Expects(clients[n][p], file[n][p])
    BY DEF NInv, Streams, Receiving
  <1> QED
    BY <1>1 DEF Expects

\* While a connection stays established, the number it acknowledges moves by
\* the bytes written in the same step (communicate's ACK case).
THEOREM AcknowledgesItsFile ==
  UndisturbedTransfer => (Spec => AcknowledgesWhatItWrites)
  <1> DEFINE Stands(n, p) == /\ clients[n][p] # NoClient
                             /\ clients[n][p].state = "ESTABLISHED"
             Expected(n, p) == clients[n][p].expected_ack = ISN + 1 + Len(file[n][p])
             Follows == \A n, p \in Node : Stands(n, p) => Expected(n, p)
             Numbers == \A n, p \in Node : Len(file[n][p]) \in Nat
  <1>1. NInv => Follows
    BY WrittenIsAcknowledged
  <1>2. IInv => Numbers
    <2> SUFFICES ASSUME IInv, NEW n \in Node, NEW p \in Node
                 PROVE  Len(file[n][p]) \in Nat
      OBVIOUS
    <2>1. file[n][p] \in Seq(Nat)
      BY IInvTypeOK DEF TypeOK
    <2> QED
      BY <2>1
  <1>3. ASSUME Follows, Follows', Numbers, Numbers', NEW n \in Node, NEW p \in Node,
               Stands(n, p), Stands(n, p)'
        PROVE  clients'[n][p].expected_ack - clients[n][p].expected_ack
                 = Len(file'[n][p]) - Len(file[n][p])
    <2>1. Expected(n, p) /\ Expected(n, p)'
      BY <1>3
    <2>2. Len(file[n][p]) \in Nat /\ Len(file'[n][p]) \in Nat /\ ISN \in Nat
      BY <1>3, SizeAssumption
    <2> QED
      BY <2>1, <2>2
  <1>4. Follows /\ Follows' /\ Numbers /\ Numbers' =>
          \A n, p \in Node :
            /\ clients[n][p] # NoClient /\ clients'[n][p] # NoClient
            /\ clients[n][p].state = "ESTABLISHED"
            /\ clients'[n][p].state = "ESTABLISHED"
            => clients'[n][p].expected_ack - clients[n][p].expected_ack
                 = Len(file'[n][p]) - Len(file[n][p])
    BY <1>3
  <1> HIDE DEF Follows, Numbers
  <1> SUFFICES ASSUME UndisturbedTransfer
               PROVE  Spec => AcknowledgesWhatItWrites
    OBVIOUS
  <1>5. Spec => [](IInv /\ HInv /\ NInv)
    BY StreamInvariant
  <1> QED
    BY <1>1, <1>2, <1>4, <1>5, PTL DEF AcknowledgesWhatItWrites
-----------------------------------------------------------------------------
(* The transport as a reliable stream.  A client is given up only after more *)
(* timeouts than its program has had, so while timers run out no more often  *)
(* than a client tolerates, every step is one of ReliableStream or a stutter.*)

\* Timers run out no more often than a client bears.
TolerantTransfer == UndisturbedTransfer /\ MaxExpiries <= MAX_TIMEOUTS

\* Every timeout of a client is one of its program's.
Tolerated ==
  \A n, p \in Node :
    clients[n][p] # NoClient => clients[n][p].number_of_timeouts <= expiries[n]

SameTimeouts(c, d) == d.number_of_timeouts = c.number_of_timeouts

\* Creating a message counts no timeout.
LEMMA CreateMessageTimeouts ==
  ASSUME NEW B \in Nat, NEW h \in FrameWithin(B), NEW seg \in SegmentWithin(B),
         NEW state \in State
  PROVE  SameTimeouts(h.c, CreateMessage(h, seg, state).c)
  <1> DEFINE info == [seq |-> seg.seq, flag |-> seg.flag, start |-> seg.start,
                      size |-> SizeOf(seg), sent |-> "queued"]
             pushed == IsTracked(seg) /\ FrontSeqNum(h.c) # seg.seq
             item == [seg |-> seg, pushed |-> pushed, address |-> "peer"]
             d == PushMessage(h.c, info)
             c == IF pushed THEN d ELSE h.c
             e == [c EXCEPT !.state = state, !.expected_ack = seg.ack]
  <1>1. h.c \in ClientRecord(B)
    BY DEF FrameWithin, ClientWithin
  <1>2. SameTimeouts(h.c, d) /\ "number_of_timeouts" \in DOMAIN d
    <2> HIDE DEF info
    <2> QED
      BY <1>1 DEF PushMessage, ClientRecord, SameTimeouts
  <1>3. "number_of_timeouts" \in DOMAIN h.c
    BY <1>1 DEF ClientRecord
  <1> HIDE DEF d
  <1>4. SameTimeouts(h.c, c) /\ "number_of_timeouts" \in DOMAIN c
    BY <1>2, <1>3 DEF SameTimeouts
  <1>5. CreateMessage(h, seg, state) = [h EXCEPT !.c = e, !.snd = Append(@, item)]
    BY DEF CreateMessage, d
  <1> HIDE DEF c, pushed
  <1>6. SameTimeouts(h.c, e)
    BY <1>4 DEF SameTimeouts
  <1> HIDE DEF e, item
  <1>7. CreateMessage(h, seg, state).c = e
    BY <1>5 DEF FrameWithin
  <1> QED
    BY <1>6, <1>7

\* Neither does an acknowledgement.
LEMMA AcknowledgeTimeouts ==
  ASSUME NEW B \in Nat, NEW c \in ClientWithin(B), NEW seg
  PROVE  SameTimeouts(c, Acknowledge(c, seg))
  <1> DEFINE q == c.messagesSent
             k == Acked(q, seg.ack)
             rest == SubSeq(q, k + 1, Len(q))
             gone == ByteCount(SubSeq(q, 1, k))
  <1>1. Acknowledge(c, seg) =
          [c EXCEPT !.messagesSent = rest, !.totalSizeOfMessagesSent = @ - gone,
                    !.last_ack = seg.ack, !.windowSize = seg.win]
    BY DEF Acknowledge
  <1> HIDE DEF rest, gone
  <1> QED
    BY <1>1 DEF ClientWithin, ClientRecord, SameTimeouts

\* Nor keeping a segment aside.
LEMMA StoreTimeouts ==
  ASSUME NEW B \in Nat, NEW c \in ClientWithin(B), NEW seg \in ValidSegment
  PROVE  SameTimeouts(c, Store(Frame(c), seg).c)
  <1>1. Frame(c) \in FrameWithin(B) /\ Frame(c).c = c
    BY FrameOfClient DEF Frame
  <1> DEFINE h == Frame(c)
             buffer == {b \in h.c.messageBuffer : b.seq # seg.seq} \cup {seg}
             d == [c EXCEPT !.messageBuffer = buffer]
  <1> HIDE DEF h
  <1>2. Store(h, seg) = IF ARGS_RIGHT_TO_LEFT THEN [h EXCEPT !.alive = FALSE]
                        ELSE [h EXCEPT !.c = d]
    BY <1>1 DEF Store, FrameWithin, ClientWithin, ClientRecord, h
  <1> HIDE DEF buffer
  <1>3. SameTimeouts(c, d)
    BY DEF ClientWithin, ClientRecord, SameTimeouts
  <1> HIDE DEF d
  <1>4. Store(h, seg).c \in {c, d}
    BY <1>1, <1>2 DEF FrameWithin, h
  <1> QED
    BY <1>3, <1>4 DEF h, SameTimeouts

\* Nor sending.
LEMMA SendMessagesTimeouts ==
  ASSUME NEW B \in Nat, NEW c \in ClientWithin(B), NEW dataWritten \in BOOLEAN
  PROVE  SameTimeouts(c, SendMessages(Frame(c), B, dataWritten).c)
  <1> DEFINE h     == Frame(c)
             avail == c.windowSize - c.totalSizeOfMessagesSent
             start == c.lastByteSent
             end   == AtMost(B, start + AtMost(MAX_DATA_SIZE, avail - HEADER_SIZE))
             ack   == Control("ACK", c.expected_sequence, c.expected_ack)
             data  == [ack EXCEPT !.start = start, !.end = end]
             g     == CreateMessage(h, data, c.state)
             s     == SendMessages(h, B, dataWritten)
  <1> SUFFICES SameTimeouts(c, s.c)
    OBVIOUS
  <1>1. h \in FrameWithin(B) /\ h.c = c
    BY FrameOfClient DEF Frame
  <1> HIDE DEF h
  <1>2. /\ c.expected_sequence \in Nat /\ c.expected_ack \in Nat
        /\ c.windowSize \in Nat /\ c.totalSizeOfMessagesSent \in Int
        /\ c.lastByteSent \in 0..B /\ c.state \in State
    BY DEF ClientWithin, ClientRecord
  <1>3. ack \in SegmentWithin(B)
    BY <1>2, ControlWithin DEF Flag
  <1>4. SameTimeouts(c, CreateMessage(h, ack, c.state).c)
    BY <1>1, <1>2, <1>3, CreateMessageTimeouts
  <1>5. CASE MaySend(c, B)
    <2>1. start \in Nat /\ end \in Nat /\ start <= end /\ end <= B
      BY <1>2, <1>5, SizeAssumption DEF MaySend, AtMost
    <2>2. s = [g EXCEPT !.c.lastByteSent = end,
                        !.c.expected_sequence = @ + (end - start)]
      BY <1>1, <1>5 DEF SendMessages
    <2> HIDE DEF start, end
    <2>3. data \in SegmentWithin(B)
      BY <1>3, <2>1 DEF SegmentWithin, ValidSegment, Segment
    <2> HIDE DEF ack, data
    <2>4. SameTimeouts(c, g.c) /\ g \in FrameWithin(B)
      BY <1>1, <1>2, <2>3, CreateMessageTimeouts, CreateMessageWithin
    <2> HIDE DEF g, s
    <2> QED
      BY <2>2, <2>4 DEF FrameWithin, ClientWithin, ClientRecord, SameTimeouts
  <1>6. CASE ~MaySend(c, B)
    <2>1. s = IF dataWritten THEN CreateMessage(h, ack, c.state) ELSE h
      BY <1>1, <1>6 DEF SendMessages
    <2> HIDE DEF ack, s
    <2> QED
      BY <1>1, <1>4, <2>1 DEF SameTimeouts
  <1> QED
    BY <1>5, <1>6

\* The ACK case counts no timeout.
LEMMA HandleAckTimeouts ==
  ASSUME NEW B \in Nat, NEW c \in ClientWithin(B), NEW seg \in Acks,
         NEW R \in SUBSET Acks, NEW last \in R,
         c.messageBuffer \subseteq Acks, c.state \in {"SYN_SENT", "ESTABLISHED"}
  PROVE  SameTimeouts(c, HandleAck(c, seg, R, last, B, FALSE).c)
  <1> DEFINE h       == HandleAck(c, seg, R, last, B, FALSE)
             next    == NextSeq(last)
             stopper == {b \in c.messageBuffer : SizeOf(seg) > 0 /\ b.seq = next}
             through == IF stopper = {} THEN last ELSE CHOOSE b \in stopper : TRUE
             rest    == (c.messageBuffer \ (R \ {seg})) \ stopper
             state   == IF c.state = "SYN_SENT" THEN "ESTABLISHED" ELSE c.state
             d       == [c EXCEPT !.expected_ack = next, !.messageBuffer = rest,
                                  !.state = state]
             written == [through EXCEPT !.seq = next]
             w       == [c EXCEPT !.windowSize = seg.win]
             far     == c.last_ack < seg.ack /\ seg.ack <= c.expected_sequence
             some    == SizeOf(seg) > 0
  <1> SUFFICES SameTimeouts(c, h.c)
    OBVIOUS
  <1>1. c \in ClientRecord(B)
    BY DEF ClientWithin
  <1>2. /\ seg \in ValidSegment /\ seg.flag = "ACK" /\ last \in ValidSegment
        /\ through \in Acks
    BY DEF Acks
  <1>3. next \in Nat /\ some \in BOOLEAN /\ seg.win \in Nat
    <2>1. last.seq \in Nat /\ last.start \in Nat /\ last.end \in Nat
          /\ last.start <= last.end
      BY <1>2 DEF ValidSegment, Segment
    <2>2. last.seq + (last.end - last.start) \in Nat
      BY <2>1
    <2> QED
      BY <1>2, <2>2 DEF NextSeq, SizeOf, ValidSegment, Segment
  <1>4. \/ h = MessageHandler(Frame(c), seg, FALSE, B, FALSE)
        \/ h = Store(Frame(w), seg)
        \/ h = MessageHandler(Frame(d), written, some, B, FALSE)
        \/ h = Frame(c)
    <2> HIDE DEF w, d, written, some
    <2> QED
      BY DEF HandleAck, w, d, written, some
  <1>5. state \in State /\ state # "CLOSING" /\ rest \in SUBSET ValidSegment
    BY <1>1 DEF State, ClientRecord
  <1> HIDE DEF h, through, rest, state, next, some, far
  <1>6. /\ written \in ValidSegment /\ written.flag = "ACK"
        /\ d \in ClientWithin(B) /\ d.state # "CLOSING"
        /\ w \in ClientWithin(B) /\ SameTimeouts(c, d) /\ SameTimeouts(c, w)
    <2>1. written \in ValidSegment /\ written.flag = "ACK"
      BY <1>2, <1>3 DEF Acks, ValidSegment, Segment
    <2>2. d \in ClientWithin(B) /\ d.state # "CLOSING"
      BY <1>1, <1>3, <1>5 DEF ClientWithin, ClientRecord, Counted
    <2>3. w \in ClientWithin(B)
      BY <1>1, <1>3 DEF ClientWithin, ClientRecord, Counted
    <2>4. SameTimeouts(c, d) /\ SameTimeouts(c, w)
      BY <1>1 DEF ClientRecord, SameTimeouts
    <2> QED
      BY <2>1, <2>2, <2>3, <2>4
  <1> HIDE DEF written, d, w
  <1>7. ASSUME NEW e \in ClientWithin(B), NEW s \in ValidSegment, s.flag = "ACK",
               NEW x \in BOOLEAN, e.state # "CLOSING"
        PROVE  SameTimeouts(e, MessageHandler(Frame(e), s, x, B, FALSE).c)
    <2> DEFINE a == Acknowledge(e, s)
               m == MessageHandler(Frame(e), s, x, B, FALSE)
    <2>1. m \in {Store(Frame(a), s), SendMessages(Frame(a), B, x)}
      BY <1>7, MessageHandlerDoes
    <2>2. a \in ClientWithin(B) /\ SameTimeouts(e, a)
      BY AcknowledgeWithin, AcknowledgeTimeouts
    <2> HIDE DEF a, m
    <2>3. /\ SameTimeouts(a, Store(Frame(a), s).c)
          /\ SameTimeouts(a, SendMessages(Frame(a), B, x).c)
      BY <2>2, StoreTimeouts, SendMessagesTimeouts
    <2>4. SameTimeouts(e, m.c)
      BY <2>1, <2>2, <2>3 DEF SameTimeouts
    <2> QED
      BY <2>4 DEF m
  <1>8. SameTimeouts(c, MessageHandler(Frame(c), seg, FALSE, B, FALSE).c)
    BY <1>2, <1>7
  <1>9. SameTimeouts(d, MessageHandler(Frame(d), written, some, B, FALSE).c)
    BY <1>3, <1>6, <1>7
  <1>10. SameTimeouts(w, Store(Frame(w), seg).c)
    BY <1>2, <1>6, StoreTimeouts
  <1>11. Frame(c).c = c
    BY DEF Frame
  <1> QED
    BY <1>4, <1>6, <1>8, <1>9, <1>10, <1>11 DEF SameTimeouts

\* The SYN_ACK case counts no timeout.
LEMMA HandleSynAckTimeouts ==
  ASSUME NEW B \in Nat, NEW c \in ClientWithin(B), NEW seg \in ValidSegment
  PROVE  SameTimeouts(c, HandleSynAck(c, seg).c)
  <1> DEFINE ack == Control("ACK", c.expected_sequence, seg.seq + 1)
             g   == CreateMessage(Frame(c), ack, "ESTABLISHED")
             e   == Acknowledge(g.c, seg)
             h   == HandleSynAck(c, seg)
  <1> SUFFICES SameTimeouts(c, h.c)
    OBVIOUS
  <1>1. c.expected_sequence \in Nat /\ seg.seq + 1 \in Nat
    BY DEF ClientWithin, ClientRecord, ValidSegment, Segment
  <1>2. Frame(c) \in FrameWithin(B) /\ Frame(c).c = c
    BY FrameOfClient DEF Frame
  <1>3. ack \in SegmentWithin(B)
    BY <1>1, ControlWithin DEF Flag
  <1>4. h \in {[g EXCEPT !.c = e], Frame(c)}
    BY DEF HandleSynAck
  <1> HIDE DEF ack, h
  <1>5. g \in FrameWithin(B) /\ SameTimeouts(c, g.c)
    BY <1>2, <1>3, CreateMessageWithin, CreateMessageTimeouts DEF State
  <1> HIDE DEF g
  <1>6. SameTimeouts(g.c, e)
    BY <1>5, AcknowledgeTimeouts DEF FrameWithin
  <1> HIDE DEF e
  <1>7. h.c \in {e, c}
    BY <1>2, <1>4, <1>5 DEF FrameWithin
  <1> QED
    BY <1>5, <1>6, <1>7 DEF SameTimeouts

\* A new client has had no timeout, and the SYN case counts none.
LEMMA HandleSynTimeouts ==
  ASSUME NEW B \in Nat, NEW c \in ClientWithin(B) \cup {NoClient},
         NEW seg \in ValidSegment
  PROVE  LET h == HandleSyn(c, seg)
         IN IF c = NoClient THEN h.c.number_of_timeouts = 0
            ELSE SameTimeouts(c, h.c)
  <1> DEFINE d == IF c = NoClient THEN NewClient("SYN_RECEIVED", seg.seq + 1) ELSE c
             synAck == Control("SYN_ACK", ISN, seg.seq + 1)
             g == CreateMessage(Frame(d), synAck, "SYN_SENT")
             e == [g.c EXCEPT !.expected_sequence = ISN + 1]
             h == HandleSyn(c, seg)
  <1> SUFFICES IF c = NoClient THEN h.c.number_of_timeouts = 0
               ELSE SameTimeouts(c, h.c)
    OBVIOUS
  <1>1. seg.seq + 1 \in Nat /\ ISN \in Nat
    BY SizeAssumption DEF ValidSegment, Segment
  <1>2. d \in ClientWithin(B)
    BY <1>1, NewClientWithin DEF State
  <1>3. IF c = NoClient THEN d.number_of_timeouts = 0 ELSE SameTimeouts(c, d)
    BY DEF NewClient, SameTimeouts
  <1>4. h = [g EXCEPT !.c.expected_sequence = ISN + 1]
    BY DEF HandleSyn
  <1> HIDE DEF d, h
  <1>5. synAck \in SegmentWithin(B) /\ Frame(d) \in FrameWithin(B) /\ Frame(d).c = d
    BY <1>1, <1>2, ControlWithin, FrameOfClient DEF Flag, Frame
  <1> HIDE DEF synAck
  <1>6. g \in FrameWithin(B) /\ SameTimeouts(d, g.c)
    BY <1>5, CreateMessageWithin, CreateMessageTimeouts DEF State
  <1> HIDE DEF g
  <1>7. SameTimeouts(g.c, e)
    BY <1>6 DEF FrameWithin, ClientWithin, ClientRecord, SameTimeouts
  <1>8. h.c = e
    BY <1>4, <1>6 DEF FrameWithin, ClientWithin, ClientRecord
  <1> QED
    BY <1>3, <1>6, <1>7, <1>8 DEF SameTimeouts

\* A retransmission counts one.
LEMMA RetransmitTimeouts ==
  ASSUME NEW B \in Nat, NEW c \in ClientWithin(B), c.messagesSent # <<>>
  PROVE  Retransmit(c).c.number_of_timeouts = c.number_of_timeouts + 1
  <1> DEFINE f    == Head(c.messagesSent)
             seg  == Repetition(c)
             d    == [c EXCEPT !.totalSizeOfMessagesSent = @ + HEADER_SIZE + f.size]
             g    == CreateMessage(Frame(d), seg, c.state)
             h    == Retransmit(c)
  <1> SUFFICES h.c.number_of_timeouts = c.number_of_timeouts + 1
    OBVIOUS
  <1>1. h = [g EXCEPT !.c.number_of_timeouts = @ + 1]
    BY DEF Retransmit, Repetition
  <1>2. /\ f \in InfoWithin(B) /\ c.state \in State /\ c.expected_ack \in Nat
        /\ c.windowSize \in Nat /\ c.totalSizeOfMessagesSent \in Int
    BY DEF ClientWithin, ClientRecord
  <1>3. seg \in SegmentWithin(B)
    BY <1>2 DEF Repetition, InfoWithin, SegmentInfo, SegmentWithin, ValidSegment,
                Segment
  <1> HIDE DEF h, seg
  <1>4. d \in ClientWithin(B) /\ SameTimeouts(c, d)
    <2> DEFINE t == c.totalSizeOfMessagesSent + HEADER_SIZE + f.size
    <2>1. f.size \in Nat /\ c.messagesSent \in Seq(SegmentInfo)
      <3>1. f.size \in Nat
        BY <1>2 DEF InfoWithin, SegmentInfo
      <3>2. c.messagesSent \in Seq(InfoWithin(B)) /\ InfoWithin(B) \subseteq SegmentInfo
        BY DEF ClientWithin, ClientRecord, InfoWithin
      <3> QED
        BY <3>1, <3>2, SeqMonotone
    <2>2. ByteCount(c.messagesSent) \in Nat
      BY <2>1, ByteCountTyped
    <2> HIDE DEF f
    <2>3. t \in Int /\ t >= ByteCount(c.messagesSent)
      BY <1>2, <2>1, <2>2, SizeAssumption DEF ClientWithin, Counted
    <2>4. d = [c EXCEPT !.totalSizeOfMessagesSent = t]
      OBVIOUS
    <2> HIDE DEF t, d
    <2> QED
      BY <2>3, <2>4 DEF ClientWithin, ClientRecord, Counted, SameTimeouts
  <1> HIDE DEF d
  <1>5. Frame(d) \in FrameWithin(B) /\ Frame(d).c = d
    BY <1>4, FrameOfClient DEF Frame
  <1>6. g \in FrameWithin(B) /\ SameTimeouts(d, g.c)
    BY <1>2, <1>3, <1>5, CreateMessageWithin, CreateMessageTimeouts
  <1> HIDE DEF g
  <1>7. h.c.number_of_timeouts = g.c.number_of_timeouts + 1
    BY <1>1, <1>6 DEF FrameWithin, ClientWithin, ClientRecord
  <1> QED
    BY <1>4, <1>6, <1>7 DEF SameTimeouts
-----------------------------------------------------------------------------
(* Clients, step by step: who is kept, and who comes.                        *)

\* c is kept as e.
SamePeer(c, e) ==
  /\ e = NoClient <=> c = NoClient
  /\ c # NoClient => SameTimeouts(c, e)

\* Nobody comes or goes in this step, and no timer runs out.
Kept == \A x, y \in Node : SamePeer(clients[x][y], clients'[x][y])

\* A client marked by the sender thread.
LEMMA StampKept ==
  ASSUME NEW B \in Nat, NEW c \in ClientWithin(B), NEW seq, NEW mark \in SendMark
  PROVE  SamePeer(c, Stamp(c, seq, mark))
  <1> DEFINE q == c.messagesSent
             d == Stamp(c, seq, mark)
  <1>1. d \in ClientWithin(B)
    BY StampWithin
  <1>2. SameTimeouts(c, d)
    <2>1. \E r : d = [c EXCEPT !.messagesSent = r]
      BY DEF Stamp
    <2> HIDE DEF d
    <2> QED
      BY <2>1 DEF ClientWithin, ClientRecord, SameTimeouts
  <1> HIDE DEF d
  <1>3. c # NoClient /\ d # NoClient
    BY <1>1, ClientExists
  <1> QED
    BY <1>2, <1>3 DEF SamePeer, d

\* A step that changes one client.
LEMMA OneKept ==
  ASSUME IInv, NEW m \in Node, NEW q \in Node, NEW c,
         clients' = [clients EXCEPT ![m][q] = c], SamePeer(clients[m][q], c)
  PROVE  Kept
  <1>1. clients \in [Node -> [Node -> Client \cup {NoClient}]]
    BY DEF IInv, ProtocolWithin, Clients
  <1>2. clients'[m][q] = c
    BY <1>1
  <1>3. \A x, y \in Node : x # m \/ y # q => clients'[x][y] = clients[x][y]
    BY <1>1
  <1>4. \A x, y \in Node : clients'[x][y] = clients[x][y]
                              => SamePeer(clients[x][y], clients'[x][y])
    BY DEF SamePeer, SameTimeouts
  <1> QED
    BY <1>2, <1>3, <1>4 DEF Kept

\* A step that changes none.
LEMMA AllKept ==
  ASSUME clients' = clients
  PROVE  Kept
  BY DEF Kept, SamePeer, SameTimeouts

\* The SYN of a program with a target.
LEMMA StartKept ==
  ASSUME IInv, NEW m \in Node, Start(m)
  PROVE  Kept
  <1> DEFINE q   == Target[m]
             c   == clients[m][q]
             seg == Control("SYN", ISN, 0)
             h   == CreateMessage(Frame(c), seg, "SYN_SENT")
             d   == [h.c EXCEPT !.expected_sequence = ISN + 1]
             B   == sendBuffer[m]
  <1>1. CASE /\ q \in Node /\ c # NoClient
             /\ clients' = [clients EXCEPT ![m][q] = d]
    <2>1. c \in ClientWithin(B) /\ B \in Nat
      BY <1>1, OnePeer
    <2> HIDE DEF c, B
    <2>2. seg \in SegmentWithin(B) /\ Frame(c) \in FrameWithin(B) /\ Frame(c).c = c
      BY <2>1, SizeAssumption, ControlWithin, FrameOfClient DEF Flag, Frame
    <2> HIDE DEF seg
    <2>3. h \in FrameWithin(B) /\ SameTimeouts(c, h.c)
      BY <2>1, <2>2, CreateMessageWithin, CreateMessageTimeouts DEF State
    <2> HIDE DEF h
    <2> DEFINE e == h.c
    <2>4. e \in ClientWithin(B) /\ ISN + 1 \in Nat
      BY <2>3, SizeAssumption DEF FrameWithin
    <2>5. d = [e EXCEPT !.expected_sequence = ISN + 1]
      OBVIOUS
    <2>6. SameTimeouts(c, e)
      BY <2>3
    <2> HIDE DEF d, e
    <2>7. SameTimeouts(c, d)
      BY <2>4, <2>5, <2>6 DEF ClientWithin, ClientRecord, SameTimeouts
    <2>8. d \in ClientWithin(B)
      BY <2>4, <2>5 DEF ClientWithin, ClientRecord, Counted
    <2>9. c # NoClient /\ d # NoClient
      BY <2>1, <2>8, ClientExists
    <2>10. SamePeer(c, d)
      BY <2>7, <2>9 DEF SamePeer
    <2> HIDE DEF q
    <2> QED
      BY <1>1, <2>10, OneKept DEF c
  <1>2. CASE clients' = clients
    BY <1>2, AllKept
  <1> QED
    BY <1>1, <1>2 DEF Start

\* The SYN_ACK case.
LEMMA ReceiveSynAckKept ==
  ASSUME IInv, NEW m \in Node, ReceiveSynAck(m)
  PROVE  Kept
  <1> DEFINE q   == Head(receiverQueue[m]).from
             seg == Head(receiverQueue[m]).seg
             c   == clients[m][q]
             h   == HandleSynAck(c, seg)
             B   == sendBuffer[m]
  <1>1. receiverQueue[m] # <<>> /\ c # NoClient /\ Handled(m, h)
    BY DEF ReceiveSynAck, Arrived, Known
  <1>2. q \in Node /\ seg \in ValidSegment
    BY <1>1, ArrivalHead
  <1>3. c \in ClientWithin(B) /\ B \in Nat
    BY <1>1, <1>2, OnePeer
  <1>4. clients' = [clients EXCEPT ![m][q] = h.c]
    BY <1>1 DEF Handled
  <1> HIDE DEF q, seg, c, B
  <1>5. h \in FrameWithin(B) /\ SameTimeouts(c, h.c)
    BY <1>2, <1>3, HandleSynAckWithin, HandleSynAckTimeouts
  <1> HIDE DEF h
  <1>6. SamePeer(c, h.c)
    <2>1. h.c \in ClientWithin(B)
      BY <1>5 DEF FrameWithin
    <2>2. h.c # NoClient
      BY <1>3, <2>1, ClientExists
    <2> QED
      BY <1>1, <1>5, <2>2 DEF SamePeer
  <1> QED
    BY <1>2, <1>4, <1>6, OneKept DEF c

\* What the ACK case does to the client and to the file.
LEMMA ReceiveAckKept ==
  ASSUME UndisturbedTransfer, IInv, HInv, NEW m \in Node, ReceiveAck(m)
  PROVE  /\ Kept
         /\ \E q \in Node : \E w \in Seq(Nat) :
              /\ clients[m][q] # NoClient
              /\ file' = [file EXCEPT ![m][q] = @ \o w]
  <1> DEFINE q   == Head(receiverQueue[m]).from
             seg == Head(receiverQueue[m]).seg
             c   == clients[m][q]
             B   == sendBuffer[m]
             Rs  == {X \cup {seg} : X \in SUBSET c.messageBuffer}
             h(R, last) == HandleAck(c, seg, R, last, B, FALSE)
  <1>1. receiverQueue[m] # <<>> /\ c # NoClient /\ seg.flag = "ACK"
    BY DEF ReceiveAck, Arrived, Known
  <1>2. /\ q \in Node /\ seg \in Acks /\ InUse(c)
    BY <1>1, ArrivalStage
  <1>3. c \in ClientWithin(B) /\ B \in Nat
    BY <1>1, <1>2, OnePeer
  <1>4. timeToClose[m] = FALSE
    <2>1. ~timeToClose[m] /\ timeToClose[m] \in BOOLEAN
      BY OnePeer DEF HInv, OnlyTransfer
    <2> QED
      BY <2>1
  <1>5. PICK R \in Rs : \E last \in R :
          /\ IsRun(R, last, c, seg) /\ Handled(m, h(R, last))
          /\ file' = [file EXCEPT ![m][q] =
               IF seg.seq = c.expected_ack /\ AckInRange(c, seg)
               THEN @ \o Written(R, seg, last) ELSE @]
    BY <1>4 DEF ReceiveAck
  <1>6. PICK last \in R :
          /\ IsRun(R, last, c, seg) /\ Handled(m, h(R, last))
          /\ file' = [file EXCEPT ![m][q] =
               IF seg.seq = c.expected_ack /\ AckInRange(c, seg)
               THEN @ \o Written(R, seg, last) ELSE @]
    BY <1>5
  <1>7. R \in SUBSET Acks /\ R \in SUBSET ValidSegment /\ seg \in ValidSegment
    BY <1>1, <1>2 DEF InUse, Acks
  <1>8. clients' = [clients EXCEPT ![m][q] = h(R, last).c]
    BY <1>6 DEF Handled
  <1>9. Written(R, seg, last) \in Seq(Nat) /\ <<>> \in Seq(Nat)
    BY <1>6, <1>7, WrittenTyped
  <1>10. file \in [Node -> [Node -> Seq(Nat)]]
    BY DEF IInv, ArrivalsValid
  <1> DEFINE g == h(R, last)
             w == IF seg.seq = c.expected_ack /\ AckInRange(c, seg)
                  THEN Written(R, seg, last) ELSE <<>>
  <1>11. file' = [file EXCEPT ![m][q] = @ \o w] /\ w \in Seq(Nat)
    <2>1. file[m][q] \in Seq(Nat)
      BY <1>2, <1>10
    <2>2. file[m][q] \o <<>> = file[m][q]
      BY <2>1
    <2> HIDE DEF g, q, seg, c
    <2> QED
      BY <1>6, <1>9, <2>2
  <1> HIDE DEF q, seg, c, B, w
  <1>12. g \in FrameWithin(B) /\ SameTimeouts(c, g.c)
    <2>1. g \in FrameWithin(B)
      BY <1>3, <1>7, HandleAckWithin
    <2>2. SameTimeouts(c, g.c)
      BY <1>1, <1>2, <1>3, <1>7, HandleAckTimeouts DEF InUse
    <2> QED
      BY <2>1, <2>2
  <1> HIDE DEF g
  <1>13. SamePeer(c, g.c)
    <2>1. g.c \in ClientWithin(B)
      BY <1>12 DEF FrameWithin
    <2>2. g.c # NoClient
      BY <1>3, <2>1, ClientExists
    <2> QED
      BY <1>1, <1>12, <2>2 DEF SamePeer
  <1>14. Kept
    BY <1>2, <1>8, <1>13, OneKept DEF c, g
  <1> QED
    BY <1>1, <1>2, <1>11, <1>14 DEF c

\* The sender thread.
LEMMA DequeueKept ==
  ASSUME IInv, NEW m \in Node, NEW q \in Node, NEW mark \in SendMark,
         Dequeue(m, q, mark)
  PROVE  Kept
  <1> DEFINE seq == Head(senderQueue[m][q]).seg.seq
             c   == clients[m][q]
  <1>1. CASE clients' = clients
    BY <1>1, AllKept
  <1>2. CASE c # NoClient /\ clients' = [clients EXCEPT ![m][q] = Stamp(@, seq, mark)]
    <2>1. c \in ClientWithin(sendBuffer[m]) /\ sendBuffer[m] \in Nat
      BY <1>2, OnePeer
    <2>2. clients' = [clients EXCEPT ![m][q] = Stamp(c, seq, mark)]
      BY <1>2
    <2> HIDE DEF c, seq
    <2> QED
      BY <2>1, <2>2, StampKept, OneKept DEF c
  <1> QED
    BY <1>1, <1>2 DEF Dequeue

\* An input.
LEMMA InsertInputKept ==
  ASSUME IInv, NEW m \in Node, InsertInput(m)
  PROVE  Kept
  <1> DEFINE size == sendBuffer[m] + Head(inputQueue[m])
             h    == [p \in Node |->
                        IF /\ p \in Opened(m)
                           /\ clients[m][p].state \in {"ESTABLISHED", "CLOSING"}
                        THEN SendMessages(Frame(clients[m][p]), size, FALSE)
                        ELSE Frame(clients[m][p])]
  <1>1. HandledAll(m, h, {}) /\ inputQueue[m] # <<>>
    BY DEF InsertInput
  <1>2. size \in Nat /\ sendBuffer[m] \in Nat /\ sendBuffer[m] <= size
    <2>1. inputQueue[m] \in Seq(Nat) /\ sendBuffer[m] \in Nat
      BY DEF IInv, ControlTyped, ProtocolWithin
    <2>2. Head(inputQueue[m]) \in Nat
      BY <1>1, <2>1
    <2> QED
      BY <2>1, <2>2
  <1> HIDE DEF size
  <1>3. /\ \A x, y \in Node : x = m \/ clients'[x][y] = clients[x][y]
        /\ \A y \in Node : clients'[m][y] = h[y].c
    <2> HIDE DEF h
    <2>1. ActsOnAll(m, h, {})
      BY <1>1, HandledAllPeer
    <2> QED
      BY <2>1 DEF ActsOnAll, Speaks
  <1>4. \A c : SamePeer(c, c)
    BY DEF SamePeer, SameTimeouts
  <1>5. ASSUME NEW y \in Node
        PROVE  SamePeer(clients[m][y], h[y].c)
    <2> DEFINE c == clients[m][y]
               g == SendMessages(Frame(c), size, FALSE)
    <2>1. CASE y \in Opened(m) /\ c.state \in {"ESTABLISHED", "CLOSING"}
      <3>1. c \in ClientWithin(size) /\ c # NoClient
        BY <1>2, <2>1, OpenedWithin DEF Opened
      <3>2. h[y] = g
        BY <2>1
      <3> HIDE DEF c, h
      <3>3. g \in FrameWithin(size) /\ SameTimeouts(c, g.c)
        BY <1>2, <3>1, FrameOfClient, SendMessagesWithin, SendMessagesTimeouts
      <3> HIDE DEF g
      <3>4. g.c \in ClientWithin(size)
        BY <3>3 DEF FrameWithin
      <3>5. g.c # NoClient
        BY <1>2, <3>4, ClientExists
      <3>6. SamePeer(c, g.c)
        BY <3>1, <3>3, <3>5 DEF SamePeer
      <3> QED
        BY <3>2, <3>6 DEF c
    <2>2. CASE ~(y \in Opened(m) /\ c.state \in {"ESTABLISHED", "CLOSING"})
      <3>1. h[y].c = c
        BY <2>2 DEF Frame
      <3> QED
        BY <1>4, <3>1
    <2> QED
      BY <2>1, <2>2
  <1> HIDE DEF h
  <1> QED
    BY <1>3, <1>4, <1>5 DEF Kept

\* The clients are the same ones.
SamePeers == \A x, y \in Node : clients'[x][y] = NoClient <=> clients[x][y] = NoClient

\* A step that keeps the clients counts no timeout.
LEMMA KeptTolerated ==
  ASSUME Kept, Tolerated, expiries' = expiries
  PROVE  Tolerated' /\ SamePeers
  BY DEF Kept, SamePeer, SameTimeouts, Tolerated, SamePeers

\* No connection is closed while it is in use.
LEMMA NobodyClosed ==
  ASSUME HInv, NEW n \in Node, NEW p \in Node, clients[n][p] # NoClient
  PROVE  clients[n][p].state # "CLOSED"
  <1>1. PairInv(n, p) /\ PairInv(p, n)
    BY DEF HInv
  <1>2. CASE Target[n] = p
    BY <1>1, <1>2 DEF PairInv, Linked, Before, Calling, Answered, Connected,
                      Unheard, InUse, NewClient
  <1>3. CASE Target[p] = n
    BY <1>1, <1>3 DEF PairInv, Linked, Before, Calling, Answered, Connected,
                      Unheard, InUse, NewClient
  <1>4. CASE Target[n] # p /\ Target[p] # n
    BY <1>1, <1>4 DEF PairInv, Stranger
  <1> QED
    BY <1>2, <1>3, <1>4

\* messageResendCheck retransmits, and gives nobody up yet.
LEMMA ResendTolerated ==
  ASSUME TolerantTransfer, IInv, HInv, Tolerated, NEW m \in Node,
         MessageResendCheck(m)
  PROVE  Tolerated' /\ SamePeers
  <1> DEFINE c(p)   == clients[m][p]
             closed == {p \in Opened(m) : c(p).state = "CLOSED"}
             timed  == {p \in Opened(m) \ closed : MayExpire(m, p)}
             hs(expired) == [p \in Node |-> IF p \in expired THEN Retransmit(c(p))
                                            ELSE Frame(c(p))]
  <1>1. PICK expired \in SUBSET timed :
          /\ expiries[m] + Cardinality(expired) <= MaxExpiries
          /\ expiries' = [expiries EXCEPT ![m] = @ + Cardinality(expired)]
          /\ HandledAll(m, hs(expired), closed \cup
            {p \in expired : hs(expired)[p].c.number_of_timeouts > MAX_TIMEOUTS})
    BY DEF MessageResendCheck, GivenUp
  <1> DEFINE h    == hs(expired)
             gone == closed \cup {p \in expired : h[p].c.number_of_timeouts > MAX_TIMEOUTS}
             k    == Cardinality(expired)
  <1>2. ASSUME NEW y \in Node
        PROVE  h[y] = IF y \in expired THEN Retransmit(c(y)) ELSE Frame(c(y))
    OBVIOUS
  <1>3. ASSUME NEW y \in expired
        PROVE  y \in Node /\ c(y) # NoClient /\ c(y).messagesSent # <<>>
    BY DEF MayExpire, FrontStamped, Opened
  <1>4. closed = {}
    BY NobodyClosed DEF Opened
  <1>5. expired \subseteq Node /\ IsFiniteSet(expired)
    BY <1>3, NodeAssumption, FS_Subset
  <1>6. /\ expiries \in [Node -> Nat] /\ MaxExpiries \in Nat /\ MAX_TIMEOUTS \in Nat
        /\ MaxExpiries <= MAX_TIMEOUTS
    BY BoundAssumption DEF IInv, ControlTyped, TolerantTransfer
  <1>7. k \in Nat /\ (expired # {} => k > 0)
    BY <1>5, FS_CardinalityType, FS_EmptySet
  <1>8. expiries[m] + k <= MaxExpiries /\ expiries' = [expiries EXCEPT ![m] = @ + k]
    BY <1>1
  <1>9. ActsOnAll(m, h, gone)
    BY <1>1, HandledAllPeer
  <1> HIDE DEF closed, timed, k
  <1>10. ASSUME NEW y \in expired
         PROVE  /\ Retransmit(c(y)).c # NoClient
                /\ Retransmit(c(y)).c.number_of_timeouts <= expiries[m] + 1
                /\ Retransmit(c(y)).c.number_of_timeouts <= MAX_TIMEOUTS
    <2> DEFINE B == sendBuffer[m]
               g == Retransmit(c(y))
    <2>1. c(y) \in ClientWithin(B) /\ B \in Nat
      BY <1>3, OnePeer
    <2>2. c(y).number_of_timeouts \in Nat
      BY <2>1 DEF ClientWithin, ClientRecord
    <2>3. c(y).number_of_timeouts <= expiries[m]
      BY <1>3 DEF Tolerated
    <2>4. g.c.number_of_timeouts = c(y).number_of_timeouts + 1 /\ g \in FrameWithin(B)
      BY <1>3, <2>1, RetransmitTimeouts, RetransmitWithin
    <2> HIDE DEF g, B
    <2>5. g.c \in ClientWithin(B)
      BY <2>4 DEF FrameWithin
    <2>6. g.c # NoClient
      BY <2>1, <2>5, ClientExists
    <2>7. k > 0
      BY <1>7
    <2>8. expiries[m] \in Nat
      BY <1>6
    <2>9. /\ g.c.number_of_timeouts <= expiries[m] + 1
          /\ g.c.number_of_timeouts <= MAX_TIMEOUTS
      BY <1>6, <1>7, <1>8, <2>2, <2>3, <2>4, <2>7, <2>8
    <2> QED
      BY <2>6, <2>9 DEF g
  <1>11. gone = {}
    <2> SUFFICES ASSUME NEW y \in gone
                 PROVE  FALSE
      OBVIOUS
    <2>1. y \in expired /\ h[y].c.number_of_timeouts > MAX_TIMEOUTS
      BY <1>4
    <2> DEFINE t == Retransmit(c(y)).c.number_of_timeouts
    <2>2. t > MAX_TIMEOUTS /\ t <= MAX_TIMEOUTS /\ t \in Nat
      <3>1. h[y] = Retransmit(c(y))
        BY <1>2, <1>3, <2>1
      <3>2. c(y) \in ClientWithin(sendBuffer[m]) /\ sendBuffer[m] \in Nat
        BY <1>3, <2>1, OnePeer
      <3>3. t = c(y).number_of_timeouts + 1
        BY <1>3, <2>1, <3>2, RetransmitTimeouts
      <3>4. c(y).number_of_timeouts \in Nat
        BY <3>2 DEF ClientWithin, ClientRecord
      <3> QED
        BY <1>10, <2>1, <3>1, <3>3, <3>4
    <2> HIDE DEF t
    <2> QED
      BY <1>6, <2>2
  <1> HIDE DEF gone, h
  <1>12. /\ \A x, y \in Node : x = m \/ clients'[x][y] = clients[x][y]
         /\ \A y \in Node : clients'[m][y] = h[y].c
    BY <1>9, <1>11 DEF ActsOnAll, Speaks
  <1>13. \A x \in Node : expiries'[x] = IF x = m THEN expiries[m] + k ELSE expiries[x]
    BY <1>6, <1>8
  <1>14. ASSUME NEW y \in Node
         PROVE  /\ clients'[m][y] = NoClient <=> clients[m][y] = NoClient
                /\ clients'[m][y] # NoClient =>
                     clients'[m][y].number_of_timeouts <= expiries'[m]
    <2>1. CASE y \in expired
      <3> DEFINE t == Retransmit(c(y)).c.number_of_timeouts
      <3>1. clients'[m][y] = Retransmit(c(y)).c
        BY <1>2, <1>12, <2>1
      <3>2. t <= expiries[m] + 1 /\ clients'[m][y] # NoClient /\ c(y) # NoClient
        BY <1>3, <1>10, <2>1, <3>1
      <3>3. t \in Nat
        <4>1. c(y) \in ClientWithin(sendBuffer[m]) /\ sendBuffer[m] \in Nat
          BY <1>3, <2>1, OnePeer
        <4>2. t = c(y).number_of_timeouts + 1
          BY <1>3, <2>1, <4>1, RetransmitTimeouts
        <4>3. c(y).number_of_timeouts \in Nat
          BY <4>1 DEF ClientWithin, ClientRecord
        <4> QED
          BY <4>2, <4>3
      <3>4. expiries'[m] = expiries[m] + k /\ expiries[m] \in Nat /\ k > 0
        BY <1>6, <1>7, <1>13, <2>1
      <3> HIDE DEF t
      <3>5. t <= expiries'[m]
        BY <1>7, <3>2, <3>3, <3>4
      <3> QED
        BY <3>1, <3>2, <3>5 DEF t
    <2>2. CASE y \notin expired
      <3>1. clients'[m][y] = c(y)
        <4>1. h[y] = Frame(c(y))
          BY <1>2, <2>2
        <4> QED
          BY <1>12, <4>1 DEF Frame
      <3>2. c(y) # NoClient => /\ c(y).number_of_timeouts <= expiries[m]
                               /\ c(y).number_of_timeouts \in Nat
        <4> SUFFICES ASSUME c(y) # NoClient
                     PROVE  /\ c(y).number_of_timeouts <= expiries[m]
                            /\ c(y).number_of_timeouts \in Nat
          OBVIOUS
        <4>1. c(y) \in ClientWithin(sendBuffer[m])
          BY OnePeer
        <4> QED
          BY <4>1 DEF Tolerated, ClientWithin, ClientRecord
      <3>3. expiries'[m] = expiries[m] + k /\ expiries[m] \in Nat
        BY <1>6, <1>13
      <3> QED
        BY <1>7, <3>1, <3>2, <3>3
    <2> QED
      BY <2>1, <2>2
  <1>15. SamePeers
    BY <1>12, <1>14 DEF SamePeers
  <1>16. Tolerated'
    <2>1. ASSUME NEW x \in Node, NEW y \in Node, x # m
          PROVE  clients'[x][y] # NoClient =>
                   clients'[x][y].number_of_timeouts <= expiries'[x]
      BY <1>12, <1>13, <2>1 DEF Tolerated
    <2> QED
      BY <1>14, <2>1 DEF Tolerated
  <1> QED
    BY <1>15, <1>16

\* A SYN brings a client, of its sender.
LEMMA SynTolerated ==
  ASSUME IInv, Tolerated, NEW m \in Node, ReceiveSyn(m)
  PROVE  /\ Tolerated'
         /\ \E q \in Node :
              \A x, y \in Node :
                clients'[x][y] # NoClient <=>
                  (clients[x][y] # NoClient \/ (x = m /\ y = q))
  <1> DEFINE q   == Head(receiverQueue[m]).from
             seg == Head(receiverQueue[m]).seg
             c   == clients[m][q]
             h   == HandleSyn(c, seg)
             B   == sendBuffer[m]
  <1>1. receiverQueue[m] # <<>> /\ Handled(m, h)
    BY DEF ReceiveSyn, Arrived
  <1>2. q \in Node /\ seg \in ValidSegment
    BY <1>1, ArrivalHead
  <1>3. c \in ClientWithin(B) \cup {NoClient} /\ B \in Nat
    BY <1>1, <1>2, OnePeer
  <1>4. clients' = [clients EXCEPT ![m][q] = h.c] /\ expiries' = expiries
    BY <1>1 DEF Handled, boundVars
  <1> HIDE DEF q, seg, c, B
  <1>5. /\ h \in FrameWithin(B)
        /\ IF c = NoClient THEN h.c.number_of_timeouts = 0
           ELSE SameTimeouts(c, h.c)
    BY <1>2, <1>3, HandleSynWithin, HandleSynTimeouts
  <1> HIDE DEF h
  <1>6. h.c # NoClient
    <2>1. h.c \in ClientWithin(B)
      BY <1>5 DEF FrameWithin
    <2> QED
      BY <1>3, <2>1, ClientExists
  <1>7. clients \in [Node -> [Node -> Client \cup {NoClient}]] /\ expiries \in [Node -> Nat]
    BY DEF IInv, ProtocolWithin, Clients, ControlTyped
  <1>8. /\ clients'[m][q] = h.c
        /\ \A x, y \in Node : ~(x = m /\ y = q) => clients'[x][y] = clients[x][y]
    BY <1>2, <1>4, <1>7
  <1>9. h.c.number_of_timeouts <= expiries[m]
    <2>1. expiries[m] \in Nat
      BY <1>7
    <2>2. c # NoClient => c.number_of_timeouts <= expiries[m]
      BY <1>2 DEF Tolerated, c
    <2> QED
      BY <1>5, <2>1, <2>2 DEF SameTimeouts
  <1>10. Tolerated'
    BY <1>2, <1>4, <1>8, <1>9 DEF Tolerated
  <1>11. \A x, y \in Node : clients'[x][y] # NoClient <=>
                               (clients[x][y] # NoClient \/ (x = m /\ y = q))
    BY <1>6, <1>8
  <1> QED
    BY <1>2, <1>10, <1>11

-----------------------------------------------------------------------------
(* The steps of the stream.                                                  *)

LinkedPairs == {l \in Node \X Node : clients[l[1]][l[2]] # NoClient}
Ended       == {n \in Node : phase[n] \in {"done", "stopped"}}

\* While nobody closes, nobody has ended.
LEMMA NobodyEnded ==
  ASSUME OnlyTransfer
  PROVE  Ended = {}
  BY DEF OnlyTransfer, Ended

\* A step of which users see nothing.
LEMMA Unseen ==
  ASSUME SamePeers, sendBuffer' = sendBuffer, file' = file, Ended' = Ended
  PROVE  UNCHANGED Stream!vars
  <1>1. LinkedPairs' = LinkedPairs
    BY DEF SamePeers, LinkedPairs
  <1> QED
    BY <1>1 DEF Stream!vars, LinkedPairs, Ended

\* An input enters.
LEMMA InputEnters ==
  ASSUME IInv, OnlyTransfer, OnlyTransfer', SamePeers,
         NEW m \in Node, InsertInput(m)
  PROVE  [Stream!Next]_Stream!vars
  <1> DEFINE size == sendBuffer[m] + Head(inputQueue[m])
  <1>1. Ended = {} /\ Ended' = {}
    <2>1. OnlyTransfer => Ended = {}
      BY NobodyEnded
    <2>2. Ended' = {}
      BY DEF OnlyTransfer, Ended
    <2> QED
      BY <2>1, <2>2
  <1>2. /\ sendBuffer' = [sendBuffer EXCEPT ![m] = size] /\ file' = file
        /\ inputQueue[m] # <<>>
    BY DEF InsertInput
  <1>3. sendBuffer \in [Node -> Nat] /\ inputQueue[m] \in Seq(Nat)
    BY DEF IInv, ControlTyped, ProtocolWithin
  <1>4. size \in Nat /\ sendBuffer[m] \in Nat /\ sendBuffer[m] <= size
    <2>1. Head(inputQueue[m]) \in Nat
      BY <1>2, <1>3
    <2> QED
      BY <1>3, <2>1
  <1> HIDE DEF size
  <1>5. CASE size = sendBuffer[m]
    <2>1. sendBuffer' = sendBuffer
      BY <1>2, <1>3, <1>5
    <2> QED
      BY <1>1, <1>2, <2>1, Unseen
  <1>6. CASE size # sendBuffer[m]
    <2>1. sendBuffer'[m] = size /\ size > sendBuffer[m]
      BY <1>2, <1>3, <1>4, <1>6
    <2>2. LinkedPairs' = LinkedPairs
      BY DEF SamePeers, LinkedPairs
    <2>3. m \notin Ended
      BY <1>1
    <2>4. Stream!Enter(m)
      BY <1>1, <1>2, <2>1, <2>2, <2>3 DEF Stream!Enter, LinkedPairs, Ended
    <2> QED
      BY <2>4 DEF Stream!Next
  <1> QED
    BY <1>5, <1>6

\* A file that grows delivers.
LEMMA FileDelivers ==
  ASSUME IInv, IInv', NInv, NInv', SamePeers, Ended' = Ended,
         sendBuffer' = sendBuffer, NEW m \in Node, NEW q \in Node,
         NEW w \in Seq(Nat), clients[m][q] # NoClient,
         file' = [file EXCEPT ![m][q] = @ \o w]
  PROVE  [Stream!Next]_Stream!vars
  <1> DEFINE f == file[m][q]
             g == file'[m][q]
  <1>1. file \in [Node -> [Node -> Seq(Nat)]]
    BY DEF IInv, ArrivalsValid
  <1>2. f \in Seq(Nat) /\ g = f \o w /\ g \in Seq(Nat)
    BY <1>1
  <1>3. Len(f) \in Nat /\ Len(g) = Len(f) + Len(w) /\ Len(w) \in Nat
    <2> HIDE DEF f, g
    <2> QED
      BY <1>2
  <1>4. Streams(q, m)'
    BY DEF NInv
  <1>5. InOrder(g) /\ Len(g) <= sendBuffer[q]
    BY <1>4 DEF Streams, Receiving
  <1>6. sendBuffer[q] \in Nat
    BY OnePeer
  <1>7. CASE w = <<>>
    <2>1. f \o w = f
      BY <1>2, <1>7
    <2>2. file' = file
      BY <1>1, <2>1
    <2> QED
      BY <2>2, Unseen
  <1>8. CASE w # <<>>
    <2> DEFINE size == Len(g)
    <2>1. Len(w) > 0
      BY <1>8
    <2>2. size \in (Len(f) + 1)..sendBuffer[q]
      BY <1>3, <1>5, <1>6, <2>1
    <2>3. g = [i \in 1..size |-> i - 1]
      <3>1. DOMAIN g = 1..size /\ g = [i \in 1..size |-> g[i]]
        <4> HIDE DEF g
        <4> QED
          BY <1>2
      <3>2. \A i \in 1..size : g[i] = i - 1
        BY <1>5, <3>1 DEF InOrder
      <3> HIDE DEF g, size
      <3> QED
        BY <3>1, <3>2
    <2>4. file' = [file EXCEPT ![m][q] = g]
      BY <1>1, <1>2
    <2> HIDE DEF size, g
    <2>5. file' = [file EXCEPT ![m][q] = [i \in 1..size |-> i - 1]]
      BY <2>3, <2>4
    <2>6. LinkedPairs' = LinkedPairs
      BY DEF SamePeers, LinkedPairs
    <2>7. <<m, q>> \in LinkedPairs
      BY DEF LinkedPairs
    <2>8. Stream!Deliver(m, q)
      BY <2>2, <2>5, <2>6, <2>7 DEF Stream!Deliver, LinkedPairs, Ended
    <2> QED
      BY <2>8 DEF Stream!Next
  <1> QED
    BY <1>7, <1>8

\* A new client is a new link.
LEMMA ClientLinks ==
  ASSUME OnlyTransfer, Ended' = Ended, sendBuffer' = sendBuffer, file' = file,
         NEW m \in Node, NEW q \in Node,
         \A x, y \in Node : clients'[x][y] # NoClient <=>
                              (clients[x][y] # NoClient \/ (x = m /\ y = q))
  PROVE  Stream!Next
  <1>1. LinkedPairs' = LinkedPairs \cup {<<m, q>>}
    BY DEF LinkedPairs
  <1>2. m \notin Ended
    BY NobodyEnded
  <1>3. Stream!Link(m, q)
    BY <1>1, <1>2 DEF Stream!Link, LinkedPairs, Ended
  <1> QED
    BY <1>3 DEF Stream!Next

\* Every step of the transfer is one of the stream, or unseen.
LEMMA NextStream ==
  ASSUME TolerantTransfer, IInv, IInv', HInv, HInv', NInv, NInv', Tolerated,
         [Next]_vars
  PROVE  Tolerated' /\ [Stream!Next]_Stream!vars
  <1>1. OnlyTransfer /\ OnlyTransfer' /\ UndisturbedTransfer
    BY DEF HInv, TolerantTransfer
  <1>2. Ended' = Ended
    <2>1. Ended = {}
      BY <1>1, NobodyEnded
    <2>2. Ended' = {}
      BY <1>1 DEF OnlyTransfer, Ended
    <2> QED
      BY <2>1, <2>2
  <1>3. ASSUME Kept, expiries' = expiries, sendBuffer' = sendBuffer, file' = file
        PROVE  Tolerated' /\ [Stream!Next]_Stream!vars
    BY <1>2, <1>3, KeptTolerated, Unseen
  <1>4. CASE UNCHANGED vars
    BY <1>3, <1>4, AllKept DEF vars
  <1>5. CASE Next
    <2>1. PICK m \in Node :
            \/ Communicate(m) \/ Stop(m) \/ Application(m)
            \/ \E p \in Node : \/ Transmit(m, p) \/ Deliver(m, p)
                               \/ SendFails(m, p) \/ NetworkFault(m, p)
      BY <1>5 DEF Next
    <2>2. CASE Start(m)
      BY <1>3, <2>2, StartKept DEF Start, boundVars
    <2>3. CASE ReceiveSyn(m)
      <3>1. sendBuffer' = sendBuffer /\ file' = file
        BY <2>3 DEF ReceiveSyn, Handled
      <3>2. PICK q \in Node :
              \A x, y \in Node : clients'[x][y] # NoClient <=>
                (clients[x][y] # NoClient \/ (x = m /\ y = q))
        BY <2>3, SynTolerated
      <3>3. Tolerated'
        BY <2>3, SynTolerated
      <3> QED
        BY <1>1, <1>2, <3>1, <3>2, <3>3, ClientLinks
    <2>4. CASE ReceiveSynAck(m)
      BY <1>3, <2>4, ReceiveSynAckKept DEF ReceiveSynAck, Handled, boundVars
    <2>5. CASE ReceiveAck(m)
      <3>1. sendBuffer' = sendBuffer /\ expiries' = expiries
        BY <2>5 DEF ReceiveAck, Handled, boundVars
      <3>2. /\ Kept
            /\ \E q \in Node : \E w \in Seq(Nat) :
                 /\ clients[m][q] # NoClient
                 /\ file' = [file EXCEPT ![m][q] = @ \o w]
        BY <1>1, <2>5, ReceiveAckKept
      <3>3. Tolerated' /\ SamePeers
        BY <3>1, <3>2, KeptTolerated
      <3> QED
        BY <1>2, <3>1, <3>2, <3>3, FileDelivers
    <2>6. CASE ReceiveUnknown(m)
      BY <1>3, <2>6, AllKept DEF ReceiveUnknown, boundVars
    <2>7. CASE InsertInput(m)
      <3>1. expiries' = expiries
        BY <2>7 DEF InsertInput, boundVars
      <3>2. Tolerated' /\ SamePeers
        BY <2>7, <3>1, InsertInputKept, KeptTolerated
      <3> QED
        BY <1>1, <2>7, <3>2, InputEnters
    <2>8. CASE MessageResendCheck(m)
      <3>1. sendBuffer' = sendBuffer /\ file' = file
        BY <2>8 DEF MessageResendCheck
      <3>2. Tolerated' /\ SamePeers
        BY <2>8, ResendTolerated
      <3> QED
        BY <1>2, <3>1, <3>2, Unseen
    <2>9. CASE PushInput(m)
      BY <1>3, <2>9, AllKept DEF PushInput, protocolVars
    <2>10. ASSUME NEW p \in Node, Transmit(m, p) \/ SendFails(m, p)
           PROVE  Tolerated' /\ [Stream!Next]_Stream!vars
      <3>1. PICK mark \in SendMark : Dequeue(m, p, mark)
        BY <2>10 DEF Transmit, SendFails, SendMark
      <3> QED
        BY <1>3, <3>1, DequeueKept DEF Dequeue
    <2>11. ASSUME NEW p \in Node, Deliver(m, p) \/ NetworkFault(m, p)
           PROVE  Tolerated' /\ [Stream!Next]_Stream!vars
      BY <1>3, <2>11, AllKept DEF Deliver, NetworkFault, protocolVars, boundVars
    <2> QED
      BY <1>1, <2>1, <2>2, <2>3, <2>4, <2>5, <2>6, <2>7, <2>8, <2>9, <2>10,
         <2>11, NoFinArrives, NobodyLeaves DEF Communicate, Receive, Application
  <1> QED
    BY <1>4, <1>5

\* The transport is a reliable stream for its users: every step of it enters
\* input, delivers the next bytes of a link in order, adds a link, or is unseen.
\* What ReliableStream says of safety; its fairness stays with the runs.
THEOREM ImplementsReliableStream ==
  TolerantTransfer => (Spec => Stream!Init /\ [][Stream!Next]_(Stream!vars))
  <1>1. Init => Stream!Init /\ Tolerated
    <2> SUFFICES ASSUME Init
                 PROVE  Stream!Init /\ Tolerated
      OBVIOUS
    <2>1. Tolerated
      BY DEF Init, Tolerated, NewClient
    <2>2. \A n \in Node : phase[n] \notin {"done", "stopped"}
      BY DEF Init
    <2>3. /\ sendBuffer = [n \in Node |-> 0]
          /\ file = [n \in Node |-> [p \in Node |-> <<>>]]
      BY DEF Init
    <2> QED
      BY <2>1, <2>2, <2>3 DEF Stream!Init
  <1> SUFFICES ASSUME TolerantTransfer
               PROVE  Spec => Stream!Init /\ [][Stream!Next]_(Stream!vars)
    OBVIOUS
  <1>2. UndisturbedTransfer
    BY DEF TolerantTransfer
  <1>3. Spec => [](IInv /\ HInv /\ NInv)
    BY <1>2, StreamInvariant
  <1>4. /\ IInv /\ HInv /\ NInv /\ (IInv /\ HInv /\ NInv)' /\ Tolerated /\ [Next]_vars
        => Tolerated' /\ [Stream!Next]_(Stream!vars)
    BY NextStream
  <1> QED
    BY <1>1, <1>3, <1>4, PTL DEF Spec
=============================================================================
