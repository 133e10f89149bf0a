------------------------------ MODULE Segment -------------------------------
(***************************************************************************)
(* A segment on its way from one program to another, byte for byte: class  *)
(* Segment with its checksum, the flags, and what the two threads of       *)
(* SocketHandler do with them.  Between the two a byte may be spoilt.      *)
(* A 32-bit number is a pair of 16-bit words.                              *)
(***************************************************************************)
EXTENDS Integers, Sequences

CONSTANTS
  NoSegment,     \* what decode returns for bytes it rejects
  Outgoing,      \* segments that communicate may push on senderQueue
  sendBuffer,    \* the bytes that have been entered
  SourceIP, DestinationIP,
  MaxSpoilt      \* bound on the spoilt bytes

Byte   == 0..255
Word   == 0..65535
DWord  == Word \X Word
HEADER_SIZE == 20
Protocol    == 6

Flag == [URG |-> 32, ACK |-> 16, PSH |-> 8, RST |-> 4, SYN |-> 2, FIN |-> 1]

\* createFlag, and the flag byte of each kind of segment that is sent.
CreateFlag(f1, f2) == IF f1 = f2 THEN f1 ELSE f1 + f2

FlagsOf(kind) ==
  CASE kind = "SYN"     -> Flag.SYN
    [] kind = "SYN_ACK" -> CreateFlag(Flag.SYN, Flag.ACK)
    [] kind = "ACK"     -> Flag.ACK
    [] kind = "FIN"     -> Flag.FIN
    [] kind = "FIN_ACK" -> CreateFlag(Flag.FIN, Flag.ACK)

SentKind == {"SYN", "SYN_ACK", "ACK", "FIN", "FIN_ACK"}

ASSUME SegmentAssumption ==
  /\ sendBuffer \in Seq(Byte) /\ MaxSpoilt \in Nat
  /\ SourceIP \in DWord /\ DestinationIP \in DWord
  /\ Outgoing \subseteq [srcPrt : Word, destPrt : Word, seqNum : DWord,
                         ackNum : DWord, kind : SentKind, window : Word,
                         urgentPtr : Word, start : Nat, end : 0..Len(sendBuffer)]
  \* A segment carries at most 1000 bytes; that its length fits in a word is
  \* all that is needed.
  /\ \A seg \in Outgoing : seg.end - seg.start <= 65535 - HEADER_SIZE

VARIABLES
  item,        \* the segment last taken from senderQueue
  datagram,    \* its bytes, while they are on their way
  spoilt,      \* how many of them have been changed
  received     \* what the receiver has pushed on receiverQueue for it

vars == <<item, datagram, spoilt, received>>

-----------------------------------------------------------------------------
(* Flags.hpp.                                                              *)

Has(value, flag) == (value \div flag) % 2 = 1

\* Mutant: the acknowledgement is looked at first.
DecodeFlagsAckFirst(value) ==
  CASE value >= 64 -> "INVALID"
    [] value < 64 /\ Has(value, Flag.ACK)  -> "ACK"
    [] value < 64 /\ ~Has(value, Flag.ACK) ->
         IF Has(value, Flag.SYN) THEN "SYN"
         ELSE IF Has(value, Flag.FIN) THEN "FIN" ELSE "DATA"

\* SYN goes before FIN, FIN before RST, and that before ACK.
DecodeFlags(value) ==
  LET ack      == Has(value, Flag.ACK)
      Or(a, b) == IF ack THEN a ELSE b
  IN IF value >= 64              THEN "INVALID"
     ELSE IF Has(value, Flag.SYN) THEN Or("SYN_ACK", "SYN")
     ELSE IF Has(value, Flag.FIN) THEN Or("FIN_ACK", "FIN")
     ELSE IF Has(value, Flag.RST) THEN "RST"
     ELSE IF ack /\ Has(value, Flag.PSH) THEN "PSH_ACK" ELSE Or("ACK", "DATA")

-----------------------------------------------------------------------------
(* Segment.cpp.                                                            *)

\* appendBits: most significant byte first.
AppendWord(w)  == <<w \div 256, w % 256>>
AppendDWord(d) == AppendWord(d[1]) \o AppendWord(d[2])

CombineWord(bytes, at)  == bytes[at + 1] * 256 + bytes[at + 2]
CombineDWord(bytes, at) == <<CombineWord(bytes, at), CombineWord(bytes, at + 2)>>

\* Mutant: a last byte without a second one is left out.
PairsOnly(bytes, i) ==
  IF i = Len(bytes) THEN 0 ELSE bytes[i] * 256 + bytes[i + 1]

\* The word that starts at i; a last byte alone is the high one.
WordAt(bytes, i) ==
  IF i = Len(bytes) THEN bytes[i] * 256 ELSE bytes[i] * 256 + bytes[i + 1]

\* The words of a packet, added to base one after the other.
WordSum(base, bytes) ==
  LET count == (Len(bytes) + 1) \div 2
      sum[i \in 0..count] == IF i = 0 THEN base
                             ELSE sum[i - 1] + WordAt(bytes, 2 * i - 1)
  IN sum[count]

\* The carries are added until none is left.
AddCarries(total) ==
  LET fold[sum \in Nat] == IF sum <= 65535 THEN sum
                           ELSE fold[(sum \div 65536) + (sum % 65536)]
  IN fold[total]

\* The addresses, the protocol and the length.
PseudoHeader(sourceIP, destinationIP, bytes) ==
  sourceIP[1] + sourceIP[2] + destinationIP[1] + destinationIP[2]
    + Protocol + Len(bytes)

CalculateCheckSum(sourceIP, destinationIP, bytes) ==
  AddCarries(WordSum(PseudoHeader(sourceIP, destinationIP, bytes), bytes))

CreateCheckSum(sourceIP, destinationIP, bytes) ==
  65535 - CalculateCheckSum(sourceIP, destinationIP, bytes)

CheckCheckSum(sourceIP, destinationIP, bytes) ==
  CalculateCheckSum(sourceIP, destinationIP, bytes) = 65535

Encode(seg, data, sourceIP, destinationIP) ==
  LET packet == AppendWord(seg.srcPrt) \o AppendWord(seg.destPrt)
                  \o AppendDWord(seg.seqNum) \o AppendDWord(seg.ackNum)
                  \o <<(HEADER_SIZE \div 4) * 16, FlagsOf(seg.kind)>>
                  \o AppendWord(seg.window) \o <<0, 0>>
                  \o AppendWord(seg.urgentPtr) \o data
      sum    == AppendWord(CreateCheckSum(sourceIP, destinationIP, packet))
  IN [packet EXCEPT ![17] = sum[1], ![18] = sum[2]]

\* The fields that the other program reads.
Decoded(srcPrt, destPrt, seqNum, ackNum, kind, window, urgentPtr, data) ==
  [srcPrt |-> srcPrt, destPrt |-> destPrt, seqNum |-> seqNum, ackNum |-> ackNum,
   kind |-> kind, window |-> window, urgentPtr |-> urgentPtr, data |-> data]

Decode(bytes, sourceIP, destinationIP) ==
  IF Len(bytes) < HEADER_SIZE \/ ~CheckCheckSum(sourceIP, destinationIP, bytes)
  THEN NoSegment
  ELSE Decoded(CombineWord(bytes, 0), CombineWord(bytes, 2),
               CombineDWord(bytes, 4), CombineDWord(bytes, 8),
               DecodeFlags(bytes[14]), CombineWord(bytes, 14),
               CombineWord(bytes, 18), SubSeq(bytes, 21, Len(bytes)))

-----------------------------------------------------------------------------
(* SocketHandler::send and SocketHandler::receive.                         *)

Init ==
  /\ item = NoSegment /\ datagram = <<>> /\ spoilt = 0 /\ received = NoSegment

\* Mutant: the byte at the end is taken along.
DataPast(seg) ==
  IF seg.end = 0 THEN <<>>
  ELSE SubSeq(sendBuffer, seg.start + 1,
              IF seg.end < Len(sendBuffer) THEN seg.end + 1 ELSE seg.end)

\* The bytes start..end-1 of sendBuffer; a segment without data has end 0.
Data(seg) ==
  IF seg.end = 0 THEN <<>> ELSE SubSeq(sendBuffer, seg.start + 1, seg.end)

Send ==
  /\ datagram = <<>>
  /\ \E seg \in Outgoing :
       /\ item' = seg
       /\ datagram' = Encode(seg, Data(seg), SourceIP, DestinationIP)
  /\ spoilt' = 0 /\ received' = NoSegment

\* A byte is changed on the way.
Spoil ==
  /\ spoilt < MaxSpoilt /\ spoilt' = spoilt + 1
  /\ \E i \in DOMAIN datagram : \E b \in Byte \ {datagram[i]} :
       datagram' = [datagram EXCEPT ![i] = b]
  /\ UNCHANGED <<item, received>>

\* A segment that decode rejects, or whose flags mean nothing, is dropped.
Receive ==
  LET seg == Decode(datagram, SourceIP, DestinationIP)
  IN /\ datagram # <<>> /\ datagram' = <<>>
     /\ received' = IF seg # NoSegment /\ seg.kind # "INVALID" THEN seg
                    ELSE NoSegment
     /\ UNCHANGED <<item, spoilt>>

Next == Send \/ Spoil \/ Receive

Spec == Init /\ [][Next]_vars

-----------------------------------------------------------------------------
(* Properties.                                                             *)

\* What the segment that is on its way says.
Sent ==
  Decoded(item.srcPrt, item.destPrt, item.seqNum, item.ackNum, item.kind,
          item.window, item.urgentPtr,
          SubSeq(sendBuffer, item.start + 1, item.end))

Arrived == item # NoSegment /\ datagram = <<>>

\* A datagram of which one byte is not what was sent, whichever and whatever
\* it is, is dropped: the checksum sees it (encode, decode).
SpoiltDropped == Arrived /\ spoilt = 1 => received = NoSegment

\* A datagram that is intact is received, and says what was sent: ports,
\* numbers, the kind that its flags stand for, and the bytes start..end-1 of
\* sendBuffer (encode, decode, createFlag, decodeFlags).
IntactReceived == Arrived /\ spoilt = 0 => received = Sent

=============================================================================
