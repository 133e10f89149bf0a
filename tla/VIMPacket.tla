----------------------------- MODULE VIMPacket -----------------------------
(***************************************************************************)
(* The packets of the messenger, as both programs build and read them: the *)
(* class VIMPacket of the C++ router (operators Cpp...) and the one of the *)
(* browser's TypeScript (operators Ts...).                                 *)
(*                                                                         *)
(*   type 1 or 2:  type, user id (4 bytes), message id (2), text           *)
(*   type 3:       type, IP (4), port (2)                                  *)
(*   type 4:       type, IP (4), port (2), user id (4)                     *)
(***************************************************************************)
EXTENDS Integers, Sequences, ByteOrder

CONSTANT NoPacket     \* std::nullopt, undefined

\* What the two classes make of the bytes of a packet.
CppPacket ==
  [type : {1, 2}, user_id : Nat, msg_id : Nat, msg_data : Seq(Byte)]
    \cup [type : {3}, ip : Nat, port : Nat]
    \cup [type : {4}, ip : Nat, port : Nat, user_id : Nat]

TsPacket ==
  [type : {1, 2}, userId : Int, msgId : Nat, msg_data : Seq(Byte)]
    \cup [type : {3}, ip : Seq(Byte), port : Nat]
    \cup [type : {4}, ip : Seq(Byte), port : Nat, userId : Int]

ASSUME PacketAssumption == NoPacket \notin CppPacket \cup TsPacket \cup Seq(Byte)

HEADER_SIZE == 7
USER_CONFIRMATION_SIZE == 11

-----------------------------------------------------------------------------
(* The C++ class.                                                          *)

CppCreateMsg(type, userId, msgId, data) ==
  <<type>> \o AppendBits32(userId) \o AppendBits16(msgId) \o data

CppCreateConfirmation(ip, port, userId) ==
  <<4>> \o AppendBits32(ip) \o AppendBits16(port) \o AppendBits32(userId)

\* Mutant: the text starts one byte early.
CppDecodeMsgEarly(b) ==
  IF Len(b) <= HEADER_SIZE THEN NoPacket
  ELSE [type |-> b[1], user_id |-> Combine32(b, 2), msg_id |-> Combine16(b, 6),
        msg_data |-> SubSeq(b, HEADER_SIZE, Len(b))]

CppDecodeMsg(b) ==
  IF Len(b) <= HEADER_SIZE THEN NoPacket
  ELSE [type |-> b[1], user_id |-> Combine32(b, 2), msg_id |-> Combine16(b, 6),
        msg_data |-> SubSeq(b, HEADER_SIZE + 1, Len(b))]

CppDecodeUserCreation(b) ==
  IF Len(b) # HEADER_SIZE THEN NoPacket
  ELSE [type |-> b[1], ip |-> Combine32(b, 2), port |-> Combine16(b, 6)]

\* Mutant: a confirmation is expected to have the size of a request.
CppDecodeConfirmationShort(b) ==
  IF Len(b) # HEADER_SIZE THEN NoPacket
  ELSE [type |-> b[1], ip |-> Combine32(b, 2), port |-> Combine16(b, 6),
        user_id |-> 0]

CppDecodeConfirmation(b) ==
  IF Len(b) # USER_CONFIRMATION_SIZE THEN NoPacket
  ELSE [type |-> b[1], ip |-> Combine32(b, 2), port |-> Combine16(b, 6),
        user_id |-> Combine32(b, 8)]

CppDecodePacket(b) ==
  IF b = <<>> THEN NoPacket
  ELSE CASE b[1] \in {1, 2} -> CppDecodeMsg(b)
         [] b[1] = 3        -> CppDecodeUserCreation(b)
         [] b[1] = 4        -> CppDecodeConfirmation(b)
         [] OTHER           -> NoPacket

-----------------------------------------------------------------------------
(* The TypeScript class.  Its shifts are signed and of 32 bits: after the   *)
(* & 0xFF of numberToBytes that makes no difference, in decodePacket a user *)
(* id with the highest bit set comes out negative.  An IP stays in bytes.   *)

NumberToBytes(val, size) ==
  IF size = 4 THEN AppendBits32(val) ELSE AppendBits16(val)

Signed(b, first) ==
  Combine32([b EXCEPT ![first] = IF @ < 128 THEN @ ELSE @ - 256], first)

TsCreateMsgPacket(userId, msgId, data) ==
  IF userId <= 0 \/ msgId > 65535 \/ msgId <= 0 THEN NoPacket
  ELSE <<1>> \o NumberToBytes(userId, 4) \o NumberToBytes(msgId, 2) \o data

TsCreateUserPacket(ipBytes, port) ==
  IF port > 65535 \/ port < 0 THEN NoPacket
  ELSE <<3>> \o ipBytes \o NumberToBytes(port, 2)

TsDecodeMsg(b) ==
  IF Len(b) <= HEADER_SIZE THEN NoPacket
  ELSE [type |-> b[1], userId |-> Signed(b, 2), msgId |-> Combine16(b, 6),
        msg_data |-> SubSeq(b, HEADER_SIZE + 1, Len(b))]

TsDecodeUserCreation(b) ==
  IF Len(b) # HEADER_SIZE THEN NoPacket
  ELSE [type |-> b[1], ip |-> SubSeq(b, 2, 5), port |-> Combine16(b, 6)]

TsDecodeConfirmation(b) ==
  IF Len(b) # USER_CONFIRMATION_SIZE THEN NoPacket
  ELSE [type |-> b[1], ip |-> SubSeq(b, 2, 5), port |-> Combine16(b, 6),
        userId |-> Signed(b, 8)]

TsDecodePacket(b) ==
  IF b = <<>> THEN NoPacket
  ELSE CASE b[1] \in {1, 2} -> TsDecodeMsg(b)
         [] b[1] = 3        -> TsDecodeUserCreation(b)
         [] b[1] = 4        -> TsDecodeConfirmation(b)
         [] OTHER           -> NoPacket

=============================================================================
