--------------------------- MODULE WebSocketFrame ---------------------------
(***************************************************************************)
(* WebSocket frames: class WebSocketFrame of the C++ server, and what the  *)
(* browser does at the other end, written from RFC 6455 and not from the   *)
(* server's code.                                                          *)
(***************************************************************************)
EXTENDS Integers, Sequences, ByteOrder

BINARY == 2
Opcode == {0, 1, BINARY, 8, 9, 10}

\* a ^ b, by halves of a byte.
Differ(a, b, bit) == IF (a \div bit) % 2 = (b \div bit) % 2 THEN 0 ELSE bit

XorHalf == [a \in 0..15 |-> [b \in 0..15 |->
  Differ(a, b, 1) + Differ(a, b, 2) + Differ(a, b, 4) + Differ(a, b, 8)]]

Xor(a, b) == 16 * XorHalf[a \div 16][b \div 16] + XorHalf[a % 16][b % 16]

\* Masking and unmasking are the same.
Masked(s, key) == [i \in DOMAIN s |-> Xor(s[i], key[((i - 1) % 4) + 1])]

-----------------------------------------------------------------------------
(* encodeFrame and decodeFrame.                                            *)

\* The 7 bits of the length, and the bytes that extend them.
PayloadLen(n) == IF n <= 125 THEN n ELSE IF n <= 65535 THEN 126 ELSE 127

Extension(n) == CASE PayloadLen(n) = 126 -> AppendBits16(n)
                  [] PayloadLen(n) = 127 -> AppendBits64(n)
                  [] OTHER               -> <<>>

\* The router's frames: FIN is set, and neither RSV bits nor a mask.  The
\* constructor believes the length it is given.
EncodeFrame(length, payload) ==
  <<128 + BINARY, PayloadLen(length)>> \o Extension(length) \o payload

\* Mutant: the last byte is not added.
ExtendedHigh(f) == IF f[2] % 128 = 126 THEN 256 * f[3] ELSE Combine64(f, 3)

\* The length in the extension of frame f.
Extended(f) == IF f[2] % 128 = 126 THEN Combine16(f, 3) ELSE Combine64(f, 3)

\* The fields of frame f; first and last are those of its payload.
Fields(f) ==
  LET short   == f[2] % 128
      extSize == CASE short = 126 -> 2 [] short = 127 -> 8 [] OTHER -> 0
      length  == IF extSize = 0 THEN short ELSE Extended(f)
      masked  == f[2] >= 128
      pos     == 2 + extSize + IF masked THEN 4 ELSE 0
  IN [masked |-> masked, key |-> SubSeq(f, 3 + extSize, 6 + extSize),
      first |-> pos + 1, last |-> pos + length]

\* What decodeFrame checks before it reads each field.
IsFrame(f) ==
  /\ Len(f) >= 2 /\ f[1] % 16 \in Opcode
  /\ f[2] % 128 = 126 => Len(f) >= 4
  /\ f[2] % 128 = 127 => Len(f) >= 10
  /\ Len(f) >= Fields(f).first - 1 /\ Len(f) >= Fields(f).last

DecodeFrame(f) ==
  LET field   == Fields(f)
      payload == SubSeq(f, field.first, field.last)
  IN IF field.masked THEN Masked(payload, field.key) ELSE payload

-----------------------------------------------------------------------------
(* The browser: it masks what it sends with a key of its choice.           *)

\* The mask bit and the length, in 1, 3 or 9 bytes.
BrowserLength(n) ==
  IF n < 126 THEN <<128 + n>>
  ELSE IF n < 65536 THEN <<254>> \o AppendBits16(n)
  ELSE <<255>> \o AppendBits64(n)

BrowserFrame(payload, key) ==
  <<130>> \o BrowserLength(Len(payload)) \o key
    \o [i \in 1..Len(payload) |-> Xor(payload[i], key[((i + 3) % 4) + 1])]

\* What onmessage gets of a frame of the server.
BrowserPayload(frame) ==
  IF frame[2] < 126 THEN SubSeq(frame, 3, 2 + frame[2])
  ELSE IF frame[2] = 126 THEN SubSeq(frame, 5, 4 + Combine16(frame, 3))
  ELSE SubSeq(frame, 11, 10 + Combine64(frame, 3))

=============================================================================
