------------------------------ MODULE ByteOrder ------------------------------
(* Numbers in bytes, most significant byte first: what both codecs do with   *)
(* shifts, masks and ors.  A byte is a number below 256.                     *)
EXTENDS Integers, Sequences

Byte == 0..255

\* value >> 16 and value << 16.
Upper(value)   == value \div 65536
Shifted(value) == 65536 * value

\* The last two bytes of a number: value >> 8 and value, cut to 8 bits.
High(value) == (value \div 256) % 256
Low(value)  == value % 256

\* appendBits: the bytes of an unsigned number of 16, 32 or 64 bits.
AppendBits16(value) == <<High(value), Low(value)>>
AppendBits32(value) ==
  <<High(Upper(value)), Low(Upper(value)), High(value), Low(value)>>
AppendBits64(value) ==
  LET top == Upper(Upper(value))
  IN <<High(Upper(top)), Low(Upper(top)), High(top), Low(top),
       High(Upper(value)), Low(Upper(value)), High(value), Low(value)>>

\* The unsigned number in the bytes of b from position first.
Combine16(b, first) == 256 * b[first] + b[first + 1]
Combine32(b, first) == Shifted(Combine16(b, first)) + Combine16(b, first + 2)
Combine64(b, first) ==
  Shifted(Shifted(Combine32(b, first))) + Combine32(b, first + 4)

=============================================================================
