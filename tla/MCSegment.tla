----------------------------- MODULE MCSegment ------------------------------
(* Segments of every kind, with data of even and odd length, and with words  *)
(* whose sum carries more than once.                                         *)
EXTENDS Segment

MCSendBuffer == <<0, 255, 128, 255, 255, 0, 7>>
MCSourceIP == <<127 * 256, 1>>
MCDestinationIP == <<192 * 256 + 168, 65535>>

Of(kind, seqNum, ackNum, window, start, end) ==
  [srcPrt |-> 50000, destPrt |-> 255, seqNum |-> seqNum, ackNum |-> ackNum,
   kind |-> kind, window |-> window, urgentPtr |-> 0, start |-> start, end |-> end]

MCOutgoing ==
  {Of("SYN", <<0, 1000>>, <<0, 0>>, 1000, 0, 0),
   Of("SYN_ACK", <<65535, 65535>>, <<32768, 1>>, 65535, 0, 0),
   Of("ACK", <<0, 1001>>, <<0, 1001>>, 0, 0, 0),
   Of("ACK", <<0, 65535>>, <<1, 0>>, 1000, 0, 3),
   Of("ACK", <<255, 256>>, <<65535, 65534>>, 1000, 3, 7),
   Of("FIN", <<256, 255>>, <<0, 1001>>, 1000, 0, 0),
   Of("FIN_ACK", <<0, 1001>>, <<0, 1002>>, 1000, 0, 0)}
=============================================================================
