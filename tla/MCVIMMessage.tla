---------------------------- MODULE MCVIMMessage ----------------------------
(* Two programs at ports 195 * 256 + 80 and one above, on one machine.       *)
EXTENDS VIMMessage

A == 50000
B == 50001

MCNode     == {A, B}
MCIpBytes  == <<127, 0, 0, 1>>
MCRequests == {<<A, B>>}

\* Nothing, one character, and a text whose packet needs the longer form of a
\* frame's length.
MCText == {<<>>, <<72>>, [i \in 1..120 |-> 32 + ((i * 7) % 95)]}

MCMaskKey == {<<165, 60, 1, 255>>}

MCWaits   == {"read", "user"}
=============================================================================
