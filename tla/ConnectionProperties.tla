----------------------- MODULE ConnectionProperties -----------------------
(* What the transport promises, stated over the variables of Connection.    *)
EXTENDS Connection

\* Type invariant: every variable, and every segment on its way, has the
\* shape that Connection.hpp, Client.hpp and Segment.hpp declare.
TypeOK ==
  /\ clients \in [Node -> [Node -> Client \cup {NoClient}]]
  /\ sendBuffer \in [Node -> Nat]
  /\ inputQueue \in [Node -> Seq(Nat)]
  /\ senderQueue \in [Node -> [Node -> Seq(OutItem)]]
  /\ receiverQueue \in [Node -> Seq([from : Node, seg : Segment])]
  /\ network \in [Node -> [Node -> Seq(Segment)]]
  /\ file \in [Node -> [Node -> Seq(Nat)]]
  /\ timeToClose \in [Node -> BOOLEAN]
  /\ phase \in [Node -> Phase]
  /\ dialing \in [Node -> [peer : Node \cup {NoNode},
                           step : {"idle", "emplace", "syn", "sequence"}]]
  /\ undialled \subseteq Node \X Node
  /\ inputs \in Nat /\ faults \in Nat /\ expiries \in [Node -> Nat]

\* The connection from n to p exists at both ends.
Paired(n, p) == clients[n][p] # NoClient /\ clients[p][n] # NoClient

\* What n has received from p is a prefix of what p's user entered: in order,
\* without a gap and without a duplicate (communicate's ACK case).
StreamIntegrity ==
  \A n, p \in Node :
    /\ Len(file[n][p]) <= sendBuffer[p]
    /\ \A i \in DOMAIN file[n][p] : file[n][p][i] = i - 1

\* The acknowledgement n has recorded is one p gave, and p acknowledges only
\* what n has sent: the three counters of the two ends stay in order.
AckWindow ==
  \A n, p \in Node : Paired(n, p) =>
    /\ clients[n][p].last_ack <= clients[p][n].expected_ack
    /\ clients[p][n].expected_ack <= clients[n][p].expected_sequence

\* messagesSent can retransmit everything p has not written: a byte handed to
\* the network is in p's file or in an unacknowledged entry.
NothingForgotten ==
  \A n, p \in Node : Paired(n, p) =>
    \A x \in Len(file[p][n]) .. (clients[n][p].lastByteSent - 1) :
      \E i \in DOMAIN clients[n][p].messagesSent :
        LET e == clients[n][p].messagesSent[i]
        IN e.start <= x /\ x < e.start + e.size

\* totalSizeOfMessagesSent, an unsigned 16-bit field, never goes below the
\* bytes of messagesSent, so the subtraction in checkFront cannot wrap.
NoUnderflow ==
  \A n, p \in Node : clients[n][p] # NoClient =>
    clients[n][p].totalSizeOfMessagesSent >= ByteCount(clients[n][p].messagesSent)

\* The sender thread reads sendBuffer only inside its bounds, in a first
\* transmission and in any retransmission (SocketHandler::send).
SenderReadsInBounds ==
  \A n, p \in Node :
    /\ \A i \in DOMAIN senderQueue[n][p] :
         LET seg == senderQueue[n][p][i].seg
         IN seg.start <= seg.end /\ seg.end <= sendBuffer[n]
    /\ clients[n][p] # NoClient =>
         /\ clients[n][p].lastByteSent <= sendBuffer[n]
         /\ \A i \in DOMAIN clients[n][p].messagesSent :
              LET e == clients[n][p].messagesSent[i]
              IN e.start + e.size <= sendBuffer[n]

\* A FIN is consumed only after every byte its sender handed to the network:
\* a client that has seen the peer's FIN holds the peer's whole stream.
NoTruncatedClose ==
  \A n, p \in Node :
    (/\ Paired(n, p)
     /\ clients[n][p].state \in {"CLOSING", "LAST_ACK", "TIME_WAIT", "CLOSED"})
    => Len(file[n][p]) = clients[p][n].lastByteSent

\* When disconnect() gets past its wait, everything the user entered has
\* reached every peer that was connected, and everything they had sent is here.
GracefulClose ==
  \A n, p \in Node : phase[n] \in {"done", "stopped"} /\ clients[p][n] # NoClient =>
    /\ Len(file[p][n]) = sendBuffer[n]
    /\ Len(file[n][p]) = clients[p][n].lastByteSent

\* An acknowledgement never runs ahead of the file: while the connection is
\* established, expected_ack moves by exactly the bytes written in that step.
AcknowledgesWhatItWrites ==
  [][\A n, p \in Node :
       /\ clients[n][p] # NoClient /\ clients'[n][p] # NoClient
       /\ clients[n][p].state = "ESTABLISHED"
       /\ clients'[n][p].state = "ESTABLISHED"
       => clients'[n][p].expected_ack - clients[n][p].expected_ack
            = Len(file'[n][p]) - Len(file[n][p])]_vars

\* A call of disconnect() returns (Connection::disconnect waits without a
\* timeout).
DisconnectReturns ==
  \A n \in Node : timeToClose[n] ~> phase[n] = "stopped"

\* What users entered while connected arrives: the network delivers it and
\* the acknowledgements reopen the window for the rest.
EventuallyDelivered ==
  <>[](\A n, p \in Node :
         clients[n][p] # NoClient => Len(file[p][n]) = sendBuffer[n])

\* The transport is a reliable stream between users: see ReliableStream.
Stream ==
  INSTANCE ReliableStream WITH
    Party     <- Node,
    entered   <- sendBuffer,
    delivered <- file,
    linked    <- {l \in Node \X Node : clients[l[1]][l[2]] # NoClient},
    ended     <- {n \in Node : phase[n] \in {"done", "stopped"}}

IsReliableStream == Stream!Spec

\* No client stays half open, unless a sendto fails: a handshake completes, or the
\* client is given up, also when segments are lost so often that one of the ends
\* has given up before, or when a SYN that comes twice puts an established client
\* back (messageResendCheck retransmits, and erases after the last timeout).
HandshakeEnds ==
  \A n, p \in Node :
    (phase[n] = "looping" /\ clients[n][p] # NoClient /\ clients[n][p].state = "SYN_SENT")
      ~> (clients[n][p] = NoClient \/ clients[n][p].state # "SYN_SENT")

\* A dial connects both ends once the communicate thread loops, whether its first
\* SYN reaches the peer or not and however the two threads interleave in addClient.
\* Only when the network mistreats as many segments as there are retransmissions
\* does one of the ends give up: the dialler, or the peer whose SYN_ACK connects
\* the dialler when it has gone.
DialConnects ==
  \A n, p \in Node :
    (dialing[n].peer = p /\ phase[n] = "looping")
      ~> \/ /\ Paired(n, p) /\ clients[n][p].state = "ESTABLISHED"
            /\ clients[p][n].state = "ESTABLISHED"
         \/ /\ faults >= MAX_TIMEOUTS
            /\ \/ clients[n][p] = NoClient
               \/ clients[n][p].state = "ESTABLISHED" /\ clients[p][n] = NoClient

=============================================================================
