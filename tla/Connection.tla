----------------------------- MODULE Connection -----------------------------
(***************************************************************************)
(* The TCP-like transport of backend/TCP: class Connection (the            *)
(* communicate thread, addClient, disconnect), the Client records it keeps *)
(* per peer port, and the sender and receiver threads of SocketHandler,    *)
(* over a UDP network that may lose, duplicate and reorder datagrams.      *)
(*                                                                         *)
(* Bytes are abstracted to offsets: a node's sendBuffer is its length, a   *)
(* segment carries the range [start, end) of its sender's buffer, and the  *)
(* file a client writes is the sequence of offsets written to it.  Clock   *)
(* values are abstracted to "the send time is stamped" and a               *)
(* nondeterministic choice of the timers that have run out.                *)
(***************************************************************************)
EXTENDS Integers, Sequences, FiniteSets, SequencesExt

CONSTANTS
  Node,           \* the running programs, each named by its UDP port
  NoNode,         \* no destination given to the constructor
  NoClient,       \* "no entry in the clients map"
  Target,         \* Target[n]: the destination port given to the constructor
  Dials,          \* pairs <<n, p>>: the application of n may addClient p once
  ISN,            \* default_sequence_number
  HEADER_SIZE, MAX_DATA_SIZE, WINDOW_SIZE, MAX_TIMEOUTS,
  ARGS_RIGHT_TO_LEFT,  \* the compiler evaluates call arguments last to first
  InputSizes,     \* InputSizes[n]: the sizes of what n's user may enter
  MaxInputs,      \* bound on the number of inputs
  Closers,        \* the nodes whose application calls disconnect
  UserWaits,      \* what a user's actions are made to wait for, see UserReady
  Faulty,         \* kinds of the segments the network may mistreat; with
                  \* "sendto" among them, that call too
  MaxFaults,      \* bound on the number of such faults
  Slow,           \* kinds of the segments whose timer may run out
  MaxExpiries,    \* bound on the number of timer expiries of a node
  PATIENT         \* timeout_interval exceeds every round trip

Flag  == {"SYN", "SYN_ACK", "ACK", "FIN", "FIN_ACK"}
State == {"NONE", "SYN_SENT", "SYN_RECEIVED", "ESTABLISHED", "FIN_WAIT_1",
          "FIN_WAIT_2", "TIME_WAIT", "CLOSING", "CLOSED", "LAST_ACK"}
Phase == {"starting", "looping", "done", "stopped", "crashed"}
Kind  == Flag \cup {"DATA"}

ASSUME NodeAssumption ==
  /\ IsFiniteSet(Node) /\ NoNode \notin Node
  /\ Target \in [Node -> Node \cup {NoNode}]
  /\ Dials \subseteq Node \X Node
  /\ Closers \subseteq Node

\* A segment fills the window, so the loop of sendMessages runs at most once.
ASSUME SizeAssumption ==
  /\ ISN \in Nat \ {0}
  /\ HEADER_SIZE \in Nat \ {0} /\ MAX_DATA_SIZE \in Nat \ {0}
  /\ WINDOW_SIZE \in Nat /\ WINDOW_SIZE <= MAX_DATA_SIZE + HEADER_SIZE

ASSUME BoundAssumption ==
  /\ MAX_TIMEOUTS \in Nat /\ ARGS_RIGHT_TO_LEFT \in BOOLEAN
  /\ InputSizes \in [Node -> SUBSET (Nat \ {0})] /\ MaxInputs \in Nat
  /\ UserWaits \subseteq {"handshake", "input"} /\ PATIENT \in BOOLEAN
  /\ Faulty \subseteq Kind \cup {"sendto"} /\ MaxFaults \in Nat
  /\ Slow \subseteq Kind /\ MaxExpiries \in Nat

VARIABLES
  clients,        \* clients[n][p]: n's Client entry for p, or NoClient
  sendBuffer,     \* length of n's sendBuffer
  inputQueue,     \* sizes of the inputs waiting for the communicate thread
  senderQueue,    \* senderQueue[n][p]: items for p, in order
  receiverQueue,  \* segments the receiver thread has decoded
  network,        \* network[n][p]: datagrams in flight, in arrival order
  file,           \* file[n][p]: what n has received from p (.dat, receivedData)
  timeToClose,    \* disconnect() has been called
  phase,          \* where the communicate thread and the sockets are
  dialing,        \* where the application thread is inside addClient
  undialled,      \* the dials still to be made
  inputs, faults, expiries   \* counters against the bounds

vars == <<clients, sendBuffer, inputQueue, senderQueue, receiverQueue, network,
          file, timeToClose, phase, dialing, undialled, inputs, faults,
          expiries>>

protocolVars == <<clients, senderQueue, receiverQueue, phase>>
boundVars    == <<inputs, faults, expiries>>
dialVars     == <<dialing, undialled>>

-----------------------------------------------------------------------------
(* Segments, SegmentInfo and Client.                                       *)

Segment == [flag : Flag, seq : Nat, ack : Nat, win : Nat,
            start : Nat, end : Nat]

SizeOf(seg) == seg.end - seg.start

\* Mutant: one past the next sequence number.
NextSeqPastEnd(seg) == seg.seq + SizeOf(seg) + 1

NextSeq(seg) == seg.seq + SizeOf(seg)

\* What the bounds on faults and timers tell apart.
KindOf(flag, size) == IF flag = "ACK" /\ size > 0 THEN "DATA" ELSE flag

\* A segment without data, advertising this node's own window.
Control(flag, seq, ack) ==
  [flag |-> flag, seq |-> seq, ack |-> ack, win |-> WINDOW_SIZE,
   start |-> 0, end |-> 0]

\* What the sender thread will do with the entry: not yet sent, sent and
\* stamped with the time, or handed to a sendto that failed.
SendMark == {"queued", "sent", "failed"}

SegmentInfo == [seq : Nat, flag : Flag, start : Nat, size : Nat,
                sent : SendMark]

Client ==
  [expected_sequence : Nat, expected_ack : Nat, last_ack : Nat, state : State,
   messageBuffer : SUBSET Segment, messagesSent : Seq(SegmentInfo),
   totalSizeOfMessagesSent : Int, lastByteSent : Nat, windowSize : Nat,
   isFinSent : BOOLEAN, number_of_timeouts : Nat]

\* The mark for a missing entry is no entry.
ASSUME ClientAssumption == NoClient \notin Client

NewClient(state, ack) ==
  [expected_sequence |-> 0, expected_ack |-> ack, last_ack |-> 0,
   state |-> state, messageBuffer |-> {}, messagesSent |-> <<>>,
   totalSizeOfMessagesSent |-> 0, lastByteSent |-> 0, windowSize |-> 0,
   isFinSent |-> FALSE, number_of_timeouts |-> 0]

\* The bytes, headers included, of the segments in q: position by position.
ByteCount(q) ==
  Cardinality(UNION {{i} \X (1..(HEADER_SIZE + q[i].size)) : i \in DOMAIN q})

FrontSeqNum(c) == IF c.messagesSent = <<>> THEN 0 ELSE Head(c.messagesSent).seq

\* Mutant: the header is not counted.
PushMessageNoHeader(c, info) ==
  [c EXCEPT !.messagesSent = Append(@, info),
            !.totalSizeOfMessagesSent = @ + info.size]

PushMessage(c, info) ==
  [c EXCEPT !.messagesSent = Append(@, info),
            !.totalSizeOfMessagesSent = @ + HEADER_SIZE + info.size]

\* Mutant: an entry goes when its first byte is the next one expected.
AckedTooMany(q, ack) ==
  Cardinality({i \in 1..Len(q) : \A j \in 1..i : q[j].seq <= ack})

\* checkFront in its loop: the front entries below the acknowledgement go.
Acked(q, ack) ==
  Cardinality({i \in 1..Len(q) : \A j \in 1..i : q[j].seq < ack})

Acknowledge(c, seg) ==
  LET q == c.messagesSent
      k == Acked(q, seg.ack)
  IN [c EXCEPT !.messagesSent = SubSeq(q, k + 1, Len(q)),
               !.totalSizeOfMessagesSent = @ - ByteCount(SubSeq(q, 1, k)),
               !.last_ack = seg.ack,
               !.windowSize = seg.win]

\* The sender thread stamps the entry its item was created with.
Stamp(c, seq, mark) ==
  LET q == c.messagesSent
      Waits(i) == q[i].seq = seq /\ q[i].sent = "queued"
  IN [c EXCEPT !.messagesSent =
        [i \in DOMAIN q |->
           IF Waits(i) /\ \A j \in 1..(i - 1) : ~Waits(j)
           THEN [q[i] EXCEPT !.sent = mark] ELSE q[i]]]

-----------------------------------------------------------------------------
(* A handler works on a frame: the client it handles, the items it pushes  *)
(* on senderQueue, the segments it pushes back on receiverQueue, and       *)
(* whether the program is still alive.                                     *)

OutItem == [seg : Segment, pushed : BOOLEAN, address : {"peer", "uninitialised"}]

Frame(c) == [c |-> c, snd |-> <<>>, rcv |-> <<>>, alive |-> TRUE]

IsTracked(seg) == seg.flag # "ACK" \/ seg.end > 0

CreateMessage(h, seg, state) ==
  LET pushed == IsTracked(seg) /\ FrontSeqNum(h.c) # seg.seq
      info   == [seq |-> seg.seq, flag |-> seg.flag, start |-> seg.start,
                 size |-> SizeOf(seg), sent |-> "queued"]
      c      == IF pushed THEN PushMessage(h.c, info) ELSE h.c
  IN [h EXCEPT !.c = [c EXCEPT !.state = state, !.expected_ack = seg.ack],
               !.snd = Append(@, [seg |-> seg, pushed |-> pushed,
                                  address |-> "peer"])]

\* setItemMessageBuffer(seg->getSeqNum(), std::move(seg)): a compiler that
\* evaluates the second argument first dereferences a null pointer.
Store(h, seg) ==
  IF ARGS_RIGHT_TO_LEFT
  THEN [h EXCEPT !.alive = FALSE]
  ELSE [h EXCEPT !.c.messageBuffer =
          {b \in @ : b.seq # seg.seq} \cup {seg}]

\* Mutant: the first limit is forgotten.
SecondOnly(a, b) == b

AtMost(a, b) == IF a <= b THEN a ELSE b

\* Mutant: sends without looking at the window.
HasUnsent(c, size) == c.lastByteSent # size

\* Unsent data, and more room in the peer's window than a header takes.
MaySend(c, size) ==
  /\ c.lastByteSent # size
  /\ c.windowSize - c.totalSizeOfMessagesSent > HEADER_SIZE

\* Mutant: the FIN does not wait for the rest of sendBuffer.
FinUnsent(c, size) == ~c.isFinSent

\* No FIN has been sent and nothing is left to send before it.
FinDue(c, size) == ~c.isFinSent /\ c.lastByteSent = size

\* sendMessages, size being sendBuffer.size(): one data segment, or a pure ACK
\* if data was written.
SendMessages(h, size, dataWritten) ==
  LET c     == h.c
      avail == c.windowSize - c.totalSizeOfMessagesSent
      start == c.lastByteSent
      end   == AtMost(size, start + AtMost(MAX_DATA_SIZE, avail - HEADER_SIZE))
      ack   == Control("ACK", c.expected_sequence, c.expected_ack)
      g     == CreateMessage(h, [ack EXCEPT !.start = start, !.end = end],
                             c.state)
  IN IF MaySend(c, size)
     THEN [g EXCEPT !.c.lastByteSent = end,
                    !.c.expected_sequence = @ + (end - start)]
     ELSE IF dataWritten THEN CreateMessage(h, ack, c.state) ELSE h

SendFin(h, state) ==
  LET fin == Control("FIN", h.c.expected_sequence, h.c.expected_ack)
  IN [CreateMessage(h, fin, state) EXCEPT !.c.isFinSent = TRUE,
                                          !.c.expected_sequence = @ + 1]

MessageHandler(h, seg, dataWritten, size, closing) ==
  LET c == Acknowledge(h.c, seg)
      g == SendMessages([h EXCEPT !.c = c], size, dataWritten)
      r == [g EXCEPT !.rcv = IF seg.flag = "FIN" THEN Append(@, seg) ELSE @]
      lastAct == FinDue(r.c, size) /\ (closing \/ r.c.state = "CLOSING")
  IN IF seg.seq > c.expected_ack
     THEN Store([h EXCEPT !.c = c], seg)
     ELSE IF lastAct
          THEN SendFin(r, IF r.c.state = "CLOSING"
                          THEN "LAST_ACK" ELSE "FIN_WAIT_1")
          ELSE r

-----------------------------------------------------------------------------
(* The cases of communicate's switch, as functions of the client.          *)

HandleSyn(c, seg) ==
  LET d == IF c = NoClient THEN NewClient("SYN_RECEIVED", seg.seq + 1) ELSE c
      h == CreateMessage(Frame(d), Control("SYN_ACK", ISN, seg.seq + 1),
                         "SYN_SENT")
  IN [h EXCEPT !.c.expected_sequence = ISN + 1]

HandleSynAck(c, seg) ==
  LET h == CreateMessage(Frame(c),
                         Control("ACK", c.expected_sequence, seg.seq + 1),
                         "ESTABLISHED")
  IN IF seg.ack = c.expected_sequence
     THEN [h EXCEPT !.c = Acknowledge(@, seg)]
     ELSE Frame(c)

\* The acknowledgement lies in what was sent and not yet acknowledged.
AckInRange(c, seg) == c.last_ack <= seg.ack /\ seg.ack <= c.expected_sequence

HandleFin(c, seg, size, closing) ==
  LET to == IF c.state = "ESTABLISHED" THEN "CLOSING" ELSE "TIME_WAIT"
      h  == CreateMessage(Frame(c),
                          Control("FIN_ACK", c.expected_sequence, seg.seq + 1),
                          to)
      g  == [h EXCEPT !.c.windowSize = seg.win, !.c.last_ack = seg.ack,
                      !.c.expected_sequence = @ + 1]
  IN IF seg.seq > c.expected_ack
     THEN IF AckInRange(c, seg)
          THEN MessageHandler(Frame(c), seg, FALSE, size, closing)
          ELSE Store(Frame([c EXCEPT !.windowSize = seg.win]), seg)
     ELSE IF /\ AckInRange(c, seg) /\ seg.seq = c.expected_ack
             /\ c.state \in {"ESTABLISHED", "FIN_WAIT_2"}
          THEN IF to = "CLOSING"
               THEN MessageHandler(g, seg, FALSE, size, closing)
               ELSE g
          ELSE Frame(c)

\* Mutant: the FIN_ACK of the active closer's FIN is not expected.
HandleFinAckPassive(c, seg, size, closing) ==
  IF /\ c.state = "LAST_ACK" /\ seg.seq = c.expected_ack
     /\ seg.ack = c.expected_sequence
  THEN Frame([Acknowledge(c, seg) EXCEPT !.expected_ack = seg.seq + 1,
                                         !.state = "CLOSED"])
  ELSE Frame(c)

HandleFinAck(c, seg, size, closing) ==
  LET to == CASE c.state = "FIN_WAIT_1" -> "FIN_WAIT_2"
              [] c.state = "LAST_ACK"   -> "CLOSED"
              [] OTHER                  -> "NONE"
  IN IF seg.seq > c.expected_ack
     THEN IF c.last_ack < seg.ack /\ seg.ack <= c.expected_sequence
          THEN MessageHandler(Frame(c), seg, FALSE, size, closing)
          ELSE Frame(c)
     ELSE IF seg.ack = c.expected_sequence /\ seg.seq = c.expected_ack
          THEN Frame([Acknowledge(c, seg) EXCEPT
                        !.expected_ack = seg.seq + 1, !.state = to])
          ELSE Frame(c)

Covers(b, k) == b.seq <= k /\ k < NextSeq(b)

\* R is seg and the out-of-order data segments that follow it without a gap,
\* up to last: what the drain loop of the ACK case writes.
IsRun(R, last, c, seg) ==
  LET Follows(b) == \E a \in R : NextSeq(a) = b.seq
      data == {b \in c.messageBuffer : b.flag = "ACK" /\ SizeOf(b) > 0}
  IN /\ seg \in R /\ R \subseteq data \cup {seg}
     /\ SizeOf(seg) = 0 => R = {seg}
     /\ \A b \in R \ {seg} : Follows(b)
     /\ SizeOf(seg) > 0 => \A b \in data : Follows(b) => b \in R
     /\ \A b \in R : b.seq <= last.seq
     /\ \A k \in seg.seq .. (NextSeq(last) - 1) : \E b \in R : Covers(b, k)

\* R is the run of seg, up to last.  A buffered segment without data at the end
\* of the run is popped too and stops the drain.
HandleAck(c, seg, R, last, size, closing) ==
  LET next    == NextSeq(last)
      stopper == {b \in c.messageBuffer : SizeOf(seg) > 0 /\ b.seq = next}
      through == IF stopper = {} THEN last ELSE CHOOSE b \in stopper : TRUE
      d       == [c EXCEPT
                    !.expected_ack = next,
                    !.messageBuffer = (@ \ (R \ {seg})) \ stopper,
                    !.state = IF @ = "SYN_SENT" THEN "ESTABLISHED" ELSE @]
  IN IF seg.seq > c.expected_ack
     THEN IF c.last_ack < seg.ack /\ seg.ack <= c.expected_sequence
          THEN MessageHandler(Frame(c), seg, FALSE, size, closing)
          ELSE Store(Frame([c EXCEPT !.windowSize = seg.win]), seg)
     ELSE IF AckInRange(c, seg) /\ seg.seq = c.expected_ack
          THEN MessageHandler(Frame(d), [through EXCEPT !.seq = next],
                              SizeOf(seg) > 0, size, closing)
          ELSE Frame(c)

\* Mutant: every segment of the run is written from the start of the first.
WrittenFromFirst(R, seg, last) ==
  [i \in 1..(NextSeq(last) - seg.seq) |->
     LET b == CHOOSE b \in R : Covers(b, seg.seq + i - 1)
     IN b.start + i - 1]

\* Mutant: the buffered segments are popped but not written.
WrittenFirstOnly(R, seg, last) == [i \in 1..SizeOf(seg) |-> seg.start + i - 1]

\* The offsets the run writes: seq positions of the run mapped to the buffer.
Written(R, seg, last) ==
  [i \in 1..(NextSeq(last) - seg.seq) |->
     LET k == seg.seq + i - 1
         b == CHOOSE b \in R : Covers(b, k)
     IN b.start + (k - b.seq)]

-----------------------------------------------------------------------------
(* The communicate thread.                                                 *)

Init ==
  /\ clients = [n \in Node |-> [p \in Node |->
                  IF Target[n] = p THEN NewClient("NONE", 0) ELSE NoClient]]
  /\ sendBuffer = [n \in Node |-> 0]
  /\ inputQueue = [n \in Node |-> <<>>]
  /\ senderQueue = [n \in Node |-> [p \in Node |-> <<>>]]
  /\ receiverQueue = [n \in Node |-> <<>>]
  /\ network = [n \in Node |-> [p \in Node |-> <<>>]]
  /\ file = [n \in Node |-> [p \in Node |-> <<>>]]
  /\ timeToClose = [n \in Node |-> FALSE]
  /\ phase = [n \in Node |-> "starting"]
  /\ dialing = [n \in Node |-> [peer |-> NoNode, step |-> "idle"]]
  /\ undialled = Dials
  /\ inputs = 0 /\ faults = 0 /\ expiries = [n \in Node |-> 0]

\* communicate before its loop: a SYN to the target.  Without a target and
\* with a client already dialled, clients.at(destination_port) throws.
Start(n) ==
  LET p == Target[n]
      h == CreateMessage(Frame(clients[n][p]), Control("SYN", ISN, 0),
                         "SYN_SENT")
  IN /\ phase[n] = "starting"
     /\ \/ /\ p \in Node /\ clients[n][p] # NoClient
           /\ clients' = [clients EXCEPT ![n][p] =
                            [h.c EXCEPT !.expected_sequence = ISN + 1]]
           /\ senderQueue' = [senderQueue EXCEPT ![n][p] = @ \o h.snd]
           /\ phase' = [phase EXCEPT ![n] = "looping"]
        \/ /\ p = NoNode
           /\ phase' = [phase EXCEPT ![n] =
                IF \E q \in Node : clients[n][q] # NoClient
                THEN "crashed" ELSE "looping"]
           /\ UNCHANGED <<clients, senderQueue>>
     /\ UNCHANGED <<sendBuffer, inputQueue, receiverQueue, network, file,
                    timeToClose, dialVars, boundVars>>

\* The next segment on receiverQueue has this flag and comes from a peer that
\* has a client (or, for a SYN, from anyone).
Arrived(n, flag) ==
  /\ phase[n] = "looping"
  /\ receiverQueue[n] # <<>>
  /\ Head(receiverQueue[n]).seg.flag = flag

Known(n) == clients[n][Head(receiverQueue[n]).from] # NoClient

\* The segment at the head of receiverQueue has been handled, giving frame h.
Handled(n, h) ==
  LET p == Head(receiverQueue[n]).from
  IN /\ clients' = [clients EXCEPT ![n][p] = h.c]
     /\ senderQueue' = [senderQueue EXCEPT ![n][p] = @ \o h.snd]
     /\ receiverQueue' = [receiverQueue EXCEPT ![n] =
          Tail(@) \o [i \in DOMAIN h.rcv |-> [from |-> p, seg |-> h.rcv[i]]]]
     /\ phase' = [phase EXCEPT ![n] = IF h.alive THEN @ ELSE "crashed"]
     /\ UNCHANGED <<sendBuffer, inputQueue, network, timeToClose, dialVars,
                    boundVars>>

ReceiveSyn(n) ==
  LET m == Head(receiverQueue[n])
  IN /\ Arrived(n, "SYN")
     /\ Handled(n, HandleSyn(clients[n][m.from], m.seg))
     /\ UNCHANGED file

ReceiveSynAck(n) ==
  LET m == Head(receiverQueue[n])
  IN /\ Arrived(n, "SYN_ACK") /\ Known(n)
     /\ Handled(n, HandleSynAck(clients[n][m.from], m.seg))
     /\ UNCHANGED file

ReceiveFin(n) ==
  LET m == Head(receiverQueue[n])
  IN /\ Arrived(n, "FIN") /\ Known(n)
     /\ Handled(n, HandleFin(clients[n][m.from], m.seg, sendBuffer[n],
                             timeToClose[n]))
     /\ UNCHANGED file

ReceiveFinAck(n) ==
  LET m == Head(receiverQueue[n])
  IN /\ Arrived(n, "FIN_ACK") /\ Known(n)
     /\ Handled(n, HandleFinAck(clients[n][m.from], m.seg, sendBuffer[n],
                                timeToClose[n]))
     /\ UNCHANGED file

ReceiveAck(n) ==
  LET m == Head(receiverQueue[n])
      c == clients[n][m.from]
  IN /\ Arrived(n, "ACK") /\ Known(n)
     /\ \E R \in {B \cup {m.seg} : B \in SUBSET c.messageBuffer} :
          \E last \in R :
            /\ IsRun(R, last, c, m.seg)
            /\ Handled(n, HandleAck(c, m.seg, R, last, sendBuffer[n],
                                    timeToClose[n]))
            /\ file' = [file EXCEPT ![n][m.from] =
                 IF m.seg.seq = c.expected_ack /\ AckInRange(c, m.seg)
                 THEN @ \o Written(R, m.seg, last) ELSE @]

\* A warning and nothing else.
ReceiveUnknown(n) ==
  /\ \E flag \in Flag \ {"SYN"} : Arrived(n, flag)
  /\ ~Known(n)
  /\ receiverQueue' = [receiverQueue EXCEPT ![n] = Tail(@)]
  /\ UNCHANGED <<clients, sendBuffer, inputQueue, senderQueue, network, file,
                 timeToClose, phase, dialVars, boundVars>>

\* The branches below receiverQueue in the loop act on every client.
Idle(n) == phase[n] = "looping" /\ receiverQueue[n] = <<>>

Opened(n) == {p \in Node : clients[n][p] # NoClient}

\* Frames h[p] for all peers; the clients in gone are erased, and the items
\* still queued for them no longer refer to an entry of messagesSent.
HandledAll(n, h, gone) ==
  /\ clients' = [clients EXCEPT ![n] =
       [p \in Node |-> IF p \in gone THEN NoClient ELSE h[p].c]]
  /\ senderQueue' = [senderQueue EXCEPT ![n] =
       [p \in Node |->
          LET q == @[p] \o h[p].snd
          IN IF p \in gone
             THEN [i \in DOMAIN q |-> [q[i] EXCEPT !.pushed = FALSE]] ELSE q]]

InsertInput(n) ==
  LET size == sendBuffer[n] + Head(inputQueue[n])
      h    == [p \in Node |->
                 IF /\ p \in Opened(n)
                    /\ clients[n][p].state \in {"ESTABLISHED", "CLOSING"}
                 THEN SendMessages(Frame(clients[n][p]), size, FALSE)
                 ELSE Frame(clients[n][p])]
  IN /\ Idle(n) /\ inputQueue[n] # <<>>
     /\ inputQueue' = [inputQueue EXCEPT ![n] = Tail(@)]
     /\ sendBuffer' = [sendBuffer EXCEPT ![n] = size]
     /\ HandledAll(n, h, {})
     /\ UNCHANGED <<receiverQueue, network, file, timeToClose, phase, dialVars,
                    boundVars>>

Closing(n) == Idle(n) /\ inputQueue[n] = <<>> /\ timeToClose[n]

\* The FIN of the close loop.
CloseFrame(c, size) ==
  IF FinDue(c, size)
  THEN SendFin(Frame(c), IF c.state \in {"ESTABLISHED", "CLOSING"}
                         THEN "FIN_WAIT_1" ELSE "LAST_ACK")
  ELSE Frame(c)

FrontStamped(c) ==
  c.messagesSent # <<>> /\ Head(c.messagesSent).sent = "sent"

\* waited: the peers whose 2 * timeout_interval in TIME_WAIT is over.
CloseClients(n) ==
  LET c(p) == clients[n][p]
      inTimeWait == {p \in Opened(n) : /\ c(p).isFinSent
                                       /\ c(p).state = "TIME_WAIT"
                                       /\ FrontStamped(c(p))}
      closed == {p \in Opened(n) : c(p).isFinSent /\ c(p).state = "CLOSED"}
      h == [p \in Node |-> IF p \in Opened(n)
                           THEN CloseFrame(c(p), sendBuffer[n])
                           ELSE Frame(c(p))]
  IN /\ Closing(n) /\ Opened(n) # {}
     /\ \E waited \in SUBSET inTimeWait : HandledAll(n, h, closed \cup waited)
     /\ UNCHANGED <<sendBuffer, inputQueue, receiverQueue, network, file,
                    timeToClose, phase, dialVars, boundVars>>

\* Mutant: the loop ends although clients are left.
CloseLoopEarly(n) ==
  /\ Closing(n)
  /\ phase' = [phase EXCEPT ![n] = "done"]
  /\ UNCHANGED <<clients, sendBuffer, inputQueue, senderQueue, receiverQueue,
                 network, file, timeToClose, dialVars, boundVars>>

\* No client is left: canCloseDown, and the loop ends.
CloseLoop(n) ==
  /\ Closing(n) /\ Opened(n) = {}
  /\ phase' = [phase EXCEPT ![n] = "done"]
  /\ UNCHANGED <<clients, sendBuffer, inputQueue, senderQueue, receiverQueue,
                 network, file, timeToClose, dialVars, boundVars>>

\* Mutant: the retransmission carries no data.
RetransmitEmpty(c) ==
  LET f == Head(c.messagesSent)
      d == [c EXCEPT !.totalSizeOfMessagesSent = @ + HEADER_SIZE + f.size]
      seg == [Control(f.flag, f.seq, c.expected_ack) EXCEPT !.win = c.windowSize]
  IN [CreateMessage(Frame(d), seg, c.state) EXCEPT !.c.number_of_timeouts = @ + 1]

\* resendMessages and doubleTimeoutInterval: copyFront adds the size again,
\* and the segment advertises the peer's window.
Retransmit(c) ==
  LET f == Head(c.messagesSent)
      d == [c EXCEPT !.totalSizeOfMessagesSent = @ + HEADER_SIZE + f.size]
      seg == [flag |-> f.flag, seq |-> f.seq, ack |-> c.expected_ack,
              win |-> c.windowSize, start |-> f.start, end |-> f.start + f.size]
  IN [CreateMessage(Frame(d), seg, c.state) EXCEPT !.c.number_of_timeouts = @ + 1]

SocketsOpen(n) == phase[n] \notin {"stopped", "crashed"}

\* Nothing between n and p is on its way, and neither is inside addClient.
Quiet(n, p) ==
  /\ senderQueue[n][p] = <<>> /\ network[p][n] = <<>> /\ receiverQueue[n] = <<>>
  /\ dialing[n].step = "idle"
  /\ SocketsOpen(p) => /\ senderQueue[p][n] = <<>> /\ network[n][p] = <<>>
                       /\ receiverQueue[p] = <<>> /\ dialing[p].step = "idle"

\* The timer of the front segment of n's client for p may run out.
MayExpire(n, p) ==
  LET f == Head(clients[n][p].messagesSent)
  IN /\ FrontStamped(clients[n][p])
     /\ KindOf(f.flag, f.size) \in Slow
     /\ PATIENT => Quiet(n, p)

\* Mutant: only a connection that stands is given up.
GivenUpEstablished(c) ==
  c.state = "ESTABLISHED" /\ c.number_of_timeouts > MAX_TIMEOUTS

GivenUp(c) == c.number_of_timeouts > MAX_TIMEOUTS

\* expired: the peers whose timeout_interval has run out.
MessageResendCheck(n) ==
  LET c(p)   == clients[n][p]
      closed == {p \in Opened(n) : c(p).state = "CLOSED"}
      timed  == {p \in Opened(n) \ closed : MayExpire(n, p)}
  IN /\ Idle(n) /\ inputQueue[n] = <<>> /\ ~timeToClose[n]
     /\ \E expired \in SUBSET timed :
          LET h == [p \in Node |-> IF p \in expired THEN Retransmit(c(p))
                                   ELSE Frame(c(p))]
          IN /\ expired \cup closed # {}
             /\ expiries[n] + Cardinality(expired) <= MaxExpiries
             /\ expiries' = [expiries EXCEPT ![n] = @ + Cardinality(expired)]
             /\ HandledAll(n, h, closed \cup
                  {p \in expired : GivenUp(h[p].c)})
     /\ UNCHANGED <<sendBuffer, inputQueue, receiverQueue, network, file,
                    timeToClose, phase, dialVars, inputs, faults>>

-----------------------------------------------------------------------------
(* SocketHandler: the sender and receiver threads, and stop().             *)

\* The item at the head of the queue for p leaves it; its entry is marked.
Dequeue(n, p, mark) ==
  LET item == Head(senderQueue[n][p])
  IN /\ SocketsOpen(n) /\ senderQueue[n][p] # <<>>
     /\ senderQueue' = [senderQueue EXCEPT ![n][p] = Tail(@)]
     /\ clients' = IF item.pushed /\ clients[n][p] # NoClient
                   THEN [clients EXCEPT ![n][p] = Stamp(@, item.seg.seq, mark)]
                   ELSE clients
     /\ UNCHANGED <<sendBuffer, inputQueue, receiverQueue, file, timeToClose,
                    phase, dialVars, inputs, expiries>>

\* sendto succeeds.  A segment to the uninitialised destinationIP of addClient
\* reaches the peer only if that garbage happens to be its address.
Transmit(n, p) ==
  LET item == Head(senderQueue[n][p])
  IN /\ Dequeue(n, p, "sent")
     /\ \/ network' = [network EXCEPT ![n][p] = Append(@, item.seg)]
        \/ item.address = "uninitialised" /\ network' = network
     /\ UNCHANGED faults

\* The receiver thread decodes a datagram.
Deliver(n, p) ==
  /\ SocketsOpen(p) /\ network[n][p] # <<>>
  /\ network' = [network EXCEPT ![n][p] = Tail(@)]
  /\ receiverQueue' = [receiverQueue EXCEPT ![p] =
       Append(@, [from |-> n, seg |-> Head(network[n][p])])]
  /\ UNCHANGED <<clients, sendBuffer, inputQueue, senderQueue, file,
                 timeToClose, phase, dialVars, boundVars>>

\* disconnect() after canCloseDown: the sockets and both queues are closed.
Stop(n) ==
  /\ phase[n] = "done"
  /\ phase' = [phase EXCEPT ![n] = "stopped"]
  /\ senderQueue' = [senderQueue EXCEPT ![n] = [p \in Node |-> <<>>]]
  /\ receiverQueue' = [receiverQueue EXCEPT ![n] = <<>>]
  /\ UNCHANGED <<clients, sendBuffer, inputQueue, network, file, timeToClose,
                 dialVars, boundVars>>

-----------------------------------------------------------------------------
(* The network, with sendto: what may go wrong, at most MaxFaults times.   *)

Mistreated(seg) ==
  /\ faults < MaxFaults /\ KindOf(seg.flag, SizeOf(seg)) \in Faulty
  /\ faults' = faults + 1

SendFails(n, p) ==
  /\ "sendto" \in Faulty /\ Dequeue(n, p, "failed")
  /\ Mistreated(Head(senderQueue[n][p]).seg)
  /\ UNCHANGED network

NetworkFault(n, p) ==
  /\ \E i \in DOMAIN network[n][p] :
       LET q == network[n][p]
       IN /\ Mistreated(q[i])
          /\ \/ network' = [network EXCEPT ![n][p] = RemoveAt(q, i)]
             \/ network' = [network EXCEPT ![n][p] = Append(q, q[i])]
             \/ /\ i > 1
                /\ network' = [network EXCEPT ![n][p] =
                                 <<q[i]>> \o RemoveAt(q, i)]
  /\ UNCHANGED <<protocolVars, sendBuffer, inputQueue, file, timeToClose,
                 dialVars, inputs, expiries>>

-----------------------------------------------------------------------------
(* The application: VIMMessage's thread and its stop().                    *)

Alive(n) == phase[n] # "crashed" /\ ~timeToClose[n]

\* Users who wait for handshakes act when theirs are completed; users who wait
\* for input quit when all of it is taken, and enter none afterwards.
UserReady(n) ==
  "handshake" \in UserWaits =>
    /\ Opened(n) # {}
    /\ \A p \in Opened(n) : clients[n][p].state \notin {"NONE", "SYN_SENT"}

\* tcp_input_queue.push
PushInput(n) ==
  /\ Alive(n) /\ UserReady(n) /\ dialing[n].step = "idle"
  /\ inputs < MaxInputs
  /\ "input" \in UserWaits => \A m \in Node : ~timeToClose[m]
  /\ \E size \in InputSizes[n] :
       inputQueue' = [inputQueue EXCEPT ![n] = Append(@, size)]
  /\ inputs' = inputs + 1
  /\ UNCHANGED <<protocolVars, sendBuffer, network, file, timeToClose,
                 dialVars, faults, expiries>>

\* disconnect() up to its wait; stop() has joined the application thread.
Disconnect(n) ==
  /\ n \in Closers /\ Alive(n) /\ UserReady(n) /\ dialing[n].step = "idle"
  /\ "input" \in UserWaits => \A m \in Node : inputQueue[m] = <<>>
  /\ timeToClose' = [timeToClose EXCEPT ![n] = TRUE]
  /\ UNCHANGED <<protocolVars, sendBuffer, inputQueue, network, file,
                 dialVars, boundVars>>

\* clients.find(port) == clients.end(), so addClient will be called.
DialCheck(n, p) ==
  /\ Alive(n) /\ dialing[n].step = "idle"
  /\ <<n, p>> \in undialled /\ clients[n][p] = NoClient
  /\ undialled' = undialled \ {<<n, p>>}
  /\ dialing' = [dialing EXCEPT ![n] = [peer |-> p, step |-> "emplace"]]
  /\ UNCHANGED <<protocolVars, sendBuffer, inputQueue, network, file,
                 timeToClose, boundVars>>

\* One statement of addClient, leaving client c for peer p and items snd.
DialStep(n, p, from, to, c, snd) ==
  /\ phase[n] # "crashed" /\ dialing[n] = [peer |-> p, step |-> from]
  /\ dialing' = [dialing EXCEPT ![n] =
       IF to = "idle" THEN [peer |-> NoNode, step |-> "idle"]
       ELSE [peer |-> p, step |-> to]]
  /\ clients' = [clients EXCEPT ![n][p] = c]
  /\ senderQueue' = [senderQueue EXCEPT ![n][p] = @ \o snd]
  /\ UNCHANGED <<receiverQueue, phase, sendBuffer, inputQueue, network, file,
                 timeToClose, undialled, boundVars>>

DialEmplace(n, p) ==
  LET c == IF clients[n][p] = NoClient THEN NewClient("NONE", 0)
           ELSE clients[n][p]
  IN DialStep(n, p, "emplace", "syn", c, <<>>)

DialSyn(n, p) ==
  LET c == clients[n][p]
      h == IF c = NoClient THEN Frame(c)
           ELSE CreateMessage(Frame(c), Control("SYN", ISN, 0), "SYN_SENT")
      misaddressed == [i \in DOMAIN h.snd |->
                         [h.snd[i] EXCEPT !.address = "uninitialised"]]
  IN DialStep(n, p, "syn", "sequence", h.c, misaddressed)

\* Mutant: the SYN's sequence number is not counted.
DialSequenceStale(n, p) ==
  LET c == IF clients[n][p] = NoClient THEN NewClient("NONE", 0)
           ELSE clients[n][p]
  IN DialStep(n, p, "sequence", "idle", [c EXCEPT !.expected_sequence = ISN],
              <<>>)

DialSequence(n, p) ==
  LET c == IF clients[n][p] = NoClient THEN NewClient("NONE", 0)
           ELSE clients[n][p]
  IN DialStep(n, p, "sequence", "idle",
              [c EXCEPT !.expected_sequence = ISN + 1], <<>>)

-----------------------------------------------------------------------------
Receive(n) ==
  \/ ReceiveSyn(n) \/ ReceiveSynAck(n) \/ ReceiveFin(n) \/ ReceiveFinAck(n)
  \/ ReceiveAck(n) \/ ReceiveUnknown(n)

Communicate(n) ==
  \/ Start(n) \/ Receive(n) \/ InsertInput(n) \/ CloseClients(n)
  \/ CloseLoop(n) \/ MessageResendCheck(n)

AddClient(n) ==
  \E p \in Node : DialEmplace(n, p) \/ DialSyn(n, p) \/ DialSequence(n, p)

Application(n) ==
  \/ PushInput(n) \/ Disconnect(n) \/ AddClient(n)
  \/ \E p \in Node : DialCheck(n, p)

Next ==
  \E n \in Node :
    \/ Communicate(n) \/ Stop(n) \/ Application(n)
    \/ \E p \in Node : \/ Transmit(n, p) \/ Deliver(n, p)
                       \/ SendFails(n, p) \/ NetworkFault(n, p)

Spec == Init /\ [][Next]_vars

\* The communicate thread has something to do: ENABLED <<Communicate(n)>>_vars,
\* written out because TLC would evaluate every handler to find it.
CanCommunicate(n) ==
  LET c(p) == clients[n][p]
      Closes(p) == \/ FinDue(c(p), sendBuffer[n])
                   \/ c(p).isFinSent /\ c(p).state = "CLOSED"
                   \/ /\ c(p).isFinSent /\ c(p).state = "TIME_WAIT"
                      /\ FrontStamped(c(p))
      Checks(p) == \/ c(p).state = "CLOSED"
                   \/ MayExpire(n, p) /\ expiries[n] < MaxExpiries
  IN \/ phase[n] = "starting"
     \/ /\ phase[n] = "looping"
        /\ \/ receiverQueue[n] # <<>> \/ inputQueue[n] # <<>>
           \/ /\ timeToClose[n]
              /\ Opened(n) = {} \/ \E p \in Opened(n) : Closes(p)
           \/ ~timeToClose[n] /\ \E p \in Opened(n) : Checks(p)

\* The program's own threads keep running; the user and the faults need not.
\* The first conjunct is WF_vars(Communicate(n)).
Fairness ==
  \A n \in Node :
    /\ <>[]CanCommunicate(n) => []<><<Communicate(n)>>_vars
    /\ WF_vars(Stop(n))
    /\ WF_vars(AddClient(n))
    /\ WF_vars(\E p \in Node : Transmit(n, p))
    /\ WF_vars(\E p \in Node : Deliver(p, n))

FairSpec == Spec /\ Fairness

=============================================================================
