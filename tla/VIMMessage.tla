----------------------------- MODULE VIMMessage -----------------------------
(***************************************************************************)
(* From browser to browser: the user interface, the WebSocket, the router  *)
(* (class VIMMessage) and the transport under it, with the bytes of every  *)
(* packet and frame.  The transport is class Connection as it behaves when *)
(* the network loses nothing and no window is full (module Connection has  *)
(* the rest): what is entered goes to all peers out of one sendBuffer, cut *)
(* into segments where it happens to be sent, and a segment received is    *)
(* taken for a packet.                                                     *)
(***************************************************************************)
EXTENDS Integers, Sequences, FiniteSets, SequencesExt, VIMPacket, WebSocketFrame

CONSTANTS
  Node,              \* the programs, each named by its port
  NoClient,          \* no entry in the clients map
  IpBytes,           \* the IP address of all of them, in bytes
  Text,              \* what users may type, in bytes
  MaskKey,           \* the keys a browser may choose
  MAX_DATA_SIZE,     \* of a segment
  BUFFER_SIZE,       \* of the buffer of receiveData
  Requests,          \* pairs <<n, p>>: the user of n may ask for p
  MaxInputs,         \* bound on the messages typed, all users together
  MaxAsked,          \* bound on the requests of a user
  UserWaits,         \* what a user waits for, see Ready
  ARGS_RIGHT_TO_LEFT \* the compiler evaluates call arguments last to first

Port   == 1..65535
Bytes4 == [1..4 -> Byte]

ASSUME RouterAssumption ==
  /\ Node \subseteq Port /\ Requests \subseteq Node \X Node
  /\ Text \subseteq Seq(Byte) /\ MaskKey \subseteq Bytes4
  /\ IpBytes \in Bytes4
  /\ UserWaits \subseteq {"read", "user"}
  /\ MAX_DATA_SIZE \in Nat \ {0} /\ BUFFER_SIZE \in Nat \ {0}
  /\ ARGS_RIGHT_TO_LEFT \in BOOLEAN

VARIABLES
  uplink,             \* bytes a browser has sent and its server not yet read
  ws_receiver_queue, ws_sender_queue, tcp_input_queue,
  clients,            \* clients[n][p]: what the router shares with Connection
  sendBuffer,         \* the bytes themselves
  stream,             \* stream[n][p]: segments from n on their way to p
  messages, users,    \* what the browser shows
  inputs, asked       \* counters against the bounds

vars == <<uplink, ws_receiver_queue, ws_sender_queue, tcp_input_queue, clients,
          sendBuffer, stream, messages, users, inputs, asked>>

tcpVars     == <<tcp_input_queue, clients, sendBuffer, stream>>
browserVars == <<messages, users, inputs, asked>>

Client == [state : {"SYN_SENT", "ESTABLISHED"}, lastByteSent : Nat,
           receivedData : Seq(Seq(Byte))]

ASSUME ClientAssumption == NoClient \notin Client

NewClient == [state |-> "SYN_SENT", lastByteSent |-> 0, receivedData |-> <<>>]

Segment(flag, data) == [flag |-> flag, data |-> data]

Init ==
  /\ uplink = [n \in Node |-> <<>>]
  /\ ws_receiver_queue = [n \in Node |-> <<>>]
  /\ ws_sender_queue = [n \in Node |-> <<>>]
  /\ tcp_input_queue = [n \in Node |-> <<>>]
  /\ clients = [n \in Node |-> [p \in Node |-> NoClient]]
  /\ sendBuffer = [n \in Node |-> <<>>]
  /\ stream = [n \in Node |-> [p \in Node |-> <<>>]]
  /\ messages = [n \in Node |-> <<>>] /\ users = [n \in Node |-> <<>>]
  /\ inputs = 0 /\ asked = [n \in Node |-> 0]

-----------------------------------------------------------------------------
(* The user, and the browser's WebSocket.                                  *)

\* Users who wait for "read" let the server read before they enter anything
\* else, those who wait for "user" type when they see somebody to write to.
Ready(n) == "read" \in UserWaits => uplink[n] = <<>>

Sees(n) == "user" \in UserWaits => users[n] # <<>>

Send(n, packet) ==
  /\ packet # NoPacket
  /\ \E key \in MaskKey :
       uplink' = [uplink EXCEPT ![n] = @ \o BrowserFrame(packet, key)]
  /\ UNCHANGED <<ws_receiver_queue, ws_sender_queue, tcpVars, users>>

\* sendMessage: user and message id are 1.  The browser lists what it can
\* decode of its own packet.
SendMessage(n) ==
  /\ Ready(n) /\ Sees(n) /\ inputs < MaxInputs
  /\ \E text \in Text :
       LET packet == TsCreateMsgPacket(1, 1, text)
           own    == TsDecodePacket(packet)
       IN /\ Send(n, packet)
          /\ messages' = IF own = NoPacket THEN messages
                         ELSE [messages EXCEPT ![n] = Append(@, own)]
  /\ inputs' = inputs + 1
  /\ UNCHANGED asked

SendUserRequest(n, p) ==
  /\ Ready(n) /\ <<n, p>> \in Requests /\ asked[n] < MaxAsked
  /\ Send(n, TsCreateUserPacket(IpBytes, p))
  /\ asked' = [asked EXCEPT ![n] = @ + 1]
  /\ UNCHANGED <<messages, inputs>>

\* receiveData: what has arrived, as far as it fits into the buffer, becomes
\* one item of ws_receiver_queue.
ReceiveData(n) ==
  LET size == IF Len(uplink[n]) < BUFFER_SIZE THEN Len(uplink[n])
              ELSE BUFFER_SIZE
  IN /\ uplink[n] # <<>>
     /\ ws_receiver_queue' = [ws_receiver_queue EXCEPT ![n] =
          Append(@, SubSeq(uplink[n], 1, size))]
     /\ uplink' = [uplink EXCEPT ![n] = SubSeq(@, size + 1, Len(@))]
     /\ UNCHANGED <<ws_sender_queue, tcpVars, browserVars>>

\* sendData, and onmessage with handlePacket at the other end.
SendData(n) ==
  LET packet == TsDecodePacket(BrowserPayload(Head(ws_sender_queue[n])))
      Is(types) == packet # NoPacket /\ packet.type \in types
  IN /\ ws_sender_queue[n] # <<>>
     /\ ws_sender_queue' = [ws_sender_queue EXCEPT ![n] = Tail(@)]
     /\ messages' = IF Is({1, 2})
                    THEN [messages EXCEPT ![n] = Append(@, packet)]
                    ELSE messages
     /\ users' = IF Is({4}) THEN [users EXCEPT ![n] = Append(@, packet.userId)]
                 ELSE users
     /\ UNCHANGED <<uplink, ws_receiver_queue, tcpVars, inputs, asked>>

-----------------------------------------------------------------------------
(* The router's thread.                                                    *)

\* The next item of ws_receiver_queue is a frame.
HasFrame(n) ==
  ws_receiver_queue[n] # <<>> /\ IsFrame(Head(ws_receiver_queue[n]))

\* Mutant: dials whether there is a client or not.
DialsAlways(n, packet) == packet.type = 3

Dials(n, packet) == packet.type = 3 /\ clients[n][packet.port] = NoClient

\* addClient, then the packet goes to inputQueue.
Forward(n, packet, payload) ==
  /\ tcp_input_queue' = [tcp_input_queue EXCEPT ![n] = Append(@, payload)]
  /\ IF Dials(n, packet)
     THEN LET p == packet.port
          IN /\ clients' = [clients EXCEPT ![n][p] =
                              IF @ = NoClient THEN NewClient
                              ELSE [@ EXCEPT !.state = "SYN_SENT"]]
             /\ stream' = [stream EXCEPT ![n][p] =
                             Append(@, Segment("SYN", <<>>))]
     ELSE UNCHANGED <<clients, stream>>

WebsocketHandler(n) ==
  LET payload == DecodeFrame(Head(ws_receiver_queue[n]))
      packet  == CppDecodePacket(payload)
  IN /\ HasFrame(n)
     /\ ws_receiver_queue' = [ws_receiver_queue EXCEPT ![n] = Tail(@)]
     /\ IF packet = NoPacket THEN UNCHANGED <<tcp_input_queue, clients, stream>>
        ELSE Forward(n, packet, payload)
     /\ UNCHANGED <<uplink, ws_sender_queue, sendBuffer, browserVars>>

Confirmation(packet) == CppCreateConfirmation(packet.ip, packet.port, 1)

\* The constructor's arguments are the packet's size and, moved, the packet: a
\* packet moved first leaves the size 0 behind.
Frame(packet) ==
  EncodeFrame(IF ARGS_RIGHT_TO_LEFT THEN 0 ELSE Len(packet), packet)

\* What tcpHandler sends to the browser for a packet of a peer.
ToBrowser(packet) ==
  IF packet = NoPacket THEN NoPacket
  ELSE CASE packet.type = 1        -> Frame(CppCreateMsg(2, packet.user_id,
                                        packet.msg_id, packet.msg_data))
         [] packet.type \in {3, 4} -> Frame(Confirmation(packet))
         [] OTHER                  -> NoPacket

\* Mutant: a confirmation is confirmed.
ToPeersAgain(packet) ==
  IF packet # NoPacket /\ packet.type \in {3, 4} THEN Confirmation(packet)
  ELSE NoPacket

\* What it sends to the peers.
ToPeers(packet) ==
  IF packet # NoPacket /\ packet.type = 3 THEN Confirmation(packet) ELSE NoPacket

\* A finite set of numbers in ascending order, as a map is walked.
Ascending(S) ==
  CHOOSE s \in [1..Cardinality(S) -> S] :
    \A i, j \in DOMAIN s : i < j => s[i] < s[j]

\* What there is to send, for each of the ports, in the order of the ports.
InOrder(reply) ==
  LET ports == Ascending({p \in DOMAIN reply : reply[p] # NoPacket})
  IN [i \in DOMAIN ports |-> reply[ports[i]]]

Readable(n) ==
  {p \in Node : clients[n][p] # NoClient /\ clients[n][p].receivedData # <<>>}

\* One item of each client, in the order of the map; an item of
\* ws_receiver_queue that is no frame has been dropped before.
TcpHandler(n) ==
  LET ready == Readable(n)
      packet(p) == CppDecodePacket(Head(clients[n][p].receivedData))
  IN /\ ~HasFrame(n) /\ (ready # {} \/ ws_receiver_queue[n] # <<>>)
     /\ ws_receiver_queue' = [ws_receiver_queue EXCEPT ![n] =
          IF @ = <<>> THEN @ ELSE Tail(@)]
     /\ clients' = [clients EXCEPT ![n] =
          [p \in Node |-> IF p \in ready
                          THEN [clients[n][p] EXCEPT !.receivedData = Tail(@)]
                          ELSE clients[n][p]]]
     /\ ws_sender_queue' = [ws_sender_queue EXCEPT ![n] =
          @ \o InOrder([p \in ready |-> ToBrowser(packet(p))])]
     /\ tcp_input_queue' = [tcp_input_queue EXCEPT ![n] =
          @ \o InOrder([p \in ready |-> ToPeers(packet(p))])]
     /\ UNCHANGED <<uplink, sendBuffer, stream, browserVars>>

-----------------------------------------------------------------------------
(* The transport.                                                          *)

Ack == Segment("ACK", <<>>)

\* Mutant: the last segment counts as a full one.
SendMessagesPast(c, buf, dataWritten) ==
  LET end == c.lastByteSent + MAX_DATA_SIZE
  IN IF c.lastByteSent < Len(buf)
     THEN [c |-> [c EXCEPT !.lastByteSent = end],
           snd |-> <<Segment("ACK",
                       SubSeq(buf, c.lastByteSent + 1, Len(buf)))>>]
     ELSE [c |-> c, snd |-> IF dataWritten THEN <<Ack>> ELSE <<>>]

\* sendMessages, for client c with sendBuffer buf.
SendMessages(c, buf, dataWritten) ==
  LET start == c.lastByteSent
      end   == IF Len(buf) - start < MAX_DATA_SIZE THEN Len(buf)
               ELSE start + MAX_DATA_SIZE
  IN IF start < Len(buf)
     THEN [c |-> [c EXCEPT !.lastByteSent = end],
           snd |-> <<Segment("ACK", SubSeq(buf, start + 1, end))>>]
     ELSE [c |-> c, snd |-> IF dataWritten THEN <<Ack>> ELSE <<>>]

Established(c) == c # NoClient /\ c.state = "ESTABLISHED"

\* The inputQueue branch of communicate: a client whose handshake is not over is
\* sent nothing.
InsertInput(n) ==
  LET buf == sendBuffer[n] \o Head(tcp_input_queue[n])
      h   == [p \in Node |-> IF Established(clients[n][p])
                             THEN SendMessages(clients[n][p], buf, FALSE)
                             ELSE [c |-> clients[n][p], snd |-> <<>>]]
  IN /\ tcp_input_queue[n] # <<>>
     /\ tcp_input_queue' = [tcp_input_queue EXCEPT ![n] = Tail(@)]
     /\ sendBuffer' = [sendBuffer EXCEPT ![n] = buf]
     /\ clients' = [clients EXCEPT ![n] = [p \in Node |-> h[p].c]]
     /\ stream' = [stream EXCEPT ![n] = [p \in Node |-> @[p] \o h[p].snd]]
     /\ UNCHANGED <<uplink, ws_receiver_queue, ws_sender_queue, browserVars>>

\* The cases of communicate's switch, for the segment at the head of the stream.
Handle(c, seg, buf) ==
  LET d == IF c = NoClient THEN NewClient ELSE c
      e == [c EXCEPT !.state = "ESTABLISHED",
                     !.receivedData = IF seg.data = <<>> THEN @
                                      ELSE Append(@, seg.data)]
  IN CASE seg.flag = "SYN"     -> [c   |-> [d EXCEPT !.state = "SYN_SENT"],
                                   snd |-> <<Segment("SYN_ACK", <<>>)>>]
       [] seg.flag = "SYN_ACK" -> [c   |-> [c EXCEPT !.state = "ESTABLISHED"],
                                   snd |-> <<Ack>>]
       [] seg.flag = "ACK"     -> SendMessages(e, buf, seg.data # <<>>)

Receive(n, p) ==
  LET h == Handle(clients[n][p], Head(stream[p][n]), sendBuffer[n])
      rest == [stream EXCEPT ![p][n] = Tail(@)]
  IN /\ stream[p][n] # <<>>
     /\ clients' = [clients EXCEPT ![n][p] = h.c]
     /\ stream' = [rest EXCEPT ![n][p] = @ \o h.snd]
     /\ UNCHANGED <<uplink, ws_receiver_queue, ws_sender_queue,
                    tcp_input_queue, sendBuffer, browserVars>>

-----------------------------------------------------------------------------
User(n) == SendMessage(n) \/ \E p \in Node : SendUserRequest(n, p)

WebSocketServer(n) == ReceiveData(n) \/ SendData(n)

Router(n) == WebsocketHandler(n) \/ TcpHandler(n)

Communicate(n) == InsertInput(n) \/ \E p \in Node : Receive(n, p)

Next == \E n \in Node :
  User(n) \/ WebSocketServer(n) \/ Router(n) \/ Communicate(n)

Spec == Init /\ [][Next]_vars

\* Every thread of the programs goes on; users need not do anything.  The last
\* three are WF_vars(SendData(n)), WF_vars(Router(n)) and WF_vars(Communicate(n)),
\* with the enabling condition written out.
Fairness == \A n \in Node :
  /\ WF_vars(ReceiveData(n))
  /\ <>[](ws_sender_queue[n] # <<>>) => []<><<SendData(n)>>_vars
  /\ <>[](ws_receiver_queue[n] # <<>> \/ Readable(n) # {})
       => []<><<Router(n)>>_vars
  /\ <>[](tcp_input_queue[n] # <<>> \/ \E p \in Node : stream[p][n] # <<>>)
       => []<><<Communicate(n)>>_vars

FairSpec == Spec /\ Fairness

-----------------------------------------------------------------------------
(* Properties.                                                             *)

TypeOK ==
  /\ uplink \in [Node -> Seq(Byte)] /\ sendBuffer \in [Node -> Seq(Byte)]
  /\ ws_receiver_queue \in [Node -> Seq(Seq(Byte))]
  /\ ws_sender_queue \in [Node -> Seq(Seq(Byte))]
  /\ tcp_input_queue \in [Node -> Seq(Seq(Byte))]
  /\ \A n, p \in Node :
       /\ \/ clients[n][p] = NoClient
          \/ /\ clients[n][p].state \in {"SYN_SENT", "ESTABLISHED"}
             /\ clients[n][p].lastByteSent \in 0..Len(sendBuffer[n])
             /\ clients[n][p].receivedData \in Seq(Seq(Byte))
       /\ stream[n][p] \in Seq([flag : {"SYN", "SYN_ACK", "ACK"},
                                data : Seq(Byte)])

\* The messages of a type that n's browser lists, without their type.
Listed(n, type) ==
  LET s == SelectSeq(messages[n], LAMBDA m : m.type = type)
  IN [i \in DOMAIN s |-> <<s[i].userId, s[i].msgId, s[i].msg_data>>]

\* A browser lists what the user of the other one has typed: the same ids and
\* the same text, in the same order, each message once (tcpHandler, both codecs).
ForwardedInOrder ==
  \A n \in Node : \A p \in Node \ {n} : IsPrefix(Listed(p, 2), Listed(n, 1))

\* A request adds at most one user to each list: no confirmation is answered
\* by another one (tcpHandler, types 3 and 4).
OnePerRequest ==
  \A n \in Node : Len(users[n]) <= MapThenSumSet(LAMBDA p : asked[p], Node)

\* A connection that stands is not dialled again (websocketHandler).
LinksStay ==
  [][\A n, p \in Node :
       Established(clients[n][p]) => Established(clients'[n][p])]_vars

\* Every message that a browser lists as its own arrives at the other one.
MessagesArrive ==
  \A n \in Node : \A p \in Node \ {n} : \A k \in 1..MaxInputs :
    Len(Listed(n, 1)) >= k ~> Len(Listed(p, 2)) >= k

\* When the user who was asked for sees a request, so does, as a confirmation, the
\* one who made it: both lists of users grow alike (tcpHandler, type 3: one
\* packet to the browser, one to the peers, and type 4 at the other end).
SeenByBoth ==
  \A r \in Requests : \A k \in 1..MaxAsked :
    Len(users[r[2]]) >= k ~> Len(users[r[1]]) >= k

\* Every request is confirmed to the user who made it, as VIM-MESSAGE/README.md
\* promises (line 11: the packets are forwarded to the next location).  The program
\* does not keep it for the request that dials: see the add_user run.
RequestConfirmed ==
  \A n \in Node : \A k \in 1..MaxAsked : asked[n] >= k ~> Len(users[n]) >= k

=============================================================================
