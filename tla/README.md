# A specification of the vim-messager backend

TLA+ models, model-checking configurations and machine-checked proofs for the
C++ backend of this repository. The program is a peer-to-peer messenger: a
browser talks over a WebSocket to a local program, and the programs talk to each
other over a home-made TCP that runs on UDP. The TCP is where the hard behaviour
is. The modules cover it and the promise it makes to users, the bytes of its
segments, the queue between the threads, the way of a packet from browser to
browser through router and codecs, and the life of one program's threads from
the start of `main` to its end.

Paths below are relative to the repository; `Connection.cpp` is
`backend/TCP/src/Connection.cpp`, and the other sources are named in the same way.

## 1. Inventory

| Component | State it keeps | Operations | Interacts with |
|---|---|---|---|
| `Connection` (backend/TCP) | `clients` (port -> `Client`), `sendBuffer`, `timeToClose`, `canCloseDown`, `running` | `connect`, `communicate` (one thread), `addClient`, `disconnect`, `createMessage`, `sendMessages`, `messageHandler`, `resendMessages`, `messageResendCheck` | pops `receiverQueue` and `inputQueue`, pushes `senderQueue`; `addClient` and `disconnect` are called from another thread |
| `Client`, `SegmentInfo` | per peer: expected sequence and acknowledgement, last acknowledgement, state, window, unacknowledged segments and their byte count, out-of-order buffer, FIN flag, RTT estimate, file | `pushMessage`, `copyFront`, `checkFront`, `setItemMessageBuffer`, `writeFile`, timers | owned by `Connection`; `setTimeSent` is a callback run by the sender thread |
| `SocketHandler` | socket, `running`, two threads | `send`, `receive`, `start`, `stop` | `senderQueue`, `receiverQueue`, reads `sendBuffer` |
| `Segment`, `Flags` | one segment | `encode`, `decode`, checksum, `decodeFlags` | the two threads of `SocketHandler` |
| `ThreadSafeQueue` | queue, `closed`, mutex, condition variable | `push`, `pop`, `tryPop`, `close` | between all threads |
| `VIMMessage` (router) | `running`, four queues, `clients` | `start`, `stop`, `websocketHandler`, `tcpHandler` | WebSocket queues on one side, `addClient`, `tcp_input_queue` and `Client::receivedData` on the other |
| `VIMPacket` | one packet | `createPacket`, `decodePacket` | router; the frontend has the same codec in TypeScript |
| `WebSocketServer` | two sockets, `running`, two threads | `start`, `acceptClient`, `establishHttpConnection`, `sendData`, `receiveData`, `stop` | the browser, and the router's two WebSocket queues |
| `WebSocketFrame`, `HttpHandler` | one frame, one request | encode, decode, mask; parse an upgrade request | `WebSocketServer`, router |
| Frontend (TypeScript, React) | message list, users | packet codec, dispatch by packet type | the WebSocket |
| `RELATIONAL-DATABASE` | none | an unfinished `CREATE TABLE` parser | nothing |
| Logger, `ErrorTest`, `MiddleManTest` | none | logging, test tools | `MiddleManTest` drops and corrupts datagrams between two programs |

How they run: `communicate` is one thread that looks, in this order, at
`receiverQueue`, `inputQueue`, `timeToClose` and the retransmission timers, and
handles one thing per iteration. The sender and the receiver thread of
`SocketHandler` run beside it, and the router's thread calls `addClient`; after
that thread has been joined, `stop` calls `disconnect`, which waits on a
condition variable until `communicate` has emptied its clients map.

What is hard, and what makes each part correct:

- **Connection.** Loss, duplication and reordering; retransmission by a timer
  that can run out early; a window; a four-way teardown that both sides can
  start; `addClient` on another thread. Correct means: what is written is what
  was entered, in order and once; the three counters of the two ends stay in
  order; every byte sent can still be sent again; nothing is lost when a program
  quits; `disconnect` returns; what is entered arrives.
- **SocketHandler.** Reads `sendBuffer` by index while it grows; a failed
  `sendto` leaves no trace; `stop` races with both threads. Correct means: reads
  inside the buffer, and all threads end.
- **ThreadSafeQueue.** Lost wake-ups, items pushed around `close`. Correct means:
  every pushed item is popped once and in order, nobody sleeps on a closed queue.
- **VIMMessage.** Walks `clients` while `communicate` changes it; assumes a segment
  is a packet. Correct means: a packet of type 3 dials once and is confirmed, every
  message is confirmed once.
- **WebSocketServer.** `stop` against `recv`; an end of file inside the
  handshake. Correct means: `start` and `stop` return.
- **Codecs.** Sign and width of integers, lengths, the ones' complement
  checksum. Correct means: decode after encode is the identity, and C++ and
  TypeScript agree.

`PROJECT.json` lists each hazard at its line with the properties that would catch
it, or the reason why none does yet.

## 2. Modules

There are five models. `Connection` is the transport between programs, `VIMMessage`
the router above it, `BlockingQueue` one queue between two threads, `Segment` one
segment between encode and decode, and `Lifecycle` all threads of one program.
They rest on each other: `Connection` and `Lifecycle` treat a queue as atomic,
which `BlockingQueue` shows; `VIMMessage` uses a transport that does what
`ReliableStream` promises, which `Connection` implements when nothing goes wrong;
`Connection` takes corruption for loss, which `Segment` shows; and `Lifecycle`
leaves the content of segments and packets to `Connection` and `VIMMessage`.

| Module | Content |
|---|---|
| `Connection` | the model: constants and their assumptions, state, handlers, actions, `Spec`, fairness, `FairSpec` |
| `ConnectionProperties` | type invariant, safety, action and liveness properties |
| `MCConnection` | the values of the constants for TLC: two programs A and B |
| `ConnectionProofs` | types, bounds and byte counts, proved without conditions |
| `HandshakeProofs` | the handshake of a program with its target, proved |
| `StreamProofs` | the integrity of the stream, its counters, and the refinement of `ReliableStream`, proved |
| `RetentionProofs` | what a sender can still retransmit, proved |
| `ReliableStream` | what a user may expect of the transport; `ConnectionProperties` maps `Connection` to it |
| `AtomicQueue` | what a shared queue promises: each call takes effect at one moment |
| `BlockingQueue` | `ThreadSafeQueue` with its mutex and condition variable, its properties, and the mapping to `AtomicQueue` |
| `MCBlockingQueue` | the threads and items for TLC |
| `BlockingQueueProofs` | the queue's invariant and the refinement, proved |
| `ByteOrder` | numbers in bytes, most significant first: the shifts and masks of both codecs |
| `VIMPacket` | the packet codec, in C++ and in TypeScript, as operators on bytes |
| `WebSocketFrame` | the frame codec of the server, and the browser's from RFC 6455 |
| `VIMMessage` | the router between browser and transport, with its properties |
| `MCVIMMessage` | two programs, texts and keys for TLC |
| `RouterProofs` | both codecs for every packet, one message and one request from browser to browser, and the router's invariant, proved |
| `Lifecycle` | the threads of one program: start, work, stop, with the properties |
| `MCLifecycle` | the packets that browser and peers send |
| `LifecycleProofs` | the invariants of the shutdown and the theorems |
| `Segment` | the segment codec, checksum and flags over bytes, and the two threads that use them |
| `MCSegment` | segments and bytes for TLC |
| `SegmentProofs` | the checksum and the round trip of the segment codec, proved |

### 2.1 State

| Variable | Code |
|---|---|
| `clients[n][p]` | the entry of `Connection::clients` of program `n` for port `p`, or `NoClient` |
| `sendBuffer[n]` | the length of `sendBuffer`; the bytes are the offsets `0 .. length-1` |
| `inputQueue[n]` | `inputQueue`, the size of each input |
| `senderQueue[n][p]` | `senderQueue`, split by destination; `pushed` says whether the callback that stamps the send time refers to an entry of `messagesSent` |
| `receiverQueue[n]` | `receiverQueue`, with the port the segment came from |
| `network[n][p]` | datagrams sent and not yet read by `recvfrom` |
| `file[n][p]` | what was written to the `.dat` file and pushed on `receivedData`, as offsets of the sender's buffer |
| `timeToClose[n]` | the flag of the same name |
| `phase[n]` | `communicate` not yet started, in its loop, left; sockets closed; or the program has crashed |
| `dialing[n]`, `undialled` | where the application thread is in `addClient`, and the dials still to come |
| `inputs`, `faults`, `expiries` | counters for the bounds |

A `Client` record has the fields of `Client.hpp` that the protocol reads. RTT
estimation and the file handle are absent.

### 2.2 Actions

Each iteration of `communicate` is one action. The handlers are operators on a
*frame*, which holds the client, the items for `senderQueue`, the segments pushed
back on `receiverQueue`, and whether the program still runs; they follow the
functions of the same name.

| Action | Code |
|---|---|
| `Start` | `communicate` before its loop: the SYN to the constructor's target |
| `ReceiveSyn`, `ReceiveSynAck`, `ReceiveFin`, `ReceiveFinAck`, `ReceiveAck` | the cases of the switch, with everything they call: `messageHandler`, `sendMessages`, `createMessage`, `checkFront`, `setItemMessageBuffer`, the drain loop of the ACK case, the FIN at the end of `messageHandler` |
| `ReceiveUnknown` | a segment of a port without client |
| `InsertInput` | the `inputQueue` branch |
| `CloseClients`, `CloseLoop` | the `timeToClose` branch: FINs, erasure after CLOSED or TIME_WAIT; the end of the loop |
| `MessageResendCheck` | the last branch: retransmissions, erasure after too many timeouts (`GivenUp`) |
| `Transmit`, `SendFails` | one iteration of `SocketHandler::send` |
| `Deliver` | one iteration of `SocketHandler::receive` |
| `Stop` | `disconnect` after its wait |
| `PushInput`, `Disconnect`, `DialCheck` | the application: an input, `disconnect` up to its wait, the test before `addClient` |
| `DialEmplace`, `DialSyn`, `DialSequence` | the three statements of `addClient`, each interleaved with everything else |
| `NetworkFault` | the network drops, duplicates or reorders a datagram (external) |

The branches of the loop are tried in the order of the code: `Idle` (nothing to
receive) guards all the later ones, `inputQueue = <<>>` guards closing and
timers, and `timeToClose` switches the timers off.

### 2.3 What is abstracted

- *Bytes* are offsets, so a property can tell whether a byte was lost, repeated
  or moved. *Time* is nondeterministic: an entry is stamped or not, and any
  stamped front entry may time out. `PATIENT` restricts this to moments when
  nothing is on its way between the two programs: the timer then exceeds every
  round trip. `timeout_interval` is estimated to do so, and liveness is
  claimed only then.
- *Headers.* `HEADER_SIZE` counts in the byte count of unacknowledged segments
  and in the window, as in `sendMessages` and `pushMessage`.
- *Window.* `SizeAssumption` says that a window holds at most one full segment with
  its header: in the code `window_size` is 1000 and a segment carries up to 1000
  bytes after a 20 byte header. So the loop of `sendMessages` runs at most once
  per call, and the model has no loop there.
- *senderQueue* is one queue in the code. Splitting it by destination gives
  more interleavings between peers and the same order for each.
- *Sequence numbers* are unbounded naturals instead of 32 bits. They start at 1
  (`ISN`) where the code starts at 1000, so a wrap needs 4 GB of input in one run of the program.
- *Corruption* is a loss: the checksum test of `receive` drops the datagram
  (`SpoiltDropped` of `Segment`).
- *PSH_ACK, RST and DATA* are in the switch with empty bodies and are never sent.
- *Argument order.* `setItemMessageBuffer(seg->getSeqNum(), std::move(seg))` leaves
  the order to the compiler; `ARGS_RIGHT_TO_LEFT` selects it.
- *addClient's address.* `addClient` sends its SYN to `destinationIP`, which the
  constructor used by the router does not set. Such a SYN may arrive or not,
  nondeterministically; a retransmission uses the client's address.
- `clients` is a map changed by two threads without a lock; the model makes each
  statement atomic. The data race itself has no bounded set of outcomes.

### 2.4 The queue

`BlockingQueue` models one `ThreadSafeQueue` and the threads that call it. `q` and
`closed` are the members of the class; `pc[t]` is where thread `t` is in its call,
`call[t]` the operation with its argument or its result; `unsent` bounds what is
pushed.

| Action | Code |
|---|---|
| `CallPush`, `CallPop`, `CallTryPop`, `CallClose` | the threads: `SocketHandler::receive` pushes, `SocketHandler::send` pops, `communicate` polls, `SocketHandler::stop` closes |
| `Enter` | taking the mutex |
| `Push`, `Pop`, `TryPop`, `Close` | the critical section of the operation, with its release of the mutex; a `push` on a closed queue throws |
| `Sleep` | `cv.wait` finds its predicate false: it releases the mutex and sleeps in one step |
| `Notify` | `notify_one` of `push` and `notify_all` of `close`, after the mutex has been released |
| `SpuriousWake` | the condition variable wakes a thread nobody notified (external) |
| `Return` | the call returns |

A critical section is one step since the members are touched only with the mutex
held. `isClosed`, `empty` and `size` change nothing and are left out.
`Connection` treats each queue as atomic; `IsAtomicQueue` is the reason why it may.
`AtomicQueue` hides the mutex, the sleep and the notification: a call is pending,
takes effect on the sequence in one step, and is done.

### 2.5 The router

`VIMMessage` follows a packet from the browser's `sendMessage` or
`sendUserRequest` through the WebSocket, the router and the transport to the
other browser. Packets and frames are the real bytes, so that what one codec
writes is what the other reads.

| State | Code |
|---|---|
| `uplink[n]` | the bytes of the WebSocket's TCP stream which `recv` has not yet returned |
| `ws_receiver_queue`, `ws_sender_queue`, `tcp_input_queue` | the queues of `VIMMessage` |
| `clients[n][p]` | the shared map: state, `lastByteSent`, `receivedData` |
| `sendBuffer[n]` | the bytes of `Connection::sendBuffer` |
| `stream[n][p]` | segments on their way from `n` to `p` |
| `messages`, `users` | the lists that `App.tsx` shows |

| Action | Code |
|---|---|
| `SendMessage`, `SendUserRequest` | the functions of `App.tsx`, to the end of `socket.send` |
| `ReceiveData` | one `recv` of `WebSocketServer::receiveData`: all that has arrived, up to 1024 bytes |
| `WebsocketHandler` | `websocketHandler`, with `addClient` and the push on `tcp_input_queue` |
| `TcpHandler` | `tcpHandler` over all clients; an item that is no frame has been dropped before, in the same iteration |
| `SendData` | `sendData`, `onmessage` and `handlePacket` |
| `InsertInput`, `Receive` | the branches of `communicate` for an input and for a segment |

What is abstracted:

- The transport loses nothing, delivers in order and never finds its window
  full; sequence numbers are left out, and so is the teardown. `Connection` is
  the model of all that.
- Each handler is one step although `clients` is shared with `communicate`
  without a lock; the races of `addClient` are in `Connection`.
- A text is its UTF-8 bytes. An IP address in a packet is one for all.
- The 64-bit form of a frame's length is written down but not reached by TLC: no
  packet exceeds 1024 bytes without being cut by `recv`. `RouterProofs` covers it.
- `UserWaits` says what users wait for: `"read"` (the server has read the last
  packet), `"user"` (somebody to write to). Without `"read"`, two frames may be
  returned by one `recv`; the second is then dropped, and `MessagesArrive` fails.
- `ARGS_RIGHT_TO_LEFT` is the order of evaluation that VIMMessage.cpp:75, 87 and
  95 leave to the compiler: `confirm_packet.size()` stands beside
  `std::move(confirm_packet)`. Evaluated last to first, as g++ on x86 does, every
  frame to the browser has the length 0: the browser reads an empty message, and
  never shows anybody to write to. `RequestConfirmed` then fails for every request, and
  the properties about what arrives say nothing. The runs have the other order.

### 2.6 The promise of the transport

`ReliableStream` is the transport as its users see it: `entered[n]` grows when the
user of `n` types, `delivered[n][p]` is always a prefix of what `p` has entered,
`linked` are the connections, and a connection may go only when both directions
are complete (`Complete`); whoever has ended has no connection left.
`ConnectionProperties` maps `Connection` to it: `entered` is the length of
`sendBuffer`, `delivered` is `file`, `linked` are the entries of the clients maps,
and `ended` are the programs whose loop has ended (`phase`). Segments, windows,
timers, FINs and queues are hidden. `IsReliableStream` includes the liveness part:
while two parties stay linked, what is entered is delivered.

### 2.7 The threads of a program

`Lifecycle` has one program with its two links: `"udp"` is `SocketHandler` (to the
peers) and `"ws"` is `WebSocketServer` (to the browser). The two classes have the same
shape, a sender thread between a queue and a socket and a receiver thread
between the socket and a queue, and stop in the same order, so that their actions
take the link as a parameter.

| Variable | Code |
|---|---|
| `main` | the next statement of `main`, and of what it calls: `VIMMessage::start` and `stop`, `Connection::connect` and `disconnect`, `start` and `stop` of a link |
| `life` | the process runs, has ended, has called `exit`, or was ended by an exception or SIGPIPE |
| `running` | the flags `running` of `main.cpp`, `VIMMessage`, `Connection`, `SocketHandler` and `WebSocketServer` |
| `router`, `communicate`, `sender[l]`, `receiver[l]` | where each thread is: at the test of its flag, in its body, at `pop` or `recv`, at `send` or `push`, done |
| `held[l]`, `read[l]` | the local variable of a sender or receiver between two calls |
| `queue`, `closed`, `input` | the two queues of each link, and `tcp_input_queue` |
| `clients`, `received` | per peer: none, connected, FIN sent, FIN answered; and its `receivedData` |
| `timeToClose`, `canCloseDown` | the members of `Connection` |
| `socket`, `arriving`, `request` | the three sockets, and what can be read from them |
| `browser`, `peer` | the other ends: what a peer knows of the connection |

| Action | Code |
|---|---|
| `Connect`, `SocketInit`, `AcceptClient`, `EstablishHttpConnection`, `SpawnLink`, `SpawnRouter` | `VIMMessage::start`, in this order |
| `StartFails` | the `exit` calls: no socket, 5 seconds without a browser, a response that cannot be sent |
| `StopRouter`, `StartClosing`, `SafeToClose`, `JoinCommunicate`, `End` | the end of `main`'s loop, `VIMMessage::stop`, `Connection::disconnect` |
| `ClearRunning`, `CloseQueue`, `Shutdown`, `JoinReceiver`, `JoinSender`, `Close` | `stop` of a link, statement by statement |
| `SenderLoop`, `SenderPop`, `SenderSend` | `SocketHandler::send`, `WebSocketServer::sendData` |
| `ReceiverLoop`, `ReceiverRecv`, `ReceiverEmpty`, `ReceiverPush` | `SocketHandler::receive`, `WebSocketServer::receiveData` |
| `RouterLoop`, `WebsocketHandler`, `TcpHandler` | `startMessageHandler` and what it calls |
| `CommunicateLoop`, `Handle`, `InsertInput`, `CloseClients`, `CloseLoop`, `Rest` | one iteration of `communicate` |
| `Interrupt` | the signal handler: SIGINT at any moment |
| `BrowserAsks`, `BrowserLeaves`, `BrowserSends`, `PeerSends`, `PeerAnswers` | the other ends (external) |

What is abstracted:

- An item is a peer and a kind. `SYN` begins a connection, `FIN` and its answer `BYE`
  end one, `DATA` and `DIAL` carry a packet; `DIAL` is a request, which may dial a peer
  and is confirmed to the peers as well as to the browser, so that it causes all that
  `DATA` causes and more. `FrameKinds` and `DatagramKinds` say which of the two the browser and
  the peers send.
- The four segments of a teardown are one question and one answer; windows,
  acknowledgements, retransmissions and peers that quit themselves are in
  `Connection`. A packet takes one segment, and a frame of the browser is valid.
- Browser and peers are free: the browser may leave, send, or be silent for 5 seconds at any
  moment, and a peer may send while the links are being stopped. What the code does not handle
  ends the program in the model too (`life = "aborted"`): a receiver that pushes on a
  closed queue, which throws (ThreadSafeQueue.hpp:25) in a thread without a handler, and a
  second `send` to a browser that has left or on a socket that has been shut, which raises SIGPIPE.
- `OnlyUpgrades` says that every request of a browser is a valid upgrade. Otherwise
  `establishHttpConnection` asks again for ever (section 3.2).

### 2.8 The bytes of a segment

`Segment` follows one segment from `senderQueue` through `encode`, the network and
`decode` to `receiverQueue`. `item` is the segment that was taken, `datagram` its
bytes on the way, `spoilt` how many of them were changed, `received` what came out.

| Action | Code |
|---|---|
| `Send` | `SocketHandler::send` up to `sendto`: the bytes `start..end-1` of `sendBuffer`, `Segment::encode`, `createCheckSum` |
| `Receive` | `SocketHandler::receive` after `recvfrom`: `Segment::decode`, `checkCheckSum`, `decodeFlags` |
| `Spoil` | one byte becomes another one (external) |

Numbers have their width; one of 32 bits is a pair of words, since
TLC's integers are 32 bits wide with a sign. Both ends use the same two addresses for
the checksum: in the code the sender takes its configured address, the receiver
the one that `recvfrom` reports, and where they differ (a NAT) nothing is
received. Two changed bytes can cancel each other in a sum, so nothing is
claimed for more than one.

## 3. Runs

The `Connection` instances have two programs, a header of 1, segments of up to 5 bytes and a
window of 6, so one input of 5 fills the window, and an input of 1 leaves room
for more. These are the three cases `sendMessages` distinguishes. Smaller sizes
merge them, larger ones only repeat them. Three inputs are enough for an
acknowledgement, an out-of-order segment and a gap to be in flight together.

Named bounds: `MaxInputs`, `MaxFaults` (for the kinds in `Faulty`),
`MaxExpiries` (for the kinds in `Slow`), `MAX_TIMEOUTS` (10 in the code; 1 or 2
here), `InputSizes`, `Closers`, `Dials`. `UserWaits` names what users wait for:
`"handshake"` (they type after it is completed), `"input"` (they quit when
`inputQueue` has been taken, and nothing is typed after that).

The queue's instance has two threads that push, two that pop, one that polls and
one that closes, and two items. In the program each queue has one thread that
pops; the class allows more, and it is two sleepers that tell `notify_one` from
`notify_all`, and two items that tell a notification per item from one per
non-empty queue.

The router's instance has two programs, A asks for B at most twice, and the two
users together type at most two texts, of 0, 1 or 120 bytes: an empty text makes
a packet that no decoder accepts, 120 bytes one whose frame has the longer
length. Two messages of one user show order, one of each user that both
directions share the connection, and two requests a second dial. The ports
(50000 and 50001) and the IP address have bytes above 127, as has the mask key,
so that a sign or a swapped byte would show.

The lifecycle's instance has one peer, one frame of the browser (`MaxFrames`), which is a
message or a request, and one datagram (`MaxDatagrams`): the peer's own SYN or, when
the program has dialled, a packet, besides its answer to a FIN. A packet of a peer is a
request (`DatagramKinds`). With that, items pass through every queue, the program may dial or be
dialled, and the interrupt, which may come at any moment from the first statement on,
finds the threads at each of their steps. A second peer only repeats `CloseClients`' loop; the
proofs cover any number of peers, frames and datagrams.

The segments of `segment` are of all five kinds, with no data, an even and an odd number
of bytes, numbers at both ends of their range, and sums that carry more than
once; any byte may become any other.

`CHECK_DEADLOCK FALSE` is set in every configuration but that of `segment`: the programs legitimately
come to rest when all input is delivered or all of them have stopped, and a queue
when everything has been popped.

| Run | Question | Bounds | Result |
|---|---|---|---|
| `transfer` | is the stream intact under faults? `TypeOK`, `StreamIntegrity`, `AckWindow`, `NothingForgotten`, `NoUnderflow`, `SenderReadsInBounds` | A enters 3 inputs, any time; 2 faults among data, ACK, `sendto`; 1 early timer | holds, 129,799 states |
| `recovery` | is everything delivered? `EventuallyDelivered`, `AcknowledgesWhatItWrites`, `IsReliableStream` | both enter, 3 inputs; 1 data segment mistreated; patient timer, 2 expiries | holds, 11,218 states |
| `teardown` | is quitting clean? `NoTruncatedClose`, `GracefulClose`, `DisconnectReturns`, `IsReliableStream` | A quits; 3 inputs of 1 or 5, so the window may be full when it does; reliable network, one FIN_ACK repeated by an early timer, which may come after its client is gone | holds, 22,667 states |
| `dial` | does `addClient` connect? `HandshakeEnds`, `DialConnects` | A dials B; two of SYN, SYN_ACK and ACK mistreated; patient timer, 6 expiries of SYN, SYN_ACK or data; gives up after 2 | holds, 34,505 states |
| `queue` | do all items and sleepers get through? `NoLostWakeup`, `CloseWakesAll`, `Drained`, `PopsEnd`, `IsAtomicQueue` | 2 pushers, 2 poppers, 1 poller, 1 closer, 2 items | holds, 84,702 states |
| `router` | does everything typed arrive? `ForwardedInOrder`, `MessagesArrive`, `SeenByBoth`, `OnePerRequest`, `LinksStay`, `TypeOK` | 2 messages, 2 requests; reliable transport | holds, 73,995 states |
| `segment` | does the checksum find a wrong byte, and an intact segment say what was sent? `SpoiltDropped`, `IntactReceived` | 7 segments, any one byte changed | holds, 37,507 states |
| `lifecycle` | do all threads end, in order? `TypeOK`, `NoThreadOutlives`, `PushersStoppedFirst`, `PeersTold`, `StopReturns` | 1 peer, 1 frame, 1 datagram, an interrupt at any time; `OnlyUpgrades` | holds, 160,651 states |
| `stall` | `EventuallyDelivered`, with an input that fills the window | 1 fault, 1 expiry | violated |
| `close_both` | `DisconnectReturns`, when both quit | reliable network | violated |
| `add_user` | is every request confirmed? `RequestConfirmed` | as `router` | violated |
| `idle` | `BrowserHeard`, with a browser that may be silent for 5 seconds | 1 frame, no datagrams | violated |

For each property of a passing run a mutated operator beside the one it
replaces (marked `Mutant`) shows that the property notices a plausible mistake there: a missing
header in the byte count, an acknowledgement that removes one entry too many, a
retransmission without data, a FIN that does not wait for the rest of the buffer.
The mutants are not part of the model.

Each passing run has preconditions, and section 3.2 shows that they are needed:
`recovery` has inputs of one byte (an input that fills the window stalls), `teardown` one
program that quits, and a user who waits for the input to be taken; `transfer`
mistreats no SYN; in `dial` no `sendto` fails; the users of `router` wait for `"read"` and
`"user"`; the browser of `lifecycle` sends a valid upgrade.

What the passing runs claim is worded accordingly. `DialConnects` does not promise a
connection when as much is lost as makes an end give up: then it says what is
left, and `HandshakeEnds` that no client stays half open. `SeenByBoth` is about
requests that the other side shows: whether a request arrives at all is
`RequestConfirmed`, which `add_user` violates. `PushersStoppedFirst` is about the two
threads that `stop` joins before it closes a queue: neither the router nor
`communicate` ever pushes on a closed queue. The receivers are joined later, and may.

### 3.1 Fairness

`Fairness` is weak fairness of what the program's own threads do:
`communicate`'s loop, the sender thread, the receiver thread, `addClient` once
called, and the end of `disconnect`. Each is a thread the operating system keeps
scheduling, in a loop without a condition of its own. There is no fairness for
users, for faults or for `DialCheck`. `Deliver` is fair: apart from the bounded
faults, a datagram in flight arrives. The first conjunct is
`WF_vars(Communicate(n))`, with the enabling condition written out as
`CanCommunicate`. A timer is fair as a part of `communicate`: a stamped segment
that stays unacknowledged does time out.

For the queue, a thread inside a call goes on (the mutex is fair in that a thread
that can take it for ever does), and a consumer calls `pop` again while the queue is
open, as the loop of `SocketHandler::send` does. There is no fairness for pushing,
polling, closing or spurious wake-ups.

For the router, the same threads go on: `communicate`, the router's thread and
the two of the WebSocket server. The conjuncts are weak fairness with
the enabling conditions written out; users are free to do nothing.

For the lifecycle, `main`, every thread, and a peer that has got a FIN
(`PeerAnswers`) go on. Each is weak fairness: a thread that waits in `pop`,
`recv`, `join` or on the condition variable is disabled there. `recv` returns
without data after 5 seconds or when the socket is shut (`ReceiverEmpty`). There is no
fairness for the user, the browser, or a peer that has something to say.
`StopReturns` needs `PeerAnswers`: `disconnect` waits without a timeout.
For `ReliableStream`, `Deliver` is weakly fair for each pair.

### 3.2 What the violations show

- **A lost segment can shut the window for good** (`stall`). `copyFront`
  (Client.cpp:170) adds the size of a segment at each retransmission, `checkFront`
  subtracts it once. After one retransmission of a segment that fills the
  window, `sendMessages` finds no room any more.
- **Two programs that quit together hang** (`close_both`). In FIN_WAIT_1 a FIN is
  not acknowledged (Connection.cpp:342), no timer runs while `timeToClose` is set,
  and `disconnect` waits without a timeout.
- **The request that dials a peer waits in the buffer** (`add_user`). It is
  inserted while the client is in SYN_SENT, where nothing is sent
  (Connection.cpp:520), and the SYN_ACK case (Connection.cpp:305) sends no data
  either. It leaves with the next input, joined to it in one segment, which the
  decoder of the other side rejects for its length.
- **A browser that is silent for 5 seconds is not heard any more** (`idle`).
  `socketInit` sets a receive timeout on the listening socket, the accepted one
  inherits it, and `receiveData` leaves its loop when `recv` fails
  (WebSocketServer.cpp:171).

The models also show the following, each by lifting the precondition
that the passing runs state; no configuration is kept for them.

- *Input can be lost by quitting.* The FIN is decided on `sendBuffer` alone
  (Connection.cpp:179), while input may be in `inputQueue`: with `UserWaits`
  without `"input"`, `GracefulClose` and `IsReliableStream` fail. It may also be
  inserted after the FIN has been sent, and the next acknowledgement then sends it
  behind the FIN (Connection.cpp:177).
- *The first out-of-order segment may crash the program.* Connection.cpp:173, 338
  and 433 move from `seg` and call a method of it in the arguments of one call;
  `ARGS_RIGHT_TO_LEFT` shows it.
- *A late duplicate of a SYN corrupts the file.* The SYN case resets `expected_ack`
  of an established connection (Connection.cpp:301): `StreamIntegrity` fails once
  `"SYN"` is in `Faulty`.
- *A lost FIN, a lost last acknowledgement and a failed `sendto` are not repaired*
  (Connection.cpp:525 and 492, SocketHandler.cpp:98), and a retransmitted SYN_ACK
  advertises the wrong window (Connection.cpp:218).
- *Two programs that dial each other start their numbers over*
  (Connection.cpp:272).
- *A segment or a frame that arrives while its link is being stopped aborts the
  program*: between the clearing of `running` and its own test of it, the receiver may
  push on the queue that `stop` has closed (SocketHandler.cpp:47, WebSocketServer.cpp:175).
  So does a frame for a browser that has left, or whose socket is shut
  (WebSocketServer.cpp:153). The runs of `Lifecycle` contain these executions, as
  `life = "aborted"`; what is still in `ws_sender_queue` at the stop is dropped.
- *A peer that gives up can leave the other end connected to nobody*: the last timeout
  sends the SYN_ACK once more and erases the client in the same iteration
  (Connection.cpp:245 and 252), and that SYN_ACK may be the first to reach the end
  that dialled. `DialConnects` names this case.
- *An invalid upgrade, or an end of file, keeps the handshake looping*, and an
  interrupt does not end it (WebSocketServer.cpp:118): with `OnlyUpgrades = FALSE`,
  `StopReturns` fails.
- *When no browser comes within 5 seconds the program exits* without a FIN to peers
  that have connected meanwhile (`StartFails`; `PeersTold` speaks of programs that
  end through `stop`).

## 4. Proofs

`ConnectionProofs` proves, for all values of the constants that satisfy
`NodeAssumption`, `SizeAssumption`, `BoundAssumption` and `ClientAssumption` (any
number of programs, targets and dials; any window, any number of faults, timers
and inputs; either argument order; `NoClient` is no record):

- `InductiveInvariant == Spec => []IInv`
- `TypeCorrect == Spec => []TypeOK`
- `SenderInBounds == Spec => []SenderReadsInBounds`
- `TotalNeverUnderflows == Spec => []NoUnderflow`

**Why `TypeOK` is not inductive.** A segment is a range `[start, end)`, and
`NextSeq`, `Written` and `CreateMessage` compute with `end - start`: nothing in
the type says that this is a natural number. A data segment is cut at
`sendBuffer.size()` from `lastByteSent`: it is a range only while `lastByteSent`
is not past the end of the buffer, and a retransmission is inside the buffer only
if the entry was when it was created. `SenderReadsInBounds` says this of what
is queued, but not of what is in flight, buffered, or pushed back on
`receiverQueue`.

**The invariant.** `IInv` has three parts. `ProtocolWithin`: each client and
each queued item lies within its node's `sendBuffer` (`ClientWithin(size)`).
`ArrivalsValid`: each segment in flight, decoded or buffered is a well-formed
range. `ControlTyped`: the rest of the type invariant.

**The argument.** Operator lemmas show, for each helper and handler, that it
takes a frame within `size` to a frame within `size` (`CreateMessageWithin`,
`AcknowledgeWithin`, `SendMessagesWithin`, `MessageHandlerWithin`, ...,
`HandleAckWithin`, `RetransmitWithin`). The buffer only grows, and what is within
a buffer is within a longer one (`WithinMonotone`). Step lemmas lift this to the
shapes in which actions use the handlers: one client (`HandledStep`), all clients
(`HandledAllStep`), the sender thread (`DequeueStep`), `addClient`
(`DialStepStep`). `NextIInv` has one case for each action, and the theorems follow
by temporal induction from `InitIInv` and `NextIInv`.

The heart is `SendMessagesWithin`: under `MaySend` the available window exceeds
the header, so the segment has at least one byte, and both limits of `AtMost`
keep its end inside the buffer.

**The byte count.** `NoUnderflow` compares a counter with a sum over
`messagesSent`, and is carried in the type of a client (`Counted` in `ClientWithin`).
`ByteCount` is a cardinality, of one cell per byte and header (`Cells`), so that its
laws are facts about finite sets: the count of a sequence with an entry more
(`CountAppend`), of what is left after `checkFront` has dropped a prefix, and of one
whose entries are the same but for their stamps. `checkFront` subtracts each entry
once and `copyFront` only adds, hence the sum is a lower bound of the counter, and
the subtraction cannot wrap.

The theorems of the next three sections assume `UndisturbedTransfer`: SYN and
SYN_ACK are neither mistreated nor retransmitted, nobody dials or quits, and a
program is not the target of its own target. Everything may happen to data and to
acknowledgements: loss, duplication, reordering, failed `sendto`s, early timers. The
first condition is needed: with `"SYN"` in `Faulty` or in `Slow`, TLC finds
`StreamIntegrity` violated, as section 3.2 says, and with `"SYN_ACK"` too when both
sides enter input. The others confine the proof; TLC finds no violation when they
are lifted on small instances. `transfer` and `recovery` are instances of
`UndisturbedTransfer`.

### 4.1 The handshake

- `HandshakeInOrder == UndisturbedTransfer => (Spec => []HInv)`

`HInv` says at which stage a program `n` and its target `p` are: `Before` (`n` has not
started), `Calling` (the SYN, and nothing else, is on its way to `p`, which has no
client), `Answered` (the SYN_ACK, and nothing else, is on its way to `n`), or `Connected` (only
acknowledgements and data on both wires, also after one has given the other
up). Programs of which neither is the other's target have exchanged nothing
(`Stranger`). `OnlyTransfer` says that no program is closing or dialling.

A proof per action and per pair of programs would mean a hundred of them, as one
action of a program touches the wires of all its peers. The module therefore describes
each action first by what it means for one pair: `PairEvent(n, p)` has one disjunct for
each thing that may happen between two programs (`Calls`, `Answers`, `Completes`,
`Hears`, `Discards`, `Offers`, `Repeats`, `GivesUp`, `Leaves`, `Arrives`, `GoesWrong`,
and `NoEvent` for a step of others). `NextPairs` shows that every step is such
an event for every pair. Later proofs use the events alone and never
look into an action again. `receiverQueue` is shared by all peers of a program;
`SameFrom` and `OnlyFrom` speak of the part of it that came from one.

### 4.2 The stream

`StreamProofs` proves:

- `StreamInvariant == UndisturbedTransfer => (Spec => [](IInv /\ HInv /\ NInv))`
- `StreamIntact == UndisturbedTransfer => (Spec => []StreamIntegrity)`
- `AcknowledgedWasSent == UndisturbedTransfer => (Spec => []AckWindow)`
- `AcknowledgesItsFile == UndisturbedTransfer => (Spec => AcknowledgesWhatItWrites)`
- `ImplementsReliableStream == TolerantTransfer => (Spec => Stream!Init /\ [][Stream!Next]_(Stream!vars))`

`NInv` ties the numbers to the bytes. Whatever is on its way from `n`, or in the buffer
of `p` for segments that came early, is `Said` by `n`: its sequence number is the place of
its first byte (`RightlyNumbered`), that byte was sent, and its acknowledgement
is at most what `n` has received. The entries of `messagesSent` are numbered in the same
way (`Numbered`), so a retransmission says what the first transmission said. And a
receiver expects the number that follows its file (`Expects`). So a segment
that is taken because its number is expected continues the file, and everything else
is buffered or dropped. The drain loop of the ACK case, a fold over the buffer,
is handled by `RunWritten`, which says what a run of the loop has written at any
moment.

`ImplementsReliableStream` is the safety part of `IsReliableStream`: `Init` implies
`Stream!Init`, and `NextStream` shows for each action which step of `ReliableStream` it is.
An input taken is `Enter`, an ACK that writes is `Deliver`, a SYN is `Link`, and the rest
stutters. A client that is given up with bytes under way would be an
`Unlink` that the promise forbids. The code does give up after `MAX_TIMEOUTS`, so
the theorem assumes `MaxExpiries <= MAX_TIMEOUTS` (`TolerantTransfer`), and
`Tolerated` says that a client has timed out no more often than its program:
with it, `GivesUp` cannot happen. `recovery` is an instance.

### 4.3 What can be sent again

- `StreamRemembered == UndisturbedTransfer => (Spec => []NothingForgotten)`

An acknowledgement removes whole entries of `messagesSent`, but only those whose end
it covers: why can it not fall into an entry and lose the rest of it, or pop an
entry early? `Remembers` answers with the set `Bounds` of places that cut no
entry. Segments on their way end at such places, because they are entries; a file
ends where a segment ends; and an acknowledgement names the end of a file. So each of
these is in `Bounds`, and `checkFront` leaves exactly the entries beyond the
acknowledgement. Since `Bounds` only grows, what is in it stays there (`KeepsOn`).

### 4.4 The queue

`BlockingQueueProofs` proves, from `ThreadAssumption` (any finite number of threads,
each calling any of the operations, any set of items):

- `QueueInvariant == Spec => []QInv`
- `WakeupsKept == Spec => []NoLostWakeup`, `CloseIsHeard == Spec => []CloseWakesAll`
- `ImplementsAtomicQueue == Spec => IsAtomicQueue`

`QInv` is the two safety properties, the types, and `CallsFit`, which ties the place
of a thread to its operation (only `pop` sleeps, only `push` and `close` notify):
without it a notification could come from a call that owes none. The argument is
one of counting. `Waking` are the threads on their way to the queue; every step
that lengthens the queue by an item adds its pusher to them, and every step that
removes a thread from them either removes an item or wakes a sleeper in its
place. The refinement maps each critical section to the one step of the abstract
call and everything else to a stutter.

### 4.5 The threads of a program

`LifecycleProofs` proves, from `LifecycleAssumption` (any finite number of peers,
any number of frames and datagrams of any kinds, an interrupt at any moment):

- `TypeCorrect == Spec => []TypeOK`
- `ThreadsJoined == Spec => []NoThreadOutlives`
- `EveryPeerTold == Spec => []PeersTold`
- `PushersAreStopped == Spec => PushersStoppedFirst`

None needs a promise of browser and peers: they hold whatever these do, in the
executions that end in an abort too.

**`Ordered`** says what `main` has waited for, given where it is: `Past(l, steps)`
means that it is at one of these steps of stopping link `l` or beyond them. Past
`joinReceiver` the receiver is done, a socket is closed exactly when main
has closed it, `canCloseDown` implies that `communicate` can only leave its loop, and
so on. `NoThreadOutlives` alone is not inductive: it says nothing while the sockets
are open.

`PushersStoppedFirst` follows from `Ordered` as well. A step of the router or of
`communicate` can only abort the program through a push, and it pushes only in its body
(`"handle"`). There it has not been joined, so `main` has not come to the closing of the queues
it pushes on: those of both senders for the router, that of the UDP sender for `communicate`
(`OpenPush`, `OpenWhileHandled`). `main` itself pushes nothing. What remains are the sender
and receiver threads, whose steps leave `router` and `communicate` as they are.

**`Told`** follows the FIN. `PeersTold` is about the last moment, when `clients` and the
queues have long been empty, so the invariant has to tie what a peer knows to the
client (`PeerKnown`): a peer that is `linked` has a client that is open or
waits for the answer to its FIN; a client that waits has its FIN in the queue or in the sender's
hand (`Outgoing`), or the peer has got it; an answer under way (`Incoming`) comes from
a peer that is over. `Reachable` adds that the socket is open as long as there are clients:
the FIN that the sender holds can still be sent. At the end there are no
clients, hence no peer that is linked.

The proofs have a lemma per group of actions and invariant (`StartOrder`,
`RouterPushes`, `CommunicateTold`, ...), with one step per action; `ToldKept` and
`SameQueues` settle all the steps that touch neither the peers nor what is under way.

### 4.6 The bytes of a segment

`SegmentProofs` proves, for any segments, any content of `sendBuffer` and any
addresses (TLC's run has seven segments):

- `CodecInvariant == Spec => []CodecInv`
- `SpoiltIsDropped == Spec => []SpoiltDropped`
- `IntactIsReceived == Spec => []IntactReceived`

`AddCarries` keeps a sum modulo 65535 and takes it to `Folded`, the number in `1..65535`
that is equal to it. One changed byte changes one word, by 256 times or once the difference
of two bytes, and the sum by less than 65535 but not by 0: no sum that `encode`
has completed to a multiple of 65535 stays one. It does not matter which byte it is: the
length is part of the sum, and nothing is read from a datagram before its sum is checked. The
round trip goes field by field (`Header`, `Packet`): a number of 16 or 32 bits that
is written in bytes is read back from them, and flags that `createFlag` joins are
told apart by `decodeFlags`.

The sum over a datagram is a recursive function, and the library's induction takes an
operator as a parameter. `NatInductive` is an induction without one: it
speaks of a *set* of naturals, and follows from the least member of its complement. Each
fact about all lengths is proved for the set of lengths for which it holds.

### 4.7 The router and its bytes

`RouterProofs` proves, from `PacketAssumption`, `RouterAssumption` and `ClientAssumption` (any
set of ports as programs, any texts and keys, any requests, any size of segments and
of the buffer of `recv`, both orders of evaluation; `NoPacket` and `NoClient` are no
packet and no client):

- `RouterInvariant == Spec => []RouterInv`
- `RouterTypeOK == Spec => []TypeOK`
- `ConnectionsStay == Spec => LinksStay`

and, of the operators alone, with arguments evaluated first to last:

- `MessageRelayed`: for every user id in `1 .. 2^31 - 1`, message id in
  `1 .. 65535`, key and text (not empty, and shorter than `2^64`), the frame that the
  browser sends is a frame to the router and decodes to the packet; the router of the peer
  turns that into a frame from which the peer's browser reads the same ids and the same
  text, as type 2; and it answers nothing.
- `RequestAnswered`: for every address, port and key, the router decodes the request with
  the port that was asked for; what it shows its own browser, and what the asking router shows
  the user who asked, is a confirmation with the same address and port; a confirmation is
  not confirmed.

The bounds are those of the code: an empty text makes a packet that no decoder
accepts, and a user id of `2^31` or more comes out negative in TypeScript. With
`ARGS_RIGHT_TO_LEFT` the frame says length 0, as section 2.5 tells; the three
theorems about `Spec` hold then too.

**The codecs.** `Halves` takes a number apart into its upper half and two bytes
(`High`, `Low`), so that no power beyond 65536 is ever computed with, and `Append16`,
`Append32`, `Append64`, `Read16`, `Read32`, `Read64` follow from it: a number written in
bytes is read back. `HasHeader` says what the first seven bytes of a packet are. From it
come `CppReadsMessage`, `TsReadsMessage` (with `SignedRead`: below `2^31` the sign
does not matter), `CppReadsRequest` and `ConfirmationRead`. A mask applied twice is none
(`MaskTwice`, from `HalfXor`, bit by bit for half a byte). `FrameLayout` describes a frame by
the places of its parts, for all three forms of the length; `BrowserFrameRead` and
`BrowserPayloadRead` read one direction each.

**The invariant.** Neither `TypeOK` nor `LinksStay` is inductive. `LinksStay` breaks when a
SYN arrives at a connection that stands. The code prevents that only at the sender: it
dials when there is no client. `RouterInv` therefore speaks of both ends and of
the stream between them (`LinkOK`): a program without a client for `p` has nothing on
its way to `p`, is not connected in the eyes of `p`, and gets nothing but SYNs; a SYN is the
first segment of its stream; and there is none on its way to a connection that stands. So a program that dials finds its stream empty and the other
end not established, also when both dial at once, when somebody dials himself, and
with any number of programs. `SentBound` says that `lastByteSent` is not past the end of
`sendBuffer`; without it the segment cut by `sendMessages` need not consist of bytes.
The order in which `tcpHandler` walks the map is a `CHOOSE`; `CanAscend` shows that
a finite set of ports can be put in order, so that there is something to choose.

## 5. Model-checked only

All liveness (`EventuallyDelivered`, `DisconnectReturns`, `HandshakeEnds`,
`DialConnects`, `Drained` and `PopsEnd` of the queue, `MessagesArrive`, `SeenByBoth`,
`StopReturns`, and the fairness in `IsReliableStream`): liveness under fairness and
`ENABLED` are beyond the prover.

Safety of the teardown: `NoTruncatedClose` and `GracefulClose`. The
proofs about the stream exclude programs that quit; an invariant for these would have
to add to `PairEvent` the two FINs and their answers.

`ForwardedInOrder` and `OnePerRequest` of the router. They depend on what confines the
run: users who wait, packets that fit into a segment and into the buffer of `recv`, two
programs. A text cut in two could look like a request. `MessageRelayed` and `RequestAnswered` prove
what happens to each packet on its way; that the queues between keep the packets apart and in
order is TLC's. `ForwardedInOrder` filters lists with `SelectSeq`, of which the library
states no fact that does not take an operator as a parameter.

The violations that `stall`, `close_both`, `add_user` and `idle` expect are TLC's by
their nature.

## 6. Not modelled

- RTT estimation (Client.cpp:74-115) is floating point and only sets the timer,
  which is nondeterministic here; `Client`'s file handle is replaced by `file`.
- The text of an HTTP request and the accept key: `HttpHandler` parses one string and
  keeps no state; `Lifecycle` has the outcome, a valid upgrade or not.
- The React components only render; what they send and how they dispatch what
  they receive is in `VIMMessage`.
- `RELATIONAL-DATABASE` is an unfinished parser used by nothing.
- Loggers and test tools are not part of the program, except that the faults of
  `MiddleManTest` are those of `NetworkFault` and `Spoil`.
- Data races (`clients` and `sendBuffer` are shared without a lock) have no bounded
  set of outcomes; the models make each statement, or each handler, atomic.

## 7. Done and left

Done: `Connection` with its invariants proved, `ReliableStream` and the safety of
the refinement proved for an undisturbed transfer, `BlockingQueue` and its refinement
proved, the router with two programs, its codecs and its invariant proved, the lifecycle of
the threads with its safety proved, the segment codec with its checksum and round
trip proved. What a next step would take up:

1. Three programs around a hub: a peer dialled after traffic receives the buffer
   from its first byte, and confirmations go to all peers (VIMMessage.cpp:51).
2. Further runs of `Connection`: both programs dial, the zero window advertised by a
   retransmitted SYN_ACK.
3. Proofs: the teardown's safety; the stream with
   programs that dial; packets kept apart between the routers.
