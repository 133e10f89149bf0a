----------------------------- MODULE Lifecycle ------------------------------
(***************************************************************************)
(* The threads of one program, from the start of main to its end: how they *)
(* are started, what they wait for, and how VIMMessage::stop brings them   *)
(* to an end through running flags, closed queues, shut sockets and joins. *)
(*                                                                         *)
(* The program has two links: "udp" (class SocketHandler) to the peers and *)
(* "ws" (class WebSocketServer) to the browser.  Both have a socket, a     *)
(* sender and a receiver thread and a queue for each, and both stop in the *)
(* same order.  Queues are atomic, as module BlockingQueue shows.  What    *)
(* communicate does with a segment is in module Connection, what the router*)
(* does with a packet in VIMMessage: here they move items and end          *)
(* connections.                                                            *)
(***************************************************************************)
EXTENDS Integers, Sequences, SequencesExt

CONSTANTS
  Peer,           \* the programs of other users
  NoItem,         \* what pop returns when the queue is closed and empty
  MaxFrames,      \* bound on the frames of the browser
  MaxDatagrams,   \* bound on the segments of the peers
  FrameKinds,     \* the packets of the browser, "DATA" or "DIAL" (a request)
  DatagramKinds,  \* the packets of the peers, likewise
  OnlyUpgrades    \* whether every request of a browser is a valid upgrade

ASSUME LifecycleAssumption ==
  /\ IsFiniteSet(Peer) /\ MaxFrames \in Nat /\ MaxDatagrams \in Nat
  /\ FrameKinds \subseteq {"DATA", "DIAL"} /\ DatagramKinds \subseteq {"DATA", "DIAL"}
  /\ OnlyUpgrades \in BOOLEAN
  /\ NoItem \notin Peer \X {"SYN", "DATA", "DIAL", "FIN", "BYE"}

VARIABLES
  main,          \* <<what main does next, the object it does it to>>
  life,          \* the process: "up", "ended", "exited" or "aborted"
  running,       \* the objects whose flag running is set
  router, communicate, sender, receiver,  \* where each thread is
  held,          \* held[l]: the item that the sender has popped
  read,          \* read[l]: the item that the receiver has read
  queue, closed, \* the queues of both links, and which of them are closed
  input,         \* tcp_input_queue
  clients,       \* clients[p]: what the map says of p
  received,      \* received[p]: the receivedData of p's client
  timeToClose, canCloseDown,
  socket,        \* "none", "open", "shut" or "closed"
  arriving,      \* arriving[l]: what the socket has not yet been asked for
  request,       \* the browser's request, not yet read
  browser, peer, \* the other ends
  frames, datagrams  \* counters against the bounds

threadVars == <<router, communicate, sender, receiver, held, read>>
queueVars  == <<queue, closed, input, received>>
netVars    == <<socket, arriving, request, browser, peer, frames, datagrams>>
closeVars  == <<clients, timeToClose, canCloseDown>>

vars == <<main, life, running, threadVars, queueVars, closeVars, netVars>>

Link == {"udp", "ws"}
Role == {"sender", "receiver"}
Item == Peer \X {"SYN", "DATA", "DIAL", "FIN", "BYE"}

Init ==
  /\ main = <<"connect", "udp">> /\ life = "up" /\ running = {"main"}
  /\ router = "none" /\ communicate = "none"
  /\ sender = [l \in Link |-> "none"] /\ receiver = [l \in Link |-> "none"]
  /\ held = [l \in Link |-> NoItem] /\ read = [l \in Link |-> NoItem]
  /\ queue = [r \in Role |-> [l \in Link |-> <<>>]] /\ closed = {}
  /\ input = <<>>
  /\ clients = [p \in Peer |-> "none"] /\ received = [p \in Peer |-> <<>>]
  /\ timeToClose = FALSE /\ canCloseDown = FALSE
  /\ socket = [s \in Link \cup {"server"} |-> "none"]
  /\ arriving = [l \in Link |-> <<>>]
  /\ request = "none" /\ browser = "absent" /\ peer = [p \in Peer |-> "away"]
  /\ frames = 0 /\ datagrams = 0

\* What follows a push: on a closed queue it throws, and no thread catches that.
\* The queues are q before it.
Push(q, role, l, items) ==
  IF items # <<>> /\ <<role, l>> \in closed
  THEN life' = "aborted" /\ queue' = q
  ELSE /\ queue' = [q EXCEPT ![role][l] = @ \o items]
       /\ UNCHANGED life

\* One item of this kind for each of the clients, as a loop over the map does.
ToEach(peers, kind) ==
  LET order == SetToSeq(peers) IN [i \in DOMAIN order |-> <<order[i], kind>>]

-----------------------------------------------------------------------------
(* main: VIMMessage::start.                                                *)

Goto(from, to) == life = "up" /\ main = from /\ main' = to

\* Connection::connect: the socket and the three threads of the transport.
Connect ==
  /\ Goto(<<"connect", "udp">>, <<"socketInit", "server">>)
  /\ socket' = [socket EXCEPT !["udp"] = "open"]
  /\ running' = running \cup {"connection", "udp"}
  /\ sender' = [sender EXCEPT !["udp"] = "loop"]
  /\ receiver' = [receiver EXCEPT !["udp"] = "loop"]
  /\ communicate' = "loop"
  /\ UNCHANGED <<life, router, held, read, queueVars, closeVars, arriving,
                 request, browser, peer, frames, datagrams>>

SocketInit ==
  /\ Goto(<<"socketInit", "server">>, <<"accept", "server">>)
  /\ socket' = [socket EXCEPT !["server"] = "open"]
  /\ UNCHANGED <<life, running, threadVars, queueVars, closeVars, arriving,
                 request, browser, peer, frames, datagrams>>

AcceptClient ==
  /\ Goto(<<"accept", "server">>, <<"handshake", "ws">>)
  /\ browser # "absent"
  /\ socket' = [socket EXCEPT !["ws"] = "open"]
  /\ UNCHANGED <<life, running, threadVars, queueVars, closeVars, arriving,
                 request, browser, peer, frames, datagrams>>

\* No socket to be had, nobody for accept within its 5 seconds, or a response
\* that cannot be sent: exit, unless SIGPIPE comes first.
StartFails ==
  /\ life = "up"
  /\ main[1] \in {"connect", "socketInit", "accept", "handshake"}
  /\ main[1] = "accept" => browser = "absent"
  /\ main[1] = "handshake" => request = "upgrade" /\ browser = "gone"
  /\ life' \in IF main[1] = "handshake" THEN {"exited", "aborted"} ELSE {"exited"}
  /\ UNCHANGED <<main, running, threadVars, queueVars, closeVars, netVars>>

\* establishHttpConnection: it goes on until a request is a valid upgrade, and
\* an end of file is none.
EstablishHttpConnection ==
  LET established == request = "upgrade"
  IN /\ request # "none" /\ request' = "none"
     /\ Goto(<<"handshake", "ws">>,
             IF established THEN <<"spawn", "ws">> ELSE <<"handshake", "ws">>)
     /\ browser' = IF established /\ browser = "asking" THEN "open" ELSE browser
     /\ UNCHANGED <<life, running, threadVars, queueVars, closeVars, socket,
                    arriving, peer, frames, datagrams>>

SpawnLink ==
  /\ Goto(<<"spawn", "ws">>, <<"spawn", "vim">>)
  /\ running' = running \cup {"ws"}
  /\ sender' = [sender EXCEPT !["ws"] = "loop"]
  /\ receiver' = [receiver EXCEPT !["ws"] = "loop"]
  /\ UNCHANGED <<life, router, communicate, held, read, queueVars, closeVars,
                 netVars>>

SpawnRouter ==
  /\ Goto(<<"spawn", "vim">>, <<"wait", "main">>)
  /\ running' = running \cup {"vim"} /\ router' = "loop"
  /\ UNCHANGED <<life, communicate, sender, receiver, held, read, queueVars,
                 closeVars, netVars>>

Start == Connect \/ SocketInit \/ AcceptClient \/ StartFails
           \/ EstablishHttpConnection \/ SpawnLink \/ SpawnRouter

-----------------------------------------------------------------------------
(* main: VIMMessage::stop, Connection::disconnect, and stop of both links. *)

\* The loop of main ends after a SIGINT; stop clears the router's flag.
StopRouter ==
  /\ Goto(<<"wait", "main">>, <<"join", "router">>)
  /\ "main" \notin running /\ running' = running \ {"vim"}
  /\ UNCHANGED <<life, threadVars, queueVars, closeVars, netVars>>

\* Mutant: the router is not joined.
RouterLeft == router # "none"

RouterJoined == router = "done"

StartClosing ==
  /\ Goto(<<"join", "router">>, <<"disconnect", "connection">>) /\ RouterJoined
  /\ timeToClose' = TRUE
  /\ UNCHANGED <<life, running, threadVars, queueVars, clients, canCloseDown,
                 netVars>>

SafeToClose ==
  /\ Goto(<<"disconnect", "connection">>, <<"clear", "udp">>) /\ canCloseDown
  /\ UNCHANGED <<life, running, threadVars, queueVars, closeVars, netVars>>

ClearRunning(l) ==
  /\ Goto(<<"clear", l>>, <<"closeSender", l>>)
  /\ running' = running \ {l}
  /\ UNCHANGED <<life, threadVars, queueVars, closeVars, netVars>>

\* Mutant: the queue of the sender is left open.
ClosesReceiverOnly(role, l) == role = "receiver" /\ l \in Link

Closes(role, l) == role \in Role /\ l \in Link

CloseQueue(role, l) ==
  /\ IF role = "sender" THEN Goto(<<"closeSender", l>>, <<"closeReceiver", l>>)
     ELSE Goto(<<"closeReceiver", l>>, <<"shutdown", l>>)
  /\ closed' = IF Closes(role, l) THEN closed \cup {<<role, l>>} ELSE closed
  /\ UNCHANGED <<life, running, threadVars, queue, input, received, closeVars,
                 netVars>>

Sockets(l) == IF l = "ws" THEN {"ws", "server"} ELSE {"udp"}

Shutdown(l) ==
  /\ Goto(<<"shutdown", l>>, <<"joinReceiver", l>>)
  /\ socket' = [s \in DOMAIN socket |->
                  IF s \in Sockets(l) THEN "shut" ELSE socket[s]]
  /\ UNCHANGED <<life, running, threadVars, queueVars, closeVars, arriving,
                 request, browser, peer, frames, datagrams>>

JoinReceiver(l) ==
  /\ Goto(<<"joinReceiver", l>>, <<"joinSender", l>>) /\ receiver[l] = "done"
  /\ UNCHANGED <<life, running, threadVars, queueVars, closeVars, netVars>>

\* Mutant: the sender is joined when it is idle.
SenderIdle(l) == sender[l] \in {"pop", "done"}

SenderJoined(l) == sender[l] = "done"

JoinSender(l) ==
  /\ Goto(<<"joinSender", l>>, <<"close", l>>) /\ SenderJoined(l)
  /\ UNCHANGED <<life, running, threadVars, queueVars, closeVars, netVars>>

\* disconnect goes on to join communicate, WebSocketServer::stop ends main.
Close(l) ==
  /\ Goto(<<"close", l>>,
          IF l = "udp" THEN <<"join", "communicate">> ELSE <<"end", "main">>)
  /\ socket' = [s \in DOMAIN socket |->
                  IF s \in Sockets(l) THEN "closed" ELSE socket[s]]
  /\ UNCHANGED <<life, running, threadVars, queueVars, closeVars, arriving,
                 request, browser, peer, frames, datagrams>>

JoinCommunicate ==
  /\ Goto(<<"join", "communicate">>, <<"clear", "ws">>) /\ communicate = "done"
  /\ UNCHANGED <<life, running, threadVars, queueVars, closeVars, netVars>>

End ==
  /\ Goto(<<"end", "main">>, <<"end", "main">>) /\ life' = "ended"
  /\ UNCHANGED <<running, threadVars, queueVars, closeVars, netVars>>

StopLink(l) ==
  \/ ClearRunning(l) \/ CloseQueue("sender", l) \/ CloseQueue("receiver", l)
  \/ Shutdown(l) \/ JoinReceiver(l) \/ JoinSender(l) \/ Close(l)

Stop == StopRouter \/ StartClosing \/ SafeToClose \/ JoinCommunicate \/ End
          \/ \E l \in Link : StopLink(l)

Main == Start \/ Stop

-----------------------------------------------------------------------------
(* The threads of a link.                                                  *)

\* The test of while(running).
SenderLoop(l) ==
  /\ life = "up" /\ sender[l] = "loop"
  /\ sender' = [sender EXCEPT ![l] = IF l \in running THEN "pop" ELSE "done"]
  /\ UNCHANGED <<main, life, running, router, communicate, receiver, held, read,
                 queueVars, closeVars, netVars>>

\* Mutant: what pop returns is sent without the test for nothing.
AfterPopUntested(item) == "send"

AfterPop(item) == IF item = NoItem THEN "loop" ELSE "send"

SenderPop(l) ==
  LET q    == queue["sender"][l]
      item == IF q = <<>> THEN NoItem ELSE Head(q)
  IN /\ life = "up" /\ sender[l] = "pop"
     /\ q # <<>> \/ <<"sender", l>> \in closed
     /\ held' = [held EXCEPT ![l] = item]
     /\ sender' = [sender EXCEPT ![l] = AfterPop(item)]
     /\ queue' = IF q = <<>> THEN queue
                 ELSE [queue EXCEPT !["sender"][l] = Tail(@)]
     /\ UNCHANGED <<main, life, running, router, communicate, receiver, read,
                    closed, input, received, closeVars, netVars>>

\* send on a socket that is shut, or that the browser has left, may raise
\* SIGPIPE, which nobody handles; sendto on a shut socket only fails.
BrokenPipe(l) ==
  l = "ws" /\ (socket["ws"] = "shut" \/ browser = "gone")

\* A peer that gets a segment knows that it is connected, and a FIN ends that.
Hears(item) ==
  IF peer[item[1]] = "over" THEN peer
  ELSE [peer EXCEPT ![item[1]] =
          IF item[2] = "FIN" \/ @ = "told" THEN "told" ELSE "linked"]

SenderSend(l) ==
  /\ life = "up" /\ sender[l] = "send"
  /\ life' = life \/ (BrokenPipe(l) /\ life' = "aborted")
  /\ peer' = IF l = "udp" /\ socket["udp"] = "open" THEN Hears(held[l]) ELSE peer
  /\ held' = [held EXCEPT ![l] = NoItem]
  /\ sender' = [sender EXCEPT ![l] = "loop"]
  /\ UNCHANGED <<main, running, router, communicate, receiver, read, queueVars,
                 closeVars, socket, arriving, request, browser, frames,
                 datagrams>>

Sender(l) == SenderLoop(l) \/ SenderPop(l) \/ SenderSend(l)

ReceiverLoop(l) ==
  /\ life = "up" /\ receiver[l] = "loop"
  /\ receiver' = [receiver EXCEPT ![l] = IF l \in running THEN "recv" ELSE "done"]
  /\ UNCHANGED <<main, life, running, router, communicate, sender, held, read,
                 queueVars, closeVars, netVars>>

ReceiverRecv(l) ==
  /\ life = "up" /\ receiver[l] = "recv" /\ arriving[l] # <<>>
  /\ read' = [read EXCEPT ![l] = Head(arriving[l])]
  /\ arriving' = [arriving EXCEPT ![l] = Tail(@)]
  /\ receiver' = [receiver EXCEPT ![l] = "push"]
  /\ UNCHANGED <<main, life, running, router, communicate, sender, held,
                 queueVars, closeVars, socket, request, browser, peer, frames,
                 datagrams>>

\* recv without data: the socket is shut, the browser gone, or 5 seconds are
\* over.  SocketHandler tries again, WebSocketServer leaves its loop.
ReceiverEmpty(l) ==
  /\ life = "up" /\ receiver[l] = "recv" /\ arriving[l] = <<>>
  /\ receiver' = [receiver EXCEPT ![l] = IF l = "udp" THEN "loop" ELSE "done"]
  /\ UNCHANGED <<main, life, running, router, communicate, sender, held, read,
                 queueVars, closeVars, netVars>>

ReceiverPush(l) ==
  /\ life = "up" /\ receiver[l] = "push"
  /\ Push(queue, "receiver", l, <<read[l]>>)
  /\ read' = [read EXCEPT ![l] = NoItem]
  /\ receiver' = [receiver EXCEPT ![l] = "loop"]
  /\ UNCHANGED <<main, running, router, communicate, sender, held, closed, input,
                 received, closeVars, netVars>>

Receiver(l) ==
  ReceiverLoop(l) \/ ReceiverRecv(l) \/ ReceiverEmpty(l) \/ ReceiverPush(l)

-----------------------------------------------------------------------------
(* The router's thread and communicate.                                    *)

RouterLoop ==
  /\ life = "up" /\ router = "loop"
  /\ router' = IF "vim" \in running THEN "handle" ELSE "done"
  /\ UNCHANGED <<main, life, running, communicate, sender, receiver, held, read,
                 queueVars, closeVars, netVars>>

\* websocketHandler: a request for an unknown peer dials it.
WebsocketHandler ==
  LET q     == queue["receiver"]["ws"]
      item  == Head(q)
      dials == item[2] = "DIAL" /\ clients[item[1]] = "none"
  IN /\ life = "up" /\ router = "handle" /\ q # <<>>
     /\ input' = Append(input, item)
     /\ clients' = IF dials THEN [clients EXCEPT ![item[1]] = "open"] ELSE clients
     /\ Push([queue EXCEPT !["receiver"]["ws"] = Tail(q)], "sender", "udp",
             IF dials THEN <<<<item[1], "SYN">>>> ELSE <<>>)
     /\ router' = "loop"
     /\ UNCHANGED <<main, running, communicate, sender, receiver, held, read,
                    closed, received, timeToClose, canCloseDown, netVars>>

\* tcpHandler: for one item of each client the browser gets a packet, for a
\* request the peers get a confirmation too; with nothing to do it sleeps.
TcpHandler ==
  LET ready    == {p \in Peer : received[p] # <<>>}
      requests == {p \in ready : Head(received[p])[2] = "DIAL"}
  IN /\ life = "up" /\ router = "handle" /\ queue["receiver"]["ws"] = <<>>
     /\ Push(queue, "sender", "ws", ToEach(ready, "DATA"))
     /\ input' = input \o ToEach(requests, "DATA")
     /\ received' = [p \in Peer |-> IF p \in ready THEN Tail(received[p])
                                   ELSE received[p]]
     /\ router' = "loop"
     /\ UNCHANGED <<main, running, communicate, sender, receiver, held, read,
                    closed, closeVars, netVars>>

Router == RouterLoop \/ WebsocketHandler \/ TcpHandler

CommunicateLoop ==
  /\ life = "up" /\ communicate = "loop"
  /\ communicate' = IF "connection" \in running THEN "handle" ELSE "done"
  /\ UNCHANGED <<main, life, running, router, sender, receiver, held, read,
                 queueVars, closeVars, netVars>>

\* One iteration: it goes back to the test of its flag.
Iteration ==
  /\ life = "up" /\ communicate = "handle" /\ communicate' = "loop"
  /\ UNCHANGED <<main, router, sender, receiver, held, read, closed,
                 timeToClose, netVars>>

\* A segment: a SYN makes a client, the answer to a FIN ends one.
Handle ==
  LET q     == queue["receiver"]["udp"]
      p     == Head(q)[1]
      kind  == Head(q)[2]
      known == clients[p] # "none"
      data  == kind \in {"DATA", "DIAL"} /\ known
  IN /\ Iteration /\ q # <<>>
     /\ clients' = [clients EXCEPT ![p] =
          CASE kind = "SYN" /\ ~known -> "open"
            [] kind = "BYE" /\ known  -> "answered"
            [] OTHER                  -> @]
     /\ received' = IF data THEN [received EXCEPT ![p] = Append(@, Head(q))]
                    ELSE received
     /\ Push([queue EXCEPT !["receiver"]["udp"] = Tail(q)], "sender", "udp",
             IF data \/ kind = "SYN" THEN <<<<p, "DATA">>>> ELSE <<>>)
     /\ UNCHANGED <<running, input, canCloseDown>>

\* One segment of the given kind to each client that stands.
ToOpen(kind) == ToEach({p \in Peer : clients[p] = "open"}, kind)

InsertInput ==
  /\ Iteration /\ queue["receiver"]["udp"] = <<>> /\ input # <<>>
  /\ input' = Tail(input)
  /\ Push(queue, "sender", "udp", ToOpen("DATA"))
  /\ UNCHANGED <<running, received, clients, canCloseDown>>

Closing == queue["receiver"]["udp"] = <<>> /\ input = <<>> /\ timeToClose

\* Mutant: a client is erased without an answer to its FIN.
ErasableUnanswered(state) == state \in {"finSent", "answered"}

Erasable(state) == state = "answered"

\* timeToClose: a FIN for the clients that have none yet; an erased client
\* takes what it has received with it.
CloseClients ==
  /\ Iteration /\ Closing /\ \E p \in Peer : clients[p] # "none"
  /\ clients' = [p \in Peer |-> CASE clients[p] = "open"    -> "finSent"
                                  [] Erasable(clients[p]) -> "none"
                                  [] OTHER                -> clients[p]]
  /\ received' = [p \in Peer |-> IF clients'[p] = "none" THEN <<>> ELSE received[p]]
  /\ Push(queue, "sender", "udp", ToOpen("FIN"))
  /\ UNCHANGED <<running, input, canCloseDown>>

\* Without clients the loop ends, and disconnect is told so.
CloseLoop ==
  /\ Iteration /\ Closing /\ \A p \in Peer : clients[p] = "none"
  /\ running' = running \ {"connection"} /\ canCloseDown' = TRUE
  /\ UNCHANGED <<life, queue, input, received, clients>>

\* Nothing to do: the timers are in Connection, and without clients it sleeps.
Rest ==
  /\ Iteration /\ queue["receiver"]["udp"] = <<>> /\ input = <<>> /\ ~timeToClose
  /\ UNCHANGED <<life, running, queue, input, received, clients, canCloseDown>>

Communicate ==
  CommunicateLoop \/ Handle \/ InsertInput \/ CloseClients \/ CloseLoop \/ Rest

-----------------------------------------------------------------------------
(* The user, the browser and the peers.                                    *)

Interrupt ==
  /\ life = "up" /\ "main" \in running /\ running' = running \ {"main"}
  /\ UNCHANGED <<main, life, threadVars, queueVars, closeVars, netVars>>

BrowserAsks ==
  /\ life = "up" /\ socket["server"] = "open" /\ browser = "absent"
  /\ browser' = "asking"
  /\ request' \in IF OnlyUpgrades THEN {"upgrade"} ELSE {"upgrade", "other"}
  /\ UNCHANGED <<main, life, running, threadVars, queueVars, closeVars, socket,
                 arriving, peer, frames, datagrams>>

BrowserLeaves ==
  /\ life = "up" /\ browser \in {"asking", "open"}
  /\ browser' = "gone"
  /\ UNCHANGED <<main, life, running, threadVars, queueVars, closeVars, socket,
                 arriving, request, peer, frames, datagrams>>

Arrives(l, item) ==
  /\ life = "up" /\ socket[l] \in {"open", "shut"}
  /\ arriving' = [arriving EXCEPT ![l] = Append(@, item)]
  /\ UNCHANGED <<main, life, running, threadVars, queueVars, closeVars, socket,
                 request, browser>>

BrowserSends ==
  /\ browser = "open" /\ frames < MaxFrames /\ frames' = frames + 1
  /\ \E p \in Peer, kind \in FrameKinds : Arrives("ws", <<p, kind>>)
  /\ UNCHANGED <<peer, datagrams>>

\* A peer dials, or sends what its user has typed.
PeerSends(p) ==
  /\ datagrams < MaxDatagrams /\ datagrams' = datagrams + 1
  /\ \/ peer[p] = "away" /\ Arrives("udp", <<p, "SYN">>)
        /\ peer' = [peer EXCEPT ![p] = "dialing"]
     \/ /\ peer[p] = "linked" /\ UNCHANGED peer
        /\ \E kind \in DatagramKinds : Arrives("udp", <<p, kind>>)
  /\ UNCHANGED frames

\* It answers the FIN, which ends the connection on both sides.
PeerAnswers(p) ==
  /\ peer[p] = "told" /\ peer' = [peer EXCEPT ![p] = "over"]
  /\ Arrives("udp", <<p, "BYE">>)
  /\ UNCHANGED <<frames, datagrams>>

Outside ==
  \/ Interrupt \/ BrowserAsks \/ BrowserLeaves \/ BrowserSends
  \/ \E p \in Peer : PeerSends(p) \/ PeerAnswers(p)

Next ==
  \/ Main \/ Router \/ Communicate \/ Outside
  \/ \E l \in Link : Sender(l) \/ Receiver(l)

Spec == Init /\ [][Next]_vars

\* Every thread goes on, and a peer that is told of the end answers.
Fairness ==
  /\ WF_vars(Main) /\ WF_vars(Router) /\ WF_vars(Communicate)
  /\ \A l \in Link : WF_vars(Sender(l)) /\ WF_vars(Receiver(l))
  /\ \A p \in Peer : WF_vars(PeerAnswers(p))

FairSpec == Spec /\ Fairness

-----------------------------------------------------------------------------
(* Properties.                                                             *)

Thread == {"none", "loop", "handle", "done"}

MainAt ==
  {<<"connect", "udp">>, <<"socketInit", "server">>, <<"accept", "server">>,
   <<"handshake", "ws">>, <<"spawn", "ws">>, <<"spawn", "vim">>,
   <<"wait", "main">>, <<"join", "router">>, <<"disconnect", "connection">>,
   <<"join", "communicate">>, <<"end", "main">>}
  \cup ({"clear", "closeSender", "closeReceiver", "shutdown", "joinReceiver",
         "joinSender", "close"} \X Link)

TypeOK ==
  /\ main \in MainAt /\ life \in {"up", "ended", "exited", "aborted"}
  /\ running \subseteq {"main", "vim", "connection", "udp", "ws"}
  /\ router \in Thread /\ communicate \in Thread
  /\ sender \in [Link -> {"none", "loop", "pop", "send", "done"}]
  /\ receiver \in [Link -> {"none", "loop", "recv", "push", "done"}]
  /\ held \in [Link -> Item \cup {NoItem}] /\ read \in [Link -> Item \cup {NoItem}]
  /\ \A l \in Link : /\ sender[l] = "send" => held[l] \in Item
                     /\ receiver[l] = "push" => read[l] \in Item
  /\ queue \in [Role -> [Link -> Seq(Item)]]
  /\ closed \subseteq Role \X Link
  /\ input \in Seq(Item) /\ received \in [Peer -> Seq(Item)]
  /\ clients \in [Peer -> {"none", "open", "finSent", "answered"}]
  /\ timeToClose \in BOOLEAN /\ canCloseDown \in BOOLEAN
  /\ socket \in [Link \cup {"server"} -> {"none", "open", "shut", "closed"}]
  /\ arriving \in [Link -> Seq(Item)]
  /\ request \in {"none", "upgrade", "other"}
  /\ browser \in {"absent", "asking", "open", "gone"}
  /\ peer \in [Peer -> {"away", "dialing", "linked", "told", "over"}]
  /\ frames \in 0..MaxFrames /\ datagrams \in 0..MaxDatagrams

\* No thread works on a socket that is closed, and none is left when main has
\* returned and the objects are destroyed (stop of both links, disconnect).
NoThreadOutlives ==
  /\ \A l \in Link : socket[l] = "closed" => sender[l] = "done" /\ receiver[l] = "done"
  /\ life = "ended" =>
       /\ router = "done" /\ communicate = "done"
       /\ \A l \in Link : socket[l] = "closed"

\* Whatever arrives while the program stops, the router and communicate never
\* push on a closed queue: stop and disconnect close the queues after the last
\* of their pushes.  What can abort the program is a receiver that pushes on its
\* closed queue, or SIGPIPE on the browser's socket.
PushersStoppedFirst ==
  [][life' = "aborted" /\ life = "up" => UNCHANGED <<router, communicate>>]_vars

\* A peer that knows it is connected is told before the program ends: the
\* sockets are not shut before its FIN has been sent (disconnect).
PeersTold == life = "ended" => \A p \in Peer : peer[p] # "linked"

\* Asked to stop, the program does not hang, wherever its threads are: stop
\* returns, or one of the aborts above overtakes it (VIMMessage::stop).
StopReturns == "main" \notin running ~> life # "up"

\* While program and browser go on, what the browser sends is read (receiveData).
BrowserHeard ==
  arriving["ws"] # <<>> ~>
    arriving["ws"] = <<>> \/ "main" \notin running \/ browser = "gone" \/ life # "up"

=============================================================================
