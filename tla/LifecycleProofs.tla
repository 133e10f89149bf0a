-------------------------- MODULE LifecycleProofs ---------------------------
(* Proofs about the threads of one program: the type invariant, the order in *)
(* which main ends them, that the router and communicate never push on a     *)
(* closed queue, and that the peers are told of the end.                     *)
EXTENDS Lifecycle, FiniteSetTheorems, SequenceTheorems, TLAPS

-----------------------------------------------------------------------------
(* Where main is, and what it has waited for on the way.                    *)

StopStep   == {"clear", "closeSender", "closeReceiver", "shutdown",
               "joinReceiver", "joinSender", "close"}
AfterClear == StopStep \ {"clear"}

\* main has closed the sockets of l.
Finished(l) ==
  \/ main = <<"end", "main">>
  \/ /\ l = "udp"
     /\ main = <<"join", "communicate">> \/ (main[1] \in StopStep /\ main[2] = "ws")

\* main is at one of these steps of stopping l, or past them all.
Past(l, steps) == (main[1] \in steps /\ main[2] = l) \/ Finished(l)

\* main has joined the router's thread.
Alone == main = <<"disconnect", "connection">> \/ Past("udp", StopStep)

\* The order in which stop and disconnect end what start has begun.
Ordered ==
  /\ \A l \in Link :
       /\ Past(l, {"joinSender", "close"}) => receiver[l] = "done"
       /\ Past(l, {"close"}) => sender[l] = "done"
       /\ socket[l] = "closed" <=> Finished(l)
       /\ l \in running => ~Past(l, AfterClear)
       /\ \A role \in Role : <<role, l>> \in closed => Past(l, AfterClear)
  /\ main = <<"connect", "udp">> => sender["udp"] = "none"
  /\ Alone => router = "done"
  /\ timeToClose \/ canCloseDown => Alone
  /\ Past("udp", StopStep) => canCloseDown
  /\ canCloseDown => "connection" \notin running /\ communicate \in {"loop", "done"}
  /\ Past("ws", StopStep) => communicate = "done"
  /\ life = "ended" => main = <<"end", "main">>

-----------------------------------------------------------------------------
(* Sequences of items.                                                      *)

\* What a push leaves in the queues is again a queue of items.
LEMMA PushType ==
  ASSUME NEW q \in [Role -> [Link -> Seq(Item)]],
         NEW role \in Role, NEW l \in Link,
         NEW items \in Seq(Item), Push(q, role, l, items),
         life \in {"up", "ended", "exited", "aborted"}
  PROVE  /\ queue' \in [Role -> [Link -> Seq(Item)]]
         /\ life' \in {"up", "ended", "exited", "aborted"}
  <1>1. q[role][l] \o items \in Seq(Item)
    OBVIOUS
  <1>2. [q EXCEPT ![role][l] = q[role][l] \o items] \in [Role -> [Link -> Seq(Item)]]
    BY <1>1
  <1>3. queue' = q \/ queue' = [q EXCEPT ![role][l] = q[role][l] \o items]
    BY DEF Push
  <1>4. life' = "aborted" \/ life' = life
    BY DEF Push
  <1> QED
    BY <1>2, <1>3, <1>4

\* item is in the sequence q.
In(item, q) == \E i \in DOMAIN q : q[i] = item

\* What an empty queue and a queue of one item hold.
LEMMA InShort ==
  ASSUME NEW item
  PROVE  /\ ~In(item, <<>>)
         /\ \A x : In(item, <<x>>) <=> item = x
  BY DEF In

\* A queue with items appended holds what it held, and these.
LEMMA InAppended ==
  ASSUME NEW S, NEW q \in Seq(S), NEW s \in Seq(S), NEW item
  PROVE  In(item, q \o s) <=> In(item, q) \/ In(item, s)
  <1>1. /\ Len(q \o s) = Len(q) + Len(s)
        /\ \A i \in 1..Len(q \o s) : (q \o s)[i] =
              IF i <= Len(q) THEN q[i] ELSE s[i - Len(q)]
    OBVIOUS
  <1>2. ASSUME In(item, q) PROVE In(item, q \o s)
    BY <1>1, <1>2 DEF In
  <1>3. ASSUME NEW i \in DOMAIN s, s[i] = item PROVE In(item, q \o s)
    <2>1. i + Len(q) \in DOMAIN (q \o s) /\ (q \o s)[i + Len(q)] = item
      BY <1>1, <1>3
    <2> QED
      BY <2>1 DEF In
  <1>4. ASSUME NEW i \in DOMAIN (q \o s), (q \o s)[i] = item
        PROVE  In(item, q) \/ In(item, s)
    BY <1>1, <1>4 DEF In
  <1> QED
    BY <1>2, <1>3, <1>4 DEF In

\* A queue holds its first item and what is behind it.
LEMMA InTail ==
  ASSUME NEW S, NEW q \in Seq(S), q # <<>>, NEW item
  PROVE  In(item, q) <=> item = Head(q) \/ In(item, Tail(q))
  <1>1. /\ Len(Tail(q)) = Len(q) - 1 /\ Head(q) = q[1] /\ Len(q) \in Nat \ {0}
        /\ \A i \in 1..Len(Tail(q)) : Tail(q)[i] = q[i + 1]
    OBVIOUS
  <1>2. ASSUME NEW i \in DOMAIN q, q[i] = item, i # 1 PROVE In(item, Tail(q))
    <2>1. i - 1 \in DOMAIN Tail(q) /\ Tail(q)[i - 1] = item
      BY <1>1, <1>2
    <2> QED
      BY <2>1 DEF In
  <1>3. ASSUME In(item, Tail(q)) PROVE In(item, q)
    BY <1>1, <1>3 DEF In
  <1> QED
    BY <1>1, <1>2, <1>3 DEF In

\* One item for each peer of a set is a sequence of items, with one for each.
LEMMA ToEachType ==
  ASSUME NEW S, S \subseteq Peer, NEW kind \in {"DATA", "FIN"}
  PROVE  /\ ToEach(S, kind) \in Seq(Item)
         /\ \A item : In(item, ToEach(S, kind)) <=> \E p \in S : item = <<p, kind>>
  <1> DEFINE order == SetToSeq(S)
  <1>1. IsFiniteSet(S) /\ Cardinality(S) \in Nat
    BY LifecycleAssumption, FS_Subset, FS_CardinalityType
  <1>2. \E f \in [1..Cardinality(S) -> S] : IsInjective(f)
    BY <1>1, FS_CardinalityType DEF ExistsBijection, Bijection, Injection
  <1>3. order \in [1..Cardinality(S) -> S] /\ IsInjective(order)
    BY <1>2 DEF SetToSeq
  <1>4. \A i \in 1..Cardinality(S) : <<order[i], kind>> \in Item
    BY <1>3 DEF Item
  <1>5. ToEach(S, kind) = [i \in 1..Cardinality(S) |-> <<order[i], kind>>]
    BY <1>3 DEF ToEach
  <1>6. order \in Surjection(1..Cardinality(S), S)
    <2>1. IsFiniteSet(1..Cardinality(S)) /\ Cardinality(1..Cardinality(S)) = Cardinality(S)
      BY <1>1, FS_Interval
    <2>2. order \in Injection(1..Cardinality(S), S)
      BY <1>3 DEF Injection
    <2> QED
      BY <1>1, <2>1, <2>2, FS_Injection
  <1>7. \A p \in S : \E i \in 1..Cardinality(S) : order[i] = p
    BY <1>6 DEF Surjection
  <1> HIDE DEF order
  <1>8. [i \in 1..Cardinality(S) |-> <<order[i], kind>>] \in Seq(Item)
    BY <1>1, <1>4
  <1>9. ASSUME NEW item
        PROVE  In(item, ToEach(S, kind)) <=> \E p \in S : item = <<p, kind>>
    BY <1>3, <1>5, <1>7 DEF In
  <1> QED
    BY <1>5, <1>8, <1>9

\* A segment to each open client is a sequence of items, and has one for each.
LEMMA ToOpenType ==
  ASSUME NEW kind \in {"DATA", "FIN"}
  PROVE  /\ ToOpen(kind) \in Seq(Item)
         /\ \A item : In(item, ToOpen(kind)) <=>
              \E p \in Peer : clients[p] = "open" /\ item = <<p, kind>>
  <1> DEFINE S == {p \in Peer : clients[p] = "open"}
  <1>1. S \subseteq Peer /\ ToOpen(kind) = ToEach(S, kind)
    BY DEF ToOpen
  <1>2. \A p : p \in S <=> p \in Peer /\ clients[p] = "open"
    OBVIOUS
  <1> HIDE DEF S
  <1> QED
    BY <1>1, <1>2, ToEachType

-----------------------------------------------------------------------------
(* The type invariant, one lemma per thread.                                *)

\* The types when main begins.
LEMMA TypeInit == Init => TypeOK
  <1> SUFFICES ASSUME Init PROVE TypeOK
    OBVIOUS
  <1>1. main \in MainAt /\ router \in Thread /\ communicate \in Thread
    BY DEF Init, MainAt, Thread
  <1>2. /\ queue \in [Role -> [Link -> Seq(Item)]] /\ input \in Seq(Item)
        /\ received \in [Peer -> Seq(Item)] /\ arriving \in [Link -> Seq(Item)]
    BY DEF Init
  <1>3. frames \in 0..MaxFrames /\ datagrams \in 0..MaxDatagrams
    BY LifecycleAssumption DEF Init
  <1>4. closed \subseteq Role \X Link
    BY DEF Init
  <1> QED
    BY <1>1, <1>2, <1>3, <1>4 DEF Init, TypeOK, Link

\* VIMMessage::start keeps the types.
LEMMA StartType == TypeOK /\ Start => TypeOK'
  <1> SUFFICES ASSUME TypeOK, Start PROVE TypeOK'
    OBVIOUS
  <1> USE DEF TypeOK, Link, MainAt, Thread
  <1>1. CASE Connect
    BY <1>1 DEF Connect, Goto, threadVars, queueVars, closeVars, netVars
  <1>2. CASE SocketInit
    BY <1>2 DEF SocketInit, Goto, threadVars, queueVars, closeVars, netVars
  <1>3. CASE AcceptClient
    BY <1>3 DEF AcceptClient, Goto, threadVars, queueVars, closeVars, netVars
  <1>4. CASE StartFails
    BY <1>4 DEF StartFails, Goto, threadVars, queueVars, closeVars, netVars
  <1>5. CASE EstablishHttpConnection
    BY <1>5 DEF EstablishHttpConnection, Goto, threadVars, queueVars, closeVars, netVars
  <1>6. CASE SpawnLink
    BY <1>6 DEF SpawnLink, Goto, threadVars, queueVars, closeVars, netVars
  <1>7. CASE SpawnRouter
    BY <1>7 DEF SpawnRouter, Goto, threadVars, queueVars, closeVars, netVars
  <1> QED
    BY <1>1, <1>2, <1>3, <1>4, <1>5, <1>6, <1>7 DEF Start

\* The stop of SocketHandler or of WebSocketServer keeps the types.
LEMMA StopLinkType ==
  ASSUME TypeOK, NEW l \in Link, StopLink(l)
  PROVE  TypeOK'
  <1> USE DEF TypeOK, Link, MainAt
  <1>1. CASE ClearRunning(l)
    BY <1>1 DEF ClearRunning, Goto, threadVars, queueVars, closeVars, netVars, Role
  <1>2. CASE CloseQueue("sender", l)
    BY <1>2 DEF CloseQueue, Goto, threadVars, queueVars, closeVars, netVars, Role
  <1>3. CASE CloseQueue("receiver", l)
    BY <1>3 DEF CloseQueue, Goto, threadVars, queueVars, closeVars, netVars, Role
  <1>4. CASE Shutdown(l)
    BY <1>4 DEF Shutdown, Goto, threadVars, queueVars, closeVars, netVars, Role
  <1>5. CASE JoinReceiver(l)
    BY <1>5 DEF JoinReceiver, Goto, threadVars, queueVars, closeVars, netVars, Role
  <1>6. CASE JoinSender(l)
    BY <1>6 DEF JoinSender, Goto, threadVars, queueVars, closeVars, netVars, Role
  <1>7. CASE Close(l)
    BY <1>7 DEF Close, Goto, threadVars, queueVars, closeVars, netVars, Role
  <1> QED
    BY <1>1, <1>2, <1>3, <1>4, <1>5, <1>6, <1>7 DEF StopLink

\* VIMMessage::stop and Connection::disconnect keep the types.
LEMMA StopType == TypeOK /\ Stop => TypeOK'
  <1> SUFFICES ASSUME TypeOK, Stop PROVE TypeOK'
    OBVIOUS
  <1> USE DEF TypeOK, Link, MainAt, Thread
  <1>1. CASE StopRouter
    BY <1>1 DEF StopRouter, Goto, threadVars, queueVars, closeVars, netVars
  <1>2. CASE StartClosing
    BY <1>2 DEF StartClosing, Goto, threadVars, queueVars, closeVars, netVars
  <1>3. CASE SafeToClose
    BY <1>3 DEF SafeToClose, Goto, threadVars, queueVars, closeVars, netVars
  <1>4. CASE JoinCommunicate
    BY <1>4 DEF JoinCommunicate, Goto, threadVars, queueVars, closeVars, netVars
  <1>5. CASE End
    BY <1>5 DEF End, Goto, threadVars, queueVars, closeVars, netVars
  <1>6. CASE \E l \in Link : StopLink(l)
    BY <1>6, StopLinkType
  <1> QED
    BY <1>6, <1>1, <1>2, <1>3, <1>4, <1>5 DEF Stop

\* SocketHandler::send and WebSocketServer::sendData keep the types.
LEMMA SenderType ==
  ASSUME TypeOK, NEW l \in Link, Sender(l)
  PROVE  TypeOK'
  <1> USE DEF TypeOK, Role
  <1>1. CASE SenderLoop(l)
    BY <1>1 DEF SenderLoop, queueVars, closeVars, netVars
  <1>2. CASE SenderPop(l)
    BY <1>2 DEF SenderPop, AfterPop, closeVars, netVars
  <1>3. CASE SenderSend(l)
    <2>1. held[l] \in Item
      BY <1>3 DEF SenderSend
    <2>2. Hears(held[l]) \in [Peer -> {"away", "dialing", "linked", "told", "over"}]
      BY <2>1 DEF Hears
    <2>3. peer' \in [Peer -> {"away", "dialing", "linked", "told", "over"}]
      BY <1>3, <2>2 DEF SenderSend
    <2> HIDE DEF Item
    <2> QED
      BY <1>3, <2>3 DEF SenderSend, queueVars, closeVars
  <1> QED
    BY <1>1, <1>2, <1>3 DEF Sender

\* SocketHandler::receive and WebSocketServer::receiveData keep the types.
LEMMA ReceiverType ==
  ASSUME TypeOK, NEW l \in Link, Receiver(l)
  PROVE  TypeOK'
  <1> USE DEF TypeOK
  <1>1. CASE ReceiverLoop(l)
    BY <1>1 DEF ReceiverLoop, queueVars, closeVars, netVars
  <1>2. CASE ReceiverRecv(l)
    <2>1. /\ Head(arriving[l]) \in Item
          /\ [arriving EXCEPT ![l] = Tail(@)] \in [Link -> Seq(Item)]
      BY <1>2 DEF ReceiverRecv
    <2>2. /\ read' = [read EXCEPT ![l] = Head(arriving[l])]
          /\ arriving' = [arriving EXCEPT ![l] = Tail(@)]
          /\ receiver' = [receiver EXCEPT ![l] = "push"]
      BY <1>2 DEF ReceiverRecv
    <2>3. /\ read' \in [Link -> Item \cup {NoItem}]
          /\ \A k \in Link : receiver'[k] = "push" => read'[k] \in Item
      BY <2>1, <2>2
    <2> QED
      BY <1>2, <2>1, <2>2, <2>3 DEF ReceiverRecv, queueVars, closeVars
  <1>3. CASE ReceiverEmpty(l)
    BY <1>3 DEF ReceiverEmpty, queueVars, closeVars, netVars
  <1>4. CASE ReceiverPush(l)
    <2>1. <<read[l]>> \in Seq(Item)
      BY <1>4 DEF ReceiverPush
    <2>2. /\ queue' \in [Role -> [Link -> Seq(Item)]]
          /\ life' \in {"up", "ended", "exited", "aborted"}
      BY <1>4, <2>1, PushType DEF ReceiverPush, Role
    <2> QED
      BY <1>4, <2>2 DEF ReceiverPush, closeVars, netVars
  <1> QED
    BY <1>1, <1>2, <1>3, <1>4 DEF Receiver

\* startMessageHandler keeps the types.
LEMMA RouterType == TypeOK /\ Router => TypeOK'
  <1> SUFFICES ASSUME TypeOK, Router PROVE TypeOK'
    OBVIOUS
  <1> USE DEF TypeOK, Thread
  <1>1. CASE RouterLoop
    BY <1>1 DEF RouterLoop, queueVars, closeVars, netVars
  <1>2. CASE WebsocketHandler
    <2> DEFINE item  == Head(queue["receiver"]["ws"])
               items == IF item[2] = "DIAL" /\ clients[item[1]] = "none"
                        THEN <<<<item[1], "SYN">>>> ELSE <<>>
               q     == [queue EXCEPT !["receiver"]["ws"] =
                           Tail(queue["receiver"]["ws"])]
    <2>1. item \in Item /\ Append(input, item) \in Seq(Item)
      BY <1>2 DEF WebsocketHandler, Role, Link
    <2>2. items \in Seq(Item)
      <3>1. item[1] \in Peer
        BY <2>1 DEF Item
      <3>2. <<item[1], "SYN">> \in Item
        BY <3>1 DEF Item
      <3> QED
        BY <3>2
    <2>3. q \in [Role -> [Link -> Seq(Item)]]
      BY <1>2 DEF WebsocketHandler, Role, Link
    <2>4. Push(q, "sender", "udp", items)
      BY <1>2 DEF WebsocketHandler
    <2>5. /\ queue' \in [Role -> [Link -> Seq(Item)]]
          /\ life' \in {"up", "ended", "exited", "aborted"}
      <3> HIDE DEF items, q
      <3> QED
        BY <2>2, <2>3, <2>4, PushType DEF Role, Link
    <2>6. clients' \in [Peer -> {"none", "open", "finSent", "answered"}]
      BY <1>2 DEF WebsocketHandler
    <2> QED
      BY <1>2, <2>1, <2>5, <2>6 DEF WebsocketHandler, netVars
  <1>3. CASE TcpHandler
    <2> DEFINE ready    == {p \in Peer : received[p] # <<>>}
               requests == {p \in ready : Head(received[p])[2] = "DIAL"}
    <2>1. ToEach(ready, "DATA") \in Seq(Item) /\ ToEach(requests, "DATA") \in Seq(Item)
      <3>1. ready \subseteq Peer /\ requests \subseteq Peer
        OBVIOUS
      <3> HIDE DEF ready, requests
      <3> QED
        BY <3>1, ToEachType
    <2>2. /\ Push(queue, "sender", "ws", ToEach(ready, "DATA"))
          /\ input' = input \o ToEach(requests, "DATA")
      BY <1>3 DEF TcpHandler
    <2>3. /\ queue' \in [Role -> [Link -> Seq(Item)]]
          /\ life' \in {"up", "ended", "exited", "aborted"}
          /\ input' \in Seq(Item)
      <3> HIDE DEF ready, requests
      <3> QED
        BY <2>1, <2>2, PushType DEF Role, Link
    <2>4. received' \in [Peer -> Seq(Item)]
      BY <1>3 DEF TcpHandler
    <2> QED
      BY <1>3, <2>3, <2>4 DEF TcpHandler, closeVars, netVars
  <1> QED
    BY <1>1, <1>2, <1>3 DEF Router

\* communicate keeps the types.
LEMMA CommunicateType == TypeOK /\ Communicate => TypeOK'
  <1> SUFFICES ASSUME TypeOK, Communicate PROVE TypeOK'
    OBVIOUS
  <1> USE DEF TypeOK, Thread
  <1>1. CASE CommunicateLoop
    BY <1>1 DEF CommunicateLoop, queueVars, closeVars, netVars
  <1>2. CASE Handle
    <2> DEFINE item  == Head(queue["receiver"]["udp"])
               data  == item[2] \in {"DATA", "DIAL"} /\ clients[item[1]] # "none"
               items == IF data \/ item[2] = "SYN"
                        THEN <<<<item[1], "DATA">>>> ELSE <<>>
               q     == [queue EXCEPT !["receiver"]["udp"] =
                           Tail(queue["receiver"]["udp"])]
    <2>1. item \in Item /\ received' \in [Peer -> Seq(Item)]
      <3>1. item \in Item
        BY <1>2 DEF Handle, Role, Link
      <3>2. \/ received' = received
            \/ received' = [received EXCEPT ![item[1]] = Append(@, item)]
        BY <1>2 DEF Handle
      <3> HIDE DEF item
      <3>3. \A p \in Peer : Append(received[p], item) \in Seq(Item)
        BY <3>1
      <3>4. [received EXCEPT ![item[1]] = Append(@, item)] \in [Peer -> Seq(Item)]
        BY <3>3
      <3> QED
        BY <3>1, <3>2, <3>4
    <2>2. items \in Seq(Item)
      <3>1. item[1] \in Peer
        BY <2>1 DEF Item
      <3>2. <<item[1], "DATA">> \in Item
        BY <3>1 DEF Item
      <3> QED
        BY <3>2
    <2>3. q \in [Role -> [Link -> Seq(Item)]]
      BY <1>2 DEF Handle, Role, Link
    <2>4. Push(q, "sender", "udp", items)
      BY <1>2 DEF Handle
    <2>5. /\ queue' \in [Role -> [Link -> Seq(Item)]]
          /\ life' \in {"up", "ended", "exited", "aborted"}
      <3> HIDE DEF items, q
      <3> QED
        BY <2>2, <2>3, <2>4, PushType DEF Role, Link
    <2>6. clients' \in [Peer -> {"none", "open", "finSent", "answered"}]
      BY <1>2 DEF Handle
    <2> QED
      BY <1>2, <2>1, <2>5, <2>6 DEF Handle, Iteration, netVars
  <1>3. CASE InsertInput
    <2>1. /\ queue' \in [Role -> [Link -> Seq(Item)]]
          /\ life' \in {"up", "ended", "exited", "aborted"}
      BY <1>3, ToOpenType, PushType DEF InsertInput, Role, Link
    <2> QED
      BY <1>3, <2>1 DEF InsertInput, Iteration, netVars
  <1>4. CASE CloseClients
    <2>1. /\ queue' \in [Role -> [Link -> Seq(Item)]]
          /\ life' \in {"up", "ended", "exited", "aborted"}
      BY <1>4, ToOpenType, PushType DEF CloseClients, Role, Link
    <2>2. /\ clients' \in [Peer -> {"none", "open", "finSent", "answered"}]
          /\ received' \in [Peer -> Seq(Item)]
      BY <1>4 DEF CloseClients
    <2> QED
      BY <1>4, <2>1, <2>2 DEF CloseClients, Iteration, netVars
  <1>5. CASE CloseLoop
    BY <1>5 DEF CloseLoop, Iteration, netVars
  <1>6. CASE Rest
    BY <1>6 DEF Rest, Iteration, netVars
  <1> QED
    BY <1>1, <1>2, <1>3, <1>4, <1>5, <1>6 DEF Communicate

\* What arrives on a link is an item.
LEMMA ArrivesType ==
  ASSUME TypeOK, NEW l \in Link, NEW item \in Item, Arrives(l, item)
  PROVE  arriving' \in [Link -> Seq(Item)]
  BY DEF TypeOK, Arrives

\* The signal handler, the browser and the peers keep the types.
LEMMA OutsideType == TypeOK /\ Outside => TypeOK'
  <1> SUFFICES ASSUME TypeOK, Outside PROVE TypeOK'
    OBVIOUS
  <1>1. CASE Interrupt
    BY <1>1 DEF Interrupt, TypeOK, threadVars, queueVars, closeVars, netVars
  <1>2. CASE BrowserAsks
    BY <1>2 DEF BrowserAsks, TypeOK, threadVars, queueVars, closeVars
  <1>3. CASE BrowserLeaves
    BY <1>3 DEF BrowserLeaves, TypeOK, threadVars, queueVars, closeVars
  <1>4. CASE BrowserSends
    <2>1. PICK p \in Peer, kind \in {"DATA", "DIAL"} : Arrives("ws", <<p, kind>>)
      BY <1>4, LifecycleAssumption DEF BrowserSends
    <2>2. arriving' \in [Link -> Seq(Item)]
      BY <2>1, ArrivesType DEF Link, Item
    <2>3. frames' \in 0..MaxFrames
      BY <1>4, LifecycleAssumption DEF BrowserSends, TypeOK
    <2> QED
      BY <1>4, <2>1, <2>2, <2>3
      DEF BrowserSends, Arrives, TypeOK, threadVars, queueVars, closeVars
  <1>5. ASSUME NEW p \in Peer, PeerSends(p) PROVE TypeOK'
    <2>1. PICK kind \in {"SYN", "DATA", "DIAL"} :
            /\ Arrives("udp", <<p, kind>>)
            /\ peer' = peer \/ peer' = [peer EXCEPT ![p] = "dialing"]
      BY <1>5, LifecycleAssumption DEF PeerSends
    <2>2. arriving' \in [Link -> Seq(Item)]
      BY <2>1, ArrivesType DEF Link, Item
    <2>3. datagrams' \in 0..MaxDatagrams /\ frames' = frames
      BY <1>5, LifecycleAssumption DEF PeerSends, TypeOK
    <2> QED
      BY <2>1, <2>2, <2>3 DEF Arrives, TypeOK, threadVars, queueVars, closeVars
  <1>6. ASSUME NEW p \in Peer, PeerAnswers(p) PROVE TypeOK'
    <2>1. arriving' \in [Link -> Seq(Item)]
      BY <1>6, ArrivesType DEF PeerAnswers, Link, Item
    <2> QED
      BY <1>6, <2>1
      DEF PeerAnswers, Arrives, TypeOK, threadVars, queueVars, closeVars
  <1> QED
    BY <1>1, <1>2, <1>3, <1>4, <1>5, <1>6 DEF Outside

\* Every step keeps the types.
LEMMA TypeStep == TypeOK /\ [Next]_vars => TypeOK'
  <1> SUFFICES ASSUME TypeOK, [Next]_vars PROVE TypeOK'
    OBVIOUS
  <1>1. CASE UNCHANGED vars
    BY <1>1 DEF vars, threadVars, queueVars, closeVars, netVars, TypeOK
  <1> QED
    BY <1>1, StartType, StopType, RouterType, CommunicateType, OutsideType,
       SenderType, ReceiverType DEF Next, Main

\* Every variable keeps its type.
THEOREM TypeCorrect == Spec => []TypeOK
  BY TypeInit, TypeStep, PTL DEF Spec

-----------------------------------------------------------------------------
(* The order is kept.                                                       *)

\* Nothing has been waited for when main begins.
LEMMA OrderInit == Init => Ordered
  BY DEF Init, Ordered, Finished, Past, Alone, StopStep, AfterClear, Link

\* VIMMessage::start begins threads when nothing has been stopped.
LEMMA StartOrder == TypeOK /\ Ordered /\ Start => Ordered'
  <1> SUFFICES ASSUME TypeOK, Ordered, Start PROVE Ordered'
    OBVIOUS
  <1> USE DEF Ordered, Finished, Past, Alone, StopStep, AfterClear, Link
  <1>1. CASE Connect
    BY <1>1 DEF Connect, Goto, threadVars, queueVars, closeVars, netVars
  <1>2. CASE SocketInit
    BY <1>2 DEF SocketInit, Goto, threadVars, queueVars, closeVars, netVars
  <1>3. CASE AcceptClient
    BY <1>3 DEF AcceptClient, Goto, threadVars, queueVars, closeVars, netVars
  <1>4. CASE StartFails
    BY <1>4 DEF StartFails, Goto, threadVars, queueVars, closeVars, netVars
  <1>5. CASE EstablishHttpConnection
    BY <1>5 DEF EstablishHttpConnection, Goto, threadVars, queueVars, closeVars, netVars
  <1>6. CASE SpawnLink
    BY <1>6 DEF SpawnLink, Goto, threadVars, queueVars, closeVars, netVars
  <1>7. CASE SpawnRouter
    BY <1>7 DEF SpawnRouter, Goto, threadVars, queueVars, closeVars, netVars
  <1> QED
    BY <1>1, <1>2, <1>3, <1>4, <1>5, <1>6, <1>7 DEF Start

\* The stop of a link waits for its threads before it closes the socket.
LEMMA StopLinkOrder ==
  ASSUME TypeOK, Ordered, NEW l \in Link, StopLink(l)
  PROVE  Ordered'
  <1> USE DEF Ordered, Finished, Past, Alone, StopStep, AfterClear, Link
  <1>1. CASE ClearRunning(l)
    BY <1>1 DEF ClearRunning, Goto, threadVars, queueVars, closeVars, netVars, Sockets, SenderJoined, Role, TypeOK
  <1>2. CASE CloseQueue("sender", l)
    BY <1>2 DEF CloseQueue, Goto, threadVars, queueVars, closeVars, netVars, Sockets, SenderJoined, Role, TypeOK
  <1>3. CASE CloseQueue("receiver", l)
    BY <1>3 DEF CloseQueue, Goto, threadVars, queueVars, closeVars, netVars, Sockets, SenderJoined, Role, TypeOK
  <1>4. CASE Shutdown(l)
    BY <1>4 DEF Shutdown, Goto, threadVars, queueVars, closeVars, netVars, Sockets, SenderJoined, Role, TypeOK
  <1>5. CASE JoinReceiver(l)
    BY <1>5 DEF JoinReceiver, Goto, threadVars, queueVars, closeVars, netVars, Sockets, SenderJoined, Role, TypeOK
  <1>6. CASE JoinSender(l)
    BY <1>6 DEF JoinSender, Goto, threadVars, queueVars, closeVars, netVars, Sockets, SenderJoined, Role, TypeOK
  <1>7. CASE Close(l)
    BY <1>7 DEF Close, Goto, threadVars, queueVars, closeVars, netVars, Sockets, SenderJoined, Role, TypeOK
  <1> QED
    BY <1>1, <1>2, <1>3, <1>4, <1>5, <1>6, <1>7 DEF StopLink

\* VIMMessage::stop joins the router, then communicate, then each link.
LEMMA StopOrder == TypeOK /\ Ordered /\ Stop => Ordered'
  <1> SUFFICES ASSUME TypeOK, Ordered, Stop PROVE Ordered'
    OBVIOUS
  <1> USE DEF Ordered, Finished, Past, Alone, StopStep, AfterClear, Link
  <1>1. CASE StopRouter
    BY <1>1 DEF StopRouter, Goto, RouterJoined, threadVars, queueVars, closeVars, netVars
  <1>2. CASE StartClosing
    BY <1>2 DEF StartClosing, Goto, RouterJoined, threadVars, queueVars, closeVars, netVars
  <1>3. CASE SafeToClose
    BY <1>3 DEF SafeToClose, Goto, RouterJoined, threadVars, queueVars, closeVars, netVars
  <1>4. CASE JoinCommunicate
    BY <1>4 DEF JoinCommunicate, Goto, RouterJoined, threadVars, queueVars, closeVars, netVars
  <1>5. CASE End
    BY <1>5 DEF End, Goto, RouterJoined, threadVars, queueVars, closeVars, netVars
  <1>6. CASE \E l \in Link : StopLink(l)
    BY <1>6, StopLinkOrder
  <1> QED
    BY <1>1, <1>2, <1>3, <1>4, <1>5, <1>6 DEF Stop

\* The threads: main stays where it is, and nothing starts a thread again.
LEMMA ThreadOrder ==
  ASSUME TypeOK, Ordered, main' = main, running' \subseteq running,
         closed' = closed, socket' = socket,
         life' = life \/ life' = "aborted",
         \A l \in Link : receiver[l] = "done" => receiver'[l] = "done",
         \A l \in Link : sender[l] = "done" => sender'[l] = "done",
         router = "done" => router' = "done",
         sender["udp"] = "none" => sender'["udp"] = "none",
         communicate = "done" => communicate' = "done",
         timeToClose' = timeToClose, canCloseDown' = canCloseDown,
         "connection" \notin running /\ communicate = "loop"
           => communicate' \in {"loop", "done"}
  PROVE  Ordered'
  BY DEF Ordered, Finished, Past, Alone

\* A sender that goes on has not been joined.
LEMMA SenderOrder ==
  ASSUME TypeOK, Ordered, NEW l \in Link, Sender(l)
  PROVE  Ordered'
  <1> USE ThreadOrder DEF TypeOK
  <1>1. CASE SenderLoop(l)
    BY <1>1 DEF SenderLoop, threadVars, queueVars, closeVars, netVars
  <1>2. CASE SenderPop(l)
    BY <1>2 DEF SenderPop, threadVars, queueVars, closeVars, netVars
  <1>3. CASE SenderSend(l)
    BY <1>3 DEF SenderSend, threadVars, queueVars, closeVars, netVars
  <1> QED
    BY <1>1, <1>2, <1>3 DEF Sender

\* A receiver that goes on has not been joined.
LEMMA ReceiverOrder ==
  ASSUME TypeOK, Ordered, NEW l \in Link, Receiver(l)
  PROVE  Ordered'
  <1> USE ThreadOrder DEF TypeOK
  <1>1. CASE ReceiverLoop(l)
    BY <1>1 DEF ReceiverLoop, threadVars, queueVars, closeVars, netVars, Push
  <1>2. CASE ReceiverRecv(l)
    BY <1>2 DEF ReceiverRecv, threadVars, queueVars, closeVars, netVars, Push
  <1>3. CASE ReceiverEmpty(l)
    BY <1>3 DEF ReceiverEmpty, threadVars, queueVars, closeVars, netVars, Push
  <1>4. CASE ReceiverPush(l)
    BY <1>4 DEF ReceiverPush, threadVars, queueVars, closeVars, netVars, Push
  <1> QED
    BY <1>1, <1>2, <1>3, <1>4 DEF Receiver

\* A router that goes on has not been joined.
LEMMA RouterOrder ==
  ASSUME TypeOK, Ordered, Router
  PROVE  Ordered'
  <1> USE ThreadOrder DEF TypeOK
  <1>1. CASE RouterLoop
    BY <1>1 DEF RouterLoop, threadVars, queueVars, closeVars, netVars, Push
  <1>2. CASE WebsocketHandler
    BY <1>2 DEF WebsocketHandler, threadVars, queueVars, closeVars, netVars, Push
  <1>3. CASE TcpHandler
    BY <1>3 DEF TcpHandler, threadVars, queueVars, closeVars, netVars, Push
  <1> QED
    BY <1>1, <1>2, <1>3 DEF Router

\* communicate sets canCloseDown, and only leaves its loop after it.
LEMMA CommunicateOrder ==
  ASSUME TypeOK, Ordered, Communicate
  PROVE  Ordered'
  <1> USE ThreadOrder DEF TypeOK
  <1>1. CASE CommunicateLoop
    BY <1>1 DEF CommunicateLoop, Iteration, Push, threadVars, queueVars, closeVars, netVars
  <1>2. CASE Handle
    BY <1>2 DEF Handle, Iteration, Push, threadVars, queueVars, closeVars, netVars
  <1>3. CASE InsertInput
    BY <1>3 DEF InsertInput, Iteration, Push, threadVars, queueVars, closeVars, netVars
  <1>4. CASE CloseClients
    BY <1>4 DEF CloseClients, Iteration, Push, threadVars, queueVars, closeVars, netVars
  <1>5. CASE CloseLoop
    BY <1>5 DEF CloseLoop, Closing, Iteration, Ordered, Past, Finished, Alone, netVars
  <1>6. CASE Rest
    BY <1>6 DEF Rest, Iteration, Push, threadVars, queueVars, closeVars, netVars
  <1> QED
    BY <1>1, <1>2, <1>3, <1>4, <1>5, <1>6 DEF Communicate

\* The signal handler, the browser and the peers move no thread.
LEMMA OutsideOrder ==
  ASSUME TypeOK, Ordered, Outside
  PROVE  Ordered'
  <1>1. /\ main' = main /\ life' = life /\ running' \subseteq running
        /\ closed' = closed /\ socket' = socket
        /\ UNCHANGED <<router, communicate, sender, receiver, timeToClose,
                       canCloseDown>>
    BY DEF Outside, Interrupt, BrowserAsks, BrowserLeaves, BrowserSends, PeerSends,
       PeerAnswers, Arrives, threadVars, queueVars, closeVars, netVars
  <1> QED
    BY <1>1, ThreadOrder

\* Every step keeps the order.
LEMMA OrderStep == TypeOK /\ Ordered /\ [Next]_vars => Ordered'
  <1> SUFFICES ASSUME TypeOK, Ordered, [Next]_vars PROVE Ordered'
    OBVIOUS
  <1>1. CASE UNCHANGED vars
    BY <1>1, ThreadOrder DEF vars, threadVars, queueVars, closeVars, netVars
  <1> QED
    BY <1>1, StartOrder, StopOrder, RouterOrder, CommunicateOrder, OutsideOrder,
       SenderOrder, ReceiverOrder DEF Next, Main

\* At every time the types and the order hold.
LEMMA AlwaysOrdered == Spec => [](TypeOK /\ Ordered)
  BY TypeInit, TypeStep, OrderInit, OrderStep, PTL DEF Spec

\* No thread works on a closed socket, and none is left when main returns.
THEOREM ThreadsJoined == Spec => []NoThreadOutlives
  <1>1. TypeOK /\ Ordered => NoThreadOutlives
    BY DEF TypeOK, Ordered, NoThreadOutlives, Past, Finished, Alone, Link
  <1> QED
    BY <1>1, AlwaysOrdered, PTL

-----------------------------------------------------------------------------
(* Pushes of the router and of communicate.                                 *)

\* This step is no abort by the router or by communicate.
NoPusherAborts ==
  life' = "aborted" /\ life = "up" => UNCHANGED <<router, communicate>>

\* A queue that still takes the push does not end the program.
LEMMA OpenPush ==
  ASSUME NEW q, NEW role, NEW l, NEW items, <<role, l>> \notin closed,
         Push(q, role, l, items)
  PROVE  life' = life
  BY DEF Push

\* While the router's thread or communicate handles something, main has closed
\* no queue that it pushes on.
LEMMA OpenWhileHandled ==
  ASSUME TypeOK, Ordered
  PROVE  /\ router = "handle" =>
              <<"sender", "udp">> \notin closed /\ <<"sender", "ws">> \notin closed
         /\ communicate = "handle" => <<"sender", "udp">> \notin closed
  <1> USE DEF Ordered, Past, Finished, Alone, StopStep, AfterClear, Link, Role
  <1>1. ASSUME <<"sender", "udp">> \in closed PROVE Alone /\ canCloseDown
    BY <1>1
  <1>2. ASSUME <<"sender", "ws">> \in closed PROVE Alone
    BY <1>2
  <1>3. Alone => router = "done"
    OBVIOUS
  <1>4. canCloseDown => communicate # "handle"
    OBVIOUS
  <1> QED
    BY <1>1, <1>2, <1>3, <1>4

\* websocketHandler and tcpHandler push on open queues only.
LEMMA RouterPushes ==
  ASSUME TypeOK, Ordered, Router
  PROVE  life' = life
  <1>1. CASE RouterLoop
    BY <1>1 DEF RouterLoop
  <1>2. CASE WebsocketHandler
    BY <1>2, OpenWhileHandled, OpenPush DEF WebsocketHandler
  <1>3. CASE TcpHandler
    BY <1>3, OpenWhileHandled, OpenPush DEF TcpHandler
  <1> QED
    BY <1>1, <1>2, <1>3 DEF Router

\* So does communicate.
LEMMA CommunicatePushes ==
  ASSUME TypeOK, Ordered, Communicate
  PROVE  life' = life
  <1> USE DEF Iteration
  <1>1. CASE CommunicateLoop
    BY <1>1 DEF CommunicateLoop
  <1>2. CASE Handle
    BY <1>2, OpenWhileHandled, OpenPush DEF Handle
  <1>3. CASE InsertInput
    BY <1>3, OpenWhileHandled, OpenPush DEF InsertInput
  <1>4. CASE CloseClients
    BY <1>4, OpenWhileHandled, OpenPush DEF CloseClients
  <1>5. CASE CloseLoop
    BY <1>5 DEF CloseLoop
  <1>6. CASE Rest
    BY <1>6 DEF Rest
  <1> QED
    BY <1>1, <1>2, <1>3, <1>4, <1>5, <1>6 DEF Communicate

\* Main leaves life alone or leaves both threads alone.
LEMMA MainPushes ==
  ASSUME Main
  PROVE  NoPusherAborts
  <1> USE DEF NoPusherAborts, Goto, threadVars, queueVars, closeVars, netVars
  <1>1. CASE Connect \/ SocketInit \/ AcceptClient \/ EstablishHttpConnection
             \/ SpawnLink \/ SpawnRouter
    BY <1>1 DEF Connect, SocketInit, AcceptClient, EstablishHttpConnection,
                SpawnLink, SpawnRouter
  <1>2. CASE StartFails
    BY <1>2 DEF StartFails
  <1>3. CASE StopRouter \/ StartClosing \/ SafeToClose \/ JoinCommunicate \/ End
    BY <1>3 DEF StopRouter, StartClosing, SafeToClose, JoinCommunicate, End
  <1>4. CASE \E l \in Link : StopLink(l)
    BY <1>4 DEF StopLink, ClearRunning, CloseQueue, Shutdown, JoinReceiver,
                JoinSender, Close
  <1> QED
    BY <1>1, <1>2, <1>3, <1>4 DEF Main, Start, Stop

\* The links' threads and the world outside move neither router nor communicate.
LEMMA OtherPushes ==
  ASSUME Outside \/ \E l \in Link : Sender(l) \/ Receiver(l)
  PROVE  NoPusherAborts
  <1> USE DEF NoPusherAborts, threadVars, Arrives
  <1>1. CASE Outside
    BY <1>1 DEF Outside, Interrupt, BrowserAsks, BrowserLeaves, BrowserSends,
                PeerSends, PeerAnswers
  <1>2. CASE \E l \in Link : Sender(l)
    BY <1>2 DEF Sender, SenderLoop, SenderPop, SenderSend
  <1>3. CASE \E l \in Link : Receiver(l)
    BY <1>3 DEF Receiver, ReceiverLoop, ReceiverRecv, ReceiverEmpty, ReceiverPush
  <1> QED
    BY <1>1, <1>2, <1>3

\* Whatever browser and peers do and send while the program stops, the router and
\* communicate push on open queues only: an abort is never theirs.
THEOREM PushersAreStopped == Spec => PushersStoppedFirst
  <1>1. TypeOK /\ Ordered /\ [Next]_vars => [NoPusherAborts]_vars
    <2> SUFFICES ASSUME TypeOK, Ordered, Next PROVE NoPusherAborts
      OBVIOUS
    <2>1. CASE Router \/ Communicate
      BY <2>1, RouterPushes, CommunicatePushes DEF NoPusherAborts
    <2>2. CASE Main
      BY <2>2, MainPushes
    <2>3. CASE Outside \/ \E l \in Link : Sender(l) \/ Receiver(l)
      BY <2>3, OtherPushes
    <2> QED
      BY <2>1, <2>2, <2>3 DEF Next
  <1>2. [NoPusherAborts]_vars =>
          [life' = "aborted" /\ life = "up" => UNCHANGED <<router, communicate>>]_vars
    BY DEF NoPusherAborts
  <1> QED
    BY <1>1, <1>2, AlwaysOrdered, PTL DEF Spec, PushersStoppedFirst

-----------------------------------------------------------------------------
(* Peers are told.                                                          *)

Kind == {"SYN", "DATA", "DIAL", "FIN", "BYE"}

\* The transport's sender has it, queued or popped.
Outgoing(item) == In(item, queue["sender"]["udp"]) \/ held["udp"] = item

\* It is on its way to communicate.
Incoming(item) ==
  \/ In(item, arriving["udp"]) \/ read["udp"] = item
  \/ In(item, queue["receiver"]["udp"])

\* What peer and clients say of p, and the segments that are under way.
PeerKnown(p) ==
  /\ peer[p] = "linked" => clients[p] \in {"open", "finSent"}
  /\ peer[p] = "told" => clients[p] = "finSent"
  /\ Incoming(<<p, "BYE">>) \/ clients[p] = "answered" => peer[p] = "over"
  /\ clients[p] = "finSent" =>
       peer[p] \in {"told", "over"} \/ Outgoing(<<p, "FIN">>)
  /\ Outgoing(<<p, "FIN">>) => clients[p] = "finSent" \/ peer[p] = "over"
  /\ clients[p] = "none" /\ peer[p] # "over" =>
       \A kind \in Kind : ~Outgoing(<<p, kind>>)

\* The sockets are open as long as there is a client; the sender holds an item
\* only to send it.
Reachable ==
  /\ canCloseDown => \A p \in Peer : clients[p] = "none"
  /\ canCloseDown \/ socket["udp"] = "open" \/ sender["udp"] = "none"
  /\ sender["udp"] # "send" => held["udp"] = NoItem

Told == life # "aborted" => Reachable /\ \A p \in Peer : PeerKnown(p)

\* No peer knows of a connection when main begins.
LEMMA ToldInit == Init => Told
  <1> SUFFICES ASSUME Init PROVE Told
    OBVIOUS
  <1>1. \A p \in Peer, kind \in Kind : <<p, kind>> # NoItem
    BY LifecycleAssumption DEF Kind
  <1>2. \A item : ~In(item, <<>>)
    BY DEF In
  <1>3. \A p \in Peer, kind \in Kind :
          ~Outgoing(<<p, kind>>) /\ ~Incoming(<<p, kind>>)
    BY <1>1, <1>2 DEF Init, Outgoing, Incoming, Link, Role
  <1>4. Reachable
    BY DEF Init, Reachable, Link
  <1>5. \A p \in Peer : PeerKnown(p)
    BY <1>3 DEF Init, PeerKnown, Kind
  <1> QED
    BY <1>4, <1>5 DEF Told

\* A step that leaves clients and peers as they are, loses nothing that is
\* outgoing and adds nothing.
LEMMA ToldKept ==
  ASSUME Told, life # "aborted", clients' = clients, peer' = peer,
         canCloseDown' = canCloseDown,
         canCloseDown \/ socket'["udp"] = "open" \/ sender'["udp"] = "none",
         sender'["udp"] # "send" => held'["udp"] = NoItem,
         \A p \in Peer, kind \in Kind :
           /\ Outgoing(<<p, kind>>)' <=> Outgoing(<<p, kind>>)
           /\ Incoming(<<p, kind>>)' => Incoming(<<p, kind>>)
  PROVE  Told'
  BY DEF Told, Reachable, PeerKnown, Kind

\* A step that leaves the clients, the peers and the datagrams alone.
LEMMA SameQueues ==
  ASSUME Told, life # "aborted", clients' = clients, peer' = peer,
         canCloseDown' = canCloseDown, arriving' = arriving,
         queue'["sender"]["udp"] = queue["sender"]["udp"],
         queue'["receiver"]["udp"] = queue["receiver"]["udp"],
         held'["udp"] = held["udp"], read'["udp"] = read["udp"],
         canCloseDown \/ socket'["udp"] = "open" \/ sender'["udp"] = "none",
         sender'["udp"] # "send" => held'["udp"] = NoItem
  PROVE  Told'
  <1>1. \A p \in Peer, kind \in Kind :
           /\ Outgoing(<<p, kind>>)' <=> Outgoing(<<p, kind>>)
           /\ Incoming(<<p, kind>>)' <=> Incoming(<<p, kind>>)
    BY DEF Outgoing, Incoming
  <1> QED
    BY <1>1, ToldKept

\* VIMMessage::start touches no connection.
LEMMA StartTold ==
  ASSUME TypeOK, Ordered, Told, life = "up", Start
  PROVE  Told'
  <1> USE SameQueues DEF Told, Reachable, TypeOK, Link
  <1>1. CASE Connect
    BY <1>1 DEF Ordered, Connect, Goto, threadVars, queueVars, closeVars, netVars
  <1>2. CASE SocketInit
    BY <1>2 DEF SocketInit, Goto, threadVars, queueVars, closeVars, netVars
  <1>3. CASE AcceptClient
    BY <1>3 DEF AcceptClient, Goto, threadVars, queueVars, closeVars, netVars
  <1>4. CASE StartFails
    BY <1>4 DEF StartFails, Goto, threadVars, queueVars, closeVars, netVars
  <1>5. CASE EstablishHttpConnection
    BY <1>5 DEF EstablishHttpConnection, Goto, threadVars, queueVars, closeVars, netVars
  <1>6. CASE SpawnLink
    BY <1>6 DEF SpawnLink, Goto, threadVars, queueVars, closeVars, netVars
  <1>7. CASE SpawnRouter
    BY <1>7 DEF SpawnRouter, Goto, threadVars, queueVars, closeVars, netVars
  <1> QED
    BY <1>1, <1>2, <1>3, <1>4, <1>5, <1>6, <1>7 DEF Start

\* The stop of a link comes when no client is left.
LEMMA StopLinkTold ==
  ASSUME TypeOK, Ordered, Told, life = "up", NEW l \in Link, StopLink(l)
  PROVE  Told'
  <1> USE SameQueues DEF Told, Reachable, TypeOK, Link, Ordered, Past, Finished, StopStep
  <1>1. CASE ClearRunning(l)
    BY <1>1 DEF ClearRunning, Goto, threadVars, queueVars, closeVars, netVars, Sockets
  <1>2. CASE CloseQueue("sender", l)
    BY <1>2 DEF CloseQueue, Goto, threadVars, queueVars, closeVars, netVars, Sockets
  <1>3. CASE CloseQueue("receiver", l)
    BY <1>3 DEF CloseQueue, Goto, threadVars, queueVars, closeVars, netVars, Sockets
  <1>4. CASE Shutdown(l)
    BY <1>4 DEF Shutdown, Goto, threadVars, queueVars, closeVars, netVars, Sockets
  <1>5. CASE JoinReceiver(l)
    BY <1>5 DEF JoinReceiver, Goto, threadVars, queueVars, closeVars, netVars, Sockets
  <1>6. CASE JoinSender(l)
    BY <1>6 DEF JoinSender, Goto, threadVars, queueVars, closeVars, netVars, Sockets
  <1>7. CASE Close(l)
    BY <1>7 DEF Close, Goto, threadVars, queueVars, closeVars, netVars, Sockets
  <1> QED
    BY <1>1, <1>2, <1>3, <1>4, <1>5, <1>6, <1>7 DEF StopLink

\* Connection::disconnect waits until the clients are gone.
LEMMA StopTold ==
  ASSUME TypeOK, Ordered, Told, life = "up", Stop
  PROVE  Told'
  <1> USE SameQueues DEF Told, Reachable
  <1>1. CASE StopRouter
    BY <1>1 DEF StopRouter, Goto, threadVars, queueVars, closeVars, netVars
  <1>2. CASE StartClosing
    BY <1>2 DEF StartClosing, Goto, threadVars, queueVars, closeVars, netVars
  <1>3. CASE SafeToClose
    BY <1>3 DEF SafeToClose, Goto, threadVars, queueVars, closeVars, netVars
  <1>4. CASE JoinCommunicate
    BY <1>4 DEF JoinCommunicate, Goto, threadVars, queueVars, closeVars, netVars
  <1>5. CASE End
    BY <1>5 DEF End, Goto, threadVars, queueVars, closeVars, netVars
  <1>6. CASE \E l \in Link : StopLink(l)
    BY <1>6, StopLinkTold
  <1> QED
    BY <1>1, <1>2, <1>3, <1>4, <1>5, <1>6 DEF Stop

\* SocketHandler::send takes the FIN from the queue to the peer.
LEMMA SenderTold ==
  ASSUME TypeOK, Ordered, Told, life = "up", NEW l \in Link, Sender(l)
  PROVE  Told'
  <1> USE DEF TypeOK, Link, Role
  <1>0. Reachable
    BY DEF Told
  <1>1. CASE SenderLoop(l)
    BY <1>0, <1>1, SameQueues DEF SenderLoop, Reachable, queueVars, closeVars, netVars
  <1>2. CASE l = "ws" /\ (SenderPop(l) \/ SenderSend(l))
    BY <1>0, <1>2, SameQueues
    DEF SenderPop, SenderSend, Reachable, queueVars, closeVars, netVars
  <1>3. CASE l = "udp" /\ SenderPop(l)
    <2> DEFINE q == queue["sender"]["udp"]
    <2>1. held["udp"] = NoItem
      BY <1>0, <1>3 DEF SenderPop, Reachable
    <2>2. \A p \in Peer, kind \in Kind : <<p, kind>> # NoItem
      BY LifecycleAssumption DEF Kind
    <2>3. CASE q = <<>>
      BY <1>0, <1>3, <2>1, <2>3, SameQueues
      DEF SenderPop, AfterPop, Reachable, closeVars, netVars
    <2>4. CASE q # <<>>
      <3>1. /\ held'["udp"] = Head(q) /\ queue'["sender"]["udp"] = Tail(q)
            /\ queue'["receiver"]["udp"] = queue["receiver"]["udp"]
            /\ Head(q) \in Item /\ q \in Seq(Item)
        BY <1>3, <2>4 DEF SenderPop
      <3>0. \A item : In(item, q) <=> item = Head(q) \/ In(item, Tail(q))
        BY <2>4, <3>1, InTail
      <3>2. \A p \in Peer, kind \in Kind :
               /\ Outgoing(<<p, kind>>)' <=> Outgoing(<<p, kind>>)
               /\ Incoming(<<p, kind>>)' <=> Incoming(<<p, kind>>)
        <4>1. arriving' = arriving /\ read' = read
          BY <1>3 DEF SenderPop, netVars
        <4>2. \A item : /\ Outgoing(item) <=> In(item, q) \/ item = NoItem
                        /\ Outgoing(item)' <=> In(item, Tail(q)) \/ item = Head(q)
          BY <2>1, <3>1 DEF Outgoing
        <4>3. \A item : Incoming(item)' <=> Incoming(item)
          BY <3>1, <4>1 DEF Incoming
        <4> HIDE DEF q
        <4> QED
          BY <2>2, <3>0, <4>2, <4>3
      <3>3. sender'["udp"] = "send"
        BY <1>3, <3>1, LifecycleAssumption DEF SenderPop, AfterPop, Item
      <3> QED
        BY <1>0, <1>3, <3>2, <3>3, ToldKept DEF SenderPop, Reachable, closeVars, netVars
    <2> QED
      BY <2>3, <2>4
  <1>4. CASE l = "udp" /\ SenderSend(l)
    <2> DEFINE item == held["udp"]
    <2>1. item \in Item /\ Outgoing(item) /\ life' = life
      BY <1>4 DEF SenderSend, BrokenPipe, Outgoing
    <2>2. /\ held'["udp"] = NoItem /\ sender'["udp"] = "loop"
          /\ UNCHANGED <<queue, clients, canCloseDown, socket, arriving, read>>
      BY <1>4 DEF SenderSend, queueVars, closeVars
    <2>3. Reachable'
      BY <1>0, <1>4, <2>2 DEF Reachable, SenderSend
    <2>4. ASSUME NEW p \in Peer PROVE PeerKnown(p)'
      <3>1. /\ PeerKnown(p)
            /\ \A kind \in Kind :
                 /\ Outgoing(<<p, kind>>)' => Outgoing(<<p, kind>>)
                 /\ Outgoing(<<p, kind>>) => Outgoing(<<p, kind>>)' \/ item = <<p, kind>>
                 /\ Incoming(<<p, kind>>)' <=> Incoming(<<p, kind>>)
        BY <2>2, LifecycleAssumption DEF Told, Outgoing, Incoming, Kind
      <3>2. CASE socket["udp"] # "open"
        <4>1. clients[p] = "none" /\ peer' = peer
          BY <1>0, <1>4, <3>2 DEF Reachable, SenderSend
        <4> QED
          BY <2>2, <3>1, <4>1 DEF PeerKnown, Kind
      <3>3. CASE socket["udp"] = "open" /\ item[1] # p
        <4>1. peer'[p] = peer[p] /\ \A kind \in Kind : item # <<p, kind>>
          BY <1>4, <2>1, <3>3 DEF SenderSend, Hears
        <4> QED
          BY <2>2, <3>1, <4>1 DEF PeerKnown, Kind
      <3>4. CASE socket["udp"] = "open" /\ item[1] = p
        <4>1. PICK kind \in Kind : item = <<p, kind>>
          BY <2>1, <3>4 DEF Item, Kind
        <4>2. /\ peer[p] = "over" => peer'[p] = "over"
              /\ peer[p] # "over" /\ kind = "FIN" => peer'[p] = "told"
              /\ peer[p] # "over" /\ kind # "FIN" =>
                   peer'[p] = IF peer[p] = "told" THEN "told" ELSE "linked"
          BY <1>4, <3>4, <4>1 DEF SenderSend, Hears
        <4>3. Outgoing(<<p, kind>>)
          BY <2>1, <4>1
        <4>4. clients[p] # "none" \/ peer[p] = "over"
          BY <3>1, <4>3 DEF PeerKnown, Kind
        <4>5. clients[p] \in {"none", "open", "finSent", "answered"} /\ clients' = clients
          BY <2>2
        <4> HIDE DEF TypeOK, item
        <4>6. CASE peer[p] = "over"
          BY <3>1, <4>2, <4>5, <4>6 DEF PeerKnown, Kind
        <4>7. CASE peer[p] # "over" /\ kind = "FIN"
          BY <3>1, <4>2, <4>3, <4>4, <4>5, <4>7 DEF PeerKnown, Kind
        <4>8. CASE peer[p] # "over" /\ kind # "FIN"
          <5>1. item # <<p, "FIN">>
            BY <4>1, <4>8
          <5> QED
            BY <3>1, <4>2, <4>4, <4>5, <4>8, <5>1 DEF PeerKnown, Kind
        <4> QED
          BY <4>6, <4>7, <4>8
      <3> QED
        BY <3>2, <3>3, <3>4
    <2> QED
      BY <2>3, <2>4 DEF Told
  <1> QED
    BY <1>1, <1>2, <1>3, <1>4 DEF Sender

\* SocketHandler::receive takes the answer of a peer to the queue.
LEMMA ReceiverTold ==
  ASSUME TypeOK, Ordered, Told, life = "up", NEW l \in Link, Receiver(l)
  PROVE  Told'
  <1> USE DEF TypeOK, Link, Role
  <1>0. Reachable
    BY DEF Told
  <1>1. CASE ReceiverLoop(l) \/ ReceiverEmpty(l)
    BY <1>0, <1>1, SameQueues
    DEF ReceiverLoop, ReceiverEmpty, Reachable, queueVars, closeVars, netVars
  <1>2. CASE ReceiverRecv(l)
    <2>1. /\ queue' = queue /\ held' = held
          /\ \/ arriving'["udp"] = arriving["udp"] /\ read'["udp"] = read["udp"]
             \/ /\ arriving["udp"] # <<>> /\ arriving'["udp"] = Tail(arriving["udp"])
                /\ read'["udp"] = Head(arriving["udp"])
      BY <1>2 DEF ReceiverRecv, queueVars
    <2>2. \A p \in Peer, kind \in Kind :
             /\ Outgoing(<<p, kind>>)' <=> Outgoing(<<p, kind>>)
             /\ Incoming(<<p, kind>>)' => Incoming(<<p, kind>>)
      BY <2>1, InTail DEF Outgoing, Incoming
    <2> QED
      BY <1>0, <1>2, <2>2, ToldKept DEF ReceiverRecv, Reachable, closeVars
  <1>3. CASE ReceiverPush(l) /\ life' # "aborted"
    <2>1. /\ queue'["sender"] = queue["sender"] /\ held' = held /\ arriving' = arriving
          /\ \/ /\ read'["udp"] = read["udp"]
                /\ queue'["receiver"]["udp"] = queue["receiver"]["udp"]
             \/ /\ read["udp"] \in Item /\ read'["udp"] = NoItem
                /\ queue'["receiver"]["udp"] = queue["receiver"]["udp"] \o <<read["udp"]>>
      <3>1. read[l] \in Item
        BY <1>3 DEF ReceiverPush
      <3>2. /\ queue' = [queue EXCEPT !["receiver"][l] = @ \o <<read[l]>>]
            /\ read' = [read EXCEPT ![l] = NoItem]
            /\ held' = held /\ arriving' = arriving
        BY <1>3 DEF ReceiverPush, Push, netVars
      <3>3. CASE l = "udp"
        BY <3>1, <3>2, <3>3
      <3>4. CASE l = "ws"
        BY <3>1, <3>2, <3>4
      <3> QED
        BY <3>3, <3>4
    <2>2. \A p \in Peer, kind \in Kind :
             /\ Outgoing(<<p, kind>>)' <=> Outgoing(<<p, kind>>)
             /\ Incoming(<<p, kind>>)' => Incoming(<<p, kind>>)
      <3>1. \A item : In(item, <<read["udp"]>>) <=> item = read["udp"]
        BY DEF In
      <3>2. read["udp"] \in Item =>
               \A item : In(item, queue["receiver"]["udp"] \o <<read["udp"]>>)
                           <=> In(item, queue["receiver"]["udp"]) \/ item = read["udp"]
        <4>1. ASSUME read["udp"] \in Item PROVE <<read["udp"]>> \in Seq(Item)
          BY <4>1
        <4>2. queue["receiver"]["udp"] \in Seq(Item)
          OBVIOUS
        <4> QED
          BY <3>1, <4>1, <4>2, InAppended
      <3>3. \A p \in Peer, kind \in Kind : <<p, kind>> # NoItem
        BY LifecycleAssumption DEF Kind
      <3>4. \A item : Outgoing(item)' <=> Outgoing(item)
        BY <2>1 DEF Outgoing
      <3>5. \A item : Incoming(item)' => Incoming(item) \/ item = NoItem
        <4>1. CASE /\ read'["udp"] = read["udp"]
                   /\ queue'["receiver"]["udp"] = queue["receiver"]["udp"]
          BY <2>1, <4>1 DEF Incoming
        <4>2. CASE /\ read["udp"] \in Item /\ read'["udp"] = NoItem
                   /\ queue'["receiver"]["udp"] = queue["receiver"]["udp"] \o <<read["udp"]>>
          <5> DEFINE q == queue["receiver"]["udp"] \o <<read["udp"]>>
          <5>1. \A item : In(item, q) <=> In(item, queue["receiver"]["udp"]) \/ item = read["udp"]
            BY <3>2, <4>2
          <5>2. queue'["receiver"]["udp"] = q
            BY <4>2
          <5> HIDE DEF q, TypeOK
          <5> QED
            BY <2>1, <4>2, <5>1, <5>2 DEF Incoming
        <4> QED
          BY <2>1, <4>1, <4>2
      <3> QED
        BY <3>3, <3>4, <3>5
    <2> QED
      BY <1>0, <1>3, <2>2, ToldKept DEF ReceiverPush, Reachable, closeVars, netVars
  <1>4. CASE life' = "aborted"
    BY <1>4 DEF Told
  <1> QED
    BY <1>1, <1>2, <1>3, <1>4 DEF Receiver

\* A push on the transport's sender queue that does not end the program adds
\* these items to what is outgoing.
LEMMA PushAdds ==
  ASSUME TypeOK, NEW q \in [Role -> [Link -> Seq(Item)]], NEW items \in Seq(Item),
         Push(q, "sender", "udp", items), life' # "aborted",
         q["sender"]["udp"] = queue["sender"]["udp"], held' = held
  PROVE  /\ queue' = [q EXCEPT !["sender"]["udp"] = @ \o items]
         /\ queue'["receiver"] = q["receiver"] /\ queue'["sender"]["ws"] = q["sender"]["ws"]
         /\ \A item : Outgoing(item)' <=> Outgoing(item) \/ In(item, items)
  <1>1. queue' = [q EXCEPT !["sender"]["udp"] = @ \o items]
    BY DEF Push
  <1>2. /\ queue'["receiver"] = q["receiver"] /\ queue'["sender"]["ws"] = q["sender"]["ws"]
        /\ queue'["sender"]["udp"] = queue["sender"]["udp"] \o items
    BY <1>1 DEF Role, Link
  <1>3. queue["sender"]["udp"] \in Seq(Item)
    BY DEF TypeOK, Role, Link
  <1>4. \A item : In(item, queue["sender"]["udp"] \o items)
                    <=> In(item, queue["sender"]["udp"]) \/ In(item, items)
    BY <1>3, InAppended
  <1> QED
    BY <1>1, <1>2, <1>4 DEF Outgoing

\* The router touches no connection but one that it dials.
LEMMA RouterTold ==
  ASSUME TypeOK, Ordered, Told, life = "up", Router
  PROVE  Told'
  <1> USE DEF TypeOK, Link, Role
  <1>0. Reachable
    BY DEF Told
  <1>1. CASE RouterLoop
    BY <1>0, <1>1, SameQueues DEF RouterLoop, Reachable, queueVars, closeVars, netVars
  <1>2. CASE life' = "aborted"
    BY <1>2 DEF Told
  <1>3. CASE WebsocketHandler /\ life' # "aborted"
    <2> DEFINE item  == Head(queue["receiver"]["ws"])
               dials == item[2] = "DIAL" /\ clients[item[1]] = "none"
               items == IF dials THEN <<<<item[1], "SYN">>>> ELSE <<>>
               q     == [queue EXCEPT !["receiver"]["ws"] =
                           Tail(queue["receiver"]["ws"])]
    <2>1. /\ Push(q, "sender", "udp", items) /\ item \in Item
          /\ clients' = IF dials THEN [clients EXCEPT ![item[1]] = "open"] ELSE clients
          /\ router = "handle"
          /\ UNCHANGED <<held, read, arriving, peer, canCloseDown, socket, sender>>
      BY <1>3 DEF WebsocketHandler, netVars
    <2>2. item[1] \in Peer /\ <<item[1], "SYN">> \in Item /\ items \in Seq(Item)
      <3>1. item[1] \in Peer
        BY <2>1 DEF Item
      <3>2. <<item[1], "SYN">> \in Item
        BY <3>1 DEF Item
      <3> QED
        BY <3>1, <3>2
    <2>3. /\ q \in [Role -> [Link -> Seq(Item)]]
          /\ q["sender"]["udp"] = queue["sender"]["udp"]
          /\ q["receiver"]["udp"] = queue["receiver"]["udp"]
      BY <1>3 DEF WebsocketHandler
    <2>4. \A x : In(x, items) <=> dials /\ x = <<item[1], "SYN">>
      <3>1. CASE dials
        <4>1. items = <<<<item[1], "SYN">>>>
          BY <3>1
        <4>2. \A y : items = <<y>> => \A x : In(x, items) <=> x = y
          BY InShort
        <4> HIDE DEF items, dials, item, TypeOK
        <4> QED
          BY <3>1, <4>1, <4>2
      <3>2. CASE ~dials
        <4>1. items = <<>>
          BY <3>2
        <4> HIDE DEF items, dials
        <4> QED
          BY <3>2, <4>1, InShort
      <3> QED
        BY <3>1, <3>2
    <2> HIDE DEF items, q
    <2>5. /\ \A x : Outgoing(x)' <=> Outgoing(x) \/ (dials /\ x = <<item[1], "SYN">>)
          /\ \A x : Incoming(x)' <=> Incoming(x)
      <3>1. /\ \A x : Outgoing(x)' <=> Outgoing(x) \/ In(x, items)
            /\ queue'["receiver"] = q["receiver"]
        BY <1>3, <2>1, <2>2, <2>3, PushAdds
      <3> QED
        BY <2>1, <2>3, <2>4, <3>1 DEF Incoming
    <2>6. Reachable'
      BY <1>0, <2>1 DEF Reachable, Ordered
    <2>7. ASSUME NEW p \in Peer PROVE PeerKnown(p)'
      <3>1. PeerKnown(p)
        BY DEF Told
      <3>2. CASE dials /\ p = item[1]
        <4>1. clients[p] = "none" /\ clients'[p] = "open"
          BY <2>1, <3>2
        <4> HIDE DEF TypeOK
        <4> QED
          BY <2>1, <2>5, <3>1, <4>1 DEF PeerKnown
      <3>3. CASE ~(dials /\ p = item[1])
        <4>1. clients'[p] = clients[p]
          BY <2>1, <2>2, <3>3
        <4>2. \A kind \in Kind : <<p, kind>> = <<item[1], "SYN">> => ~dials
          BY <3>3
        <4> HIDE DEF TypeOK
        <4> QED
          BY <2>1, <2>5, <3>1, <4>1, <4>2 DEF PeerKnown, Kind
      <3> QED
        BY <3>2, <3>3
    <2> QED
      BY <2>6, <2>7 DEF Told
  <1>4. CASE TcpHandler /\ life' # "aborted"
    <2>1. /\ queue'["sender"]["udp"] = queue["sender"]["udp"]
          /\ queue'["receiver"]["udp"] = queue["receiver"]["udp"]
      <3>1. PICK items : queue' = [queue EXCEPT !["sender"]["ws"] = @ \o items]
        BY <1>4 DEF TcpHandler, Push
      <3> QED
        BY <3>1
    <2> QED
      BY <1>0, <1>4, <2>1, SameQueues DEF TcpHandler, Reachable, closeVars, netVars
  <1> QED
    BY <1>1, <1>2, <1>3, <1>4 DEF Router

\* The signal handler and the browser touch no connection; a peer ends its own.
LEMMA OutsideTold ==
  ASSUME TypeOK, Ordered, Told, life = "up", Outside
  PROVE  Told'
  <1> USE DEF TypeOK, Link, Role
  <1>0. Reachable
    BY DEF Told
  <1>1. CASE Interrupt \/ BrowserAsks \/ BrowserLeaves
    BY <1>0, <1>1, SameQueues
    DEF Interrupt, BrowserAsks, BrowserLeaves, Reachable, threadVars, queueVars,
        closeVars, netVars
  <1>2. ASSUME NEW l \in Link, NEW item \in Item, Arrives(l, item)
        PROVE  /\ Reachable' /\ \A x : Outgoing(x)' <=> Outgoing(x)
               /\ \A x : Incoming(x)' => Incoming(x) \/ (l = "udp" /\ x = item)
               /\ clients' = clients
    <2>1. /\ UNCHANGED <<sender, held, read, queue, clients, canCloseDown, socket>>
          /\ arriving' = [arriving EXCEPT ![l] = @ \o <<item>>]
      <3>1. arriving' = [arriving EXCEPT ![l] = Append(@, item)]
        BY <1>2 DEF Arrives
      <3>2. Append(arriving[l], item) = arriving[l] \o <<item>>
        <4>1. \A s \in Seq(Item) : Append(s, item) = s \o <<item>>
          OBVIOUS
        <4> QED
          BY <4>1
      <3>3. UNCHANGED <<sender, held, read, queue, clients, canCloseDown, socket>>
        BY <1>2 DEF Arrives, threadVars, queueVars, closeVars
      <3> QED
        BY <3>1, <3>2, <3>3
    <2>2. /\ arriving["udp"] \in Seq(Item) /\ <<item>> \in Seq(Item)
          /\ \A x : In(x, <<item>>) <=> x = item
      BY DEF In
    <2>3. \A x : In(x, arriving["udp"] \o <<item>>)
                    <=> In(x, arriving["udp"]) \/ x = item
      BY <2>2, InAppended
    <2>4. \A x : In(x, arriving'["udp"]) => In(x, arriving["udp"]) \/ (l = "udp" /\ x = item)
      <3>1. CASE l = "udp"
        <4>1. arriving'["udp"] = arriving["udp"] \o <<item>>
          BY <2>1, <3>1
        <4> QED
          BY <2>3, <3>1, <4>1
      <3>2. CASE l = "ws"
        BY <2>1, <3>2
      <3> QED
        BY <3>1, <3>2
    <2>5. Reachable' /\ \A x : Outgoing(x)' <=> Outgoing(x)
      BY <1>0, <2>1 DEF Reachable, Outgoing
    <2>6. \A x : Incoming(x)' => Incoming(x) \/ (l = "udp" /\ x = item)
      BY <2>1, <2>4 DEF Incoming
    <2> QED
      BY <2>1, <2>5, <2>6
  <1>3. CASE BrowserSends
    <2>1. PICK p \in Peer, kind \in {"DATA", "DIAL"} : Arrives("ws", <<p, kind>>)
      BY <1>3, LifecycleAssumption DEF BrowserSends
    <2>2. <<p, kind>> \in Item
      BY DEF Item
    <2>3. /\ Reachable' /\ \A x : Outgoing(x)' <=> Outgoing(x)
          /\ \A x : Incoming(x)' => Incoming(x)
          /\ clients' = clients /\ peer' = peer
      BY <1>2, <1>3, <2>1, <2>2 DEF BrowserSends
    <2>4. \A r \in Peer : PeerKnown(r)'
      <3> HIDE DEF TypeOK
      <3> QED
        BY <2>3 DEF Told, PeerKnown
    <2> QED
      BY <2>3, <2>4 DEF Told
  <1>4. ASSUME NEW p \in Peer, NEW kind \in {"SYN", "DATA", "DIAL", "BYE"},
               Arrives("udp", <<p, kind>>),
               \/ kind = "SYN" /\ peer[p] = "away"
                    /\ peer' = [peer EXCEPT ![p] = "dialing"]
               \/ kind \in {"DATA", "DIAL"} /\ peer' = peer
               \/ kind = "BYE" /\ peer[p] = "told"
                    /\ peer' = [peer EXCEPT ![p] = "over"]
        PROVE  Told'
    <2>1. <<p, kind>> \in Item
      BY DEF Item
    <2>2. /\ Reachable' /\ \A x : Outgoing(x)' <=> Outgoing(x)
          /\ \A x : Incoming(x)' => Incoming(x) \/ x = <<p, kind>>
          /\ clients' = clients
      BY <1>2, <1>4, <2>1
    <2>3. ASSUME NEW r \in Peer PROVE PeerKnown(r)'
      <3>1. PeerKnown(r)
        BY DEF Told
      <3>2. CASE r # p \/ kind \in {"DATA", "DIAL"}
        <4>1. peer'[r] = peer[r] /\ (Incoming(<<r, "BYE">>)' => Incoming(<<r, "BYE">>))
          BY <1>4, <2>2, <3>2
        <4> HIDE DEF TypeOK
        <4> QED
          BY <2>2, <3>1, <4>1 DEF PeerKnown
      <3>3. CASE r = p /\ kind = "SYN"
        <4>1. /\ peer'[r] = "dialing" /\ peer[r] = "away"
              /\ Incoming(<<r, "BYE">>)' => Incoming(<<r, "BYE">>)
          BY <1>4, <2>2, <3>3
        <4> HIDE DEF TypeOK
        <4> QED
          BY <2>2, <3>1, <4>1 DEF PeerKnown
      <3>4. CASE r = p /\ kind = "BYE"
        <4>1. peer'[r] = "over"
          BY <1>4, <3>4
        <4> HIDE DEF TypeOK
        <4> QED
          BY <4>1 DEF PeerKnown
      <3> QED
        BY <3>2, <3>3, <3>4
    <2> QED
      BY <2>2, <2>3 DEF Told
  <1>5. ASSUME NEW p \in Peer, PeerSends(p) \/ PeerAnswers(p) PROVE Told'
    BY <1>4, <1>5, LifecycleAssumption DEF PeerSends, PeerAnswers
  <1> QED
    BY <1>1, <1>3, <1>5 DEF Outside

\* communicate opens clients, sends their FINs and erases what is answered.
LEMMA CommunicateTold ==
  ASSUME TypeOK, Ordered, Told, life = "up", Communicate
  PROVE  Told'
  <1> USE DEF TypeOK, Link, Role
  <1>0. Reachable /\ \A p \in Peer : PeerKnown(p)
    BY DEF Told
  <1>1. CASE CommunicateLoop
    BY <1>0, <1>1, SameQueues
    DEF CommunicateLoop, Reachable, queueVars, closeVars, netVars
  <1>2. CASE life' = "aborted"
    BY <1>2 DEF Told
  <1>3. CASE CloseLoop
    <2>1. \A x : (Outgoing(x)' <=> Outgoing(x)) /\ (Incoming(x)' <=> Incoming(x))
      BY <1>3 DEF CloseLoop, Iteration, Outgoing, Incoming, netVars
    <2>2. UNCHANGED <<clients, peer, held, sender>> /\ \A p \in Peer : clients[p] = "none"
      BY <1>3 DEF CloseLoop, Iteration, netVars
    <2>3. \A p \in Peer : PeerKnown(p)'
      <3> HIDE DEF TypeOK
      <3> QED
        BY <1>0, <2>1, <2>2 DEF PeerKnown
    <2> QED
      BY <1>0, <1>3, <2>2, <2>3 DEF CloseLoop, Told, Reachable
  <1>4. CASE Rest
    BY <1>0, <1>4, SameQueues DEF Rest, Iteration, Reachable, netVars
  <1>5. ASSUME Iteration, UNCHANGED canCloseDown PROVE Reachable'
    BY <1>0, <1>5 DEF Iteration, Ordered, Reachable, netVars
  <1>6. CASE Handle /\ life' # "aborted"
    <2> DEFINE item  == Head(queue["receiver"]["udp"])
               known == clients[item[1]] # "none"
               adds  == (item[2] \in {"DATA", "DIAL"} /\ known) \/ item[2] = "SYN"
               items == IF adds THEN <<<<item[1], "DATA">>>> ELSE <<>>
               q     == [queue EXCEPT !["receiver"]["udp"] =
                           Tail(queue["receiver"]["udp"])]
    <2>1. /\ Push(q, "sender", "udp", items) /\ queue["receiver"]["udp"] # <<>>
          /\ Iteration
          /\ UNCHANGED <<held, read, arriving, peer, canCloseDown>>
      BY <1>6 DEF Handle, Iteration, netVars
    <2>2. /\ item \in Item /\ queue["receiver"]["udp"] \in Seq(Item)
          /\ q \in [Role -> [Link -> Seq(Item)]]
          /\ q["sender"]["udp"] = queue["sender"]["udp"]
          /\ q["receiver"]["udp"] = Tail(queue["receiver"]["udp"])
      BY <2>1
    <2>3. item[1] \in Peer /\ <<item[1], "DATA">> \in Item /\ items \in Seq(Item)
      <3>1. item[1] \in Peer
        BY <2>2 DEF Item
      <3>2. <<item[1], "DATA">> \in Item
        BY <3>1 DEF Item
      <3> QED
        BY <3>1, <3>2
    <2>4. /\ item[2] = "SYN" /\ ~known => clients' = [clients EXCEPT ![item[1]] = "open"]
          /\ item[2] = "BYE" /\ known => clients' = [clients EXCEPT ![item[1]] = "answered"]
          /\ ~(item[2] = "SYN" /\ ~known) /\ ~(item[2] = "BYE" /\ known) => clients' = clients
      BY <1>6, <2>3 DEF Handle
    <2>5. \A x : In(x, items) => adds /\ x = <<item[1], "DATA">>
      <3>1. CASE adds
        <4>1. items = <<<<item[1], "DATA">>>>
          BY <3>1
        <4>2. \A y : items = <<y>> => \A x : In(x, items) <=> x = y
          BY InShort
        <4> HIDE DEF items, adds, item, TypeOK
        <4> QED
          BY <3>1, <4>1, <4>2
      <3>2. CASE ~adds
        <4>1. items = <<>>
          BY <3>2
        <4> HIDE DEF items, adds, item, TypeOK
        <4> QED
          BY <3>2, <4>1, InShort
      <3> QED
        BY <3>1, <3>2
    <2>6. \A x : In(x, Tail(queue["receiver"]["udp"])) => In(x, queue["receiver"]["udp"])
      BY <2>1, <2>2, InTail
    <2>7. Incoming(item)
      <3>1. In(item, queue["receiver"]["udp"])
        BY <2>1, <2>2, InTail
      <3> QED
        BY <3>1 DEF Incoming
    <2> HIDE DEF items, q, adds, item
    <2>8. /\ \A x : Outgoing(x) => Outgoing(x)'
          /\ \A x : Outgoing(x)' => Outgoing(x) \/ (adds /\ x = <<item[1], "DATA">>)
          /\ \A x : Incoming(x)' => Incoming(x)
      <3>1. /\ \A x : Outgoing(x)' <=> Outgoing(x) \/ In(x, items)
            /\ queue'["receiver"] = q["receiver"]
        BY <1>6, <2>1, <2>2, <2>3, PushAdds
      <3> QED
        BY <2>1, <2>2, <2>5, <2>6, <3>1 DEF Incoming
    <2>9. ASSUME NEW p \in Peer PROVE PeerKnown(p)'
      <3>1. PeerKnown(p)
        BY <1>0
      <3>2. CASE p # item[1]
        <4>1. clients'[p] = clients[p] /\ peer'[p] = peer[p]
          BY <2>1, <2>3, <2>4, <3>2
        <4>2. \A kind \in Kind : <<p, kind>> # <<item[1], "DATA">>
          BY <3>2
        <4> HIDE DEF TypeOK
        <4> QED
          BY <2>8, <3>1, <4>1, <4>2 DEF PeerKnown, Kind
      <3>3. CASE p = item[1] /\ item[2] = "SYN" /\ ~known
        <4>1. clients[p] = "none" /\ clients'[p] = "open" /\ peer'[p] = peer[p]
          BY <2>1, <2>3, <2>4, <3>3
        <4>2. <<p, "FIN">> # <<item[1], "DATA">>
          OBVIOUS
        <4> HIDE DEF TypeOK
        <4> QED
          BY <2>8, <3>1, <4>1, <4>2 DEF PeerKnown, Kind
      <3>4. CASE p = item[1] /\ item[2] = "BYE" /\ known
        <4>1. clients'[p] = "answered" /\ peer'[p] = peer[p]
          BY <2>1, <2>3, <2>4, <3>4
        <4>2. item = <<p, "BYE">>
          BY <2>2, <3>4 DEF Item
        <4> HIDE DEF TypeOK
        <4> QED
          BY <2>7, <2>8, <3>1, <4>1, <4>2 DEF PeerKnown, Kind
      <3>5. CASE /\ p = item[1] /\ ~(item[2] = "SYN" /\ ~known)
                 /\ ~(item[2] = "BYE" /\ known)
        <4>1. clients'[p] = clients[p] /\ peer'[p] = peer[p]
          BY <2>1, <2>4, <3>5
        <4>2. <<p, "FIN">> # <<item[1], "DATA">> /\ (clients[p] = "none" => ~adds)
          BY <3>5 DEF adds
        <4> HIDE DEF TypeOK
        <4> QED
          BY <2>8, <3>1, <4>1, <4>2 DEF PeerKnown, Kind
      <3> QED
        BY <3>2, <3>3, <3>4, <3>5
    <2> QED
      BY <1>5, <2>1, <2>9 DEF Told
  <1>7. ASSUME NEW kind \in {"DATA", "FIN"}, Push(queue, "sender", "udp", ToOpen(kind)),
               Iteration, life' # "aborted"
        PROVE  /\ \A x : Incoming(x)' <=> Incoming(x)
               /\ \A x : Outgoing(x)' <=>
                    \/ Outgoing(x)
                    \/ \E r \in Peer : clients[r] = "open" /\ x = <<r, kind>>
               /\ peer' = peer
    <2>1. UNCHANGED <<held, read, arriving, peer>>
      BY <1>7 DEF Iteration, netVars
    <2>2. /\ queue'["receiver"] = queue["receiver"]
          /\ \A x : Outgoing(x)' <=> Outgoing(x) \/ In(x, ToOpen(kind))
      BY <1>7, <2>1, ToOpenType, PushAdds
    <2> QED
      BY <2>1, <2>2, ToOpenType DEF Incoming
  <1>8. CASE InsertInput /\ life' # "aborted"
    <2>1. /\ Iteration /\ UNCHANGED <<clients, canCloseDown>>
          /\ Push(queue, "sender", "udp", ToOpen("DATA"))
      BY <1>8 DEF InsertInput
    <2>2. /\ \A x : Incoming(x)' <=> Incoming(x)
          /\ \A x : Outgoing(x)' <=>
               \/ Outgoing(x) \/ \E r \in Peer : clients[r] = "open" /\ x = <<r, "DATA">>
          /\ peer' = peer
      BY <1>7, <1>8, <2>1
    <2>3. ASSUME NEW p \in Peer PROVE PeerKnown(p)'
      <3>1. PeerKnown(p)
        BY <1>0
      <3>2. /\ Outgoing(<<p, "FIN">>)' <=> Outgoing(<<p, "FIN">>)
            /\ clients[p] = "none" =>
                 \A kind \in Kind : Outgoing(<<p, kind>>)' => Outgoing(<<p, kind>>)
        BY <2>2
      <3> HIDE DEF TypeOK
      <3> QED
        BY <2>1, <2>2, <3>1, <3>2 DEF PeerKnown, Kind
    <2> QED
      BY <1>5, <2>1, <2>3 DEF Told
  <1>9. CASE CloseClients /\ life' # "aborted"
    <2>1. /\ Iteration /\ UNCHANGED canCloseDown
          /\ Push(queue, "sender", "udp", ToOpen("FIN"))
      BY <1>9 DEF CloseClients
    <2>2. /\ \A x : Incoming(x)' <=> Incoming(x)
          /\ \A x : Outgoing(x)' <=>
               \/ Outgoing(x) \/ \E r \in Peer : clients[r] = "open" /\ x = <<r, "FIN">>
          /\ peer' = peer
      BY <1>7, <1>9, <2>1
    <2>3. ASSUME NEW p \in Peer PROVE PeerKnown(p)'
      <3>1. PeerKnown(p)
        BY <1>0
      <3>2. /\ Outgoing(<<p, "FIN">>)' <=> Outgoing(<<p, "FIN">>) \/ clients[p] = "open"
            /\ clients[p] # "open" =>
                 \A kind \in Kind : Outgoing(<<p, kind>>)' => Outgoing(<<p, kind>>)
        BY <2>2
      <3>3. /\ clients[p] = "open" => clients'[p] = "finSent"
            /\ clients[p] = "answered" => clients'[p] = "none"
            /\ clients[p] \in {"none", "finSent"} => clients'[p] = clients[p]
            /\ clients[p] \in {"none", "open", "finSent", "answered"}
        BY <1>9 DEF CloseClients, Erasable
      <3> HIDE DEF TypeOK
      <3> QED
        BY <2>2, <3>1, <3>2, <3>3 DEF PeerKnown, Kind
    <2> QED
      BY <1>5, <2>1, <2>3 DEF Told
  <1> QED
    BY <1>1, <1>2, <1>3, <1>4, <1>6, <1>8, <1>9 DEF Communicate

\* Every step keeps what the peers know.
LEMMA ToldStep == TypeOK /\ Ordered /\ Told /\ [Next]_vars => Told'
  <1> SUFFICES ASSUME TypeOK, Ordered, Told, [Next]_vars PROVE Told'
    OBVIOUS
  <1>1. CASE UNCHANGED vars
    <2>1. \A x : (Outgoing(x)' <=> Outgoing(x)) /\ (Incoming(x)' <=> Incoming(x))
      BY <1>1 DEF vars, threadVars, queueVars, netVars, Outgoing, Incoming
    <2>2. UNCHANGED <<life, peer, clients, canCloseDown, socket, sender, held>>
      BY <1>1 DEF vars, threadVars, closeVars, netVars
    <2> QED
      BY <2>1, <2>2 DEF Told, Reachable, PeerKnown
  <1>2. CASE Next
    <2>1. life = "up"
      BY <1>2 DEF Next, Main, Start, Stop, StopLink, Sender, Receiver, Router,
        Communicate, Outside, Goto, Iteration, Arrives, Connect, SocketInit,
        AcceptClient, StartFails, EstablishHttpConnection, SpawnLink, SpawnRouter,
        StopRouter, StartClosing, SafeToClose, JoinCommunicate, End, ClearRunning,
        CloseQueue, Shutdown, JoinReceiver, JoinSender, Close, SenderLoop, SenderPop,
        SenderSend, ReceiverLoop, ReceiverRecv, ReceiverEmpty, ReceiverPush,
        RouterLoop, WebsocketHandler, TcpHandler, CommunicateLoop, Handle,
        InsertInput, CloseClients, CloseLoop, Rest, Interrupt, BrowserAsks,
        BrowserLeaves, BrowserSends, PeerSends, PeerAnswers
    <2> QED
      BY <1>2, <2>1, StartTold, StopTold, RouterTold, CommunicateTold, OutsideTold,
         SenderTold, ReceiverTold DEF Next, Main
  <1> QED
    BY <1>1, <1>2

\* Every peer that knows it is connected has been sent a FIN when main returns.
THEOREM EveryPeerTold == Spec => []PeersTold
  <1>1. TypeOK /\ Ordered /\ Told => PeersTold
    BY DEF Ordered, Past, Finished, Told, Reachable, PeerKnown, PeersTold
  <1> QED
    BY <1>1, TypeInit, TypeStep, OrderInit, OrderStep, ToldInit, ToldStep, PTL
    DEF Spec

=============================================================================
