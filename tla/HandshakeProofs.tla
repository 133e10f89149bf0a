-------------------------- MODULE HandshakeProofs --------------------------
(* Proofs about the three-way handshake, for every number of programs: while *)
(* SYN and SYN_ACK segments are neither mistreated nor retransmitted, nobody *)
(* dials and nobody closes, a program and its target exchange one SYN and    *)
(* one SYN_ACK, and nothing else before the connection carries data.         *)
(*                                                                          *)
(* Every step is first described by what it does to one pair of programs    *)
(* (PairEvent); the invariants of pairs are then proved from that.          *)
EXTENDS ConnectionProofs

\* The programs are connected by their constructors' targets, one of them
\* active; the handshake's segments arrive once, before any timer runs out.
UndisturbedTransfer ==
  /\ Dials = {} /\ Closers = {}
  /\ {"SYN", "SYN_ACK"} \cap (Faulty \cup Slow) = {}
  /\ \A n \in Node : /\ Target[n] # n
                     /\ Target[n] \in Node => Target[Target[n]] # n

-----------------------------------------------------------------------------
(* What is on its way from n to p: in n's queue, on the wire, and in p's     *)
(* receiverQueue, which p shares among its peers.                            *)

NoneFrom(q, n)    == \A i \in DOMAIN q : q[i].from # n
OnlyFrom(q, n, S) == \A i \in DOMAIN q : q[i].from = n => q[i].seg \in S
LoneFrom(q, n, f) ==
  \E i \in DOMAIN q : /\ q[i].from = n /\ q[i].seg.flag = f
                      /\ \A j \in DOMAIN q : q[j].from = n => j = i

\* Nothing is on its way from n to p.
Silent(n, p) ==
  /\ senderQueue[n][p] = <<>> /\ network[n][p] = <<>>
  /\ NoneFrom(receiverQueue[p], n)

\* One segment is on its way from n to p, and it has flag f.
Lone(n, p, f) ==
  \/ /\ Len(senderQueue[n][p]) = 1
     /\ senderQueue[n][p][1].seg.flag = f
     /\ senderQueue[n][p][1].address = "peer"
     /\ network[n][p] = <<>> /\ NoneFrom(receiverQueue[p], n)
  \/ /\ senderQueue[n][p] = <<>>
     /\ Len(network[n][p]) = 1 /\ network[n][p][1].flag = f
     /\ NoneFrom(receiverQueue[p], n)
  \/ /\ senderQueue[n][p] = <<>> /\ network[n][p] = <<>>
     /\ LoneFrom(receiverQueue[p], n, f)

\* Every segment on its way from n to p is in S.
OnWay(n, p, S) ==
  /\ \A i \in DOMAIN senderQueue[n][p] : senderQueue[n][p][i].seg \in S
  /\ \A i \in DOMAIN network[n][p] : network[n][p][i] \in S
  /\ OnlyFrom(receiverQueue[p], n, S)

Acks == {s \in ValidSegment : s.flag = "ACK"}

-----------------------------------------------------------------------------
(* The stages of the connection of n, the active end, with p, its target.    *)

Entries(c, F) == \A i \in DOMAIN c.messagesSent : c.messagesSent[i].flag \in F

\* A client that knows of nothing but the handshake.
Unheard(c) ==
  /\ c # NoClient /\ c.state = "SYN_SENT" /\ c.messageBuffer = {}
  /\ c.last_ack = 0 /\ c.lastByteSent = 0
  /\ Entries(c, {"SYN", "SYN_ACK"})

InUse(c) ==
  c # NoClient => /\ c.state \in {"SYN_SENT", "ESTABLISHED"}
                  /\ c.messageBuffer \subseteq Acks
                  /\ Entries(c, {"SYN", "SYN_ACK", "ACK"})

NoFiles(n, p) == file[n][p] = <<>> /\ file[p][n] = <<>>

Before(n, p) ==
  /\ clients[n][p] = NewClient("NONE", 0) /\ clients[p][n] = NoClient
  /\ Silent(n, p) /\ Silent(p, n) /\ NoFiles(n, p)

Calling(n, p) ==
  /\ Unheard(clients[n][p]) /\ clients[p][n] = NoClient
  /\ Lone(n, p, "SYN") /\ Silent(p, n) /\ NoFiles(n, p)

Answered(n, p) ==
  /\ Unheard(clients[n][p]) /\ Unheard(clients[p][n])
  /\ Silent(n, p) /\ Lone(p, n, "SYN_ACK") /\ NoFiles(n, p)

Connected(n, p) ==
  /\ InUse(clients[n][p]) /\ InUse(clients[p][n])
  /\ OnWay(n, p, Acks) /\ OnWay(p, n, Acks)

Linked(n, p) ==
  IF phase[n] = "starting" THEN Before(n, p)
  ELSE Calling(n, p) \/ Answered(n, p) \/ Connected(n, p)

Stranger(n, p) == clients[n][p] = NoClient /\ Silent(n, p) /\ file[n][p] = <<>>

PairInv(n, p) ==
  /\ Target[n] = p => Linked(n, p)
  /\ Target[p] = n => Linked(p, n)
  /\ Target[n] # p /\ Target[p] # n => Stranger(n, p) /\ Stranger(p, n)

OnlyTransfer ==
  /\ undialled = {}
  /\ \A n \in Node : /\ phase[n] \in {"starting", "looping", "crashed"}
                     /\ dialing[n].step = "idle"
                     /\ ~timeToClose[n]

HInv == OnlyTransfer /\ \A n, p \in Node : PairInv(n, p)

-----------------------------------------------------------------------------
(* What a step does to n's side of its connection with p: its client, the    *)
(* items it queues for p, the wire to p, what has arrived from p, the file.  *)

SameFrom(q, r, p) ==
  \/ r = q
  \/ q # <<>> /\ Head(q).from # p /\ r = Tail(q)
  \/ r # <<>> /\ r[Len(r)].from # p /\ r = Append(q, r[Len(r)])

SameSide(n, p) ==
  /\ clients'[n][p] = clients[n][p] /\ senderQueue'[n][p] = senderQueue[n][p]
  /\ file'[n][p] = file[n][p]
SameWire(n, p) ==
  /\ network'[n][p] = network[n][p]
  /\ SameFrom(receiverQueue[p], receiverQueue'[p], n)
SamePhase(n) == (phase'[n] = "starting") <=> (phase[n] = "starting")

Still(n, p) == SameSide(n, p) /\ SameWire(n, p)

\* n takes a segment of p off receiverQueue; what n sends to p passes by.
Heard(n) == Head(receiverQueue[n]).seg

Takes(n, p) ==
  /\ receiverQueue[n] # <<>> /\ Head(receiverQueue[n]).from = p
  /\ receiverQueue'[n] = Tail(receiverQueue[n])
  /\ network'[p][n] = network[p][n] /\ SameSide(p, n) /\ SameWire(n, p)
  /\ SamePhase(n) /\ SamePhase(p)

\* n's client for p becomes c, and the items snd are queued.
Speaks(n, p, c, snd) ==
  /\ clients'[n][p] = c
  /\ senderQueue'[n][p] = senderQueue[n][p] \o snd

\* A client after the first segment of a handshake.
Greets(c, flag, ack) ==
  /\ c # NoClient /\ c.state = "SYN_SENT" /\ c.expected_sequence = ISN + 1
  /\ c.expected_ack = ack /\ c.last_ack = 0 /\ c.lastByteSent = 0
  /\ c.messageBuffer = {}
  /\ Len(c.messagesSent) = 1
  /\ c.messagesSent[1].flag = flag /\ c.messagesSent[1].seq = ISN
  /\ c.messagesSent[1].start = 0 /\ c.messagesSent[1].size = 0

Greeting(seg) == [seg |-> seg, pushed |-> TRUE, address |-> "peer"]

\* Start.
Calls(n, p) ==
  /\ Target[n] = p /\ phase[n] = "starting" /\ phase'[n] # "starting"
  /\ SamePhase(p)
  /\ Greets(clients'[n][p], "SYN", 0)
  /\ senderQueue'[n][p] =
       Append(senderQueue[n][p], Greeting(Control("SYN", ISN, 0)))
  /\ file'[n][p] = file[n][p] /\ SameWire(n, p) /\ Still(p, n)

\* ReceiveSyn.
Answers(n, p) ==
  /\ Takes(n, p) /\ Heard(n).flag = "SYN" /\ clients[n][p] = NoClient
  /\ Greets(clients'[n][p], "SYN_ACK", Heard(n).seq + 1)
  /\ senderQueue'[n][p] =
       Append(senderQueue[n][p],
              Greeting(Control("SYN_ACK", ISN, Heard(n).seq + 1)))
  /\ file'[n][p] = file[n][p]

\* ReceiveSynAck.
Completes(n, p) ==
  /\ Takes(n, p) /\ Heard(n).flag = "SYN_ACK" /\ clients[n][p] # NoClient
  /\ LET h == HandleSynAck(clients[n][p], Heard(n))
     IN Speaks(n, p, h.c, h.snd)
  /\ file'[n][p] = file[n][p]

\* ReceiveAck.
Hears(n, p) ==
  /\ Takes(n, p) /\ Heard(n).flag = "ACK" /\ clients[n][p] # NoClient
  /\ LET c   == clients[n][p]
         seg == Heard(n)
     IN \E R \in {X \cup {seg} : X \in SUBSET c.messageBuffer} : \E last \in R :
          LET h == HandleAck(c, seg, R, last, sendBuffer[n], FALSE)
          IN /\ IsRun(R, last, c, seg)
             /\ Speaks(n, p, h.c, h.snd)
             /\ file'[n][p] = IF seg.seq = c.expected_ack /\ AckInRange(c, seg)
                              THEN file[n][p] \o Written(R, seg, last)
                              ELSE file[n][p]

\* ReceiveUnknown.
Discards(n, p) ==
  /\ Takes(n, p) /\ Heard(n).flag # "SYN" /\ clients[n][p] = NoClient
  /\ SameSide(n, p)

\* n speaks without having heard anything.
Unprompted(n, p) ==
  /\ file'[n][p] = file[n][p] /\ SameWire(n, p) /\ Still(p, n)
  /\ SamePhase(n) /\ SamePhase(p)

\* InsertInput.
Offers(n, p) ==
  /\ Unprompted(n, p)
  /\ clients[n][p] # NoClient /\ clients[n][p].state \in {"ESTABLISHED", "CLOSING"}
  /\ LET h == SendMessages(Frame(clients[n][p]), sendBuffer'[n], FALSE)
     IN Speaks(n, p, h.c, h.snd)

\* MessageResendCheck: a retransmission.
Repeats(n, p) ==
  /\ Unprompted(n, p)
  /\ LET c == clients[n][p]
     IN /\ c # NoClient /\ c.messagesSent # <<>>
        /\ KindOf(Head(c.messagesSent).flag, Head(c.messagesSent).size) \in Slow
        /\ Speaks(n, p, Retransmit(c).c, Retransmit(c).snd)

\* MessageResendCheck: the client is given up, perhaps after a retransmission.
GivesUp(n, p) ==
  /\ Unprompted(n, p)
  /\ clients[n][p] # NoClient /\ clients'[n][p] = NoClient
  /\ LET c == clients[n][p]
         Same(q) == /\ Len(senderQueue'[n][p]) = Len(q)
                    /\ \A i \in 1..Len(q) : senderQueue'[n][p][i].seg = q[i].seg
     IN \/ c.state = "CLOSED" /\ Same(senderQueue[n][p])
        \/ /\ c.messagesSent # <<>>
           /\ KindOf(Head(c.messagesSent).flag, Head(c.messagesSent).size) \in Slow
           /\ Same(senderQueue[n][p] \o Retransmit(c).snd)

\* Transmit and SendFails: the first item leaves the queue, and the wire gets
\* its segment unless sendto fails or the address is wrong.
Leaves(n, p) ==
  /\ senderQueue[n][p] # <<>> /\ senderQueue'[n][p] = Tail(senderQueue[n][p])
  /\ LET item == Head(senderQueue[n][p])
     IN /\ \/ clients'[n][p] = clients[n][p]
           \/ \E mark \in SendMark :
                /\ clients[n][p] # NoClient
                /\ clients'[n][p] = Stamp(clients[n][p], item.seg.seq, mark)
        /\ \/ network'[n][p] = Append(network[n][p], item.seg)
           \/ /\ network'[n][p] = network[n][p]
              /\ \/ item.address = "uninitialised"
                 \/ KindOf(item.seg.flag, SizeOf(item.seg)) \in Faulty
  /\ receiverQueue' = receiverQueue /\ file'[n][p] = file[n][p]
  /\ Still(p, n) /\ SamePhase(n) /\ SamePhase(p)

\* Deliver.
Arrives(n, p) ==
  /\ network[n][p] # <<>> /\ network'[n][p] = Tail(network[n][p])
  /\ receiverQueue'[p] =
       Append(receiverQueue[p], [from |-> n, seg |-> Head(network[n][p])])
  /\ SameSide(n, p) /\ Still(p, n) /\ SamePhase(n) /\ SamePhase(p)

\* NetworkFault.
GoesWrong(n, p) ==
  /\ \E i \in DOMAIN network[n][p] :
       LET q == network[n][p]
       IN /\ KindOf(q[i].flag, SizeOf(q[i])) \in Faulty
          /\ network'[n][p] \in {RemoveAt(q, i), Append(q, q[i]),
                                 <<q[i]>> \o RemoveAt(q, i)}
  /\ receiverQueue' = receiverQueue
  /\ SameSide(n, p) /\ Still(p, n) /\ SamePhase(n) /\ SamePhase(p)

\* n does something to its connection with p.
Event(n, p) ==
  \/ Calls(n, p) \/ Offers(n, p) \/ Repeats(n, p) \/ GivesUp(n, p)
  \/ Answers(n, p) \/ Completes(n, p) \/ Hears(n, p) \/ Discards(n, p)
  \/ Leaves(n, p) \/ Arrives(n, p) \/ GoesWrong(n, p)

NoEvent(n, p) ==
  /\ Still(n, p) /\ Still(p, n)
  /\ Target[n] = p => SamePhase(n)
  /\ Target[p] = n => SamePhase(p)

PairEvent(n, p) == NoEvent(n, p) \/ Event(n, p) \/ Event(p, n)

-----------------------------------------------------------------------------
(* The types a pair's state has by the inductive invariant of the transport. *)

Typed(n, p) ==
  /\ sendBuffer[n] \in Nat
  /\ clients[n][p] \in ClientWithin(sendBuffer[n]) \cup {NoClient}
  /\ senderQueue[n][p] \in Seq(OutItem)
  /\ network[n][p] \in Seq(ValidSegment)
  /\ receiverQueue[n] \in Seq(Arrival)
  /\ file[n][p] \in Seq(Nat)

\* The invariant of the transport types every pair.
LEMMA PairTyped ==
  ASSUME IInv, NEW n \in Node, NEW p \in Node
  PROVE  Typed(n, p)
  BY DEF Typed, IInv, ProtocolWithin, ArrivalsValid, Clients, SenderQueues

-----------------------------------------------------------------------------
(* A receiverQueue under the two operations on it.                          *)

\* A segment of somebody else comes or goes.
LEMMA OthersPass ==
  ASSUME NEW q \in Seq(Arrival), NEW r \in Seq(Arrival), NEW n,
         SameFrom(q, r, n)
  PROVE  /\ NoneFrom(q, n) => NoneFrom(r, n)
         /\ \A S : OnlyFrom(q, n, S) => OnlyFrom(r, n, S)
         /\ \A f : LoneFrom(q, n, f) => LoneFrom(r, n, f)
  <1>1. CASE r = q
    BY <1>1
  <1>2. CASE q # <<>> /\ Head(q).from # n /\ r = Tail(q)
    <2>1. /\ Len(q) \in Nat /\ DOMAIN q = 1..Len(q) /\ DOMAIN r = 1..(Len(q) - 1)
          /\ Head(q) = q[1]
          /\ \A i \in 1..(Len(q) - 1) : r[i] = q[i + 1]
      BY <1>2, HeadTailProperties
    <2>2. NoneFrom(q, n) => NoneFrom(r, n)
      BY <2>1 DEF NoneFrom
    <2>3. \A S : OnlyFrom(q, n, S) => OnlyFrom(r, n, S)
      BY <2>1 DEF OnlyFrom
    <2>4. ASSUME NEW f, LoneFrom(q, n, f)
          PROVE  LoneFrom(r, n, f)
      <3>1. PICK i \in DOMAIN q : /\ q[i].from = n /\ q[i].seg.flag = f
                                 /\ \A j \in DOMAIN q : q[j].from = n => j = i
        BY <2>4 DEF LoneFrom
      <3>2. i # 1
        BY <1>2, <2>1, <3>1
      <3>3. i - 1 \in DOMAIN r /\ r[i - 1] = q[i]
        BY <2>1, <3>2
      <3>4. ASSUME NEW j \in DOMAIN r, r[j].from = n
            PROVE  j = i - 1
        <4>1. j + 1 \in DOMAIN q /\ q[j + 1].from = n
          BY <2>1, <3>4
        <4>2. j + 1 = i
          BY <3>1, <4>1
        <4> QED
          BY <2>1, <4>2
      <3> QED
        BY <3>1, <3>3, <3>4 DEF LoneFrom
    <2> QED
      BY <2>2, <2>3, <2>4
  <1>3. CASE r # <<>> /\ r[Len(r)].from # n /\ r = Append(q, r[Len(r)])
    <2> DEFINE m == r[Len(r)]
    <2>1. Len(r) \in Nat /\ Len(r) # 0
      BY <1>3
    <2>2. m \in Arrival
      BY <2>1
    <2>3. /\ Len(q) \in Nat /\ DOMAIN q = 1..Len(q) /\ Len(r) = Len(q) + 1
          /\ DOMAIN r = 1..(Len(q) + 1)
          /\ \A i \in 1..Len(q) : r[i] = q[i]
          /\ r[Len(q) + 1].from # n
      BY <1>3, <2>2, AppendProperties
    <2>4. NoneFrom(q, n) => NoneFrom(r, n)
      BY <2>3 DEF NoneFrom
    <2>5. \A S : OnlyFrom(q, n, S) => OnlyFrom(r, n, S)
      BY <2>3 DEF OnlyFrom
    <2>6. \A f : LoneFrom(q, n, f) => LoneFrom(r, n, f)
      BY <2>3 DEF LoneFrom
    <2> QED
      BY <2>4, <2>5, <2>6
  <1> QED
    BY <1>1, <1>2, <1>3 DEF SameFrom

\* The first segment is n's and goes.
LEMMA HeadTaken ==
  ASSUME NEW q \in Seq(Arrival), NEW n, q # <<>>, Head(q).from = n
  PROVE  /\ ~NoneFrom(q, n)
         /\ \A S : OnlyFrom(q, n, S) => Head(q).seg \in S /\ OnlyFrom(Tail(q), n, S)
         /\ \A f : LoneFrom(q, n, f) => Head(q).seg.flag = f /\ NoneFrom(Tail(q), n)
  <1> DEFINE r == Tail(q)
  <1>1. /\ Len(q) \in Nat /\ Len(q) # 0 /\ DOMAIN q = 1..Len(q)
        /\ DOMAIN r = 1..(Len(q) - 1) /\ Head(q) = q[1]
        /\ \A i \in 1..(Len(q) - 1) : r[i] = q[i + 1]
    BY HeadTailProperties
  <1> HIDE DEF r
  <1>2. ~NoneFrom(q, n)
    BY <1>1 DEF NoneFrom
  <1>3. \A S : OnlyFrom(q, n, S) => Head(q).seg \in S /\ OnlyFrom(r, n, S)
    BY <1>1 DEF OnlyFrom
  <1>4. ASSUME NEW f, LoneFrom(q, n, f)
        PROVE  Head(q).seg.flag = f /\ NoneFrom(r, n)
    <2>1. PICK i \in DOMAIN q : /\ q[i].from = n /\ q[i].seg.flag = f
                               /\ \A j \in DOMAIN q : q[j].from = n => j = i
      BY <1>4 DEF LoneFrom
    <2>2. i = 1
      BY <1>1, <2>1
    <2>3. \A j \in DOMAIN r : r[j].from # n
      BY <1>1, <2>1, <2>2
    <2> QED
      BY <1>1, <2>1, <2>2, <2>3 DEF NoneFrom
  <1> QED
    BY <1>2, <1>3, <1>4 DEF r

\* A segment of n arrives.
LEMMA SegmentArrives ==
  ASSUME NEW q \in Seq(Arrival), NEW n \in Node, NEW seg \in ValidSegment
  PROVE  LET r == Append(q, [from |-> n, seg |-> seg])
         IN /\ \A S : OnlyFrom(q, n, S) /\ seg \in S => OnlyFrom(r, n, S)
            /\ NoneFrom(q, n) => LoneFrom(r, n, seg.flag)
  <1> DEFINE m == [from |-> n, seg |-> seg]
             r == Append(q, m)
  <1>1. m \in Arrival /\ m.from = n /\ m.seg = seg
    BY DEF Arrival
  <1>2. /\ Len(q) \in Nat /\ DOMAIN q = 1..Len(q) /\ Len(r) = Len(q) + 1
        /\ DOMAIN r = 1..(Len(q) + 1)
        /\ \A i \in 1..Len(q) : r[i] = q[i]
        /\ r[Len(q) + 1] = m
    BY <1>1, AppendProperties
  <1> HIDE DEF r, m
  <1>3. \A S : OnlyFrom(q, n, S) /\ seg \in S => OnlyFrom(r, n, S)
    BY <1>1, <1>2 DEF OnlyFrom
  <1>4. NoneFrom(q, n) => LoneFrom(r, n, seg.flag)
    BY <1>1, <1>2 DEF NoneFrom, LoneFrom
  <1> QED
    BY <1>3, <1>4 DEF r, m

-----------------------------------------------------------------------------
(* What is on its way from n to p, under each event.                        *)

\* Nothing of n's moves.
LEMMA StillWire ==
  ASSUME NEW n \in Node, NEW p \in Node, Typed(p, n), Typed(p, n)',
         senderQueue'[n][p] = senderQueue[n][p], SameWire(n, p)
  PROVE  /\ Silent(n, p) => Silent(n, p)'
         /\ \A f : Lone(n, p, f) => Lone(n, p, f)'
         /\ \A S : OnWay(n, p, S) => OnWay(n, p, S)'
  <1>1. /\ network'[n][p] = network[n][p]
        /\ SameFrom(receiverQueue[p], receiverQueue'[p], n)
    BY DEF SameWire
  <1>2. /\ NoneFrom(receiverQueue[p], n) => NoneFrom(receiverQueue'[p], n)
        /\ \A S : OnlyFrom(receiverQueue[p], n, S)
                   => OnlyFrom(receiverQueue'[p], n, S)
        /\ \A f : LoneFrom(receiverQueue[p], n, f)
                   => LoneFrom(receiverQueue'[p], n, f)
    <2>1. receiverQueue[p] \in Seq(Arrival) /\ receiverQueue'[p] \in Seq(Arrival)
      BY DEF Typed
    <2> QED
      BY <1>1, <2>1, OthersPass
  <1>3. Silent(n, p) => Silent(n, p)'
    BY <1>1, <1>2 DEF Silent
  <1>4. \A f : Lone(n, p, f) => Lone(n, p, f)'
    BY <1>1, <1>2 DEF Lone
  <1>5. \A S : OnWay(n, p, S) => OnWay(n, p, S)'
    BY <1>1, <1>2 DEF OnWay
  <1> QED
    BY <1>3, <1>4, <1>5

\* n queues items.
LEMMA SpeaksWire ==
  ASSUME NEW n \in Node, NEW p \in Node, Typed(n, p), Typed(p, n), Typed(p, n)',
         NEW snd \in Seq(OutItem), SameWire(n, p),
         senderQueue'[n][p] = senderQueue[n][p] \o snd,
         NEW S, OnWay(n, p, S), \A i \in DOMAIN snd : snd[i].seg \in S
  PROVE  OnWay(n, p, S)'
  <1> DEFINE q == senderQueue[n][p]
  <1>1. OnlyFrom(receiverQueue'[p], n, S)
    <2>1. receiverQueue[p] \in Seq(Arrival) /\ receiverQueue'[p] \in Seq(Arrival)
      BY DEF Typed
    <2> QED
      BY <2>1, OthersPass DEF SameWire, OnWay
  <1>2. \A i \in DOMAIN network'[n][p] : network'[n][p][i] \in S
    BY DEF SameWire, OnWay
  <1>3. q \in Seq(OutItem) /\ \A i \in DOMAIN q : q[i].seg \in S
    BY DEF Typed, OnWay
  <1>4. ASSUME NEW i \in DOMAIN (q \o snd)
        PROVE  (q \o snd)[i].seg \in S
    <2>1. /\ DOMAIN q = 1..Len(q) /\ DOMAIN snd = 1..Len(snd)
          /\ Len(q) \in Nat /\ Len(snd) \in Nat
          /\ q \o snd \in Seq(OutItem) /\ Len(q \o snd) = Len(q) + Len(snd)
          /\ \A j \in 1..(Len(q) + Len(snd)) :
               (q \o snd)[j] = IF j <= Len(q) THEN q[j] ELSE snd[j - Len(q)]
      BY <1>3, ConcatProperties
    <2>2. i \in 1..(Len(q) + Len(snd))
      BY <2>1
    <2>3. CASE i <= Len(q)
      BY <1>3, <2>1, <2>2, <2>3
    <2>4. CASE ~(i <= Len(q))
      <3>1. i - Len(q) \in DOMAIN snd /\ (q \o snd)[i] = snd[i - Len(q)]
        BY <2>1, <2>2, <2>4
      <3> QED
        BY <3>1
    <2> QED
      BY <2>3, <2>4
  <1> QED
    BY <1>1, <1>2, <1>4 DEF OnWay

\* n queues the first segment of a handshake.
LEMMA GreetsWire ==
  ASSUME NEW n \in Node, NEW p \in Node, Typed(p, n), Typed(p, n)',
         NEW seg, Silent(n, p), SameWire(n, p),
         senderQueue'[n][p] = Append(senderQueue[n][p], Greeting(seg))
  PROVE  Lone(n, p, seg.flag)'
  <1>1. NoneFrom(receiverQueue'[p], n)
    <2>1. receiverQueue[p] \in Seq(Arrival) /\ receiverQueue'[p] \in Seq(Arrival)
      BY DEF Typed
    <2> QED
      BY <2>1, OthersPass DEF SameWire, Silent
  <1>2. network'[n][p] = <<>>
    BY DEF SameWire, Silent
  <1>3. senderQueue'[n][p] = <<Greeting(seg)>>
    BY DEF Silent
  <1>4. /\ Len(senderQueue'[n][p]) = 1
        /\ senderQueue'[n][p][1].seg.flag = seg.flag
        /\ senderQueue'[n][p][1].address = "peer"
    BY <1>3 DEF Greeting
  <1> QED
    BY <1>1, <1>2, <1>4 DEF Lone

\* An item leaves n's queue.
LEMMA LeavesWire ==
  ASSUME UndisturbedTransfer, NEW n \in Node, NEW p \in Node, Typed(n, p),
         Leaves(n, p)
  PROVE  /\ ~Silent(n, p)
         /\ \A f \in {"SYN", "SYN_ACK"} : Lone(n, p, f) => Lone(n, p, f)'
         /\ \A S : OnWay(n, p, S) => OnWay(n, p, S)'
  <1> DEFINE q    == senderQueue[n][p]
             item == Head(q)
             w    == network[n][p]
  <1>1. /\ q # <<>> /\ senderQueue'[n][p] = Tail(q)
        /\ \/ network'[n][p] = Append(w, item.seg)
           \/ /\ network'[n][p] = w
              /\ \/ item.address = "uninitialised"
                 \/ KindOf(item.seg.flag, SizeOf(item.seg)) \in Faulty
        /\ receiverQueue' = receiverQueue
    BY DEF Leaves
  <1>2. q \in Seq(OutItem) /\ w \in Seq(ValidSegment)
    BY DEF Typed
  <1> HIDE DEF q, w
  <1>3. /\ Len(q) \in Nat /\ Len(q) # 0 /\ DOMAIN q = 1..Len(q) /\ item = q[1]
        /\ Tail(q) \in Seq(OutItem) /\ Len(Tail(q)) = Len(q) - 1
        /\ DOMAIN Tail(q) = 1..(Len(q) - 1)
        /\ \A i \in 1..(Len(q) - 1) : Tail(q)[i] = q[i + 1]
    BY <1>1, <1>2, HeadTailProperties
  <1>4. ~Silent(n, p)
    BY <1>1 DEF Silent, q
  <1>5. ASSUME NEW f \in {"SYN", "SYN_ACK"}, Lone(n, p, f)
        PROVE  Lone(n, p, f)'
    <2>1. /\ Len(q) = 1 /\ q[1].seg.flag = f /\ q[1].address = "peer"
          /\ w = <<>> /\ NoneFrom(receiverQueue[p], n)
      BY <1>1, <1>5 DEF Lone, q, w
    <2>2. KindOf(item.seg.flag, SizeOf(item.seg)) = f /\ f \notin Faulty
      BY <1>3, <2>1 DEF KindOf, UndisturbedTransfer
    <2>3. network'[n][p] = <<item.seg>>
      BY <1>1, <1>3, <2>1, <2>2
    <2>4. Tail(q) = <<>>
      BY <1>3, <2>1
    <2>5. Len(network'[n][p]) = 1 /\ network'[n][p][1].flag = f
      BY <1>3, <2>1, <2>3
    <2> QED
      BY <1>1, <2>1, <2>4, <2>5 DEF Lone
  <1>6. ASSUME NEW S, OnWay(n, p, S)
        PROVE  OnWay(n, p, S)'
    <2>1. /\ \A i \in DOMAIN q : q[i].seg \in S
          /\ \A i \in DOMAIN w : w[i] \in S
          /\ OnlyFrom(receiverQueue[p], n, S)
      BY <1>6 DEF OnWay, q, w
    <2>2. \A i \in DOMAIN Tail(q) : Tail(q)[i].seg \in S
      BY <1>3, <2>1
    <2>3. item.seg \in S
      BY <1>3, <2>1
    <2>4. item.seg \in Segment
      <3>1. item \in OutItem
        BY <1>2, <1>3
      <3> QED
        BY <3>1 DEF OutItem
    <2>5. \A i \in DOMAIN Append(w, item.seg) : Append(w, item.seg)[i] \in S
      <3>1. w \in Seq(Segment)
        BY <1>2, SeqMonotone DEF ValidSegment
      <3>2. /\ DOMAIN w = 1..Len(w) /\ Len(w) \in Nat
            /\ DOMAIN Append(w, item.seg) = 1..(Len(w) + 1)
            /\ \A i \in 1..Len(w) : Append(w, item.seg)[i] = w[i]
            /\ Append(w, item.seg)[Len(w) + 1] = item.seg
        BY <2>4, <3>1, AppendProperties
      <3> QED
        BY <2>1, <2>3, <3>2
    <2>6. \A i \in DOMAIN network'[n][p] : network'[n][p][i] \in S
      BY <1>1, <2>1, <2>5
    <2> QED
      BY <1>1, <2>1, <2>2, <2>6 DEF OnWay
  <1> QED
    BY <1>4, <1>5, <1>6

\* The receiver thread of p decodes a datagram of n.
LEMMA ArrivesWire ==
  ASSUME NEW n \in Node, NEW p \in Node, Typed(n, p), Typed(p, n),
         Arrives(n, p)
  PROVE  /\ ~Silent(n, p)
         /\ \A f : Lone(n, p, f) => Lone(n, p, f)'
         /\ \A S : OnWay(n, p, S) => OnWay(n, p, S)'
  <1> DEFINE w == network[n][p]
             q == receiverQueue[p]
             r == Append(q, [from |-> n, seg |-> Head(w)])
  <1>1. /\ w # <<>> /\ network'[n][p] = Tail(w) /\ receiverQueue'[p] = r
        /\ senderQueue'[n][p] = senderQueue[n][p]
    BY DEF Arrives, SameSide
  <1>2. q \in Seq(Arrival) /\ w \in Seq(ValidSegment)
    BY DEF Typed
  <1> HIDE DEF w
  <1>3. /\ Len(w) \in Nat /\ Len(w) # 0 /\ DOMAIN w = 1..Len(w) /\ Head(w) = w[1]
        /\ Tail(w) \in Seq(ValidSegment) /\ Len(Tail(w)) = Len(w) - 1
        /\ DOMAIN Tail(w) = 1..(Len(w) - 1)
        /\ \A i \in 1..(Len(w) - 1) : Tail(w)[i] = w[i + 1]
    BY <1>1, <1>2, HeadTailProperties
  <1>4. Head(w) \in ValidSegment
    BY <1>2, <1>3
  <1>5. /\ \A S : OnlyFrom(q, n, S) /\ Head(w) \in S => OnlyFrom(r, n, S)
        /\ NoneFrom(q, n) => LoneFrom(r, n, Head(w).flag)
    BY <1>2, <1>4, SegmentArrives
  <1> HIDE DEF q, r
  <1>6. ~Silent(n, p)
    BY <1>1 DEF Silent, w
  <1>7. ASSUME NEW f, Lone(n, p, f)
        PROVE  Lone(n, p, f)'
    <2>1. /\ senderQueue[n][p] = <<>> /\ Len(w) = 1 /\ w[1].flag = f
          /\ NoneFrom(q, n)
      BY <1>1, <1>7 DEF Lone, q, w
    <2>2. Tail(w) = <<>>
      BY <1>3, <2>1
    <2>3. LoneFrom(receiverQueue'[p], n, f)
      BY <1>1, <1>3, <1>5, <2>1
    <2> QED
      BY <1>1, <2>1, <2>2, <2>3 DEF Lone
  <1>8. ASSUME NEW S, OnWay(n, p, S)
        PROVE  OnWay(n, p, S)'
    <2>1. /\ \A i \in DOMAIN senderQueue[n][p] : senderQueue[n][p][i].seg \in S
          /\ \A i \in DOMAIN w : w[i] \in S
          /\ OnlyFrom(q, n, S)
      BY <1>8 DEF OnWay, q, w
    <2>2. \A i \in DOMAIN Tail(w) : Tail(w)[i] \in S
      BY <1>3, <2>1
    <2>3. Head(w) \in S
      BY <1>3, <2>1
    <2> QED
      BY <1>1, <1>5, <2>1, <2>2, <2>3 DEF OnWay
  <1> QED
    BY <1>6, <1>7, <1>8

\* The network mistreats a datagram of n: not one of the handshake.
LEMMA GoesWrongWire ==
  ASSUME UndisturbedTransfer, NEW n \in Node, NEW p \in Node, Typed(n, p),
         GoesWrong(n, p)
  PROVE  /\ ~Silent(n, p)
         /\ \A f \in {"SYN", "SYN_ACK"} : ~Lone(n, p, f)
         /\ \A S : OnWay(n, p, S) => OnWay(n, p, S)'
  <1> DEFINE w == network[n][p]
  <1>1. PICK i \in DOMAIN w :
          /\ KindOf(w[i].flag, SizeOf(w[i])) \in Faulty
          /\ network'[n][p] \in {RemoveAt(w, i), Append(w, w[i]),
                                 <<w[i]>> \o RemoveAt(w, i)}
    BY DEF GoesWrong
  <1>2. w \in Seq(ValidSegment)
    BY DEF Typed
  <1>3. receiverQueue' = receiverQueue /\ senderQueue'[n][p] = senderQueue[n][p]
    BY DEF GoesWrong, SameSide
  <1> HIDE DEF w
  <1>4. i \in 1..Len(w) /\ Len(w) \in Nat /\ w # <<>>
    BY <1>2
  <1>5. ~Silent(n, p)
    BY <1>4 DEF Silent, w
  <1>6. ASSUME NEW f \in {"SYN", "SYN_ACK"}, Lone(n, p, f)
        PROVE  FALSE
    <2>1. Len(w) = 1 /\ w[1].flag = f
      BY <1>4, <1>6 DEF Lone, w
    <2>2. i = 1
      BY <1>4, <2>1
    <2> QED
      BY <1>1, <2>1, <2>2 DEF KindOf, UndisturbedTransfer
  <1>7. ASSUME NEW S, OnWay(n, p, S)
        PROVE  OnWay(n, p, S)'
    <2>1. w \in Seq(S)
      <3>1. \A j \in 1..Len(w) : w[j] \in S
        BY <1>2, <1>7 DEF OnWay, w
      <3>2. w \in [1..Len(w) -> S]
        BY <1>2, <3>1
      <3> QED
        BY <1>4, <3>2
    <2>2. RemoveAt(w, i) \in Seq(S)
      <3>1. SubSeq(w, 1, i - 1) \in Seq(S) /\ SubSeq(w, i + 1, Len(w)) \in Seq(S)
        BY <1>4, <2>1, SubSeqProperties
      <3> QED
        BY <3>1 DEF RemoveAt
    <2>3. w[i] \in S
      BY <1>4, <2>1
    <2>4. Append(w, w[i]) \in Seq(S) /\ <<w[i]>> \o RemoveAt(w, i) \in Seq(S)
      BY <2>1, <2>2, <2>3
    <2>5. network'[n][p] \in Seq(S)
      BY <1>1, <2>2, <2>4
    <2>6. \A j \in DOMAIN network'[n][p] : network'[n][p][j] \in S
      BY <2>5
    <2> QED
      BY <1>3, <1>7, <2>6 DEF OnWay
  <1> QED
    BY <1>5, <1>6, <1>7

\* p takes a segment of n.
LEMMA TakesWire ==
  ASSUME NEW n \in Node, NEW p \in Node, Typed(p, n), Takes(p, n)
  PROVE  /\ ~Silent(n, p)
         /\ \A f : Lone(n, p, f) => Heard(p).flag = f /\ Silent(n, p)'
         /\ \A S : OnWay(n, p, S) => Heard(p) \in S /\ OnWay(n, p, S)'
  <1> DEFINE q == receiverQueue[p]
  <1>1. /\ q \in Seq(Arrival) /\ q # <<>> /\ Head(q).from = n
        /\ receiverQueue'[p] = Tail(q) /\ Heard(p) = Head(q).seg
        /\ network'[n][p] = network[n][p]
        /\ senderQueue'[n][p] = senderQueue[n][p]
    BY DEF Takes, Typed, Heard, SameSide
  <1>2. /\ ~NoneFrom(q, n)
        /\ \A S : OnlyFrom(q, n, S) => Head(q).seg \in S /\ OnlyFrom(Tail(q), n, S)
        /\ \A f : LoneFrom(q, n, f) => Head(q).seg.flag = f /\ NoneFrom(Tail(q), n)
    BY <1>1, HeadTaken
  <1>3. ~Silent(n, p)
    BY <1>2 DEF Silent
  <1>4. \A f : Lone(n, p, f) => Heard(p).flag = f /\ Silent(n, p)'
    BY <1>1, <1>2 DEF Lone, Silent
  <1>5. \A S : OnWay(n, p, S) => Heard(p) \in S /\ OnWay(n, p, S)'
    BY <1>1, <1>2 DEF OnWay
  <1> QED
    BY <1>3, <1>4, <1>5

-----------------------------------------------------------------------------
(* What the handlers make of a client, when nobody closes.                   *)

\* createMessage, field by field.
LEMMA CreateMessageFields ==
  ASSUME NEW B \in Nat, NEW h \in FrameWithin(B), NEW seg \in SegmentWithin(B),
         NEW state \in State
  PROVE  LET g      == CreateMessage(h, seg, state)
             pushed == IsTracked(seg) /\ FrontSeqNum(h.c) # seg.seq
             info   == [seq |-> seg.seq, flag |-> seg.flag, start |-> seg.start,
                        size |-> SizeOf(seg), sent |-> "queued"]
         IN /\ g \in FrameWithin(B) /\ g.rcv = h.rcv
            /\ g.snd = Append(h.snd, [seg |-> seg, pushed |-> pushed,
                                      address |-> "peer"])
            /\ g.c.state = state /\ g.c.expected_ack = seg.ack
            /\ g.c.expected_sequence = h.c.expected_sequence
            /\ g.c.lastByteSent = h.c.lastByteSent
            /\ g.c.last_ack = h.c.last_ack
            /\ g.c.messageBuffer = h.c.messageBuffer
            /\ g.c.messagesSent = IF pushed THEN Append(h.c.messagesSent, info)
                                  ELSE h.c.messagesSent
  <1> DEFINE pushed == IsTracked(seg) /\ FrontSeqNum(h.c) # seg.seq
             info   == [seq |-> seg.seq, flag |-> seg.flag, start |-> seg.start,
                        size |-> SizeOf(seg), sent |-> "queued"]
             c      == IF pushed THEN PushMessage(h.c, info) ELSE h.c
             d      == [c EXCEPT !.state = state, !.expected_ack = seg.ack]
             item   == [seg |-> seg, pushed |-> pushed, address |-> "peer"]
             g      == CreateMessage(h, seg, state)
  <1>1. h.c \in ClientRecord(B)
    BY DEF FrameWithin, ClientWithin
  <1>2. g = [h EXCEPT !.c = d, !.snd = Append(h.snd, item)]
    BY DEF CreateMessage
  <1>3. g \in FrameWithin(B)
    BY CreateMessageWithin
  <1> HIDE DEF pushed, info, item
  <1>4. /\ c.expected_sequence = h.c.expected_sequence
        /\ c.lastByteSent = h.c.lastByteSent /\ c.last_ack = h.c.last_ack
        /\ c.messageBuffer = h.c.messageBuffer
        /\ c.messagesSent = IF pushed THEN Append(h.c.messagesSent, info)
                            ELSE h.c.messagesSent
    BY <1>1 DEF PushMessage, ClientRecord
  <1>5. DOMAIN c = DOMAIN h.c /\ c = [x \in DOMAIN h.c |-> c[x]]
    BY <1>1 DEF PushMessage, ClientRecord
  <1>6. /\ d.state = state /\ d.expected_ack = seg.ack
        /\ d.expected_sequence = h.c.expected_sequence
        /\ d.lastByteSent = h.c.lastByteSent /\ d.last_ack = h.c.last_ack
        /\ d.messageBuffer = h.c.messageBuffer
        /\ d.messagesSent = IF pushed THEN Append(h.c.messagesSent, info)
                            ELSE h.c.messagesSent
    BY <1>1, <1>4, <1>5 DEF ClientRecord
  <1> HIDE DEF d, g
  <1>7. g.c = d /\ g.rcv = h.rcv /\ g.snd = Append(h.snd, item)
    BY <1>2 DEF FrameWithin
  <1> QED
    BY <1>3, <1>6, <1>7 DEF g, item, pushed, info

\* What sendMessages may do: nothing, acknowledge, or send k more bytes.
DataSegment(c, k) ==
  [flag |-> "ACK", seq |-> c.expected_sequence, ack |-> c.expected_ack,
   win |-> WINDOW_SIZE, start |-> c.lastByteSent, end |-> c.lastByteSent + k]

DataEntry(c, k) ==
  [seq |-> c.expected_sequence, flag |-> "ACK", start |-> c.lastByteSent,
   size |-> k, sent |-> "queued"]

SendsData(c, g, k, B) ==
  /\ c.lastByteSent + k <= B
  /\ g.c.lastByteSent = c.lastByteSent + k
  /\ g.c.expected_sequence = c.expected_sequence + k
  /\ Len(g.snd) = 1 /\ g.snd[1].seg = DataSegment(c, k)
  /\ g.c.messagesSent = IF FrontSeqNum(c) # c.expected_sequence
                        THEN Append(c.messagesSent, DataEntry(c, k))
                        ELSE c.messagesSent

SendsNoData(c, g) ==
  /\ g.c.lastByteSent = c.lastByteSent
  /\ g.c.expected_sequence = c.expected_sequence
  /\ g.c.messagesSent = c.messagesSent
  /\ \/ g.snd = <<>>
     \/ /\ Len(g.snd) = 1
        /\ g.snd[1].seg = Control("ACK", c.expected_sequence, c.expected_ack)

Sends(c, g, B) ==
  /\ g \in FrameWithin(B) /\ g.rcv = <<>>
  /\ g.c.state = c.state /\ g.c.expected_ack = c.expected_ack
  /\ g.c.last_ack = c.last_ack /\ g.c.messageBuffer = c.messageBuffer
  /\ SendsNoData(c, g) \/ \E k \in Nat \ {0} : SendsData(c, g, k, B)

\* sendMessages does one of the three.
LEMMA SendMessagesSends ==
  ASSUME NEW B \in Nat, NEW c \in ClientWithin(B), NEW dataWritten \in BOOLEAN
  PROVE  Sends(c, SendMessages(Frame(c), B, dataWritten), B)
  <1> DEFINE h     == Frame(c)
             avail == c.windowSize - c.totalSizeOfMessagesSent
             start == c.lastByteSent
             end   == AtMost(B, start + AtMost(MAX_DATA_SIZE, avail - HEADER_SIZE))
             ack   == Control("ACK", c.expected_sequence, c.expected_ack)
             data  == [ack EXCEPT !.start = start, !.end = end]
             g     == CreateMessage(h, data, c.state)
             a     == CreateMessage(h, ack, c.state)
             m     == SendMessages(h, B, dataWritten)
  <1>1. /\ h \in FrameWithin(B) /\ h.c = c /\ h.snd = <<>> /\ h.rcv = <<>>
    BY FrameOfClient DEF Frame
  <1>2. c \in ClientRecord(B)
    BY DEF ClientWithin
  <1>3. /\ start \in 0..B /\ avail \in Int /\ c.state \in State
        /\ c.expected_sequence \in Nat /\ c.expected_ack \in Nat
    BY <1>2 DEF ClientRecord
  <1>4. ack \in SegmentWithin(B) /\ ack.end = 0 /\ ack.flag = "ACK"
        /\ ack.ack = c.expected_ack
    BY <1>3, ControlWithin DEF Flag, Control
  <1>5. m \in FrameWithin(B)
    BY <1>1, SendMessagesWithin
  <1> HIDE DEF h
  <1>6. ASSUME ~MaySend(c, B), ~dataWritten
        PROVE  Sends(c, m, B)
    <2>1. m = h
      BY <1>1, <1>6 DEF SendMessages
    <2> QED
      BY <1>1, <1>5, <2>1 DEF Sends, SendsNoData
  <1>7. ASSUME ~MaySend(c, B), dataWritten
        PROVE  Sends(c, m, B)
    <2>1. m = a
      BY <1>1, <1>7 DEF SendMessages
    <2>2. ~IsTracked(ack)
      BY <1>4 DEF IsTracked
    <2> HIDE DEF ack
    <2>13. /\ h \in FrameWithin(B) /\ ack \in SegmentWithin(B) /\ c.state \in State
      BY <1>1, <1>3, <1>4
    <2>14. (IsTracked(ack) /\ FrontSeqNum(h.c) # ack.seq) = FALSE
      BY <2>2
    <2>3. /\ a.rcv = h.rcv
          /\ a.snd = Append(h.snd, [seg |-> ack, pushed |-> FALSE,
                                    address |-> "peer"])
          /\ a.c.state = c.state /\ a.c.expected_ack = c.expected_ack
          /\ a.c.expected_sequence = c.expected_sequence
          /\ a.c.lastByteSent = c.lastByteSent /\ a.c.last_ack = c.last_ack
          /\ a.c.messageBuffer = c.messageBuffer
          /\ a.c.messagesSent = c.messagesSent
      BY <1>1, <1>4, <2>13, <2>14, CreateMessageFields
    <2>4. a.rcv = <<>> /\ Len(a.snd) = 1 /\ a.snd[1].seg = ack
      BY <1>1, <2>3
    <2> QED
      BY <1>5, <2>1, <2>3, <2>4 DEF Sends, SendsNoData, ack
  <1>8. ASSUME MaySend(c, B)
        PROVE  Sends(c, m, B)
    <2> DEFINE k == end - start
               pushed == FrontSeqNum(c) # c.expected_sequence
    <2>1. end \in 0..B /\ start < end
      BY <1>3, <1>8, SizeAssumption DEF AtMost, MaySend
    <2>2. k \in Nat \ {0} /\ start + k = end /\ c.lastByteSent + k <= B
      BY <1>3, <2>1
    <2>3. data = DataSegment(c, k)
      <3> HIDE DEF end, start, k
      <3>1. end = c.lastByteSent + k
        BY <1>3, <2>2 DEF start
      <3>2. ack = [flag |-> "ACK", seq |-> c.expected_sequence,
                   ack |-> c.expected_ack, win |-> WINDOW_SIZE,
                   start |-> 0, end |-> 0]
        BY DEF Control
      <3>3. data = [flag |-> "ACK", seq |-> c.expected_sequence,
                    ack |-> c.expected_ack, win |-> WINDOW_SIZE,
                    start |-> start, end |-> end]
        <4> DEFINE e == [ack EXCEPT !.start = start]
        <4>1. data = [e EXCEPT !.end = end]
          OBVIOUS
        <4> HIDE DEF ack, data
        <4>2. e = [flag |-> "ACK", seq |-> c.expected_sequence,
                   ack |-> c.expected_ack, win |-> WINDOW_SIZE,
                   start |-> start, end |-> 0]
          BY <3>2
        <4> HIDE DEF e
        <4> QED
          BY <4>1, <4>2
      <3> QED
        BY <3>1, <3>3 DEF DataSegment, start
    <2>4. data \in SegmentWithin(B)
      <3>1. DataSegment(c, k) \in Segment
        <4> HIDE DEF k
        <4> QED
          BY <1>3, <2>2, SizeAssumption DEF DataSegment, Segment, Flag, start
      <3>2. DataSegment(c, k).start <= DataSegment(c, k).end
        <4> HIDE DEF k
        <4> QED
          BY <1>3, <2>2 DEF DataSegment, start
      <3>3. DataSegment(c, k).end <= B
        BY <2>2 DEF DataSegment
      <3> QED
        BY <2>3, <3>1, <3>2, <3>3 DEF SegmentWithin, ValidSegment
    <2>5. /\ data.seq = c.expected_sequence /\ data.flag = "ACK"
          /\ data.start = start /\ data.ack = c.expected_ack
          /\ SizeOf(data) = k /\ data.end = end
      BY <2>2, <2>3 DEF DataSegment, SizeOf, Control
    <2>6. m = [g EXCEPT !.c.lastByteSent = end,
                        !.c.expected_sequence = @ + (end - start)]
      BY <1>1, <1>8 DEF SendMessages
    <2>7. IsTracked(data)
      BY <1>3, <2>1, <2>5 DEF IsTracked
    <2> HIDE DEF data, g, end
    <2>8. /\ g \in FrameWithin(B) /\ g.rcv = <<>>
          /\ g.snd = <<[seg |-> data, pushed |-> pushed, address |-> "peer"]>>
          /\ g.c.state = c.state /\ g.c.expected_ack = c.expected_ack
          /\ g.c.expected_sequence = c.expected_sequence
          /\ g.c.last_ack = c.last_ack /\ g.c.messageBuffer = c.messageBuffer
          /\ g.c.messagesSent = IF pushed THEN Append(c.messagesSent, DataEntry(c, k))
                                ELSE c.messagesSent
      BY <1>1, <1>3, <2>4, <2>5, <2>7, CreateMessageFields DEF g, DataEntry
    <2>9. g.c \in ClientRecord(B)
      BY <2>8 DEF FrameWithin, ClientWithin
    <2> DEFINE d == [g.c EXCEPT !.lastByteSent = end,
                                !.expected_sequence = @ + (end - start)]
    <2>13. m = [g EXCEPT !.c = d]
      BY <2>6
    <2>14. /\ d.state = g.c.state /\ d.expected_ack = g.c.expected_ack
           /\ d.last_ack = g.c.last_ack /\ d.messageBuffer = g.c.messageBuffer
           /\ d.messagesSent = g.c.messagesSent /\ d.lastByteSent = end
           /\ d.expected_sequence = g.c.expected_sequence + (end - start)
      BY <2>9 DEF ClientRecord
    <2> HIDE DEF k, pushed, d, m
    <2>15. m.c = d /\ m.snd = g.snd /\ m.rcv = g.rcv
      BY <2>8, <2>13 DEF FrameWithin
    <2>10. /\ m.rcv = g.rcv /\ m.snd = g.snd
           /\ m.c.state = g.c.state /\ m.c.expected_ack = g.c.expected_ack
           /\ m.c.last_ack = g.c.last_ack
           /\ m.c.messageBuffer = g.c.messageBuffer
           /\ m.c.messagesSent = g.c.messagesSent
           /\ m.c.lastByteSent = end
           /\ m.c.expected_sequence = g.c.expected_sequence + (end - start)
      BY <2>14, <2>15
    <2>11. Len(m.snd) = 1 /\ m.snd[1].seg = data
      BY <2>8, <2>10
    <2>12. SendsData(c, m, k, B)
      BY <2>2, <2>3, <2>8, <2>10, <2>11 DEF SendsData, k, pushed
    <2> QED
      BY <1>5, <2>2, <2>8, <2>10, <2>12 DEF Sends
  <1> QED
    BY <1>6, <1>7, <1>8 DEF h

\* A client whose acknowledged entries are gone, or that was not acknowledged.
Acknowledged(c, d, ack) ==
  /\ d.last_ack = ack
  /\ LET q == c.messagesSent
     IN d.messagesSent = SubSeq(q, Acked(q, ack) + 1, Len(q))

Unacknowledged(c, d) ==
  d.last_ack = c.last_ack /\ d.messagesSent = c.messagesSent

\* acknowledge, field by field.
LEMMA AcknowledgeFields ==
  ASSUME NEW B \in Nat, NEW c \in ClientWithin(B), NEW seg \in ValidSegment
  PROVE  LET d == Acknowledge(c, seg)
         IN /\ d \in ClientWithin(B) /\ Acknowledged(c, d, seg.ack)
            /\ d.state = c.state /\ d.expected_ack = c.expected_ack
            /\ d.expected_sequence = c.expected_sequence
            /\ d.lastByteSent = c.lastByteSent
            /\ d.messageBuffer = c.messageBuffer
  <1> DEFINE q == c.messagesSent
             r == SubSeq(q, Acked(q, seg.ack) + 1, Len(q))
             t == c.totalSizeOfMessagesSent
                    - ByteCount(SubSeq(q, 1, Acked(q, seg.ack)))
             d == Acknowledge(c, seg)
  <1>1. d \in ClientWithin(B)
    BY AcknowledgeWithin
  <1>2. d = [c EXCEPT !.messagesSent = r, !.totalSizeOfMessagesSent = t,
                      !.last_ack = seg.ack, !.windowSize = seg.win]
    BY DEF Acknowledge
  <1>3. c \in ClientRecord(B)
    BY DEF ClientWithin
  <1> HIDE DEF r, t, d
  <1>4. /\ d.messagesSent = r /\ d.last_ack = seg.ack
        /\ d.state = c.state /\ d.expected_ack = c.expected_ack
        /\ d.expected_sequence = c.expected_sequence
        /\ d.lastByteSent = c.lastByteSent /\ d.messageBuffer = c.messageBuffer
    BY <1>2, <1>3 DEF ClientRecord
  <1> QED
    BY <1>1, <1>4 DEF Acknowledged, d, r

\* setItemMessageBuffer, unless the compiler's order of evaluation ends it.
LEMMA StoreFields ==
  ASSUME NEW B \in Nat, NEW c \in ClientWithin(B), NEW seg \in ValidSegment
  PROVE  LET h == Store(Frame(c), seg)
         IN /\ h \in FrameWithin(B) /\ h.snd = <<>> /\ h.rcv = <<>>
            /\ h.c.state = c.state /\ h.c.expected_ack = c.expected_ack
            /\ h.c.expected_sequence = c.expected_sequence
            /\ h.c.lastByteSent = c.lastByteSent
            /\ h.c.messageBuffer \subseteq c.messageBuffer \cup {seg}
            /\ Unacknowledged(c, h.c)
  <1> DEFINE buffer == {b \in c.messageBuffer : b.seq # seg.seq} \cup {seg}
             d == [c EXCEPT !.messageBuffer = buffer]
             f == Frame(c)
             h == Store(f, seg)
  <1>1. f \in FrameWithin(B) /\ f.c = c /\ f.snd = <<>> /\ f.rcv = <<>>
    BY FrameOfClient DEF Frame
  <1>2. h \in FrameWithin(B)
    BY <1>1, StoreWithin
  <1>3. c \in ClientRecord(B)
    BY DEF ClientWithin
  <1> HIDE DEF f
  <1>4. h = IF ARGS_RIGHT_TO_LEFT THEN [f EXCEPT !.alive = FALSE]
            ELSE [f EXCEPT !.c = d]
    BY <1>1, <1>3 DEF Store, FrameWithin, ClientRecord
  <1>5. buffer \subseteq c.messageBuffer \cup {seg}
    BY <1>3 DEF ClientRecord
  <1> HIDE DEF buffer, h
  <1>6. /\ d.state = c.state /\ d.expected_ack = c.expected_ack
        /\ d.expected_sequence = c.expected_sequence
        /\ d.lastByteSent = c.lastByteSent /\ d.messageBuffer = buffer
        /\ d.last_ack = c.last_ack /\ d.messagesSent = c.messagesSent
    BY <1>3 DEF ClientRecord
  <1> HIDE DEF d
  <1>7. h.c \in {c, d} /\ h.snd = f.snd /\ h.rcv = f.rcv
    BY <1>1, <1>4 DEF FrameWithin
  <1> QED
    BY <1>1, <1>2, <1>5, <1>6, <1>7 DEF Unacknowledged, h, f

\* message_handler for an acknowledgement, when nobody closes.
LEMMA MessageHandlerDoes ==
  ASSUME NEW B \in Nat, NEW c \in ClientWithin(B), NEW seg \in ValidSegment,
         NEW dataWritten \in BOOLEAN, seg.flag = "ACK", c.state # "CLOSING"
  PROVE  LET a == Acknowledge(c, seg)
             h == MessageHandler(Frame(c), seg, dataWritten, B, FALSE)
         IN /\ seg.seq > c.expected_ack => h = Store(Frame(a), seg)
            /\ ~(seg.seq > c.expected_ack)
                  => h = SendMessages(Frame(a), B, dataWritten)
  <1> DEFINE f == Frame(c)
             a == Acknowledge(c, seg)
             g == SendMessages(Frame(a), B, dataWritten)
             h == MessageHandler(f, seg, dataWritten, B, FALSE)
  <1>1. f.c = c /\ [f EXCEPT !.c = a] = Frame(a)
    <2> DEFINE alive == TRUE
    <2> HIDE DEF a
    <2>1. /\ f = [c |-> c, snd |-> <<>>, rcv |-> <<>>, alive |-> alive]
          /\ Frame(a) = [c |-> a, snd |-> <<>>, rcv |-> <<>>, alive |-> alive]
      BY DEF Frame
    <2> HIDE DEF f, alive
    <2> QED
      BY <2>1
  <1>2. a \in ClientWithin(B) /\ a.expected_ack = c.expected_ack
        /\ a.state = c.state
    BY AcknowledgeFields
  <1> HIDE DEF f, a
  <1>3. g \in FrameWithin(B) /\ g.c.state = c.state
    BY <1>2, SendMessagesSends DEF Sends
  <1> HIDE DEF g
  <1>4. [g EXCEPT !.rcv = IF seg.flag = "FIN" THEN Append(@, seg) ELSE @] = g
    BY <1>3 DEF FrameWithin
  <1>5. seg.seq > c.expected_ack => h = Store(Frame(a), seg)
    BY <1>1, <1>2 DEF MessageHandler, a
  <1>6. ~(seg.seq > c.expected_ack) => h = g
    BY <1>1, <1>2, <1>3, <1>4 DEF MessageHandler, a, g
  <1> QED
    BY <1>5, <1>6 DEF g, a, f

\* What an acknowledgement makes of client c: it is kept aside or dropped.
Buffers(c, d, seg) ==
  /\ d.state = c.state /\ d.expected_ack = c.expected_ack
  /\ d.expected_sequence = c.expected_sequence
  /\ d.lastByteSent = c.lastByteSent
  /\ d.messageBuffer \subseteq c.messageBuffer \cup {seg}
  /\ Acknowledged(c, d, seg.ack) \/ Unacknowledged(c, d)

\* Or its run is consumed up to position next, and segment b, one of the run or
\* of the buffer, acknowledges; e is the client before sendMessages.
Consumes(c, e, b, next) ==
  /\ e.state = (IF c.state = "SYN_SENT" THEN "ESTABLISHED" ELSE c.state)
  /\ e.expected_ack = next
  /\ e.expected_sequence = c.expected_sequence
  /\ e.lastByteSent = c.lastByteSent
  /\ e.messageBuffer \subseteq c.messageBuffer
  /\ Acknowledged(c, e, b.ack)

InTurn(c, seg) == seg.seq = c.expected_ack /\ AckInRange(c, seg)

AckHandled(c, h, seg, R, last, B) ==
  IF InTurn(c, seg)
  THEN \E b \in R \cup c.messageBuffer : \E e \in ClientWithin(B) :
         Consumes(c, e, b, NextSeq(last)) /\ Sends(e, h, B)
  ELSE h.snd = <<>> /\ h.rcv = <<>> /\ Buffers(c, h.c, seg)

\* Whatever segments the drain loop takes, the ACK case does what AckHandled says.
LEMMA HandleAckDoes ==
  ASSUME NEW B \in Nat, NEW c \in ClientWithin(B), NEW seg \in Acks,
         NEW R \in SUBSET Acks, NEW last \in R,
         c.messageBuffer \subseteq Acks, c.state \in {"SYN_SENT", "ESTABLISHED"}
  PROVE  AckHandled(c, HandleAck(c, seg, R, last, B, FALSE), seg, R, last, B)
  <1> DEFINE h       == HandleAck(c, seg, R, last, B, FALSE)
             next    == NextSeq(last)
             stopper == {b \in c.messageBuffer : SizeOf(seg) > 0 /\ b.seq = next}
             through == IF stopper = {} THEN last ELSE CHOOSE b \in stopper : TRUE
             rest    == (c.messageBuffer \ (R \ {seg})) \ stopper
             state   == IF c.state = "SYN_SENT" THEN "ESTABLISHED" ELSE c.state
             d       == [c EXCEPT !.expected_ack = next, !.messageBuffer = rest,
                                  !.state = state]
             written == [through EXCEPT !.seq = next]
             w       == [c EXCEPT !.windowSize = seg.win]
             far     == c.last_ack < seg.ack /\ seg.ack <= c.expected_sequence
  <1>1. c \in ClientRecord(B)
    BY DEF ClientWithin
  <1>2. seg \in ValidSegment /\ seg.flag = "ACK" /\ last \in ValidSegment
    BY DEF Acks
  <1>3. /\ next \in Nat /\ seg.seq \in Nat /\ c.expected_ack \in Nat
        /\ (SizeOf(seg) > 0) \in BOOLEAN
    <2>1. last.seq \in Nat /\ last.start \in Nat /\ last.end \in Nat
          /\ last.start <= last.end
      BY <1>2 DEF ValidSegment, Segment
    <2>2. seg.seq \in Nat /\ c.expected_ack \in Nat
      BY <1>1, <1>2 DEF ValidSegment, Segment, ClientRecord
    <2>3. last.seq + (last.end - last.start) \in Nat
      BY <2>1
    <2> QED
      BY <2>2, <2>3 DEF NextSeq, SizeOf
  <1>4. h = IF seg.seq > c.expected_ack
            THEN IF far THEN MessageHandler(Frame(c), seg, FALSE, B, FALSE)
                 ELSE Store(Frame(w), seg)
            ELSE IF InTurn(c, seg)
                 THEN MessageHandler(Frame(d), written, SizeOf(seg) > 0, B, FALSE)
                 ELSE Frame(c)
    <2>1. ASSUME seg.seq > c.expected_ack
          PROVE  h = IF far THEN MessageHandler(Frame(c), seg, FALSE, B, FALSE)
                     ELSE Store(Frame(w), seg)
      BY <2>1 DEF HandleAck
    <2>2. ASSUME ~(seg.seq > c.expected_ack), InTurn(c, seg)
          PROVE  h = MessageHandler(Frame(d), written, SizeOf(seg) > 0, B, FALSE)
      BY <2>2 DEF HandleAck, InTurn
    <2>3. ASSUME ~(seg.seq > c.expected_ack), ~InTurn(c, seg)
          PROVE  h = Frame(c)
      BY <2>3 DEF HandleAck, InTurn
    <2> HIDE DEF h, far, w, d, written
    <2> QED
      BY <2>1, <2>2, <2>3
  <1> HIDE DEF h
  <1>5. ASSUME seg.seq > c.expected_ack, far
        PROVE  AckHandled(c, h, seg, R, last, B)
    <2> DEFINE a == Acknowledge(c, seg)
    <2>1. h = Store(Frame(a), seg)
      BY <1>2, <1>4, <1>5, MessageHandlerDoes
    <2>2. /\ a \in ClientWithin(B) /\ Acknowledged(c, a, seg.ack)
          /\ a.state = c.state /\ a.expected_ack = c.expected_ack
          /\ a.expected_sequence = c.expected_sequence
          /\ a.lastByteSent = c.lastByteSent
          /\ a.messageBuffer = c.messageBuffer
      BY <1>2, AcknowledgeFields
    <2> HIDE DEF a
    <2>3. /\ h.snd = <<>> /\ h.rcv = <<>>
          /\ h.c.state = a.state /\ h.c.expected_ack = a.expected_ack
          /\ h.c.expected_sequence = a.expected_sequence
          /\ h.c.lastByteSent = a.lastByteSent
          /\ h.c.messageBuffer \subseteq a.messageBuffer \cup {seg}
          /\ Unacknowledged(a, h.c)
      BY <1>2, <2>1, <2>2, StoreFields
    <2>4. Acknowledged(c, h.c, seg.ack)
      BY <2>2, <2>3 DEF Acknowledged, Unacknowledged
    <2>5. ~InTurn(c, seg)
      BY <1>3, <1>5 DEF InTurn
    <2> QED
      BY <2>2, <2>3, <2>4, <2>5 DEF AckHandled, Buffers
  <1>6. ASSUME seg.seq > c.expected_ack, ~far
        PROVE  AckHandled(c, h, seg, R, last, B)
    <2>1. h = Store(Frame(w), seg)
      BY <1>4, <1>6
    <2>2. seg.win \in Nat
      BY <1>2 DEF ValidSegment, Segment
    <2>3. /\ w \in ClientWithin(B)
          /\ w.state = c.state /\ w.expected_ack = c.expected_ack
          /\ w.expected_sequence = c.expected_sequence
          /\ w.lastByteSent = c.lastByteSent
          /\ w.messageBuffer = c.messageBuffer
          /\ w.last_ack = c.last_ack /\ w.messagesSent = c.messagesSent
      BY <1>1, <2>2 DEF ClientWithin, ClientRecord, Counted
    <2> HIDE DEF w
    <2>4. /\ h.snd = <<>> /\ h.rcv = <<>>
          /\ h.c.state = w.state /\ h.c.expected_ack = w.expected_ack
          /\ h.c.expected_sequence = w.expected_sequence
          /\ h.c.lastByteSent = w.lastByteSent
          /\ h.c.messageBuffer \subseteq w.messageBuffer \cup {seg}
          /\ Unacknowledged(w, h.c)
      BY <1>2, <2>1, <2>3, StoreFields
    <2>5. Unacknowledged(c, h.c)
      BY <2>3, <2>4 DEF Unacknowledged
    <2>6. ~InTurn(c, seg)
      BY <1>3, <1>6 DEF InTurn
    <2> QED
      BY <2>3, <2>4, <2>5, <2>6 DEF AckHandled, Buffers
  <1>7. ASSUME ~(seg.seq > c.expected_ack), ~InTurn(c, seg)
        PROVE  AckHandled(c, h, seg, R, last, B)
    <2>1. h.c = c /\ h.snd = <<>> /\ h.rcv = <<>>
      BY <1>4, <1>7 DEF Frame
    <2> QED
      BY <1>7, <2>1 DEF AckHandled, Buffers, Unacknowledged
  <1>8. ASSUME InTurn(c, seg)
        PROVE  AckHandled(c, h, seg, R, last, B)
    <2> DEFINE e == Acknowledge(d, written)
    <2>1. through \in Acks /\ through \in R \cup c.messageBuffer
      BY <1>2
    <2>2. state \in State /\ state # "CLOSING" /\ rest \in SUBSET ValidSegment
      BY <1>1 DEF State, ClientRecord
    <2> HIDE DEF through, rest, state, next
    <2>3. /\ written \in ValidSegment /\ written.flag = "ACK"
          /\ written.seq = next /\ written.ack = through.ack
      BY <1>3, <2>1 DEF Acks, ValidSegment, Segment
    <2>4. /\ d \in ClientWithin(B) /\ d.state = state /\ d.expected_ack = next
          /\ d.expected_sequence = c.expected_sequence
          /\ d.lastByteSent = c.lastByteSent /\ d.messageBuffer = rest
          /\ d.messagesSent = c.messagesSent
      BY <1>1, <1>3, <2>2 DEF ClientWithin, ClientRecord, Counted
    <2> HIDE DEF written, d
    <2>5. h = SendMessages(Frame(e), B, SizeOf(seg) > 0)
      <3>1. ~(seg.seq > c.expected_ack) /\ ~(written.seq > d.expected_ack)
        BY <1>3, <1>8, <2>3, <2>4 DEF InTurn
      <3>2. h = MessageHandler(Frame(d), written, SizeOf(seg) > 0, B, FALSE)
        BY <1>4, <1>8, <3>1
      <3> QED
        BY <1>3, <2>2, <2>3, <2>4, <3>1, <3>2, MessageHandlerDoes
    <2>6. /\ e \in ClientWithin(B) /\ Acknowledged(d, e, written.ack)
          /\ e.state = d.state /\ e.expected_ack = d.expected_ack
          /\ e.expected_sequence = d.expected_sequence
          /\ e.lastByteSent = d.lastByteSent
          /\ e.messageBuffer = d.messageBuffer
      BY <2>3, <2>4, AcknowledgeFields
    <2> HIDE DEF e
    <2>7. Sends(e, h, B)
      BY <1>3, <2>5, <2>6, SendMessagesSends
    <2>8. Consumes(c, e, through, next)
      <3>1. Acknowledged(c, e, through.ack)
        BY <2>3, <2>4, <2>6 DEF Acknowledged
      <3>2. e.messageBuffer \subseteq c.messageBuffer
        BY <2>4, <2>6 DEF rest
      <3>3. e.state = IF c.state = "SYN_SENT" THEN "ESTABLISHED" ELSE c.state
        BY <2>4, <2>6 DEF state
      <3> QED
        BY <2>4, <2>6, <3>1, <3>2, <3>3 DEF Consumes
    <2> QED
      BY <1>8, <2>1, <2>6, <2>7, <2>8 DEF AckHandled, next
  <1> QED
    BY <1>5, <1>6, <1>7, <1>8 DEF h

\* What sending and stamping leave alone.
Steady(c, d) ==
  /\ d.state = c.state /\ d.expected_ack = c.expected_ack
  /\ d.expected_sequence = c.expected_sequence
  /\ d.lastByteSent = c.lastByteSent /\ d.messageBuffer = c.messageBuffer
  /\ d.last_ack = c.last_ack

SameEntries(q, r) ==
  /\ Len(r) = Len(q)
  /\ \A i \in 1..Len(q) : /\ r[i].flag = q[i].flag /\ r[i].seq = q[i].seq
                          /\ r[i].start = q[i].start /\ r[i].size = q[i].size

\* The sender thread changes nothing but the mark of an entry.
LEMMA StampFields ==
  ASSUME NEW B \in Nat, NEW c \in ClientWithin(B), NEW seq, NEW mark \in SendMark
  PROVE  LET d == Stamp(c, seq, mark)
         IN /\ d \in ClientWithin(B) /\ Steady(c, d)
            /\ SameEntries(c.messagesSent, d.messagesSent)
  <1> DEFINE q == c.messagesSent
             Waits(i) == q[i].seq = seq /\ q[i].sent = "queued"
             s == [i \in DOMAIN q |->
                     IF Waits(i) /\ \A j \in 1..(i - 1) : ~Waits(j)
                     THEN [q[i] EXCEPT !.sent = mark] ELSE q[i]]
             d == Stamp(c, seq, mark)
  <1>1. c \in ClientRecord(B) /\ d \in ClientWithin(B)
    BY StampWithin DEF ClientWithin
  <1>2. d = [c EXCEPT !.messagesSent = s]
    BY DEF Stamp
  <1>3. /\ q \in Seq(InfoWithin(B)) /\ Len(q) \in Nat /\ DOMAIN q = 1..Len(q)
    BY <1>1 DEF ClientRecord
  <1>4. ASSUME NEW i \in 1..Len(q)
        PROVE  /\ s[i].flag = q[i].flag /\ s[i].seq = q[i].seq
               /\ s[i].start = q[i].start /\ s[i].size = q[i].size
    <2>1. s[i] \in {q[i], [q[i] EXCEPT !.sent = mark]}
      BY <1>3
    <2>2. q[i] \in SegmentInfo
      BY <1>3 DEF InfoWithin
    <2> HIDE DEF q, s
    <2> QED
      BY <2>1, <2>2 DEF SegmentInfo
  <1>5. DOMAIN s = 1..Len(q)
    BY <1>3
  <1> HIDE DEF s, d
  <1>6. Steady(c, d) /\ d.messagesSent = s
    BY <1>1, <1>2 DEF Steady, ClientRecord
  <1>7. Len(s) = Len(q)
    <2>1. d.messagesSent \in Seq(InfoWithin(B))
      BY <1>1 DEF ClientWithin, ClientRecord
    <2>2. DOMAIN s = 1..Len(s) /\ Len(s) \in Nat
      BY <1>6, <2>1
    <2> QED
      BY <1>3, <1>5, <2>2
  <1> QED
    BY <1>1, <1>4, <1>6, <1>7 DEF SameEntries, d

\* SYN_ACK: acknowledged if it is for the SYN, else ignored.
Completed(c, h, seg, B) ==
  /\ h.rcv = <<>>
  /\ \/ h.c = c /\ h.snd = <<>>
     \/ /\ h \in FrameWithin(B)
        /\ h.c.state = "ESTABLISHED" /\ h.c.expected_ack = seg.seq + 1
        /\ h.c.expected_sequence = c.expected_sequence
        /\ h.c.lastByteSent = c.lastByteSent
        /\ h.c.messageBuffer = c.messageBuffer
        /\ Acknowledged(c, h.c, seg.ack)
        /\ Len(h.snd) = 1
        /\ h.snd[1].seg = Control("ACK", c.expected_sequence, seg.seq + 1)

\* The SYN_ACK case establishes the connection, as Completed says.
LEMMA HandleSynAckDoes ==
  ASSUME NEW B \in Nat, NEW c \in ClientWithin(B), NEW seg \in ValidSegment
  PROVE  Completed(c, HandleSynAck(c, seg), seg, B)
  <1> DEFINE ack == Control("ACK", c.expected_sequence, seg.seq + 1)
             g   == CreateMessage(Frame(c), ack, "ESTABLISHED")
             d   == Acknowledge(g.c, seg)
             h   == HandleSynAck(c, seg)
  <1>1. c.expected_sequence \in Nat /\ seg.seq + 1 \in Nat
    BY DEF ClientWithin, ClientRecord, ValidSegment, Segment
  <1>2. /\ Frame(c) \in FrameWithin(B) /\ Frame(c).c = c /\ Frame(c).snd = <<>>
        /\ Frame(c).rcv = <<>> /\ h \in FrameWithin(B)
    BY FrameOfClient, HandleSynAckWithin DEF Frame
  <1>3. CASE seg.ack # c.expected_sequence
    BY <1>2, <1>3 DEF HandleSynAck, Completed
  <1>4. CASE seg.ack = c.expected_sequence
    <2>1. h = [g EXCEPT !.c = d]
      BY <1>4 DEF HandleSynAck
    <2>2. /\ ack \in SegmentWithin(B) /\ ack.ack = seg.seq + 1
          /\ (IsTracked(ack) /\ FrontSeqNum(Frame(c).c) # ack.seq) = FALSE
      BY <1>1, ControlWithin DEF Flag, Control, IsTracked
    <2> HIDE DEF ack, h
    <2>3. /\ g \in FrameWithin(B) /\ g.rcv = Frame(c).rcv
          /\ g.snd = Append(Frame(c).snd, [seg |-> ack, pushed |-> FALSE,
                                          address |-> "peer"])
          /\ g.c.state = "ESTABLISHED" /\ g.c.expected_ack = ack.ack
          /\ g.c.expected_sequence = Frame(c).c.expected_sequence
          /\ g.c.lastByteSent = Frame(c).c.lastByteSent
          /\ g.c.messageBuffer = Frame(c).c.messageBuffer
          /\ g.c.messagesSent = Frame(c).c.messagesSent
      <3>1. "ESTABLISHED" \in State
        BY DEF State
      <3> QED
        BY <1>2, <2>2, <3>1, CreateMessageFields
    <2> HIDE DEF g
    <2>4. g.c \in ClientWithin(B)
      BY <2>3 DEF FrameWithin
    <2>5. /\ Acknowledged(g.c, d, seg.ack)
          /\ d.state = g.c.state /\ d.expected_ack = g.c.expected_ack
          /\ d.expected_sequence = g.c.expected_sequence
          /\ d.lastByteSent = g.c.lastByteSent
          /\ d.messageBuffer = g.c.messageBuffer
      BY <2>4, AcknowledgeFields
    <2> HIDE DEF d
    <2>6. h.c = d /\ h.snd = g.snd /\ h.rcv = g.rcv
      BY <2>1, <2>3 DEF FrameWithin
    <2>7. Acknowledged(c, h.c, seg.ack)
      BY <1>2, <2>3, <2>5, <2>6 DEF Acknowledged
    <2>8. Len(h.snd) = 1 /\ h.snd[1].seg = ack
      BY <1>2, <2>3, <2>6
    <2> QED
      BY <1>2, <2>2, <2>3, <2>5, <2>6, <2>7, <2>8 DEF Completed, ack, h
  <1> QED
    BY <1>3, <1>4

\* A retransmission repeats the front entry and changes no counter.
Repetition(c) ==
  LET f == Head(c.messagesSent)
  IN [flag |-> f.flag, seq |-> f.seq, ack |-> c.expected_ack,
      win |-> c.windowSize, start |-> f.start, end |-> f.start + f.size]

\* A retransmission says the first entry again and keeps the list.
LEMMA RetransmitDoes ==
  ASSUME NEW B \in Nat, NEW c \in ClientWithin(B), c.messagesSent # <<>>
  PROVE  LET h == Retransmit(c)
         IN /\ h \in FrameWithin(B)
            /\ Steady(c, h.c) /\ h.c.messagesSent = c.messagesSent
            /\ Len(h.snd) = 1 /\ h.snd[1].seg = Repetition(c)
  <1> DEFINE f    == Head(c.messagesSent)
             seg  == Repetition(c)
             d    == [c EXCEPT !.totalSizeOfMessagesSent = @ + HEADER_SIZE + f.size]
             g    == CreateMessage(Frame(d), seg, c.state)
             e    == [g.c EXCEPT !.number_of_timeouts = @ + 1]
             h    == Retransmit(c)
  <1>1. h \in FrameWithin(B)
    BY RetransmitWithin
  <1>2. /\ c \in ClientRecord(B) /\ c.messagesSent \in Seq(InfoWithin(B))
        /\ c.expected_ack \in Nat /\ c.windowSize \in Nat /\ c.state \in State
        /\ c.totalSizeOfMessagesSent \in Int
    BY DEF ClientWithin, ClientRecord
  <1>3. f \in InfoWithin(B)
    BY <1>2
  <1>4. h = [g EXCEPT !.c = e]
    BY DEF Retransmit, Repetition
  <1>5. /\ f.start \in Nat /\ f.size \in Nat /\ f.flag \in Flag /\ f.seq \in Nat
        /\ f.start + f.size <= B
    BY <1>3 DEF InfoWithin, SegmentInfo
  <1>6. /\ seg \in SegmentWithin(B) /\ seg.seq = f.seq
        /\ seg.ack = c.expected_ack
    <2> HIDE DEF f
    <2> QED
      BY <1>2, <1>5 DEF SegmentWithin, ValidSegment, Segment, Repetition, f
  <1>7. d \in ClientWithin(B)
    <2> DEFINE t == c.totalSizeOfMessagesSent + HEADER_SIZE + f.size
    <2>1. c.messagesSent \in Seq(SegmentInfo)
      BY <1>2, SeqMonotone DEF InfoWithin
    <2>2. ByteCount(c.messagesSent) \in Nat
      BY <2>1, ByteCountTyped
    <2> HIDE DEF f
    <2>3. t >= ByteCount(c.messagesSent) /\ t \in Int
      BY <1>2, <1>5, <2>2, SizeAssumption DEF ClientWithin, Counted
    <2> HIDE DEF t
    <2>4. [c EXCEPT !.totalSizeOfMessagesSent = t] \in ClientWithin(B)
      BY <2>3 DEF ClientWithin, ClientRecord, Counted
    <2>5. d = [c EXCEPT !.totalSizeOfMessagesSent = t]
      BY DEF t
    <2> QED
      BY <2>4, <2>5
  <1>8. /\ Steady(c, d) /\ d.messagesSent = c.messagesSent
    BY <1>2 DEF Steady, ClientRecord
  <1> HIDE DEF seg, d, h
  <1>9. /\ Frame(d) \in FrameWithin(B) /\ Frame(d).c = d /\ Frame(d).snd = <<>>
    BY <1>7, FrameOfClient DEF Frame
  <1>10. (IsTracked(seg) /\ FrontSeqNum(Frame(d).c) # seg.seq) = FALSE
    BY <1>6, <1>8, <1>9 DEF FrontSeqNum
  <1> HIDE DEF f
  <1>11. /\ g \in FrameWithin(B)
         /\ g.snd = Append(Frame(d).snd, [seg |-> seg, pushed |-> FALSE,
                                         address |-> "peer"])
         /\ g.c.state = c.state /\ g.c.expected_ack = seg.ack
         /\ g.c.expected_sequence = Frame(d).c.expected_sequence
         /\ g.c.lastByteSent = Frame(d).c.lastByteSent
         /\ g.c.last_ack = Frame(d).c.last_ack
         /\ g.c.messageBuffer = Frame(d).c.messageBuffer
         /\ g.c.messagesSent = Frame(d).c.messagesSent
    BY <1>2, <1>6, <1>9, <1>10, CreateMessageFields
  <1> HIDE DEF g
  <1>12. g.c \in ClientRecord(B)
    BY <1>11 DEF FrameWithin, ClientWithin
  <1>13. Steady(g.c, e) /\ e.messagesSent = g.c.messagesSent
    BY <1>12 DEF Steady, ClientRecord
  <1> HIDE DEF e
  <1>14. h.c = e /\ h.snd = g.snd
    BY <1>4, <1>11 DEF FrameWithin
  <1>15. Steady(c, h.c) /\ h.c.messagesSent = c.messagesSent
    BY <1>6, <1>8, <1>9, <1>11, <1>13, <1>14 DEF Steady
  <1>16. Len(h.snd) = 1 /\ h.snd[1].seg = seg
    BY <1>9, <1>11, <1>14
  <1> QED
    BY <1>1, <1>15, <1>16 DEF h, seg

-----------------------------------------------------------------------------
(* A client in use stays one, and says nothing but acknowledgements.         *)

\* Entries leave only at the front.
LEMMA EntriesKept ==
  ASSUME NEW B \in Nat, NEW c \in ClientWithin(B), NEW d, NEW ack \in Nat,
         Acknowledged(c, d, ack) \/ Unacknowledged(c, d),
         NEW F, Entries(c, F)
  PROVE  Entries(d, F)
  <1> DEFINE q == c.messagesSent
             k == Acked(q, ack)
  <1>1. q \in Seq(SegmentInfo)
    <2>1. q \in Seq(InfoWithin(B))
      BY DEF ClientWithin, ClientRecord
    <2> QED
      BY <2>1, SeqMonotone DEF InfoWithin
  <1> HIDE DEF k, q
  <1>2. k \in 0..Len(q) /\ Len(q) \in Nat /\ DOMAIN q = 1..Len(q)
    <2>1. k \in 0..Len(q)
      BY <1>1, AckedBound DEF k
    <2> QED
      BY <1>1, <2>1
  <1>3. CASE Acknowledged(c, d, ack)
    <2>1. d.messagesSent = SubSeq(q, k + 1, Len(q))
      BY <1>3 DEF Acknowledged, k, q
    <2>2. /\ DOMAIN SubSeq(q, k + 1, Len(q)) = 1..(Len(q) - k)
          /\ \A i \in 1..(Len(q) - k) :
               SubSeq(q, k + 1, Len(q))[i] = q[k + 1 + i - 1]
      BY <1>1, <1>2, SubSeqProperties
    <2>3. \A i \in 1..(Len(q) - k) : k + 1 + i - 1 \in DOMAIN q
      BY <1>2
    <2> QED
      BY <2>1, <2>2, <2>3 DEF Entries, q
  <1>4. CASE Unacknowledged(c, d)
    BY <1>4 DEF Unacknowledged, Entries
  <1> QED
    BY <1>3, <1>4

\* A mark changes no flag.
LEMMA EntriesMarked ==
  ASSUME NEW B \in Nat, NEW c \in ClientWithin(B), NEW d \in ClientWithin(B),
         SameEntries(c.messagesSent, d.messagesSent), NEW F, Entries(c, F)
  PROVE  Entries(d, F)
  <1>1. /\ c.messagesSent \in Seq(InfoWithin(B))
        /\ d.messagesSent \in Seq(InfoWithin(B))
    BY DEF ClientWithin, ClientRecord
  <1>2. /\ DOMAIN c.messagesSent = 1..Len(c.messagesSent)
        /\ DOMAIN d.messagesSent = 1..Len(d.messagesSent)
    BY <1>1
  <1> QED
    BY <1>2 DEF SameEntries, Entries

\* No client is a missing entry.
LEMMA ClientExists ==
  ASSUME NEW B \in Nat, NEW c \in ClientWithin(B)
  PROVE  c # NoClient
  BY WithinTyped, ClientAssumption

AcksOnly(snd) == snd \in Seq(OutItem) /\ \A i \in DOMAIN snd : snd[i].seg \in Acks

\* sendMessages.
LEMMA SendsInUse ==
  ASSUME NEW B \in Nat, NEW c \in ClientWithin(B), InUse(c), NEW h,
         Sends(c, h, B)
  PROVE  InUse(h.c) /\ AcksOnly(h.snd)
  <1>1. h \in FrameWithin(B)
    BY DEF Sends
  <1>2. /\ h.snd \in Seq(ItemWithin(B)) /\ h.snd \in Seq(OutItem)
        /\ DOMAIN h.snd = 1..Len(h.snd) /\ Len(h.snd) \in Nat
    BY <1>1, WithinTyped DEF FrameWithin
  <1>3. ASSUME NEW i \in DOMAIN h.snd
        PROVE  h.snd[i].seg \in ValidSegment
    <2>1. h.snd[i] \in ItemWithin(B)
      BY <1>2
    <2> QED
      BY <2>1 DEF ItemWithin, SegmentWithin
  <1>4. c # NoClient
    BY ClientExists
  <1>5. c.messagesSent \in Seq(SegmentInfo)
    <2>1. c.messagesSent \in Seq(InfoWithin(B))
      BY DEF ClientWithin, ClientRecord
    <2> QED
      BY <2>1, SeqMonotone DEF InfoWithin
  <1>6. CASE SendsNoData(c, h)
    <2>1. \A i \in DOMAIN h.snd : h.snd[i].seg.flag = "ACK"
      BY <1>2, <1>6 DEF SendsNoData, Control
    <2>2. AcksOnly(h.snd)
      BY <1>2, <1>3, <2>1 DEF AcksOnly, Acks
    <2>3. InUse(h.c)
      BY <1>4, <1>6 DEF SendsNoData, Sends, InUse, Entries
    <2> QED
      BY <2>2, <2>3
  <1>7. ASSUME NEW k \in Nat \ {0}, SendsData(c, h, k, B)
        PROVE  InUse(h.c) /\ AcksOnly(h.snd)
    <2>1. \A i \in DOMAIN h.snd : h.snd[i].seg.flag = "ACK"
      BY <1>2, <1>7 DEF SendsData, DataSegment
    <2>2. AcksOnly(h.snd)
      BY <1>2, <1>3, <2>1 DEF AcksOnly, Acks
    <2>3. Entries(h.c, {"SYN", "SYN_ACK", "ACK"})
      <3> DEFINE q == c.messagesSent
                 e == DataEntry(c, k)
      <3>1. e.flag = "ACK"
        BY DEF DataEntry
      <3>2. \A i \in DOMAIN q : q[i].flag \in {"SYN", "SYN_ACK", "ACK"}
        BY <1>4 DEF InUse, Entries
      <3>3. h.c.messagesSent = q \/ h.c.messagesSent = Append(q, e)
        BY <1>7 DEF SendsData
      <3>4. /\ Len(q) \in Nat /\ DOMAIN q = 1..Len(q)
            /\ DOMAIN Append(q, e) = 1..(Len(q) + 1)
            /\ \A i \in 1..Len(q) : Append(q, e)[i] = q[i]
            /\ Append(q, e)[Len(q) + 1] = e
        <4>1. Len(q) \in Nat /\ DOMAIN q = 1..Len(q)
          BY <1>5
        <4> HIDE DEF q, e
        <4> QED
          BY <4>1
      <3> HIDE DEF q, e
      <3>5. \A i \in DOMAIN Append(q, e) :
              Append(q, e)[i].flag \in {"SYN", "SYN_ACK", "ACK"}
        BY <3>1, <3>2, <3>4
      <3> QED
        BY <3>2, <3>3, <3>5 DEF Entries
    <2>4. InUse(h.c)
      BY <1>4, <2>3 DEF Sends, InUse
    <2> QED
      BY <2>2, <2>4
  <1> QED
    BY <1>6, <1>7 DEF Sends

\* ReceiveAck.
LEMMA AckInUse ==
  ASSUME NEW B \in Nat, NEW c \in ClientWithin(B), InUse(c), NEW seg \in Acks,
         NEW R \in SUBSET Acks, NEW last \in R
  PROVE  LET h == HandleAck(c, seg, R, last, B, FALSE)
         IN InUse(h.c) /\ AcksOnly(h.snd) /\ h.rcv = <<>>
  <1> DEFINE h == HandleAck(c, seg, R, last, B, FALSE)
  <1>1. c # NoClient
    BY ClientExists
  <1>2. /\ c.messageBuffer \subseteq Acks /\ c.state \in {"SYN_SENT", "ESTABLISHED"}
        /\ Entries(c, {"SYN", "SYN_ACK", "ACK"})
    BY <1>1 DEF InUse
  <1>3. AckHandled(c, h, seg, R, last, B)
    BY <1>2, HandleAckDoes
  <1>4. \A b \in Acks : b.ack \in Nat
    BY DEF Acks, ValidSegment, Segment
  <1> HIDE DEF h
  <1>5. CASE InTurn(c, seg)
    <2>1. PICK b \in R \cup c.messageBuffer : \E e \in ClientWithin(B) :
            Consumes(c, e, b, NextSeq(last)) /\ Sends(e, h, B)
      BY <1>3, <1>5 DEF AckHandled
    <2>2. PICK e \in ClientWithin(B) :
            Consumes(c, e, b, NextSeq(last)) /\ Sends(e, h, B)
      BY <2>1
    <2>3. Entries(e, {"SYN", "SYN_ACK", "ACK"})
      BY <1>2, <1>4, <2>2, EntriesKept DEF Consumes
    <2>4. InUse(e)
      BY <1>2, <2>2, <2>3 DEF Consumes, InUse
    <2> QED
      BY <2>2, <2>4, SendsInUse DEF Sends, h
  <1>6. CASE ~InTurn(c, seg)
    <2>1. h.snd = <<>> /\ h.rcv = <<>> /\ Buffers(c, h.c, seg)
      BY <1>3, <1>6 DEF AckHandled
    <2>2. Entries(h.c, {"SYN", "SYN_ACK", "ACK"})
      <3> DEFINE ack == seg.ack
                 d   == h.c
      <3>1. Acknowledged(c, d, ack) \/ Unacknowledged(c, d)
        BY <2>1 DEF Buffers
      <3>2. ack \in Nat
        BY <1>4
      <3> HIDE DEF ack, d
      <3>3. Entries(c, {"SYN", "SYN_ACK", "ACK"})
        BY <1>2
      <3>4. Entries(d, {"SYN", "SYN_ACK", "ACK"})
        BY <3>1, <3>2, <3>3, EntriesKept
      <3> QED
        BY <3>4 DEF d
    <2>3. InUse(h.c)
      BY <1>2, <2>1, <2>2 DEF Buffers, InUse
    <2>4. AcksOnly(h.snd)
      BY <2>1 DEF AcksOnly
    <2> QED
      BY <2>1, <2>3, <2>4 DEF h
  <1> QED
    BY <1>5, <1>6

\* ReceiveSynAck.
LEMMA SynAckInUse ==
  ASSUME NEW B \in Nat, NEW c \in ClientWithin(B), InUse(c),
         NEW seg \in ValidSegment
  PROVE  LET h == HandleSynAck(c, seg)
         IN InUse(h.c) /\ AcksOnly(h.snd) /\ h.rcv = <<>>
  <1> DEFINE h == HandleSynAck(c, seg)
  <1>1. Completed(c, h, seg, B)
    BY HandleSynAckDoes
  <1>2. /\ c # NoClient /\ seg.ack \in Nat /\ seg.seq + 1 \in Nat
        /\ c.expected_sequence \in Nat
    BY ClientExists DEF ValidSegment, Segment, ClientWithin, ClientRecord
  <1> HIDE DEF h
  <1>3. CASE h.c = c /\ h.snd = <<>>
    BY <1>1, <1>3 DEF AcksOnly, Completed, h
  <1>4. CASE h.c # c \/ h.snd # <<>>
    <2>1. /\ h \in FrameWithin(B) /\ h.c.state = "ESTABLISHED"
          /\ h.rcv = <<>>
          /\ h.c.messageBuffer = c.messageBuffer
          /\ Acknowledged(c, h.c, seg.ack)
          /\ Len(h.snd) = 1
          /\ h.snd[1].seg = Control("ACK", c.expected_sequence, seg.seq + 1)
      BY <1>1, <1>4 DEF Completed
    <2>2. Entries(h.c, {"SYN", "SYN_ACK", "ACK"})
      BY <1>2, <2>1, EntriesKept DEF InUse
    <2>3. InUse(h.c)
      BY <1>2, <2>1, <2>2 DEF InUse
    <2>4. /\ h.snd \in Seq(OutItem) /\ DOMAIN h.snd = 1..1
      BY <2>1, WithinTyped DEF FrameWithin
    <2>5. Control("ACK", c.expected_sequence, seg.seq + 1) \in Acks
      BY <1>2, ControlWithin DEF Acks, SegmentWithin, Flag, Control
    <2>6. AcksOnly(h.snd)
      BY <2>1, <2>4, <2>5 DEF AcksOnly
    <2> QED
      BY <2>1, <2>3, <2>6 DEF h
  <1> QED
    BY <1>3, <1>4

\* MessageResendCheck: a segment whose timer may run out is no SYN or SYN_ACK.
LEMMA RetransmitInUse ==
  ASSUME UndisturbedTransfer, NEW B \in Nat, NEW c \in ClientWithin(B), InUse(c),
         c.messagesSent # <<>>,
         KindOf(Head(c.messagesSent).flag, Head(c.messagesSent).size) \in Slow
  PROVE  LET h == Retransmit(c)
         IN /\ InUse(h.c) /\ AcksOnly(h.snd)
            /\ Head(c.messagesSent).flag = "ACK"
  <1> DEFINE h == Retransmit(c)
             f == Head(c.messagesSent)
  <1>1. /\ h \in FrameWithin(B)
        /\ Steady(c, h.c) /\ h.c.messagesSent = c.messagesSent
        /\ Len(h.snd) = 1 /\ h.snd[1].seg = Repetition(c)
    BY RetransmitDoes
  <1>2. c # NoClient
    BY ClientExists
  <1>3. f.flag = "ACK"
    <2>1. c.messagesSent \in Seq(InfoWithin(B))
      BY DEF ClientWithin, ClientRecord
    <2>2. 1 \in DOMAIN c.messagesSent /\ f = c.messagesSent[1]
      BY <2>1
    <2>3. f.flag \in {"SYN", "SYN_ACK", "ACK"}
      BY <1>2, <2>2 DEF InUse, Entries
    <2> QED
      BY <2>3 DEF KindOf, UndisturbedTransfer
  <1> HIDE DEF h
  <1>4. InUse(h.c)
    BY <1>1, <1>2 DEF InUse, Steady, Entries
  <1>5. /\ h.snd \in Seq(OutItem) /\ h.snd \in Seq(ItemWithin(B))
        /\ DOMAIN h.snd = 1..1
    BY <1>1, WithinTyped DEF FrameWithin
  <1>6. h.snd[1].seg \in ValidSegment
    <2>1. h.snd[1] \in ItemWithin(B)
      BY <1>1, <1>5
    <2> QED
      BY <2>1 DEF ItemWithin, SegmentWithin
  <1>7. AcksOnly(h.snd)
    BY <1>1, <1>3, <1>5, <1>6 DEF AcksOnly, Acks, Repetition
  <1> QED
    BY <1>3, <1>4, <1>7 DEF h

-----------------------------------------------------------------------------
(* One event and the stages of a pair.                                      *)

TypedPair(n, p) == Typed(n, p) /\ Typed(p, n)

\* Clients in use, and acknowledgements both ways: Connected, in any direction.
Used(n, p) ==
  /\ InUse(clients[n][p]) /\ InUse(clients[p][n])
  /\ OnWay(n, p, Acks) /\ OnWay(p, n, Acks)

\* The client for p speaks without having heard anything.
LEMMA UnpromptedUsed ==
  ASSUME NEW n \in Node, NEW p \in Node, TypedPair(n, p), TypedPair(n, p)',
         Unprompted(n, p), Used(n, p), NEW c, NEW snd,
         Speaks(n, p, c, snd), InUse(c), AcksOnly(snd)
  PROVE  Used(n, p)'
  <1>1. OnWay(n, p, Acks)'
    BY SpeaksWire DEF Unprompted, TypedPair, Used, AcksOnly, Speaks
  <1>2. OnWay(p, n, Acks)' /\ clients'[p][n] = clients[p][n]
    BY StillWire DEF Unprompted, Still, SameSide, TypedPair, Used
  <1> QED
    BY <1>1, <1>2 DEF Used, Speaks

\* The client for p answers a segment.
LEMMA TakesUsed ==
  ASSUME NEW n \in Node, NEW p \in Node, TypedPair(n, p), TypedPair(n, p)',
         Takes(n, p), Used(n, p), NEW c, NEW snd,
         Speaks(n, p, c, snd), InUse(c), AcksOnly(snd)
  PROVE  Used(n, p)'
  <1>1. OnWay(n, p, Acks)'
    BY SpeaksWire DEF Takes, TypedPair, Used, AcksOnly, Speaks
  <1>2. OnWay(p, n, Acks)' /\ clients'[p][n] = clients[p][n]
    BY TakesWire DEF Takes, SameSide, TypedPair, Used
  <1> QED
    BY <1>1, <1>2 DEF Used, Speaks

\* An acknowledgement leaves the wire with acknowledgements only.
LEMMA HearsUsed ==
  ASSUME NEW n \in Node, NEW p \in Node, TypedPair(n, p), TypedPair(n, p)',
         Hears(n, p), Used(n, p)
  PROVE  Used(n, p)'
  <1> DEFINE c   == clients[n][p]
             seg == Heard(n)
             B   == sendBuffer[n]
  <1>1. Takes(n, p) /\ c # NoClient
    BY DEF Hears
  <1>2. c \in ClientWithin(B) /\ B \in Nat
    BY <1>1 DEF TypedPair, Typed
  <1>3. seg \in Acks
    BY <1>1, TakesWire DEF TypedPair, Used
  <1>4. PICK R \in {X \cup {seg} : X \in SUBSET c.messageBuffer} : \E last \in R :
          LET h == HandleAck(c, seg, R, last, B, FALSE)
          IN Speaks(n, p, h.c, h.snd)
    BY DEF Hears
  <1>5. PICK last \in R : LET h == HandleAck(c, seg, R, last, B, FALSE)
                          IN Speaks(n, p, h.c, h.snd)
    BY <1>4
  <1>6. InUse(c)
    BY DEF Used
  <1>7. R \in SUBSET Acks
    BY <1>1, <1>3, <1>6 DEF InUse
  <1> DEFINE h == HandleAck(c, seg, R, last, B, FALSE)
  <1> HIDE DEF c, seg, B
  <1>8. InUse(h.c) /\ AcksOnly(h.snd)
    BY <1>2, <1>3, <1>6, <1>7, AckInUse
  <1> HIDE DEF h
  <1>9. Speaks(n, p, h.c, h.snd)
    BY <1>5 DEF h
  <1> DEFINE d == h.c
             snd == h.snd
  <1>10. InUse(d) /\ AcksOnly(snd) /\ Speaks(n, p, d, snd)
    BY <1>8, <1>9
  <1> HIDE DEF d, snd
  <1> QED
    BY <1>1, <1>10, TakesUsed

\* Input of a client that was acknowledged goes out as acknowledgements.
LEMMA OffersUsed ==
  ASSUME NEW n \in Node, NEW p \in Node, TypedPair(n, p), TypedPair(n, p)',
         sendBuffer[n] <= sendBuffer'[n], Offers(n, p), Used(n, p)
  PROVE  Used(n, p)'
  <1> DEFINE c == clients[n][p]
             B == sendBuffer'[n]
             h == SendMessages(Frame(c), B, FALSE)
  <1>1. Unprompted(n, p) /\ c # NoClient /\ Speaks(n, p, h.c, h.snd)
    BY DEF Offers
  <1>2. c \in ClientWithin(B) /\ B \in Nat
    <2>1. sendBuffer[n] \in Nat /\ B \in Nat /\ c \in ClientWithin(sendBuffer[n])
      BY <1>1 DEF TypedPair, Typed
    <2> QED
      BY <2>1, WithinMonotone
  <1>3. InUse(c)
    BY DEF Used
  <1> HIDE DEF c, B
  <1>4. Sends(c, h, B)
    BY <1>2, SendMessagesSends
  <1> DEFINE d == h.c
             snd == h.snd
  <1> HIDE DEF h
  <1>5. InUse(d) /\ AcksOnly(snd) /\ Speaks(n, p, d, snd)
    BY <1>1, <1>2, <1>3, <1>4, SendsInUse
  <1> HIDE DEF d, snd
  <1> QED
    BY <1>1, <1>5, UnpromptedUsed

\* What an acknowledged client repeats is data: nothing else is slow then.
LEMMA RepeatsUsed ==
  ASSUME UndisturbedTransfer, NEW n \in Node, NEW p \in Node,
         TypedPair(n, p), TypedPair(n, p)', Repeats(n, p), Used(n, p)
  PROVE  Used(n, p)'
  <1> DEFINE c == clients[n][p]
             B == sendBuffer[n]
             h == Retransmit(c)
  <1>1. /\ Unprompted(n, p) /\ c # NoClient /\ Speaks(n, p, h.c, h.snd)
        /\ c.messagesSent # <<>>
        /\ KindOf(Head(c.messagesSent).flag, Head(c.messagesSent).size) \in Slow
    BY DEF Repeats
  <1>2. c \in ClientWithin(B) /\ B \in Nat /\ InUse(c)
    BY <1>1 DEF TypedPair, Typed, Used
  <1> HIDE DEF c, B
  <1> DEFINE d == h.c
             snd == h.snd
  <1>3. InUse(d) /\ AcksOnly(snd)
    BY <1>1, <1>2, RetransmitInUse
  <1>4. Speaks(n, p, d, snd)
    BY <1>1
  <1> HIDE DEF d, snd
  <1> QED
    BY <1>1, <1>3, <1>4, UnpromptedUsed

\* A SYN_ACK that meets a connection in use is answered, if at all, with an ACK.
LEMMA CompletesUsed ==
  ASSUME NEW n \in Node, NEW p \in Node, TypedPair(n, p),
         Completes(n, p), InUse(clients[n][p])
  PROVE  \E c, snd : Speaks(n, p, c, snd) /\ InUse(c) /\ AcksOnly(snd)
  <1> DEFINE c   == clients[n][p]
             seg == Heard(n)
             B   == sendBuffer[n]
             h   == HandleSynAck(c, seg)
  <1>1. Takes(n, p) /\ c # NoClient /\ Speaks(n, p, h.c, h.snd)
    BY DEF Completes
  <1>2. c \in ClientWithin(B) /\ B \in Nat /\ InUse(c)
    BY <1>1 DEF TypedPair, Typed
  <1>3. seg \in ValidSegment
    <2>1. receiverQueue[n] \in Seq(Arrival) /\ receiverQueue[n] # <<>>
      BY <1>1 DEF TypedPair, Typed, Takes
    <2>2. Head(receiverQueue[n]) \in Arrival
      BY <2>1
    <2> QED
      BY <2>2 DEF Heard, Arrival
  <1> HIDE DEF c, seg, B
  <1>4. InUse(h.c) /\ AcksOnly(h.snd)
    BY <1>2, <1>3, SynAckInUse
  <1> QED
    BY <1>1, <1>4

\* n gives p up.
LEMMA GivesUpUsed ==
  ASSUME UndisturbedTransfer, NEW n \in Node, NEW p \in Node,
         TypedPair(n, p), TypedPair(n, p)', GivesUp(n, p), Used(n, p)
  PROVE  Used(n, p)'
  <1> DEFINE c == clients[n][p]
             B == sendBuffer[n]
             q == senderQueue[n][p]
             r == senderQueue'[n][p]
             snd == Retransmit(c).snd
  <1>1. Unprompted(n, p) /\ c # NoClient /\ clients'[n][p] = NoClient
    BY DEF GivesUp
  <1>2. c \in ClientWithin(B) /\ B \in Nat /\ InUse(c)
    BY <1>1 DEF TypedPair, Typed, Used
  <1>3. /\ q \in Seq(OutItem) /\ r \in Seq(OutItem)
        /\ \A i \in DOMAIN q : q[i].seg \in Acks
    BY DEF TypedPair, Typed, Used, OnWay
  <1>4. \A i \in DOMAIN r : r[i].seg \in Acks
    <2>1. CASE Len(r) = Len(q) /\ \A i \in 1..Len(q) : r[i].seg = q[i].seg
      BY <1>3, <2>1
    <2>2. CASE /\ c.messagesSent # <<>>
               /\ KindOf(Head(c.messagesSent).flag, Head(c.messagesSent).size)
                    \in Slow
               /\ Len(r) = Len(q \o snd)
               /\ \A i \in 1..Len(q \o snd) : r[i].seg = (q \o snd)[i].seg
      <3>1. AcksOnly(snd)
        <4> HIDE DEF c, B
        <4> QED
          BY <1>2, <2>2, RetransmitInUse
      <3> HIDE DEF q, r, snd
      <3>2. /\ DOMAIN q = 1..Len(q) /\ DOMAIN snd = 1..Len(snd)
            /\ Len(q) \in Nat /\ Len(snd) \in Nat /\ DOMAIN r = 1..Len(r)
            /\ Len(q \o snd) = Len(q) + Len(snd)
            /\ \A j \in 1..(Len(q) + Len(snd)) :
                 (q \o snd)[j] = IF j <= Len(q) THEN q[j] ELSE snd[j - Len(q)]
        BY <1>3, <3>1, ConcatProperties DEF AcksOnly
      <3>3. ASSUME NEW i \in DOMAIN r
            PROVE  r[i].seg \in Acks
        <4>1. i \in 1..(Len(q) + Len(snd)) /\ r[i].seg = (q \o snd)[i].seg
          BY <2>2, <3>2
        <4>2. CASE i <= Len(q)
          BY <1>3, <3>2, <4>1, <4>2
        <4>3. CASE ~(i <= Len(q))
          <5>1. i - Len(q) \in DOMAIN snd /\ (q \o snd)[i] = snd[i - Len(q)]
            BY <3>2, <4>1, <4>3
          <5> QED
            BY <3>1, <4>1, <5>1 DEF AcksOnly
        <4> QED
          BY <4>2, <4>3
      <3> QED
        BY <3>3
    <2> QED
      BY <2>1, <2>2 DEF GivesUp
  <1>5. OnlyFrom(receiverQueue'[p], n, Acks)
    <2>1. receiverQueue[p] \in Seq(Arrival) /\ receiverQueue'[p] \in Seq(Arrival)
      BY DEF TypedPair, Typed
    <2>2. /\ SameFrom(receiverQueue[p], receiverQueue'[p], n)
          /\ OnlyFrom(receiverQueue[p], n, Acks)
      BY <1>1 DEF Unprompted, SameWire, Used, OnWay
    <2> QED
      BY <2>1, <2>2, OthersPass
  <1>6. \A i \in DOMAIN network'[n][p] : network'[n][p][i] \in Acks
    BY <1>1 DEF Unprompted, SameWire, Used, OnWay
  <1>7. OnWay(n, p, Acks)'
    BY <1>4, <1>5, <1>6 DEF OnWay
  <1>8. OnWay(p, n, Acks)' /\ clients'[p][n] = clients[p][n]
    BY <1>1, StillWire DEF Unprompted, Still, SameSide, TypedPair, Used
  <1> QED
    BY <1>1, <1>7, <1>8 DEF Used, InUse

\* The sender thread leaves the stages of a client alone.
LEMMA LeavesClient ==
  ASSUME NEW n \in Node, NEW p \in Node, TypedPair(n, p), Leaves(n, p)
  PROVE  /\ Unheard(clients[n][p]) => Unheard(clients'[n][p])
         /\ InUse(clients[n][p]) => InUse(clients'[n][p])
         /\ clients[n][p] = NoClient => clients'[n][p] = NoClient
  <1> DEFINE c == clients[n][p]
             d == clients'[n][p]
             B == sendBuffer[n]
             seq == Head(senderQueue[n][p]).seg.seq
  <1>1. CASE d = c
    BY <1>1
  <1>2. ASSUME NEW mark \in SendMark, c # NoClient, d = Stamp(c, seq, mark)
        PROVE  /\ Unheard(c) => Unheard(d)
               /\ InUse(c) => InUse(d)
               /\ c = NoClient => d = NoClient
    <2>1. c \in ClientWithin(B) /\ B \in Nat
      BY <1>2 DEF TypedPair, Typed
    <2> HIDE DEF c, B, seq, d
    <2>2. /\ d \in ClientWithin(B) /\ Steady(c, d)
          /\ SameEntries(c.messagesSent, d.messagesSent)
      BY <1>2, <2>1, StampFields
    <2>3. d # NoClient
      BY <2>1, <2>2, ClientExists
    <2>4. \A F : Entries(c, F) => Entries(d, F)
      BY <2>1, <2>2, EntriesMarked
    <2> QED
      BY <1>2, <2>2, <2>3, <2>4 DEF Steady, Unheard, InUse
  <1> QED
    BY <1>1, <1>2 DEF Leaves

\* Any event of a connection in use, but its first segment.
LEMMA EventUsed ==
  ASSUME UndisturbedTransfer, NEW n \in Node, NEW p \in Node,
         TypedPair(n, p), TypedPair(n, p)', sendBuffer[n] <= sendBuffer'[n],
         Event(n, p), ~Calls(n, p), Used(n, p)
  PROVE  Used(n, p)'
  <1>1. CASE Offers(n, p)
    BY <1>1, OffersUsed
  <1>2. CASE Repeats(n, p)
    BY <1>2, RepeatsUsed
  <1>3. CASE GivesUp(n, p)
    BY <1>3, GivesUpUsed
  <1>4. Takes(n, p) => Heard(n).flag = "ACK"
    BY TakesWire DEF TypedPair, Used, Acks
  <1>5. CASE Answers(n, p) \/ Completes(n, p)
    BY <1>4, <1>5 DEF Answers, Completes
  <1>6. CASE Hears(n, p)
    BY <1>6, HearsUsed
  <1>7. CASE Discards(n, p)
    <2>1. Takes(n, p) /\ SameSide(n, p)
      BY <1>7 DEF Discards
    <2>2. OnWay(p, n, Acks)'
      BY <2>1, TakesWire DEF TypedPair, Used
    <2>3. OnWay(n, p, Acks)'
      BY <2>1, StillWire DEF Takes, SameSide, TypedPair, Used
    <2> QED
      BY <2>1, <2>2, <2>3 DEF Takes, SameSide, Used
  <1>8. CASE Leaves(n, p)
    <2>1. OnWay(n, p, Acks)'
      BY <1>8, LeavesWire DEF TypedPair, Used
    <2>2. OnWay(p, n, Acks)' /\ clients'[p][n] = clients[p][n]
      BY <1>8, StillWire DEF Leaves, Still, SameSide, TypedPair, Used
    <2>3. InUse(clients'[n][p])
      BY <1>8, LeavesClient DEF Used
    <2> QED
      BY <2>1, <2>2, <2>3 DEF Used
  <1>9. CASE Arrives(n, p)
    <2>1. OnWay(n, p, Acks)'
      BY <1>9, ArrivesWire DEF TypedPair, Used
    <2>2. OnWay(p, n, Acks)' /\ clients'[p][n] = clients[p][n]
      BY <1>9, StillWire DEF Arrives, Still, SameSide, TypedPair, Used
    <2> QED
      BY <1>9, <2>1, <2>2 DEF Used, Arrives, SameSide
  <1>10. CASE GoesWrong(n, p)
    <2>1. OnWay(n, p, Acks)'
      BY <1>10, GoesWrongWire DEF TypedPair, Used
    <2>2. OnWay(p, n, Acks)' /\ clients'[p][n] = clients[p][n]
      BY <1>10, StillWire DEF GoesWrong, Still, SameSide, TypedPair, Used
    <2> QED
      BY <1>10, <2>1, <2>2 DEF Used, GoesWrong, SameSide
  <1> QED
    BY <1>1, <1>2, <1>3, <1>5, <1>6, <1>7, <1>8, <1>9, <1>10 DEF Event

\* A client that knows of nothing but the handshake says nothing unprompted.
LEMMA UnheardIdle ==
  ASSUME UndisturbedTransfer, NEW n \in Node, NEW p \in Node, Typed(n, p),
         Unheard(clients[n][p])
  PROVE  ~Offers(n, p) /\ ~Repeats(n, p) /\ ~GivesUp(n, p)
  <1> DEFINE c == clients[n][p]
             f == Head(c.messagesSent)
  <1>1. c # NoClient /\ c.state = "SYN_SENT" /\ Entries(c, {"SYN", "SYN_ACK"})
    BY DEF Unheard
  <1>2. c.messagesSent # <<>> => KindOf(f.flag, f.size) \notin Slow
    <2>1. c.messagesSent \in Seq(InfoWithin(sendBuffer[n]))
      BY <1>1 DEF Typed, ClientWithin, ClientRecord
    <2>2. ASSUME c.messagesSent # <<>>
          PROVE  KindOf(f.flag, f.size) \notin Slow
      <3>1. 1 \in DOMAIN c.messagesSent /\ f = c.messagesSent[1]
        BY <2>1, <2>2
      <3>2. f.flag \in {"SYN", "SYN_ACK"}
        BY <1>1, <3>1 DEF Entries
      <3> QED
        BY <3>2 DEF KindOf, UndisturbedTransfer
    <2> QED
      BY <2>2
  <1> QED
    BY <1>1, <1>2 DEF Offers, Repeats, GivesUp

\* Without a client there is nothing to do unprompted.
LEMMA NoClientIdle ==
  ASSUME NEW n \in Node, NEW p \in Node, clients[n][p] = NoClient
  PROVE  ~Offers(n, p) /\ ~Repeats(n, p) /\ ~GivesUp(n, p)
  BY DEF Offers, Repeats, GivesUp

\* Nothing comes from a wire that carries nothing.
LEMMA SilentTakes ==
  ASSUME NEW n \in Node, NEW p \in Node, TypedPair(n, p), Silent(p, n)
  PROVE  /\ ~Takes(n, p)
         /\ ~Answers(n, p) /\ ~Completes(n, p) /\ ~Hears(n, p) /\ ~Discards(n, p)
  <1>1. ~Takes(n, p)
    BY TakesWire DEF TypedPair
  <1> QED
    BY <1>1 DEF Answers, Completes, Hears, Discards

\* Nothing can be lost, sent or delivered where nothing is under way.
LEMMA SilentWire ==
  ASSUME UndisturbedTransfer, NEW n \in Node, NEW p \in Node, TypedPair(n, p),
         Silent(n, p)
  PROVE  ~Leaves(n, p) /\ ~Arrives(n, p) /\ ~GoesWrong(n, p)
  BY LeavesWire, ArrivesWire, GoesWrongWire DEF TypedPair

\* Before n starts, its target's side of the pair is still, and so is the wire.
LEMMA BeforeEvent ==
  ASSUME UndisturbedTransfer, NEW n \in Node, NEW p \in Node,
         TypedPair(n, p), TypedPair(n, p)', Target[n] = p, Before(n, p)
  PROVE  /\ Event(n, p) => Calls(n, p) /\ Calling(n, p)'
         /\ ~Event(p, n)
  <1>1. TypedPair(p, n)
    BY DEF TypedPair
  <1>2. /\ clients[n][p] = NewClient("NONE", 0) /\ clients[p][n] = NoClient
        /\ Silent(n, p) /\ Silent(p, n) /\ NoFiles(n, p)
    BY DEF Before
  <1>3. ~Offers(n, p) /\ ~Repeats(n, p) /\ ~GivesUp(n, p)
    <2>1. /\ clients[n][p].state = "NONE" /\ clients[n][p].messagesSent = <<>>
      BY <1>2 DEF NewClient
    <2> QED
      BY <2>1 DEF Offers, Repeats, GivesUp
  <1>4. Event(n, p) => Calls(n, p)
    BY <1>2, <1>3, SilentTakes, SilentWire DEF Event
  <1>5. ~Calls(p, n)
    BY DEF Calls, UndisturbedTransfer
  <1>6. ~Event(p, n)
    BY <1>1, <1>2, <1>5, NoClientIdle, SilentTakes, SilentWire DEF Event
  <1>7. ASSUME Calls(n, p)
        PROVE  Calling(n, p)'
    <2> DEFINE seg == Control("SYN", ISN, 0)
    <2>1. /\ Greets(clients'[n][p], "SYN", 0)
          /\ senderQueue'[n][p] = Append(senderQueue[n][p], Greeting(seg))
          /\ file'[n][p] = file[n][p] /\ SameWire(n, p) /\ Still(p, n)
      BY <1>7 DEF Calls
    <2>2. Lone(n, p, seg.flag)'
      BY <1>2, <2>1, GreetsWire DEF TypedPair
    <2>3. seg.flag = "SYN"
      BY DEF Control
    <2>4. Unheard(clients'[n][p])
      <3>1. clients'[n][p].messagesSent \in Seq(InfoWithin(sendBuffer'[n]))
        BY <2>1 DEF Greets, TypedPair, Typed, ClientWithin, ClientRecord
      <3>2. \A i \in DOMAIN clients'[n][p].messagesSent : i = 1
        BY <2>1, <3>1 DEF Greets
      <3> QED
        BY <2>1, <3>2 DEF Greets, Unheard, Entries
    <2>5. Silent(p, n)'
      BY <1>2, <2>1, StillWire DEF Still, SameSide, TypedPair
    <2>6. clients'[p][n] = NoClient /\ file'[p][n] = <<>> /\ file'[n][p] = <<>>
      BY <1>2, <2>1 DEF Still, SameSide, NoFiles
    <2> QED
      BY <2>2, <2>3, <2>4, <2>5, <2>6 DEF Calling, NoFiles
  <1> QED
    BY <1>4, <1>6, <1>7

\* While n's SYN is on its way, it moves on, or p answers it.
LEMMA CallingEvent ==
  ASSUME UndisturbedTransfer, NEW n \in Node, NEW p \in Node,
         TypedPair(n, p), TypedPair(n, p)', Target[n] = p, Calling(n, p),
         phase[n] # "starting"
  PROVE  /\ Event(n, p) => (Leaves(n, p) \/ Arrives(n, p)) /\ Calling(n, p)'
         /\ Event(p, n) => Answers(p, n) /\ Answered(n, p)'
  <1>1. TypedPair(p, n) /\ TypedPair(p, n)'
    BY DEF TypedPair
  <1>2. /\ Unheard(clients[n][p]) /\ clients[p][n] = NoClient
        /\ Lone(n, p, "SYN") /\ Silent(p, n) /\ NoFiles(n, p)
    BY DEF Calling
  <1>3. /\ ~Calls(n, p) /\ ~GoesWrong(n, p)
    BY <1>2, GoesWrongWire DEF Calls, TypedPair
  <1>4. Event(n, p) => Leaves(n, p) \/ Arrives(n, p)
    BY <1>2, <1>3, UnheardIdle, SilentTakes DEF Event, TypedPair
  <1>5. ASSUME Leaves(n, p) \/ Arrives(n, p)
        PROVE  Calling(n, p)'
    <2>1. Lone(n, p, "SYN")'
      BY <1>2, <1>5, LeavesWire, ArrivesWire DEF TypedPair
    <2>2. /\ Still(p, n) /\ file'[n][p] = file[n][p]
      BY <1>5 DEF Leaves, Arrives, SameSide
    <2>3. Unheard(clients'[n][p])
      BY <1>2, <1>5, LeavesClient DEF Arrives, SameSide
    <2>4. Silent(p, n)'
      BY <1>2, <2>2, StillWire DEF Still, SameSide, TypedPair
    <2> QED
      BY <1>2, <2>1, <2>2, <2>3, <2>4 DEF Calling, NoFiles, Still, SameSide
  <1>6. ~Calls(p, n)
    BY DEF Calls, UndisturbedTransfer
  <1>7. Takes(p, n) => Heard(p).flag = "SYN" /\ Silent(n, p)'
    BY <1>2, TakesWire DEF TypedPair
  <1>8. ~Completes(p, n) /\ ~Hears(p, n) /\ ~Discards(p, n)
    BY <1>7 DEF Completes, Hears, Discards
  <1>9. Event(p, n) => Answers(p, n)
    BY <1>1, <1>2, <1>6, <1>8, NoClientIdle, SilentWire DEF Event
  <1>10. ASSUME Answers(p, n)
         PROVE  Answered(n, p)'
    <2>0. PICK seg : seg = Control("SYN_ACK", ISN, Heard(p).seq + 1)
      OBVIOUS
    <2>1. /\ Takes(p, n)
          /\ Greets(clients'[p][n], "SYN_ACK", Heard(p).seq + 1)
          /\ senderQueue'[p][n] = Append(senderQueue[p][n], Greeting(seg))
          /\ file'[p][n] = file[p][n]
      BY <1>10, <2>0 DEF Answers
    <2>2. SameWire(p, n) /\ SameSide(n, p)
      BY <2>1 DEF Takes
    <2>3. Lone(p, n, seg.flag)'
      BY <1>2, <2>1, <2>2, GreetsWire DEF TypedPair
    <2>4. seg.flag = "SYN_ACK"
      BY <2>0 DEF Control
    <2>5. Unheard(clients'[p][n])
      <3>1. clients'[p][n].messagesSent \in Seq(InfoWithin(sendBuffer'[p]))
        BY <2>1 DEF Greets, TypedPair, Typed, ClientWithin, ClientRecord
      <3>2. \A i \in DOMAIN clients'[p][n].messagesSent : i = 1
        BY <2>1, <3>1 DEF Greets
      <3> QED
        BY <2>1, <3>2 DEF Greets, Unheard, Entries
    <2> QED
      BY <1>2, <1>7, <2>1, <2>2, <2>3, <2>4, <2>5
         DEF Answered, SameSide, NoFiles
  <1> QED
    BY <1>4, <1>5, <1>9, <1>10

\* While p's SYN_ACK is on its way, it moves on, or n completes the handshake.
LEMMA AnsweredEvent ==
  ASSUME UndisturbedTransfer, NEW n \in Node, NEW p \in Node,
         TypedPair(n, p), TypedPair(n, p)', Target[n] = p, Answered(n, p),
         phase[n] # "starting"
  PROVE  /\ Event(p, n) => (Leaves(p, n) \/ Arrives(p, n)) /\ Answered(n, p)'
         /\ Event(n, p) => Completes(n, p) /\ Connected(n, p)'
  <1>1. TypedPair(p, n) /\ TypedPair(p, n)'
    BY DEF TypedPair
  <1>2. /\ Unheard(clients[n][p]) /\ Unheard(clients[p][n])
        /\ Lone(p, n, "SYN_ACK") /\ Silent(n, p) /\ NoFiles(n, p)
    BY DEF Answered
  <1>3. ~Calls(p, n) /\ ~GoesWrong(p, n) /\ ~Calls(n, p)
    BY <1>1, <1>2, GoesWrongWire DEF Calls, UndisturbedTransfer, TypedPair
  <1>4. Event(p, n) => Leaves(p, n) \/ Arrives(p, n)
    BY <1>1, <1>2, <1>3, UnheardIdle, SilentTakes DEF Event, TypedPair
  <1>5. ASSUME Leaves(p, n) \/ Arrives(p, n)
        PROVE  Answered(n, p)'
    <2>1. Lone(p, n, "SYN_ACK")'
      BY <1>2, <1>5, LeavesWire, ArrivesWire DEF TypedPair
    <2>2. /\ Still(n, p) /\ file'[p][n] = file[p][n]
      BY <1>5 DEF Leaves, Arrives, SameSide
    <2>3. Unheard(clients'[p][n])
      BY <1>1, <1>2, <1>5, LeavesClient DEF Arrives, SameSide
    <2>4. Silent(n, p)'
      BY <1>2, <2>2, StillWire DEF Still, SameSide, TypedPair
    <2> QED
      BY <1>2, <2>1, <2>2, <2>3, <2>4 DEF Answered, NoFiles, Still, SameSide
  <1>6. Takes(n, p) => Heard(n).flag = "SYN_ACK" /\ Silent(p, n)'
    BY <1>2, TakesWire DEF TypedPair
  <1>7. ~Answers(n, p) /\ ~Hears(n, p) /\ ~Discards(n, p)
    BY <1>2, <1>6 DEF Answers, Hears, Discards, Unheard
  <1>8. Event(n, p) => Completes(n, p)
    BY <1>2, <1>3, <1>7, UnheardIdle, SilentWire DEF Event, TypedPair
  <1>9. Unheard(clients[n][p]) => InUse(clients[n][p])
    BY DEF Unheard, InUse, Entries
  <1>10. Unheard(clients[p][n]) => InUse(clients[p][n])
    BY DEF Unheard, InUse, Entries
  <1>11. ASSUME Completes(n, p)
         PROVE  Connected(n, p)'
    <2>1. Takes(n, p) /\ SameWire(n, p) /\ SameSide(p, n)
      BY <1>11 DEF Completes, Takes
    <2>2. PICK c, snd : Speaks(n, p, c, snd) /\ InUse(c) /\ AcksOnly(snd)
      BY <1>2, <1>9, <1>11, CompletesUsed
    <2>3. \A S : Silent(n, p) => OnWay(n, p, S)
      BY DEF Silent, OnWay, NoneFrom, OnlyFrom
    <2>4. OnWay(n, p, Acks)'
      BY <1>2, <2>1, <2>2, <2>3, SpeaksWire DEF Speaks, AcksOnly, TypedPair
    <2>5. Silent(p, n)'
      BY <1>6, <2>1
    <2>6. OnWay(p, n, Acks)'
      BY <2>5 DEF Silent, OnWay, NoneFrom, OnlyFrom
    <2> QED
      BY <1>2, <1>10, <2>1, <2>2, <2>4, <2>6
         DEF Connected, Speaks, SameSide
  <1> QED
    BY <1>4, <1>5, <1>8, <1>11

\* Strangers stay strangers.
LEMMA StrangerEvent ==
  ASSUME UndisturbedTransfer, NEW n \in Node, NEW p \in Node, TypedPair(n, p),
         Target[n] # p, Stranger(n, p), Stranger(p, n)
  PROVE  ~Event(n, p)
  <1>1. ~Calls(n, p)
    BY DEF Calls
  <1> QED
    BY <1>1, NoClientIdle, SilentTakes, SilentWire DEF Event, Stranger

\* A step that does nothing to a pair.
LEMMA StillPair ==
  ASSUME NEW n \in Node, NEW p \in Node, TypedPair(n, p), TypedPair(n, p)',
         Still(n, p), Still(p, n)
  PROVE  /\ Before(n, p) => Before(n, p)'
         /\ Calling(n, p) => Calling(n, p)'
         /\ Answered(n, p) => Answered(n, p)'
         /\ Connected(n, p) => Connected(n, p)'
         /\ Stranger(n, p) => Stranger(n, p)'
  <1>1. /\ Silent(n, p) => Silent(n, p)'
        /\ \A f : Lone(n, p, f) => Lone(n, p, f)'
        /\ \A S : OnWay(n, p, S) => OnWay(n, p, S)'
    BY StillWire DEF Still, SameSide, TypedPair
  <1>2. /\ Silent(p, n) => Silent(p, n)'
        /\ \A f : Lone(p, n, f) => Lone(p, n, f)'
        /\ \A S : OnWay(p, n, S) => OnWay(p, n, S)'
    BY StillWire DEF Still, SameSide, TypedPair
  <1>3. /\ clients'[n][p] = clients[n][p] /\ clients'[p][n] = clients[p][n]
        /\ file'[n][p] = file[n][p] /\ file'[p][n] = file[p][n]
    BY DEF Still, SameSide
  <1>4. Before(n, p) => Before(n, p)'
    BY <1>1, <1>2, <1>3 DEF Before, NoFiles, NewClient
  <1>5. Calling(n, p) => Calling(n, p)'
    BY <1>1, <1>2, <1>3 DEF Calling, NoFiles
  <1>6. Answered(n, p) => Answered(n, p)'
    BY <1>1, <1>2, <1>3 DEF Answered, NoFiles
  <1>7. Connected(n, p) => Connected(n, p)'
    BY <1>1, <1>2, <1>3 DEF Connected
  <1>8. Stranger(n, p) => Stranger(n, p)'
    BY <1>1, <1>3 DEF Stranger
  <1> QED
    BY <1>4, <1>5, <1>6, <1>7, <1>8

\* Only Calls changes whether n has started.
LEMMA EventPhase ==
  ASSUME NEW n \in Node, NEW p \in Node, Event(n, p)
  PROVE  /\ SamePhase(p)
         /\ SamePhase(n) \/ (Calls(n, p) /\ phase'[n] # "starting")
  <1>1. CASE Calls(n, p)
    BY <1>1 DEF Calls
  <1>2. CASE Offers(n, p) \/ Repeats(n, p) \/ GivesUp(n, p)
    BY <1>2 DEF Offers, Repeats, GivesUp, Unprompted
  <1>3. CASE Answers(n, p) \/ Completes(n, p) \/ Hears(n, p) \/ Discards(n, p)
    BY <1>3 DEF Answers, Completes, Hears, Discards, Takes
  <1>4. CASE Leaves(n, p) \/ Arrives(n, p) \/ GoesWrong(n, p)
    BY <1>4 DEF Leaves, Arrives, GoesWrong
  <1> QED
    BY <1>1, <1>2, <1>3, <1>4 DEF Event

\* The connection of n with its target moves from stage to stage.
LEMMA LinkedStep ==
  ASSUME UndisturbedTransfer, NEW n \in Node, NEW p \in Node,
         TypedPair(n, p), TypedPair(n, p)',
         sendBuffer[n] <= sendBuffer'[n], sendBuffer[p] <= sendBuffer'[p],
         Target[n] = p, Linked(n, p), PairEvent(n, p)
  PROVE  Linked(n, p)'
  <1>1. TypedPair(p, n) /\ TypedPair(p, n)'
    BY DEF TypedPair
  <1>2. CASE NoEvent(n, p)
    BY <1>2, StillPair DEF NoEvent, SamePhase, Linked
  <1>3. ASSUME Event(n, p) \/ Event(p, n), phase[n] = "starting"
        PROVE  Linked(n, p)'
    <2>1. Event(n, p) /\ Calls(n, p) /\ Calling(n, p)'
      BY <1>3, BeforeEvent DEF Linked
    <2> QED
      BY <2>1 DEF Linked, Calls
  <1>4. ASSUME Event(n, p) \/ Event(p, n), phase[n] # "starting"
        PROVE  Linked(n, p)'
    <2>1. phase'[n] # "starting"
      BY <1>4, EventPhase DEF SamePhase
    <2>2. CASE Calling(n, p)
      BY <1>4, <2>1, <2>2, CallingEvent DEF Linked
    <2>3. CASE Answered(n, p)
      BY <1>4, <2>1, <2>3, AnsweredEvent DEF Linked
    <2>4. CASE Connected(n, p)
      <3>1. Used(n, p) /\ Used(p, n)
        BY <2>4 DEF Connected, Used
      <3>2. ~Calls(n, p) /\ ~Calls(p, n)
        BY <1>4 DEF Calls, UndisturbedTransfer
      <3>3. CASE Event(n, p)
        <4>1. Used(n, p)'
          BY <3>1, <3>2, <3>3, EventUsed
        <4> QED
          BY <2>1, <4>1 DEF Used, Connected, Linked
      <3>4. CASE Event(p, n)
        <4>1. Used(p, n)'
          BY <1>1, <3>1, <3>2, <3>4, EventUsed
        <4> QED
          BY <2>1, <4>1 DEF Used, Connected, Linked
      <3> QED
        BY <1>4, <3>3, <3>4
    <2> QED
      BY <1>4, <2>2, <2>3, <2>4 DEF Linked
  <1> QED
    BY <1>2, <1>3, <1>4 DEF PairEvent

\* An event of one of the two programs takes the pair from stage to stage.
LEMMA PairStep ==
  ASSUME UndisturbedTransfer, NEW n \in Node, NEW p \in Node,
         TypedPair(n, p), TypedPair(n, p)',
         sendBuffer[n] <= sendBuffer'[n], sendBuffer[p] <= sendBuffer'[p],
         PairInv(n, p), PairEvent(n, p)
  PROVE  PairInv(n, p)'
  <1>1. TypedPair(p, n) /\ TypedPair(p, n)' /\ PairEvent(p, n)
    BY DEF TypedPair, PairEvent, NoEvent
  <1>2. CASE Target[n] = p
    <2>1. Target[p] # n
      BY <1>2 DEF UndisturbedTransfer
    <2>2. Linked(n, p)'
      BY <1>2, LinkedStep DEF PairInv
    <2> QED
      BY <1>2, <2>1, <2>2 DEF PairInv
  <1>3. CASE Target[p] = n
    <2>1. Target[n] # p
      BY <1>3 DEF UndisturbedTransfer
    <2>2. Linked(p, n)'
      BY <1>1, <1>3, LinkedStep DEF PairInv
    <2> QED
      BY <1>3, <2>1, <2>2 DEF PairInv
  <1>4. CASE Target[n] # p /\ Target[p] # n
    <2>1. Stranger(n, p) /\ Stranger(p, n)
      BY <1>4 DEF PairInv
    <2>2. ~Event(n, p) /\ ~Event(p, n)
      BY <1>1, <1>4, <2>1, StrangerEvent
    <2>3. Still(n, p) /\ Still(p, n)
      BY <2>2 DEF PairEvent, NoEvent
    <2>4. Stranger(n, p)' /\ Stranger(p, n)'
      BY <1>1, <2>1, <2>3, StillPair
    <2> QED
      BY <1>4, <2>4 DEF PairInv
  <1> QED
    BY <1>2, <1>3, <1>4

-----------------------------------------------------------------------------
(* Every step is an event of a pair.  First the handlers of a SYN.           *)

\* createMessage for the first segment of a new client.
LEMMA Greeted ==
  ASSUME NEW state \in State, NEW x \in Nat, NEW flag \in {"SYN", "SYN_ACK"},
         NEW ack \in Nat
  PROVE  LET seg == Control(flag, ISN, ack)
             h   == CreateMessage(Frame(NewClient(state, x)), seg, "SYN_SENT")
             d   == [h.c EXCEPT !.expected_sequence = ISN + 1]
         IN /\ h \in FrameWithin(0) /\ h.rcv = <<>>
            /\ h.snd = <<Greeting(seg)>> /\ Greets(d, flag, ack)
  <1> DEFINE c   == NewClient(state, x)
             f   == Frame(c)
             seg == Control(flag, ISN, ack)
             h   == CreateMessage(f, seg, "SYN_SENT")
             d   == [h.c EXCEPT !.expected_sequence = ISN + 1]
             info == [seq |-> seg.seq, flag |-> seg.flag, start |-> seg.start,
                      size |-> SizeOf(seg), sent |-> "queued"]
  <1>1. /\ c \in ClientWithin(0) /\ c.messagesSent = <<>> /\ c.last_ack = 0
        /\ c.lastByteSent = 0 /\ c.messageBuffer = {}
    BY NewClientWithin DEF NewClient
  <1>2. ISN \in Nat /\ ISN # 0 /\ ISN + 1 \in Nat
    BY SizeAssumption
  <1>3. /\ seg \in SegmentWithin(0) /\ seg.seq = ISN /\ seg.ack = ack
        /\ seg.flag = flag /\ seg.start = 0 /\ seg.end = 0
    BY <1>2, ControlWithin DEF Control, Flag
  <1> HIDE DEF c
  <1>4. f \in FrameWithin(0) /\ f.c = c /\ f.snd = <<>> /\ f.rcv = <<>>
    BY <1>1, FrameOfClient DEF Frame
  <1>5. (IsTracked(seg) /\ FrontSeqNum(f.c) # seg.seq) = TRUE
    BY <1>1, <1>2, <1>3, <1>4 DEF IsTracked, FrontSeqNum
  <1>6. "SYN_SENT" \in State
    BY DEF State
  <1> HIDE DEF seg, f
  <1>7. /\ h \in FrameWithin(0) /\ h.rcv = f.rcv
        /\ h.snd = Append(f.snd, [seg |-> seg, pushed |-> TRUE, address |-> "peer"])
        /\ h.c.state = "SYN_SENT" /\ h.c.expected_ack = seg.ack
        /\ h.c.lastByteSent = f.c.lastByteSent /\ h.c.last_ack = f.c.last_ack
        /\ h.c.messageBuffer = f.c.messageBuffer
        /\ h.c.messagesSent = Append(f.c.messagesSent, info)
    <2> DEFINE pushed == IsTracked(seg) /\ FrontSeqNum(f.c) # seg.seq
    <2>1. 0 \in Nat
      OBVIOUS
    <2>2. /\ h \in FrameWithin(0) /\ h.rcv = f.rcv
          /\ h.snd = Append(f.snd, [seg |-> seg, pushed |-> pushed,
                                    address |-> "peer"])
          /\ h.c.state = "SYN_SENT" /\ h.c.expected_ack = seg.ack
          /\ h.c.lastByteSent = f.c.lastByteSent /\ h.c.last_ack = f.c.last_ack
          /\ h.c.messageBuffer = f.c.messageBuffer
          /\ h.c.messagesSent = IF pushed THEN Append(f.c.messagesSent, info)
                                ELSE f.c.messagesSent
      BY <1>3, <1>4, <1>6, <2>1, CreateMessageFields
    <2>3. pushed = TRUE
      BY <1>5
    <2> HIDE DEF pushed, info, h
    <2> QED
      BY <2>2, <2>3
  <1> HIDE DEF h
  <1>8. h.c \in ClientWithin(0)
    BY <1>7 DEF FrameWithin
  <1>9. /\ d \in ClientWithin(0) /\ d.expected_sequence = ISN + 1
        /\ d.state = h.c.state /\ d.expected_ack = h.c.expected_ack
        /\ d.lastByteSent = h.c.lastByteSent /\ d.last_ack = h.c.last_ack
        /\ d.messageBuffer = h.c.messageBuffer
        /\ d.messagesSent = h.c.messagesSent
    BY <1>2, <1>8 DEF ClientWithin, ClientRecord, Counted
  <1> HIDE DEF d
  <1>10. d # NoClient
    BY <1>9, ClientExists
  <1>11. info.flag = flag /\ info.seq = ISN /\ info.start = 0 /\ info.size = 0
    BY <1>3 DEF SizeOf
  <1> HIDE DEF info
  <1>12. d.messagesSent = <<info>>
    BY <1>1, <1>4, <1>7, <1>9
  <1>13. Len(d.messagesSent) = 1 /\ d.messagesSent[1] = info
    BY <1>12
  <1>14. Greets(d, flag, ack)
    BY <1>1, <1>3, <1>4, <1>7, <1>9, <1>10, <1>11, <1>13 DEF Greets
  <1>15. h.snd = <<Greeting(seg)>>
    BY <1>4, <1>7 DEF Greeting
  <1> QED
    BY <1>4, <1>7, <1>14, <1>15 DEF h, d, seg, f, c

\* What a segment that p takes tells of the stage of its connection.
LEMMA ArrivalStage ==
  ASSUME UndisturbedTransfer, IInv, HInv, NEW n \in Node, receiverQueue[n] # <<>>
  PROVE  LET p   == Head(receiverQueue[n]).from
             seg == Head(receiverQueue[n]).seg
         IN /\ p \in Node /\ p # n /\ seg \in ValidSegment
            /\ \/ /\ seg.flag = "SYN" /\ clients[n][p] = NoClient
               \/ /\ seg.flag = "SYN_ACK" /\ InUse(clients[n][p])
               \/ /\ seg \in Acks /\ InUse(clients[n][p])
  <1> DEFINE q   == receiverQueue[n]
             p   == Head(q).from
             seg == Head(q).seg
  <1>1. p \in Node /\ seg \in ValidSegment
    BY ArrivalHead
  <1>2. q \in Seq(Arrival) /\ q # <<>>
    BY DEF IInv, ArrivalsValid
  <1> HIDE DEF q
  <1>3. /\ ~NoneFrom(q, p)
        /\ \A S : OnlyFrom(q, p, S) => seg \in S
        /\ \A f : LoneFrom(q, p, f) => seg.flag = f
    BY <1>2, HeadTaken
  <1>4. /\ ~Silent(p, n)
        /\ \A S : OnWay(p, n, S) => seg \in S
        /\ \A f : Lone(p, n, f) => seg.flag = f
    BY <1>3 DEF Silent, OnWay, Lone, q
  <1>5. PairInv(n, p) /\ PairInv(p, n)
    BY <1>1 DEF HInv
  <1> HIDE DEF p, seg
  <1>6. Target[n] = p \/ Target[p] = n
    BY <1>1, <1>4, <1>5 DEF PairInv, Stranger
  <1>7. p # n
    BY <1>1, <1>6 DEF UndisturbedTransfer
  <1>8. Unheard(clients[n][p]) => InUse(clients[n][p])
    BY DEF Unheard, InUse, Entries
  <1>9. CASE Target[n] = p
    <2>1. Linked(n, p)
      BY <1>5, <1>9 DEF PairInv
    <2>2. ~Before(n, p) /\ ~Calling(n, p)
      BY <1>4 DEF Before, Calling
    <2>3. Answered(n, p) \/ Connected(n, p)
      BY <2>1, <2>2 DEF Linked
    <2> QED
      BY <1>1, <1>4, <1>7, <1>8, <2>3 DEF Answered, Connected, p, seg, q
  <1>10. CASE Target[p] = n
    <2>1. Linked(p, n)
      BY <1>5, <1>10 DEF PairInv
    <2>2. ~Before(p, n) /\ ~Answered(p, n)
      BY <1>4 DEF Before, Answered
    <2>3. Calling(p, n) \/ Connected(p, n)
      BY <2>1, <2>2 DEF Linked
    <2> QED
      BY <1>1, <1>4, <1>7, <2>3 DEF Calling, Connected, p, seg, q
  <1> QED
    BY <1>6, <1>9, <1>10

\* A step that concerns the connection of m and q only.
LEMMA OneConnection ==
  ASSUME NEW m \in Node, NEW q \in Node, m # q, Event(m, q),
         \A x, y \in Node : (x = m /\ y = q) \/ (x = q /\ y = m) \/ Still(x, y),
         \A x \in Node : SamePhase(x)
  PROVE  \A n, p \in Node : PairEvent(n, p)
  <1>1. ASSUME NEW n \in Node, NEW p \in Node
        PROVE  PairEvent(n, p)
    <2>1. CASE n = m /\ p = q
      BY <2>1 DEF PairEvent
    <2>2. CASE n = q /\ p = m
      BY <2>2 DEF PairEvent
    <2>3. CASE ~(n = m /\ p = q) /\ ~(n = q /\ p = m)
      <3>1. Still(n, p) /\ Still(p, n)
        BY <2>3
      <3> QED
        BY <3>1 DEF PairEvent, NoEvent
    <2> QED
      BY <2>1, <2>2, <2>3
  <1> QED
    BY <1>1

\* A step of m that takes nothing and touches no wire.
LEMMA OneProgram ==
  ASSUME NEW m \in Node,
         network' = network, receiverQueue' = receiverQueue,
         \A x, y \in Node : x = m \/ SameSide(x, y),
         \A x \in Node : x = m \/ SamePhase(x),
         \A q \in Node : \/ SameSide(m, q) /\ (Target[m] = q => SamePhase(m))
                         \/ q # m /\ Event(m, q)
  PROVE  \A n, p \in Node : PairEvent(n, p)
  <1>1. \A x, y \in Node : SameWire(x, y)
    BY DEF SameWire, SameFrom
  <1>2. ASSUME NEW n \in Node, NEW p \in Node,
               n = m \/ p = m => ~Event(n, p) /\ ~Event(p, n)
        PROVE  PairEvent(n, p)
    <2>1. SameSide(n, p) /\ (Target[n] = p => SamePhase(n))
      BY <1>2
    <2>2. SameSide(p, n) /\ (Target[p] = n => SamePhase(p))
      BY <1>2
    <2> QED
      BY <1>1, <2>1, <2>2 DEF PairEvent, NoEvent, Still
  <1> QED
    BY <1>2 DEF PairEvent

\* Receiving: a handled segment concerns its sender's connection only.
LEMMA HandledEvent ==
  ASSUME UndisturbedTransfer, IInv, HInv, NEW m \in Node, NEW h,
         phase[m] = "looping", receiverQueue[m] # <<>>, h.rcv = <<>>,
         Handled(m, h), file' \in [Node -> [Node -> Seq(Nat)]],
         \A x, y \in Node : \/ x = m /\ y = Head(receiverQueue[m]).from
                            \/ file'[x][y] = file[x][y]
  PROVE  LET q == Head(receiverQueue[m]).from
         IN /\ Takes(m, q) /\ Speaks(m, q, h.c, h.snd)
            /\ \A x, y \in Node : (x = m /\ y = q) \/ (x = q /\ y = m) \/ Still(x, y)
            /\ \A x \in Node : SamePhase(x)
  <1> DEFINE r == receiverQueue[m]
             q == Head(r).from
  <1>1. q \in Node /\ q # m
    BY ArrivalStage
  <1>2. /\ clients \in [Node -> [Node -> Client \cup {NoClient}]]
        /\ senderQueue \in [Node -> [Node -> Seq(OutItem)]]
        /\ receiverQueue \in [Node -> Seq(Arrival)]
        /\ phase \in [Node -> Phase]
    BY DEF IInv, ProtocolWithin, Clients, SenderQueues, ArrivalsValid, ControlTyped
  <1>3. receiverQueue' = [receiverQueue EXCEPT ![m] = Tail(r)]
    <2> DEFINE back == [i \in DOMAIN h.rcv |-> [from |-> q, seg |-> h.rcv[i]]]
    <2>1. back = <<>>
      BY Z3
    <2>2. Tail(r) \in Seq(Arrival)
      BY <1>2
    <2>3. receiverQueue' = [receiverQueue EXCEPT ![m] = Tail(r) \o back]
      BY DEF Handled
    <2> HIDE DEF back
    <2>4. Tail(r) \o back = Tail(r)
      BY <2>1, <2>2
    <2> QED
      BY <2>3, <2>4
  <1>4. /\ clients' = [clients EXCEPT ![m][q] = h.c]
        /\ senderQueue' = [senderQueue EXCEPT ![m][q] = @ \o h.snd]
        /\ network' = network
        /\ phase' = [phase EXCEPT ![m] = IF h.alive THEN @ ELSE "crashed"]
    BY DEF Handled
  <1> HIDE DEF q
  <1>5. /\ clients'[m][q] = h.c /\ senderQueue'[m][q] = senderQueue[m][q] \o h.snd
        /\ receiverQueue'[m] = Tail(r)
    BY <1>1, <1>2, <1>3, <1>4
  <1>6. \A x, y \in Node : x # m \/ y # q => SameSide(x, y)
    BY <1>1, <1>2, <1>4 DEF SameSide, q
  <1>7. \A x \in Node : SamePhase(x)
    BY <1>2, <1>4 DEF SamePhase
  <1>8. \A x, y \in Node : ~(x = q /\ y = m) => SameWire(x, y)
    <2>1. ASSUME NEW x \in Node, NEW y \in Node, ~(x = q /\ y = m)
          PROVE  SameWire(x, y)
      <3>1. network'[x][y] = network[x][y]
        BY <1>4
      <3>2. CASE y # m
        BY <1>2, <1>3, <3>1, <3>2 DEF SameWire, SameFrom
      <3>3. CASE y = m
        <4>1. receiverQueue[y] # <<>> /\ Head(receiverQueue[y]).from # x
          BY <2>1, <3>3 DEF q
        <4> QED
          BY <1>5, <3>1, <3>3, <4>1 DEF SameWire, SameFrom
      <3> QED
        BY <3>2, <3>3
    <2> QED
      BY <2>1
  <1>9. Takes(m, q)
    BY <1>1, <1>4, <1>5, <1>6, <1>7, <1>8 DEF Takes, q
  <1>10. \A x, y \in Node : (x = m /\ y = q) \/ (x = q /\ y = m) \/ Still(x, y)
    BY <1>6, <1>8 DEF Still
  <1> QED
    BY <1>5, <1>7, <1>9, <1>10 DEF Speaks, q

\* The SYN case is the answer of a target to its caller, and touches no other pair.
LEMMA ReceiveSynEvent ==
  ASSUME UndisturbedTransfer, IInv, HInv, NEW m \in Node, ReceiveSyn(m)
  PROVE  \A n, p \in Node : PairEvent(n, p)
  <1> DEFINE q   == Head(receiverQueue[m]).from
             seg == Head(receiverQueue[m]).seg
             ack == seg.seq + 1
             h0  == CreateMessage(Frame(NewClient("SYN_RECEIVED", ack)),
                                  Control("SYN_ACK", ISN, ack), "SYN_SENT")
             d   == [h0.c EXCEPT !.expected_sequence = ISN + 1]
             h   == HandleSyn(clients[m][q], seg)
  <1>1. /\ phase[m] = "looping" /\ receiverQueue[m] # <<>> /\ seg.flag = "SYN"
        /\ Handled(m, h) /\ file' = file
    BY DEF ReceiveSyn, Arrived
  <1>2. /\ q \in Node /\ q # m /\ seg \in ValidSegment /\ clients[m][q] = NoClient
    BY <1>1, ArrivalStage DEF Acks
  <1>3. ack \in Nat /\ "SYN_RECEIVED" \in State /\ "SYN_ACK" \in {"SYN", "SYN_ACK"}
    BY <1>2 DEF ValidSegment, Segment, State
  <1>4. h = [h0 EXCEPT !.c = d]
    BY <1>2 DEF HandleSyn
  <1> HIDE DEF h, ack, q, seg
  <1>5. /\ h0 \in FrameWithin(0) /\ h0.rcv = <<>>
        /\ h0.snd = <<Greeting(Control("SYN_ACK", ISN, ack))>>
        /\ Greets(d, "SYN_ACK", ack)
    BY <1>3, Greeted
  <1> HIDE DEF h0, d
  <1>6. h.c = d /\ h.snd = h0.snd /\ h.rcv = <<>>
    BY <1>4, <1>5 DEF FrameWithin
  <1>7. file' \in [Node -> [Node -> Seq(Nat)]]
    BY <1>1 DEF IInv, ArrivalsValid
  <1>8. /\ Takes(m, q) /\ Speaks(m, q, h.c, h.snd)
        /\ \A x, y \in Node : (x = m /\ y = q) \/ (x = q /\ y = m) \/ Still(x, y)
        /\ \A x \in Node : SamePhase(x)
    BY <1>1, <1>6, <1>7, HandledEvent DEF q
  <1>9. Heard(m) = seg
    BY DEF Heard, seg
  <1>10. senderQueue'[m][q] =
           Append(senderQueue[m][q], Greeting(Control("SYN_ACK", ISN, ack)))
    <2>1. senderQueue[m][q] \in Seq(OutItem)
      BY <1>2 DEF IInv, ProtocolWithin, SenderQueues
    <2> DEFINE g == Greeting(Control("SYN_ACK", ISN, ack))
    <2>2. senderQueue'[m][q] = senderQueue[m][q] \o <<g>>
      BY <1>5, <1>6, <1>8 DEF Speaks
    <2> HIDE DEF g
    <2>3. senderQueue'[m][q] = Append(senderQueue[m][q], g)
      BY <2>1, <2>2
    <2> QED
      BY <2>3 DEF g
  <1>11. Answers(m, q)
    BY <1>1, <1>2, <1>5, <1>6, <1>8, <1>9, <1>10 DEF Answers, Speaks, ack
  <1> QED
    BY <1>2, <1>8, <1>11, OneConnection DEF Event

\* The SYN_ACK case is an event of the one pair it is about.
LEMMA ReceiveSynAckEvent ==
  ASSUME UndisturbedTransfer, IInv, HInv, NEW m \in Node, ReceiveSynAck(m)
  PROVE  \A n, p \in Node : PairEvent(n, p)
  <1> DEFINE q   == Head(receiverQueue[m]).from
             seg == Head(receiverQueue[m]).seg
             c   == clients[m][q]
             h   == HandleSynAck(c, seg)
  <1>1. /\ phase[m] = "looping" /\ receiverQueue[m] # <<>> /\ seg.flag = "SYN_ACK"
        /\ c # NoClient /\ Handled(m, h) /\ file' = file
    BY DEF ReceiveSynAck, Arrived, Known
  <1>2. /\ q \in Node /\ q # m /\ seg \in ValidSegment /\ InUse(c)
    BY <1>1, ArrivalStage DEF Acks
  <1>3. c \in ClientWithin(sendBuffer[m]) /\ sendBuffer[m] \in Nat
    BY <1>1, <1>2, OnePeer
  <1> HIDE DEF q, seg, c
  <1>4. h.rcv = <<>>
    BY <1>2, <1>3, SynAckInUse
  <1> HIDE DEF h
  <1>5. file' \in [Node -> [Node -> Seq(Nat)]]
    BY <1>1 DEF IInv, ArrivalsValid
  <1>6. /\ Takes(m, q) /\ Speaks(m, q, h.c, h.snd)
        /\ \A x, y \in Node : (x = m /\ y = q) \/ (x = q /\ y = m) \/ Still(x, y)
        /\ \A x \in Node : SamePhase(x)
    BY <1>1, <1>4, <1>5, HandledEvent DEF q
  <1>7. Completes(m, q)
    BY <1>1, <1>6 DEF Completes, Heard, h, c, seg
  <1> QED
    BY <1>2, <1>6, <1>7, OneConnection DEF Event

\* The ACK case, for whatever it writes and drains, is an event of one pair.
LEMMA ReceiveAckEvent ==
  ASSUME UndisturbedTransfer, IInv, IInv', HInv, NEW m \in Node, ReceiveAck(m)
  PROVE  \A n, p \in Node : PairEvent(n, p)
  <1> DEFINE q   == Head(receiverQueue[m]).from
             seg == Head(receiverQueue[m]).seg
             c   == clients[m][q]
             Rs  == {X \cup {seg} : X \in SUBSET c.messageBuffer}
             h(R, last) == HandleAck(c, seg, R, last, sendBuffer[m], FALSE)
             w(R, last) == IF seg.seq = c.expected_ack /\ AckInRange(c, seg)
                           THEN file[m][q] \o Written(R, seg, last) ELSE file[m][q]
  <1>1. /\ phase[m] = "looping" /\ receiverQueue[m] # <<>> /\ seg.flag = "ACK"
        /\ c # NoClient
    BY DEF ReceiveAck, Arrived, Known
  <1>2. /\ q \in Node /\ q # m /\ seg \in Acks /\ InUse(c)
    BY <1>1, ArrivalStage
  <1>3. c \in ClientWithin(sendBuffer[m]) /\ sendBuffer[m] \in Nat
    BY <1>1, <1>2, OnePeer
  <1>4. timeToClose[m] = FALSE
    <2>1. ~timeToClose[m] /\ timeToClose[m] \in BOOLEAN
      BY OnePeer DEF HInv, OnlyTransfer
    <2> QED
      BY <2>1
  <1>5. PICK R \in Rs : \E last \in R :
          /\ IsRun(R, last, c, seg) /\ Handled(m, h(R, last))
          /\ file' = [file EXCEPT ![m][q] =
               IF seg.seq = c.expected_ack /\ AckInRange(c, seg)
               THEN @ \o Written(R, seg, last) ELSE @]
    BY <1>4 DEF ReceiveAck
  <1>6. PICK last \in R :
          /\ IsRun(R, last, c, seg) /\ Handled(m, h(R, last))
          /\ file' = [file EXCEPT ![m][q] =
               IF seg.seq = c.expected_ack /\ AckInRange(c, seg)
               THEN @ \o Written(R, seg, last) ELSE @]
    BY <1>5
  <1>7. R \in SUBSET Acks
    BY <1>1, <1>2 DEF InUse
  <1> DEFINE g == h(R, last)
  <1> HIDE DEF q, seg, c
  <1>8. g.rcv = <<>>
    BY <1>2, <1>3, <1>7, AckInUse
  <1>9. /\ file' \in [Node -> [Node -> Seq(Nat)]] /\ file \in [Node -> [Node -> Seq(Nat)]]
    BY DEF IInv, ArrivalsValid
  <1>10. /\ \A x, y \in Node : (x = m /\ y = q) \/ file'[x][y] = file[x][y]
         /\ file'[m][q] = w(R, last)
    <2> HIDE DEF g
    <2> QED
      BY <1>2, <1>6, <1>9
  <1>11. Handled(m, g)
    BY <1>6
  <1> HIDE DEF g, w
  <1>12. /\ Takes(m, q) /\ Speaks(m, q, g.c, g.snd)
         /\ \A x, y \in Node : (x = m /\ y = q) \/ (x = q /\ y = m) \/ Still(x, y)
         /\ \A x \in Node : SamePhase(x)
    BY <1>1, <1>8, <1>9, <1>10, <1>11, HandledEvent DEF q
  <1>13. Hears(m, q)
    <2>1. Heard(m) = seg
      BY DEF Heard, seg
    <2>2. R \in {X \cup {Heard(m)} : X \in SUBSET clients[m][q].messageBuffer}
      BY <2>1 DEF c
    <2>3. /\ IsRun(R, last, clients[m][q], Heard(m))
          /\ Speaks(m, q, g.c, g.snd)
          /\ file'[m][q] = w(R, last)
      BY <1>6, <1>10, <1>12, <2>1 DEF c
    <2> QED
      BY <1>1, <1>12, <2>1, <2>2, <2>3 DEF Hears, g, w, c
  <1> QED
    BY <1>2, <1>12, <1>13, OneConnection DEF Event

\* A segment of a stranger is discarded, and that is the event of its pair.
LEMMA ReceiveUnknownEvent ==
  ASSUME UndisturbedTransfer, IInv, HInv, NEW m \in Node, ReceiveUnknown(m)
  PROVE  \A n, p \in Node : PairEvent(n, p)
  <1> DEFINE q == Head(receiverQueue[m]).from
  <1>1. /\ phase[m] = "looping" /\ receiverQueue[m] # <<>>
        /\ Heard(m).flag # "SYN" /\ clients[m][q] = NoClient
        /\ receiverQueue' = [receiverQueue EXCEPT ![m] = Tail(@)]
        /\ clients' = clients /\ senderQueue' = senderQueue /\ file' = file
        /\ network' = network /\ phase' = phase
    BY DEF ReceiveUnknown, Arrived, Known, Heard
  <1>2. q \in Node /\ q # m
    BY <1>1, ArrivalStage
  <1>3. receiverQueue \in [Node -> Seq(Arrival)]
    BY DEF IInv, ArrivalsValid
  <1>4. \A x, y \in Node : SameSide(x, y) /\ SamePhase(x)
    BY <1>1 DEF SameSide, SamePhase
  <1>5. ASSUME NEW x \in Node, NEW y \in Node, ~(x = q /\ y = m)
        PROVE  SameWire(x, y)
    <2>1. CASE y # m
      BY <1>1, <1>3, <2>1 DEF SameWire, SameFrom
    <2>2. CASE y = m
      <3>1. /\ receiverQueue[y] # <<>> /\ Head(receiverQueue[y]).from # x
            /\ receiverQueue'[y] = Tail(receiverQueue[y])
        BY <1>1, <1>3, <1>5, <2>2
      <3> QED
        BY <1>1, <3>1 DEF SameWire, SameFrom
    <2> QED
      BY <2>1, <2>2
  <1>6. Discards(m, q)
    BY <1>1, <1>2, <1>3, <1>4, <1>5 DEF Discards, Takes
  <1>7. \A x, y \in Node : (x = m /\ y = q) \/ (x = q /\ y = m) \/ Still(x, y)
    BY <1>4, <1>5 DEF Still
  <1> QED
    BY <1>2, <1>4, <1>6, <1>7, OneConnection DEF Event

\* No FIN is on its way, and none is acknowledged.
LEMMA NoFinArrives ==
  ASSUME UndisturbedTransfer, IInv, HInv, NEW m \in Node
  PROVE  ~ReceiveFin(m) /\ ~ReceiveFinAck(m)
  <1>1. ASSUME ReceiveFin(m) \/ ReceiveFinAck(m)
        PROVE  FALSE
    <2>1. receiverQueue[m] # <<>> /\ Head(receiverQueue[m]).seg.flag \in {"FIN", "FIN_ACK"}
      BY <1>1 DEF ReceiveFin, ReceiveFinAck, Arrived
    <2> QED
      BY <2>1, ArrivalStage DEF Acks
  <1> QED
    BY <1>1

\* The SYN before the loop; or there is no target and nobody notices.
LEMMA StartEvent ==
  ASSUME UndisturbedTransfer, IInv, HInv, NEW m \in Node, Start(m)
  PROVE  \A n, p \in Node : PairEvent(n, p)
  <1> DEFINE q   == Target[m]
             seg == Control("SYN", ISN, 0)
             h   == CreateMessage(Frame(clients[m][q]), seg, "SYN_SENT")
             d   == [h.c EXCEPT !.expected_sequence = ISN + 1]
  <1>1. /\ network' = network /\ receiverQueue' = receiverQueue /\ file' = file
        /\ phase[m] = "starting"
    BY DEF Start
  <1>2. /\ clients \in [Node -> [Node -> Client \cup {NoClient}]]
        /\ senderQueue \in [Node -> [Node -> Seq(OutItem)]]
        /\ phase \in [Node -> Phase]
    BY DEF IInv, ProtocolWithin, Clients, SenderQueues, ControlTyped
  <1>3. CASE /\ q \in Node /\ clients[m][q] # NoClient
             /\ clients' = [clients EXCEPT ![m][q] = d]
             /\ senderQueue' = [senderQueue EXCEPT ![m][q] = @ \o h.snd]
             /\ phase' = [phase EXCEPT ![m] = "looping"]
    <2>1. q # m
      BY <1>3 DEF UndisturbedTransfer
    <2>2. clients[m][q] = NewClient("NONE", 0)
      <3>1. Linked(m, q)
        BY <1>3 DEF HInv, PairInv
      <3> QED
        BY <1>1, <3>1 DEF Linked, Before
    <2>3. "NONE" \in State /\ 0 \in Nat /\ "SYN" \in {"SYN", "SYN_ACK"}
      BY DEF State
    <2>4. h.snd = <<Greeting(seg)>> /\ Greets(d, "SYN", 0)
      BY <2>2, <2>3, Greeted
    <2> HIDE DEF h, d, seg
    <2>5. /\ clients'[m][q] = d /\ senderQueue'[m][q] = senderQueue[m][q] \o h.snd
          /\ phase'[m] = "looping"
      BY <1>2, <1>3
    <2>6. \A x, y \in Node : (x = m /\ y = q) \/ SameSide(x, y)
      BY <1>1, <1>2, <1>3 DEF SameSide
    <2>7. \A x \in Node : x = m \/ SamePhase(x)
      BY <1>2, <1>3 DEF SamePhase
    <2>8. \A x, y \in Node : SameWire(x, y)
      BY <1>1 DEF SameWire, SameFrom
    <2>9. senderQueue'[m][q] = Append(senderQueue[m][q], Greeting(seg))
      <3>1. senderQueue[m][q] \in Seq(OutItem)
        BY <1>2, <1>3
      <3> DEFINE g == Greeting(seg)
      <3>2. senderQueue'[m][q] = senderQueue[m][q] \o <<g>>
        BY <2>4, <2>5
      <3> HIDE DEF g
      <3>3. senderQueue'[m][q] = Append(senderQueue[m][q], g)
        BY <3>1, <3>2
      <3> QED
        BY <3>3 DEF g
    <2>10. Calls(m, q)
      BY <1>1, <1>3, <2>1, <2>4, <2>5, <2>6, <2>7, <2>8, <2>9
         DEF Calls, Still, seg
    <2>11. Event(m, q)
      BY <2>10 DEF Event
    <2>12. \A y \in Node : y # q => SameSide(m, y) /\ Target[m] # y
      BY <2>6
    <2> QED
      BY <1>1, <2>1, <2>6, <2>7, <2>11, <2>12, OneProgram
  <1>4. CASE q = NoNode /\ UNCHANGED <<clients, senderQueue>>
             /\ \E w \in Phase : phase' = [phase EXCEPT ![m] = w]
    <2>1. \A x, y \in Node : SameSide(x, y)
      BY <1>1, <1>4 DEF SameSide
    <2>2. \A x \in Node : x = m \/ SamePhase(x)
      BY <1>2, <1>4 DEF SamePhase
    <2>3. \A y \in Node : Target[m] # y
      BY <1>4, NodeAssumption
    <2> QED
      BY <1>1, <2>1, <2>2, <2>3, OneProgram
  <1>5. \/ /\ q \in Node /\ clients[m][q] # NoClient
           /\ clients' = [clients EXCEPT ![m][q] = d]
           /\ senderQueue' = [senderQueue EXCEPT ![m][q] = @ \o h.snd]
           /\ phase' = [phase EXCEPT ![m] = "looping"]
        \/ /\ q = NoNode /\ UNCHANGED <<clients, senderQueue>>
           /\ \E w \in Phase : phase' = [phase EXCEPT ![m] = w]
    <2>1. "crashed" \in Phase /\ "looping" \in Phase
      BY DEF Phase
    <2> HIDE DEF h
    <2>2. \/ /\ q \in Node /\ clients[m][q] # NoClient
             /\ clients' = [clients EXCEPT ![m][q] = d]
             /\ senderQueue' = [senderQueue EXCEPT ![m][q] = @ \o h.snd]
             /\ phase' = [phase EXCEPT ![m] = "looping"]
          \/ /\ q = NoNode /\ UNCHANGED <<clients, senderQueue>>
             /\ phase' = [phase EXCEPT ![m] =
                  IF \E x \in Node : clients[m][x] # NoClient
                  THEN "crashed" ELSE "looping"]
      BY DEF Start, h
    <2> QED
      BY <2>1, <2>2
  <1> QED
    BY <1>3, <1>4, <1>5

\* Nothing goes from a program to itself, so a step that starts with something
\* on its way has two ends.
LEMMA TwoEnds ==
  ASSUME UndisturbedTransfer, HInv, NEW m \in Node, NEW q \in Node, ~Silent(m, q)
  PROVE  m # q
  <1>1. Target[m] # m
    BY DEF UndisturbedTransfer
  <1>2. ASSUME m = q
        PROVE  FALSE
    <2>1. PairInv(m, m) /\ ~Silent(m, m)
      BY <1>2 DEF HInv
    <2> QED
      BY <1>1, <2>1 DEF PairInv, Stranger
  <1> QED
    BY <1>2

\* The sender thread.
LEMMA TransmitEvent ==
  ASSUME UndisturbedTransfer, IInv, HInv, NEW m \in Node, NEW q \in Node,
         Transmit(m, q) \/ SendFails(m, q)
  PROVE  \A n, p \in Node : PairEvent(n, p)
  <1> DEFINE item == Head(senderQueue[m][q])
  <1>1. PICK mark \in SendMark : Dequeue(m, q, mark)
    BY DEF Transmit, SendFails, SendMark
  <1>2. /\ clients \in [Node -> [Node -> Client \cup {NoClient}]]
        /\ senderQueue \in [Node -> [Node -> Seq(OutItem)]]
        /\ network \in [Node -> [Node -> Seq(ValidSegment)]]
    BY DEF IInv, ProtocolWithin, Clients, SenderQueues, ArrivalsValid
  <1>3. /\ senderQueue[m][q] # <<>>
        /\ senderQueue' = [senderQueue EXCEPT ![m][q] = Tail(@)]
        /\ clients' = IF item.pushed /\ clients[m][q] # NoClient
                      THEN [clients EXCEPT ![m][q] = Stamp(@, item.seg.seq, mark)]
                      ELSE clients
        /\ receiverQueue' = receiverQueue /\ file' = file /\ phase' = phase
    BY <1>1 DEF Dequeue
  <1>4. \/ network' = [network EXCEPT ![m][q] = Append(@, item.seg)]
        \/ /\ network' = network
           /\ \/ item.address = "uninitialised"
              \/ KindOf(item.seg.flag, SizeOf(item.seg)) \in Faulty
    BY DEF Transmit, SendFails, Mistreated
  <1> HIDE DEF item
  <1>5. m # q
    BY <1>3, TwoEnds DEF Silent
  <1>6. \A x, y \in Node : (x = m /\ y = q) \/ SameSide(x, y)
    BY <1>2, <1>3 DEF SameSide
  <1>7. \A x, y \in Node : (x = m /\ y = q) \/ SameWire(x, y)
    <2> DEFINE w == Append(network[m][q], item.seg)
    <2>0. network' = network \/ network' = [network EXCEPT ![m][q] = w]
      BY <1>4
    <2> HIDE DEF w
    <2>1. \A x, y \in Node : (x = m /\ y = q) \/ network'[x][y] = network[x][y]
      <3>1. CASE network' = network
        BY <3>1
      <3>2. CASE network' = [network EXCEPT ![m][q] = w]
        BY <1>2, <3>2
      <3> QED
        BY <2>0, <3>1, <3>2
    <2> QED
      BY <1>3, <2>1 DEF SameWire, SameFrom
  <1>8. \A x \in Node : SamePhase(x)
    BY <1>3 DEF SamePhase
  <1>9. \/ clients'[m][q] = clients[m][q]
        \/ /\ clients[m][q] # NoClient
           /\ clients'[m][q] = Stamp(clients[m][q], item.seg.seq, mark)
    BY <1>2, <1>3
  <1>10. \/ network'[m][q] = Append(network[m][q], item.seg)
         \/ /\ network'[m][q] = network[m][q]
            /\ \/ item.address = "uninitialised"
               \/ KindOf(item.seg.flag, SizeOf(item.seg)) \in Faulty
    BY <1>2, <1>4
  <1>11. Leaves(m, q)
    <2>1. Still(q, m)
      BY <1>5, <1>6, <1>7 DEF Still
    <2>2. senderQueue'[m][q] = Tail(senderQueue[m][q])
      BY <1>2, <1>3
    <2> QED
      BY <1>3, <1>8, <1>9, <1>10, <2>1, <2>2 DEF Leaves, item
  <1>12. \A x, y \in Node : (x = m /\ y = q) \/ (x = q /\ y = m) \/ Still(x, y)
    BY <1>6, <1>7 DEF Still
  <1> QED
    BY <1>5, <1>8, <1>11, <1>12, OneConnection DEF Event

\* The receiver thread.
LEMMA DeliverEvent ==
  ASSUME UndisturbedTransfer, IInv, HInv, NEW m \in Node, NEW q \in Node,
         Deliver(m, q)
  PROVE  \A n, p \in Node : PairEvent(n, p)
  <1> DEFINE a == [from |-> m, seg |-> Head(network[m][q])]
  <1>1. /\ network[m][q] # <<>>
        /\ network' = [network EXCEPT ![m][q] = Tail(@)]
        /\ receiverQueue' = [receiverQueue EXCEPT ![q] = Append(@, a)]
        /\ clients' = clients /\ senderQueue' = senderQueue /\ file' = file
        /\ phase' = phase
    BY DEF Deliver
  <1>2. /\ network \in [Node -> [Node -> Seq(ValidSegment)]]
        /\ receiverQueue \in [Node -> Seq(Arrival)]
    BY DEF IInv, ArrivalsValid
  <1>3. m # q
    BY <1>1, TwoEnds DEF Silent
  <1>4. \A x, y \in Node : SameSide(x, y) /\ SamePhase(x)
    BY <1>1 DEF SameSide, SamePhase
  <1>5. a \in Arrival /\ a.from = m
    <2>1. network[m][q] \in Seq(ValidSegment)
      BY <1>2
    <2>2. Head(network[m][q]) \in ValidSegment
      BY <1>1, <2>1
    <2> QED
      BY <2>2 DEF Arrival
  <1> HIDE DEF a
  <1>6. receiverQueue'[q] = Append(receiverQueue[q], a)
    BY <1>1, <1>2
  <1>7. LET r == receiverQueue'[q]
        IN r # <<>> /\ r[Len(r)] = a
    <2> DEFINE s == receiverQueue[q]
               r == receiverQueue'[q]
    <2>1. s \in Seq(Arrival) /\ r = Append(s, a)
      BY <1>2, <1>6
    <2> HIDE DEF s, r
    <2>2. Len(s) \in Nat /\ Len(r) = Len(s) + 1 /\ r[Len(s) + 1] = a
      BY <1>5, <2>1, AppendProperties
    <2>3. r # <<>>
      BY <2>2
    <2> QED
      BY <2>2, <2>3 DEF r
  <1>8. ASSUME NEW x \in Node, NEW y \in Node, ~(x = m /\ y = q)
        PROVE  SameWire(x, y)
    <2>1. network'[x][y] = network[x][y]
      BY <1>1, <1>2, <1>8
    <2>2. CASE y = q
      BY <1>5, <1>6, <1>7, <1>8, <2>1, <2>2 DEF SameWire, SameFrom
    <2>3. CASE y # q
      BY <1>1, <1>2, <2>1, <2>3 DEF SameWire, SameFrom
    <2> QED
      BY <2>2, <2>3
  <1>9. network'[m][q] = Tail(network[m][q])
    BY <1>1, <1>2
  <1>10. Arrives(m, q)
    BY <1>1, <1>3, <1>4, <1>6, <1>8, <1>9 DEF Arrives, Still, a
  <1>11. \A x, y \in Node : (x = m /\ y = q) \/ (x = q /\ y = m) \/ Still(x, y)
    BY <1>4, <1>8 DEF Still
  <1> QED
    BY <1>3, <1>4, <1>10, <1>11, OneConnection DEF Event

\* The network.
LEMMA NetworkFaultEvent ==
  ASSUME UndisturbedTransfer, IInv, HInv, NEW m \in Node, NEW q \in Node,
         NetworkFault(m, q)
  PROVE  \A n, p \in Node : PairEvent(n, p)
  <1> DEFINE w == network[m][q]
  <1>1. PICK i \in DOMAIN w :
          /\ KindOf(w[i].flag, SizeOf(w[i])) \in Faulty
          /\ \/ network' = [network EXCEPT ![m][q] = RemoveAt(w, i)]
             \/ network' = [network EXCEPT ![m][q] = Append(w, w[i])]
             \/ network' = [network EXCEPT ![m][q] = <<w[i]>> \o RemoveAt(w, i)]
    BY DEF NetworkFault, Mistreated
  <1>2. /\ clients' = clients /\ senderQueue' = senderQueue /\ file' = file
        /\ receiverQueue' = receiverQueue /\ phase' = phase
    BY DEF NetworkFault, protocolVars
  <1>3. network \in [Node -> [Node -> Seq(ValidSegment)]]
    BY DEF IInv, ArrivalsValid
  <1>4. m # q
    <2>1. w # <<>>
      BY <1>1
    <2> QED
      BY <2>1, TwoEnds DEF Silent
  <1>5. \A x, y \in Node : SameSide(x, y) /\ SamePhase(x)
    BY <1>2 DEF SameSide, SamePhase
  <1>6. PICK v \in {RemoveAt(w, i), Append(w, w[i]), <<w[i]>> \o RemoveAt(w, i)} :
          network' = [network EXCEPT ![m][q] = v]
    BY <1>1
  <1>7. network'[m][q] = v
    BY <1>3, <1>6
  <1>8. \A x, y \in Node : (x = m /\ y = q) \/ SameWire(x, y)
    BY <1>2, <1>3, <1>6 DEF SameWire, SameFrom
  <1>9. GoesWrong(m, q)
    BY <1>1, <1>2, <1>4, <1>5, <1>6, <1>7, <1>8 DEF GoesWrong, Still
  <1>10. \A x, y \in Node : (x = m /\ y = q) \/ (x = q /\ y = m) \/ Still(x, y)
    BY <1>5, <1>8 DEF Still
  <1> QED
    BY <1>4, <1>5, <1>9, <1>10, OneConnection DEF Event

\* What a branch of the loop that acts on every client does to each of them.
ActsOnAll(m, h, gone) ==
  /\ \A x, y \in Node : x = m \/ /\ clients'[x][y] = clients[x][y]
                                 /\ senderQueue'[x][y] = senderQueue[x][y]
  /\ \A y \in Node \ gone : Speaks(m, y, h[y].c, h[y].snd)
  /\ \A y \in gone \cap Node :
       LET q == senderQueue[m][y] \o h[y].snd
       IN /\ clients'[m][y] = NoClient
          /\ senderQueue'[m][y] =
               [i \in DOMAIN q |-> [q[i] EXCEPT !.pushed = FALSE]]

\* HandledAll, peer by peer.
LEMMA HandledAllPeer ==
  ASSUME IInv, NEW m \in Node, NEW h, NEW gone, HandledAll(m, h, gone)
  PROVE  ActsOnAll(m, h, gone)
  <1> DEFINE q(y) == senderQueue[m][y] \o h[y].snd
             r(y) == IF y \in gone
                     THEN [i \in DOMAIN q(y) |-> [q(y)[i] EXCEPT !.pushed = FALSE]]
                     ELSE q(y)
             d(y) == IF y \in gone THEN NoClient ELSE h[y].c
  <1>1. /\ clients \in [Node -> [Node -> Client \cup {NoClient}]]
        /\ senderQueue \in [Node -> [Node -> Seq(OutItem)]]
    BY DEF IInv, ProtocolWithin, Clients, SenderQueues
  <1>2. clients' = [clients EXCEPT ![m] = [p \in Node |-> d(p)]]
    BY DEF HandledAll
  <1>3. senderQueue' = [senderQueue EXCEPT ![m] = [p \in Node |-> r(p)]]
    BY <1>1 DEF HandledAll
  <1> HIDE DEF d, r
  <1>4. \A x, y \in Node : x = m \/ /\ clients'[x][y] = clients[x][y]
                                    /\ senderQueue'[x][y] = senderQueue[x][y]
    BY <1>1, <1>2, <1>3
  <1>5. \A y \in Node : clients'[m][y] = d(y) /\ senderQueue'[m][y] = r(y)
    BY <1>1, <1>2, <1>3
  <1> USE DEF d, r
  <1> HIDE DEF q
  <1>6. \A y \in Node \ gone : clients'[m][y] = h[y].c /\ senderQueue'[m][y] = q(y)
    BY <1>5
  <1>7. \A y \in gone \cap Node :
          /\ clients'[m][y] = NoClient
          /\ senderQueue'[m][y] =
               [i \in DOMAIN q(y) |-> [q(y)[i] EXCEPT !.pushed = FALSE]]
    BY <1>5
  <1> HIDE DEF d, r
  <1> QED
    BY <1>4, <1>6, <1>7 DEF q, ActsOnAll, Speaks

\* A program has no connection with itself.
LEMMA NotItself ==
  ASSUME UndisturbedTransfer, HInv, NEW m \in Node
  PROVE  clients[m][m] = NoClient
  BY DEF HInv, PairInv, UndisturbedTransfer, Stranger

\* Nothing sent, nothing changed.
LEMMA FrameStill ==
  ASSUME IInv, NEW m \in Node, NEW y \in Node, file'[m][y] = file[m][y],
         NEW h, h = Frame(clients[m][y]), Speaks(m, y, h.c, h.snd)
  PROVE  SameSide(m, y)
  <1>1. senderQueue[m][y] \in Seq(OutItem)
    BY DEF IInv, ProtocolWithin, SenderQueues
  <1>2. /\ senderQueue'[m][y] = senderQueue[m][y] \o <<>>
        /\ clients'[m][y] = clients[m][y]
    BY DEF Frame, Speaks
  <1>3. senderQueue'[m][y] = senderQueue[m][y]
    BY <1>1, <1>2
  <1> QED
    BY <1>2, <1>3 DEF SameSide

\* An input is offered to the peers whose connection is open.
LEMMA InsertInputEvent ==
  ASSUME UndisturbedTransfer, IInv, HInv, NEW m \in Node, InsertInput(m)
  PROVE  \A n, p \in Node : PairEvent(n, p)
  <1> DEFINE size == sendBuffer[m] + Head(inputQueue[m])
             h    == [p \in Node |->
                        IF /\ p \in Opened(m)
                           /\ clients[m][p].state \in {"ESTABLISHED", "CLOSING"}
                        THEN SendMessages(Frame(clients[m][p]), size, FALSE)
                        ELSE Frame(clients[m][p])]
  <1>1. /\ sendBuffer' = [sendBuffer EXCEPT ![m] = size]
        /\ HandledAll(m, h, {})
        /\ network' = network /\ receiverQueue' = receiverQueue /\ file' = file
        /\ phase' = phase
    BY DEF InsertInput
  <1>2. sendBuffer'[m] = size
    BY <1>1 DEF IInv, ProtocolWithin
  <1> HIDE DEF h, size
  <1>3. /\ \A x, y \in Node : x = m \/ /\ clients'[x][y] = clients[x][y]
                                       /\ senderQueue'[x][y] = senderQueue[x][y]
        /\ \A y \in Node : Speaks(m, y, h[y].c, h[y].snd)
    <2>1. ActsOnAll(m, h, {})
      BY <1>1, HandledAllPeer
    <2> QED
      BY <2>1 DEF ActsOnAll
  <1>4. /\ \A x, y \in Node : x = m \/ SameSide(x, y)
        /\ \A x \in Node : SamePhase(x)
        /\ \A x, y \in Node : SameWire(x, y)
    BY <1>1, <1>3 DEF SameSide, SamePhase, SameWire, SameFrom
  <1>5. ASSUME NEW y \in Node
        PROVE  SameSide(m, y) \/ (y # m /\ Event(m, y))
    <2>1. CASE /\ y \in Opened(m)
               /\ clients[m][y].state \in {"ESTABLISHED", "CLOSING"}
      <3>1. clients[m][y] # NoClient /\ y # m
        BY <2>1, NotItself DEF Opened
      <3>2. h[y] = SendMessages(Frame(clients[m][y]), sendBuffer'[m], FALSE)
        BY <1>2, <2>1 DEF h
      <3>3. Unprompted(m, y)
        BY <1>1, <1>4, <3>1 DEF Unprompted, Still
      <3>4. Offers(m, y)
        BY <1>3, <2>1, <3>1, <3>2, <3>3 DEF Offers
      <3> QED
        BY <3>1, <3>4 DEF Event
    <2>2. CASE ~(/\ y \in Opened(m)
                 /\ clients[m][y].state \in {"ESTABLISHED", "CLOSING"})
      <3>1. h[y] = Frame(clients[m][y])
        BY <2>2 DEF h
      <3> QED
        BY <1>1, <1>3, <3>1, FrameStill
    <2> QED
      BY <2>1, <2>2
  <1> QED
    BY <1>1, <1>4, <1>5, OneProgram

\* Items that lose their entry carry the same segments.
LEMMA SameSegments ==
  ASSUME NEW q \in Seq(OutItem),
         NEW r, r = [i \in DOMAIN q |-> [q[i] EXCEPT !.pushed = FALSE]]
  PROVE  Len(r) = Len(q) /\ \A i \in 1..Len(q) : r[i].seg = q[i].seg
  <1>1. DOMAIN q = 1..Len(q) /\ Len(q) \in Nat
    OBVIOUS
  <1>2. ASSUME NEW i \in 1..Len(q)
        PROVE  r[i].seg = q[i].seg
    <2>1. r[i] = [q[i] EXCEPT !.pushed = FALSE]
      BY <1>1
    <2>2. q[i] \in OutItem
      BY <1>1
    <2> QED
      BY <2>1, <2>2 DEF OutItem
  <1>3. Len(r) = Len(q)
    <2>1. \A i \in 1..Len(q) : q[i] \in OutItem
      BY <1>1
    <2>2. \A i \in 1..Len(q) : [q[i] EXCEPT !.pushed = FALSE] \in OutItem
      BY <2>1 DEF OutItem
    <2>3. r \in Seq(OutItem)
      BY <1>1, <2>2
    <2>4. DOMAIN r = 1..Len(r) /\ DOMAIN r = 1..Len(q) /\ Len(r) \in Nat
      BY <1>1, <2>3
    <2> QED
      BY <1>1, <2>4
  <1> QED
    BY <1>2, <1>3

\* The timer loop retransmits to some peers and gives up some.
LEMMA MessageResendCheckEvent ==
  ASSUME UndisturbedTransfer, IInv, HInv, NEW m \in Node, MessageResendCheck(m)
  PROVE  \A n, p \in Node : PairEvent(n, p)
  <1> DEFINE c(p)   == clients[m][p]
             closed == {p \in Opened(m) : c(p).state = "CLOSED"}
             timed  == {p \in Opened(m) \ closed : MayExpire(m, p)}
             hs(expired) == [p \in Node |-> IF p \in expired THEN Retransmit(c(p))
                                            ELSE Frame(c(p))]
  <1>1. PICK expired \in SUBSET timed :
          HandledAll(m, hs(expired), closed \cup
            {p \in expired : hs(expired)[p].c.number_of_timeouts > MAX_TIMEOUTS})
    BY DEF MessageResendCheck, GivenUp
  <1> DEFINE h    == hs(expired)
             gone == closed \cup {p \in expired : h[p].c.number_of_timeouts > MAX_TIMEOUTS}
  <1>2. /\ network' = network /\ receiverQueue' = receiverQueue /\ file' = file
        /\ phase' = phase /\ HandledAll(m, h, gone)
    BY <1>1 DEF MessageResendCheck
  <1>3. ASSUME NEW y \in Node
        PROVE  h[y] = IF y \in expired THEN Retransmit(c(y)) ELSE Frame(c(y))
    OBVIOUS
  <1>4. ASSUME NEW y \in expired
        PROVE  /\ y \in Node /\ c(y) # NoClient /\ c(y).messagesSent # <<>> /\ y \notin closed
               /\ KindOf(Head(c(y).messagesSent).flag, Head(c(y).messagesSent).size) \in Slow
    BY DEF MayExpire, FrontStamped, Opened
  <1>5. ASSUME NEW y \in closed
        PROVE  y \in Node /\ c(y) # NoClient /\ c(y).state = "CLOSED" /\ y \notin expired
    BY DEF Opened
  <1>6. gone \subseteq closed \cup expired
    OBVIOUS
  <1> HIDE DEF h, gone, closed, timed
  <1>7. ActsOnAll(m, h, gone)
    BY <1>2, HandledAllPeer
  <1>8. /\ \A x, y \in Node : x = m \/ SameSide(x, y)
        /\ \A x \in Node : SamePhase(x)
        /\ \A x, y \in Node : SameWire(x, y)
    BY <1>2, <1>7 DEF ActsOnAll, SameSide, SamePhase, SameWire, SameFrom
  <1>9. \A y \in Node : c(y) # NoClient => y # m /\ Unprompted(m, y)
    BY <1>2, <1>8, NotItself DEF Unprompted, Still
  <1>10. ASSUME NEW y \in Node
         PROVE  SameSide(m, y) \/ (y # m /\ Event(m, y))
    <2> DEFINE q == senderQueue[m][y] \o h[y].snd
    <2>1. CASE y \notin gone /\ y \notin expired
      <3>1. h[y] = Frame(clients[m][y]) /\ Speaks(m, y, h[y].c, h[y].snd)
        BY <1>3, <1>7, <2>1 DEF ActsOnAll
      <3> QED
        BY <1>2, <3>1, FrameStill
    <2>2. CASE y \notin gone /\ y \in expired
      <3>1. Repeats(m, y)
        BY <1>3, <1>4, <1>7, <1>9, <2>2 DEF Repeats, ActsOnAll
      <3> QED
        BY <1>4, <1>9, <2>2, <3>1 DEF Event
    <2>3. CASE y \in gone
      <3>1. c(y) # NoClient
        BY <1>4, <1>5, <1>6, <2>3
      <3>2. c(y) \in ClientWithin(sendBuffer[m]) /\ sendBuffer[m] \in Nat
        BY <3>1, OnePeer
      <3>3. senderQueue[m][y] \in Seq(OutItem)
        BY DEF IInv, ProtocolWithin, SenderQueues
      <3>4. h[y].snd \in Seq(OutItem)
        <4>1. CASE y \in expired
          <5>1. Retransmit(c(y)) \in FrameWithin(sendBuffer[m])
            BY <1>4, <3>2, <4>1, RetransmitDoes
          <5>2. Retransmit(c(y)).snd \in Seq(ItemWithin(sendBuffer[m]))
            BY <5>1 DEF FrameWithin
          <5>3. h[y].snd = Retransmit(c(y)).snd
            BY <1>3, <4>1
          <5> QED
            BY <3>2, <5>2, <5>3, WithinTyped
        <4>2. CASE y \notin expired
          <5>1. h[y] = Frame(c(y))
            BY <1>3, <4>2
          <5>2. h[y].snd = <<>>
            BY <5>1 DEF Frame
          <5> QED
            BY <5>2
        <4> QED
          BY <4>1, <4>2
      <3>5. q \in Seq(OutItem)
        BY <3>3, <3>4
      <3>6. /\ clients'[m][y] = NoClient
            /\ senderQueue'[m][y] = [i \in DOMAIN q |-> [q[i] EXCEPT !.pushed = FALSE]]
        BY <1>7, <2>3 DEF ActsOnAll
      <3>7. /\ Len(senderQueue'[m][y]) = Len(q)
            /\ \A i \in 1..Len(q) : senderQueue'[m][y][i].seg = q[i].seg
        <4> HIDE DEF q
        <4> QED
          BY <3>5, <3>6, SameSegments
      <3>8. CASE y \in closed
        <4>0. h[y] = Frame(c(y))
          BY <1>3, <1>5, <3>8
        <4>1. q = senderQueue[m][y] \o <<>>
          BY <4>0 DEF Frame
        <4>2. q = senderQueue[m][y]
          BY <3>3, <4>1
        <4> HIDE DEF q
        <4>3. /\ Len(senderQueue'[m][y]) = Len(senderQueue[m][y])
              /\ \A i \in 1..Len(senderQueue[m][y]) :
                   senderQueue'[m][y][i].seg = senderQueue[m][y][i].seg
          BY <3>7, <4>2
        <4>4. GivesUp(m, y)
          BY <1>5, <1>9, <3>1, <3>6, <3>8, <4>3 DEF GivesUp
        <4> QED
          BY <1>9, <3>1, <4>4 DEF Event
      <3>9. CASE y \notin closed
        <4>1. y \in expired
          BY <1>6, <2>3, <3>9
        <4>2. /\ Len(senderQueue'[m][y]) = Len(senderQueue[m][y] \o Retransmit(c(y)).snd)
              /\ \A i \in 1..Len(senderQueue[m][y] \o Retransmit(c(y)).snd) :
                   senderQueue'[m][y][i].seg
                     = (senderQueue[m][y] \o Retransmit(c(y)).snd)[i].seg
          BY <1>3, <3>7, <4>1
        <4>3. GivesUp(m, y)
          BY <1>4, <1>9, <3>1, <3>6, <4>1, <4>2 DEF GivesUp
        <4> QED
          BY <1>9, <3>1, <4>3 DEF Event
      <3> QED
        BY <3>8, <3>9
    <2> QED
      BY <2>1, <2>2, <2>3
  <1> QED
    BY <1>2, <1>8, <1>10, OneProgram

\* Nobody closes and nobody dials.
LEMMA NobodyLeaves ==
  ASSUME UndisturbedTransfer, IInv, HInv, NEW m \in Node
  PROVE  /\ ~CloseClients(m) /\ ~CloseLoop(m) /\ ~Stop(m) /\ ~Disconnect(m)
         /\ ~AddClient(m) /\ \A p \in Node : ~DialCheck(m, p)
  <1>1. /\ undialled = {} /\ phase[m] \in {"starting", "looping", "crashed"}
        /\ dialing[m].step = "idle" /\ ~timeToClose[m]
    BY DEF HInv, OnlyTransfer
  <1>2. ~CloseClients(m) /\ ~CloseLoop(m) /\ ~Stop(m)
    BY <1>1 DEF CloseClients, CloseLoop, Closing, Stop
  <1>3. ~Disconnect(m) /\ \A p \in Node : ~DialCheck(m, p)
    BY <1>1 DEF Disconnect, DialCheck, UndisturbedTransfer
  <1>4. \A to, c, snd : \A p \in Node : \A from \in {"emplace", "syn", "sequence"} :
          ~DialStep(m, p, from, to, c, snd)
    BY <1>1 DEF DialStep
  <1>5. \A p \in Node : ~DialEmplace(m, p) /\ ~DialSyn(m, p) /\ ~DialSequence(m, p)
    BY <1>4 DEF DialEmplace, DialSyn, DialSequence
  <1> QED
    BY <1>2, <1>3, <1>5 DEF AddClient

\* What no step of the transfer does: end a program's loop, or dial.
LEMMA OnlyTransferStep ==
  ASSUME UndisturbedTransfer, IInv, HInv, [Next]_vars
  PROVE  OnlyTransfer'
  <1>1. CASE UNCHANGED vars
    BY <1>1 DEF vars, HInv, OnlyTransfer
  <1>2. CASE Next
    <2>1. PICK m \in Node :
            \/ Communicate(m) \/ Stop(m) \/ Application(m)
            \/ \E p \in Node : \/ Transmit(m, p) \/ Deliver(m, p)
                               \/ SendFails(m, p) \/ NetworkFault(m, p)
      BY <1>2 DEF Next
    <2>2. phase \in [Node -> Phase]
      BY DEF IInv, ControlTyped
    <2>3. ASSUME dialVars' = dialVars, timeToClose' = timeToClose,
                 \/ phase' = phase
                 \/ \E w \in {"looping", "crashed", phase[m]} : phase' = [phase EXCEPT ![m] = w]
          PROVE  OnlyTransfer'
      BY <2>2, <2>3 DEF HInv, OnlyTransfer, dialVars
    <2>4. CASE Start(m)
      BY <2>3, <2>4 DEF Start
    <2>5. CASE Receive(m)
      <3>1. CASE ReceiveUnknown(m)
        BY <2>3, <3>1 DEF ReceiveUnknown
      <3>2. CASE ~ReceiveUnknown(m)
        <4>1. PICK h : Handled(m, h)
          BY <2>5, <3>2 DEF Receive, ReceiveSyn, ReceiveSynAck, ReceiveFin,
             ReceiveFinAck, ReceiveAck
        <4> QED
          BY <2>3, <4>1 DEF Handled
      <3> QED
        BY <3>1, <3>2
    <2>6. CASE InsertInput(m) \/ MessageResendCheck(m)
      BY <2>3, <2>6 DEF InsertInput, MessageResendCheck
    <2>7. CASE PushInput(m)
      BY <2>3, <2>7 DEF PushInput, protocolVars
    <2>8. CASE \E p \in Node : \/ Transmit(m, p) \/ Deliver(m, p)
                               \/ SendFails(m, p) \/ NetworkFault(m, p)
      BY <2>3, <2>8 DEF Transmit, SendFails, Dequeue, Deliver, NetworkFault,
         protocolVars
    <2> QED
      BY <2>1, <2>4, <2>5, <2>6, <2>7, <2>8, NobodyLeaves
         DEF Communicate, Application
  <1> QED
    BY <1>1, <1>2

\* A buffer only grows.
LEMMA BufferGrows ==
  ASSUME IInv, [Next]_vars, NEW n \in Node
  PROVE  sendBuffer[n] \in Nat /\ sendBuffer[n] <= sendBuffer'[n]
  <1>1. sendBuffer \in [Node -> Nat] /\ inputQueue \in [Node -> Seq(Nat)]
    BY DEF IInv, ProtocolWithin, ControlTyped
  <1>2. CASE \E m \in Node : InsertInput(m)
    <2>1. PICK m \in Node : InsertInput(m)
      BY <1>2
    <2> DEFINE k == Head(inputQueue[m])
    <2>2. inputQueue[m] # <<>> /\ sendBuffer' = [sendBuffer EXCEPT ![m] = sendBuffer[m] + k]
      BY <2>1 DEF InsertInput
    <2>3. k \in Nat
      <3>1. inputQueue[m] \in Seq(Nat)
        BY <1>1
      <3> QED
        BY <2>2, <3>1
    <2> HIDE DEF k
    <2> QED
      BY <1>1, <2>2, <2>3
  <1>3. CASE ~\E m \in Node : InsertInput(m)
    <2>1. sendBuffer' = sendBuffer
      <3>1. CASE UNCHANGED vars
        BY <3>1 DEF vars
      <3>2. CASE Next
        <4>1. PICK m \in Node :
                \/ Communicate(m) \/ Stop(m) \/ Application(m)
                \/ \E p \in Node : \/ Transmit(m, p) \/ Deliver(m, p)
                                   \/ SendFails(m, p) \/ NetworkFault(m, p)
          BY <3>2 DEF Next
        <4>2. CASE Receive(m)
          BY <4>2 DEF Receive, ReceiveSyn, ReceiveSynAck, ReceiveFin,
             ReceiveFinAck, ReceiveAck, ReceiveUnknown, Handled
        <4>3. CASE Communicate(m) /\ ~Receive(m)
          BY <1>3, <4>3 DEF Communicate, Start, CloseClients, CloseLoop,
             MessageResendCheck
        <4>4. CASE Application(m)
          BY <4>4 DEF Application, PushInput, Disconnect, AddClient, DialCheck,
             DialEmplace, DialSyn, DialSequence, DialStep
        <4>5. CASE Stop(m)
          BY <4>5 DEF Stop
        <4>6. CASE \E p \in Node : \/ Transmit(m, p) \/ Deliver(m, p)
                                   \/ SendFails(m, p) \/ NetworkFault(m, p)
          BY <4>6 DEF Transmit, SendFails, Dequeue, Deliver, NetworkFault
        <4> QED
          BY <4>1, <4>2, <4>3, <4>4, <4>5, <4>6
      <3> QED
        BY <3>1, <3>2
    <2> QED
      BY <1>1, <2>1
  <1> QED
    BY <1>2, <1>3

\* Every step is an event of every pair.
LEMMA StepIsEvent ==
  ASSUME UndisturbedTransfer, IInv, IInv', HInv, [Next]_vars
  PROVE  \A n, p \in Node : PairEvent(n, p)
  <1>1. ASSUME /\ clients' = clients /\ senderQueue' = senderQueue
               /\ receiverQueue' = receiverQueue /\ network' = network
               /\ file' = file /\ phase' = phase
        PROVE  \A n, p \in Node : PairEvent(n, p)
    BY <1>1 DEF PairEvent, NoEvent, Still, SameSide, SameWire, SameFrom, SamePhase
  <1>2. CASE UNCHANGED vars
    BY <1>1, <1>2 DEF vars
  <1>3. CASE Next
    <2>1. PICK m \in Node :
            \/ Communicate(m) \/ Stop(m) \/ Application(m)
            \/ \E p \in Node : \/ Transmit(m, p) \/ Deliver(m, p)
                               \/ SendFails(m, p) \/ NetworkFault(m, p)
      BY <1>3 DEF Next
    <2>2. CASE Communicate(m)
      BY <2>2, StartEvent, ReceiveSynEvent, ReceiveSynAckEvent, NoFinArrives,
         ReceiveAckEvent, ReceiveUnknownEvent, InsertInputEvent,
         MessageResendCheckEvent, NobodyLeaves DEF Communicate, Receive
    <2>3. CASE PushInput(m)
      BY <1>1, <2>3 DEF PushInput, protocolVars
    <2>4. CASE \E p \in Node : \/ Transmit(m, p) \/ Deliver(m, p)
                               \/ SendFails(m, p) \/ NetworkFault(m, p)
      BY <2>4, TransmitEvent, DeliverEvent, NetworkFaultEvent
    <2> QED
      BY <2>1, <2>2, <2>3, <2>4, NobodyLeaves DEF Application
  <1> QED
    BY <1>2, <1>3

-----------------------------------------------------------------------------
(* The handshake.                                                           *)

\* Before anything starts, a program with a target has an untouched client.
LEMMA InitHInv ==
  ASSUME UndisturbedTransfer, Init
  PROVE  HInv
  <1>1. OnlyTransfer
    BY DEF Init, OnlyTransfer, UndisturbedTransfer
  <1>2. \A n, p \in Node : /\ file[n][p] = <<>> /\ senderQueue[n][p] = <<>>
                           /\ network[n][p] = <<>> /\ receiverQueue[p] = <<>>
                           /\ phase[n] = "starting"
    BY DEF Init
  <1>3. \A n, p \in Node :
          clients[n][p] = IF Target[n] = p THEN NewClient("NONE", 0) ELSE NoClient
    BY DEF Init
  <1>4. \A n, p \in Node : Silent(n, p)
    BY <1>2 DEF Silent, NoneFrom
  <1>5. ASSUME NEW n \in Node, NEW p \in Node, Target[n] = p
        PROVE  Linked(n, p)
    <2>1. Target[p] # n
      BY <1>5 DEF UndisturbedTransfer
    <2> QED
      BY <1>2, <1>3, <1>4, <1>5, <2>1 DEF Linked, Before, NoFiles
  <1>6. ASSUME NEW n \in Node, NEW p \in Node, Target[n] # p
        PROVE  Stranger(n, p)
    BY <1>2, <1>3, <1>4, <1>6 DEF Stranger
  <1>7. \A n, p \in Node : PairInv(n, p)
    BY <1>5, <1>6 DEF PairInv
  <1> QED
    BY <1>1, <1>7 DEF HInv

\* The types of a pair after the step.
LEMMA PairTypedNext ==
  ASSUME IInv', NEW n \in Node, NEW p \in Node
  PROVE  Typed(n, p)'
  <1>1. /\ sendBuffer' \in [Node -> Nat] /\ clients' \in Clients(sendBuffer')
        /\ senderQueue' \in SenderQueues(sendBuffer')
        /\ receiverQueue' \in [Node -> Seq(Arrival)]
        /\ network' \in [Node -> [Node -> Seq(ValidSegment)]]
        /\ file' \in [Node -> [Node -> Seq(Nat)]]
    BY DEF IInv, ProtocolWithin, ArrivalsValid
  <1>2. /\ clients'[n][p] \in ClientWithin(sendBuffer'[n]) \cup {NoClient}
        /\ senderQueue'[n][p] \in Seq(OutItem)
    BY <1>1 DEF Clients, SenderQueues
  <1>3. /\ receiverQueue'[n] \in Seq(Arrival) /\ network'[n][p] \in Seq(ValidSegment)
        /\ file'[n][p] \in Seq(Nat) /\ sendBuffer'[n] \in Nat
    BY <1>1
  <1> QED
    BY <1>2, <1>3 DEF Typed

\* Every step preserves the stage of every connection or moves it on.
LEMMA NextHInv ==
  ASSUME UndisturbedTransfer, IInv, IInv', HInv, [Next]_vars
  PROVE  HInv'
  <1>1. OnlyTransfer'
    BY OnlyTransferStep
  <1>2. ASSUME NEW n \in Node, NEW p \in Node
        PROVE  PairInv(n, p)'
    <2>1. TypedPair(n, p) /\ TypedPair(n, p)'
      <3>1. /\ Typed(n, p) /\ Typed(p, n)
        BY PairTyped
      <3>2. Typed(n, p)' /\ Typed(p, n)'
        BY PairTypedNext
      <3> QED
        BY <3>1, <3>2 DEF TypedPair
    <2>2. sendBuffer[n] <= sendBuffer'[n] /\ sendBuffer[p] <= sendBuffer'[p]
      BY BufferGrows
    <2>3. PairInv(n, p) /\ PairEvent(n, p)
      BY StepIsEvent DEF HInv
    <2> QED
      BY <2>1, <2>2, <2>3, PairStep
  <1> QED
    BY <1>1, <1>2 DEF HInv

\* The handshake of every program with its target goes through its stages one
\* after the other: one SYN, one SYN_ACK, and nothing but acknowledgements and
\* data afterwards, at either end and on either wire.
THEOREM HandshakeInOrder == UndisturbedTransfer => (Spec => []HInv)
  <1> SUFFICES ASSUME UndisturbedTransfer PROVE Spec => []HInv
    OBVIOUS
  <1>1. Init => HInv
    BY InitHInv
  <1>2. IInv /\ IInv' /\ HInv /\ [Next]_vars => HInv'
    BY NextHInv
  <1> QED
    BY <1>1, <1>2, InductiveInvariant, PTL DEF Spec

====
