--------------------------- MODULE BlockingQueue ---------------------------
(***************************************************************************)
(* ThreadSafeQueue (backend/TCP and backend/WEBSOCKET have the same): a     *)
(* std::queue behind a mutex, with a condition variable on which pop        *)
(* sleeps.  A critical section is one step; taking the mutex, sleeping,     *)
(* waking up and notifying after the mutex has been released are others.    *)
(* Which thread calls what follows the threads that share a queue: the      *)
(* sender threads pop, communicate and the router poll, all of them push,   *)
(* and stop() closes.                                                       *)
(***************************************************************************)
EXTENDS Naturals, Sequences, FiniteSets

CONSTANTS
  Thread,
  Producer, Consumer, Poller, Closer,   \* the threads that call each operation
  Item, NoItem                          \* what may be pushed, and std::nullopt

ASSUME ThreadAssumption ==
  /\ IsFiniteSet(Thread)
  /\ Producer \subseteq Thread /\ Consumer \subseteq Thread
  /\ Poller \subseteq Thread /\ Closer \subseteq Thread
  /\ NoItem \notin Item

VARIABLES
  q,        \* the std::queue
  closed,
  pc,       \* pc[t]: where t is in the code of its call
  call,     \* call[t]: the call, with its argument or result
  unsent    \* bound: the items that may still be pushed

vars == <<q, closed, pc, call, unsent>>

Op   == {"push", "pop", "tryPop", "close"}
Call == [op : Op, value : Item \cup {NoItem}, threw : BOOLEAN]

\* "entering" waits for the mutex and "inside" holds it.
Place == {"idle", "entering", "inside", "asleep", "notifying", "returning"}

Init ==
  /\ q = <<>> /\ closed = FALSE
  /\ pc = [t \in Thread |-> "idle"]
  /\ call = [t \in Thread |-> [op |-> "push", value |-> NoItem, threw |-> FALSE]]
  /\ unsent = Item

-----------------------------------------------------------------------------
(* The callers.  A push that throws ends its thread.                        *)

Begin(t, op, value) ==
  /\ pc[t] = "idle" /\ ~call[t].threw
  /\ pc' = [pc EXCEPT ![t] = "entering"]
  /\ call' = [call EXCEPT ![t] = [op |-> op, value |-> value, threw |-> FALSE]]
  /\ UNCHANGED <<q, closed>>

CallPush(t) ==
  /\ t \in Producer
  /\ \E x \in unsent : Begin(t, "push", x) /\ unsent' = unsent \ {x}

\* The sender threads leave their loop once the queue is closed: stop() has
\* cleared running before, but they may come round once more.
CallPop(t) ==
  /\ t \in Consumer /\ ~(closed /\ call[t].value = NoItem)
  /\ Begin(t, "pop", NoItem) /\ UNCHANGED unsent

\* The pollers have been joined before stop() closes the queue.
CallTryPop(t) ==
  t \in Poller /\ ~closed /\ Begin(t, "tryPop", NoItem) /\ UNCHANGED unsent

CallClose(t) ==
  t \in Closer /\ ~closed /\ Begin(t, "close", NoItem) /\ UNCHANGED unsent

-----------------------------------------------------------------------------
(* The operations.                                                          *)

Enter(t) ==
  /\ pc[t] = "entering" /\ \A u \in Thread : pc[u] # "inside"
  /\ pc' = [pc EXCEPT ![t] = "inside"]
  /\ UNCHANGED <<q, closed, call, unsent>>

\* t leaves the critical section of op for place to.
Leave(t, op, to) ==
  /\ pc[t] = "inside" /\ call[t].op = op
  /\ pc' = [pc EXCEPT ![t] = to]
  /\ UNCHANGED unsent

Push(t) ==
  \/ /\ ~closed /\ Leave(t, "push", "notifying")
     /\ q' = Append(q, call[t].value)
     /\ UNCHANGED <<closed, call>>
  \/ /\ closed /\ Leave(t, "push", "returning")
     /\ call' = [call EXCEPT ![t].threw = TRUE]
     /\ UNCHANGED <<q, closed>>

\* Mutant: the item is copied and stays in the queue.
Copied(s) == s

\* What stays in the queue when its front is moved out.
Rest(s) == IF s = <<>> THEN s ELSE Tail(s)

Take(t) ==
  /\ call' = [call EXCEPT ![t].value = IF q = <<>> THEN NoItem ELSE Head(q)]
  /\ q' = Rest(q)
  /\ UNCHANGED closed

\* Mutant: the predicate of the wait forgets the close.
HasItem == q # <<>>

\* The predicate of cv.wait.
Ready == closed \/ q # <<>>

Pop(t) == Ready /\ Leave(t, "pop", "returning") /\ Take(t)

\* cv.wait releases the mutex and sleeps in one step.
Sleep(t) ==
  ~Ready /\ Leave(t, "pop", "asleep") /\ UNCHANGED <<q, closed, call>>

TryPop(t) == Leave(t, "tryPop", "returning") /\ Take(t)

Close(t) ==
  /\ Leave(t, "close", "notifying")
  /\ closed' = TRUE
  /\ UNCHANGED <<q, call>>

Asleep == {t \in Thread : pc[t] = "asleep"}

One == IF Asleep = {} THEN {{}} ELSE {{w} : w \in Asleep}

\* Mutant: push notifies only when it has found the queue empty.
WakesFirst(op) ==
  IF op = "push" THEN IF Len(q) > 1 THEN {{}} ELSE One ELSE {Asleep}

\* Mutant: push does not notify.
WakesNone(op) == IF op = "push" THEN {{}} ELSE {Asleep}

\* Mutant: close notifies one.
WakesOne(op) == One

\* The sets of sleepers that the notification of op may wake: notify_one after
\* a push, notify_all after a close.
Wakes(op) == IF op = "push" THEN One ELSE {Asleep}

Notify(t) ==
  /\ pc[t] = "notifying"
  /\ \E W \in Wakes(call[t].op) :
       pc' = [u \in Thread |-> IF u = t THEN "returning"
                               ELSE IF u \in W THEN "entering" ELSE pc[u]]
  /\ UNCHANGED <<q, closed, call, unsent>>

\* A condition variable may wake a thread that nobody notified.
SpuriousWake(t) ==
  /\ pc[t] = "asleep" /\ pc' = [pc EXCEPT ![t] = "entering"]
  /\ UNCHANGED <<q, closed, call, unsent>>

Return(t) ==
  /\ pc[t] = "returning" /\ pc' = [pc EXCEPT ![t] = "idle"]
  /\ UNCHANGED <<q, closed, call, unsent>>

-----------------------------------------------------------------------------
Inside(t) == Push(t) \/ Pop(t) \/ Sleep(t) \/ TryPop(t) \/ Close(t)

Next == \E t \in Thread :
  \/ CallPush(t) \/ CallPop(t) \/ CallTryPop(t) \/ CallClose(t)
  \/ Enter(t) \/ Inside(t) \/ Notify(t) \/ SpuriousWake(t) \/ Return(t)

Spec == Init /\ [][Next]_vars

\* A thread in a call goes on; a consumer calls pop again while the queue is
\* open.  Nobody needs to push, poll or close.
Fairness == \A t \in Thread :
  /\ WF_vars(Enter(t)) /\ WF_vars(Inside(t))
  /\ WF_vars(Notify(t)) /\ WF_vars(Return(t))
  /\ WF_vars(~closed /\ CallPop(t))

FairSpec == Spec /\ Fairness

-----------------------------------------------------------------------------
(* Properties.                                                              *)

\* Threads on their way to the queue's items: pushers that have still to
\* notify, and poppers that are awake.
Waking ==
  {t \in Thread : \/ pc[t] = "notifying" /\ call[t].op = "push"
                  \/ pc[t] \in {"entering", "inside"} /\ call[t].op = "pop"}

\* No wake-up is lost (push notifies after it has released the mutex): while a
\* thread sleeps in pop, each item has a thread coming for it.
NoLostWakeup == Asleep # {} => Len(q) <= Cardinality(Waking)

\* Nobody sleeps on a closed queue, except until close has notified.
CloseWakesAll ==
  closed /\ Asleep # {} =>
    \E t \in Thread : pc[t] = "notifying" /\ call[t].op = "close"

\* An item that was pushed on an open queue does not stay there (pop).
Drained == q # <<>> ~> q = <<>> \/ closed

\* Once the queue is closed, every pop returns (pop, close).
PopsEnd == closed ~> \A t \in Consumer : pc[t] = "idle"

\* The call seen from outside: the mutex, the sleep and the notification are
\* hidden, and it has taken effect when it leaves its critical section.
Stage(place) ==
  CASE place = "idle"                             -> "idle"
    [] place \in {"entering", "inside", "asleep"} -> "pending"
    [] OTHER                                      -> "done"

Stages == [t \in Thread |-> Stage(pc[t])]

Abstract == INSTANCE AtomicQueue WITH contents <- q, stage <- Stages

\* Every call takes effect at one moment, in first-in first-out order, each
\* item once (push, pop, tryPop and close of ThreadSafeQueue).
IsAtomicQueue == Abstract!Spec

=============================================================================
