------------------------ MODULE BlockingQueueProofs ------------------------
(* The theorems about ThreadSafeQueue: no wake-up is lost, close wakes every *)
(* sleeper, and the queue implements AtomicQueue.                            *)
EXTENDS BlockingQueue, FiniteSetTheorems, SequenceTheorems, TLAPS

TypeOK ==
  /\ q \in Seq(Item) /\ closed \in BOOLEAN
  /\ pc \in [Thread -> Place] /\ call \in [Thread -> Call]
  /\ unsent \subseteq Item

\* What the place of a thread says of its call: only poppers sleep, and a
\* pusher that is not done has an item.
CallsFit ==
  \A t \in Thread :
    /\ pc[t] = "asleep" => call[t].op = "pop"
    /\ pc[t] \in {"entering", "inside"} /\ call[t].op = "push"
         => call[t].value \in Item

QInv == TypeOK /\ CallsFit /\ NoLostWakeup /\ CloseWakesAll

-----------------------------------------------------------------------------
(* Counting.                                                                *)

\* The threads on their way to an item are finitely many.
LEMMA WakingFinite ==
  /\ IsFiniteSet(Waking) /\ Cardinality(Waking) \in Nat
  /\ \A S \in SUBSET Thread : IsFiniteSet(S) /\ Cardinality(S) \in Nat
  <1>1. \A S \in SUBSET Thread : IsFiniteSet(S) /\ Cardinality(S) \in Nat
    BY ThreadAssumption, FS_Subset, FS_CardinalityType
  <1>2. Waking \in SUBSET Thread
    BY DEF Waking
  <1> QED
    BY <1>1, <1>2

\* A step that puts nobody to sleep, adds no item and stops nobody who is on
\* the way loses no wake-up.
LEMMA NothingLost ==
  ASSUME QInv, Asleep' \subseteq Asleep, Waking \subseteq Waking',
         Len(q') <= Len(q), q' \in Seq(Item)
  PROVE  NoLostWakeup'
  <1>1. Waking' \in SUBSET Thread
    BY DEF Waking
  <1>2. IsFiniteSet(Waking') /\ Cardinality(Waking') \in Nat
    BY <1>1, WakingFinite
  <1>3. Cardinality(Waking) <= Cardinality(Waking')
    BY <1>2, FS_Subset
  <1>4. Len(q) \in Nat /\ Len(q') \in Nat
    BY DEF QInv, TypeOK
  <1>5. ASSUME Asleep' # {} PROVE Len(q) <= Cardinality(Waking)
    BY <1>5 DEF QInv, NoLostWakeup
  <1> QED
    BY <1>2, <1>3, <1>4, <1>5, WakingFinite DEF NoLostWakeup

-----------------------------------------------------------------------------
(* The type and the fit of the calls.                                       *)

\* An empty open queue with all threads idle.
LEMMA InitQInv == Init => QInv
  <1> SUFFICES ASSUME Init PROVE QInv
    OBVIOUS
  <1>1. TypeOK
    <2>1. call \in [Thread -> Call]
      BY DEF Init, Call, Op
    <2>2. pc \in [Thread -> Place]
      BY DEF Init, Place
    <2>3. q \in Seq(Item)
      BY DEF Init
    <2> QED
      BY <2>1, <2>2, <2>3 DEF Init, TypeOK
  <1>2. CallsFit
    BY DEF Init, CallsFit
  <1>3. Asleep = {}
    BY DEF Init, Asleep
  <1> QED
    BY <1>1, <1>2, <1>3 DEF QInv, NoLostWakeup, CloseWakesAll

\* One place and one call change.
LEMMA MoveTyped ==
  ASSUME TypeOK, NEW t \in Thread, NEW to \in Place, NEW c \in Call,
         pc' = [pc EXCEPT ![t] = to], call' = [call EXCEPT ![t] = c]
  PROVE  /\ pc' \in [Thread -> Place] /\ call' \in [Thread -> Call]
         /\ \A u \in Thread : /\ pc'[u] = IF u = t THEN to ELSE pc[u]
                              /\ call'[u] = IF u = t THEN c ELSE call[u]
  BY DEF TypeOK

\* A call begins: nothing is lost, whatever is called.
LEMMA BeginStep ==
  ASSUME QInv, NEW t \in Thread, NEW op \in Op, NEW value \in Item \cup {NoItem},
         op = "push" => value \in Item,
         Begin(t, op, value), unsent' \subseteq Item
  PROVE  QInv'
  <1> DEFINE c == [op |-> op, value |-> value, threw |-> FALSE]
  <1>1. c \in Call
    BY DEF Call
  <1>2. /\ pc' = [pc EXCEPT ![t] = "entering"] /\ call' = [call EXCEPT ![t] = c]
        /\ pc[t] = "idle" /\ q' = q /\ closed' = closed
    BY DEF Begin
  <1>3. /\ pc' \in [Thread -> Place] /\ call' \in [Thread -> Call]
        /\ \A u \in Thread : /\ pc'[u] = IF u = t THEN "entering" ELSE pc[u]
                             /\ call'[u] = IF u = t THEN c ELSE call[u]
    <2>1. "entering" \in Place
      BY DEF Place
    <2> HIDE DEF c
    <2> QED
      BY <1>1, <1>2, <2>1, MoveTyped DEF QInv
  <1>4. TypeOK'
    BY <1>2, <1>3 DEF QInv, TypeOK
  <1>5. CallsFit'
    BY <1>3 DEF QInv, CallsFit
  <1>6. NoLostWakeup'
    <2>1. Asleep' \subseteq Asleep
      BY <1>3 DEF Asleep
    <2>2. Waking \subseteq Waking'
      BY <1>2, <1>3 DEF Waking
    <2>3. Len(q') <= Len(q) /\ q' \in Seq(Item)
      BY <1>2 DEF QInv, TypeOK
    <2> QED
      BY <2>1, <2>2, <2>3, NothingLost
  <1>7. CloseWakesAll'
    BY <1>2, <1>3 DEF QInv, CloseWakesAll, Asleep
  <1> QED
    BY <1>4, <1>5, <1>6, <1>7 DEF QInv

\* All four calls begin in this way.
LEMMA CallStep ==
  ASSUME QInv, NEW t \in Thread,
         CallPush(t) \/ CallPop(t) \/ CallTryPop(t) \/ CallClose(t)
  PROVE  QInv'
  <1>1. CASE CallPush(t)
    <2>1. PICK x \in unsent : Begin(t, "push", x) /\ unsent' = unsent \ {x}
      BY <1>1 DEF CallPush
    <2>2. x \in Item /\ unsent' \subseteq Item
      BY <2>1 DEF QInv, TypeOK
    <2> QED
      BY <2>1, <2>2, BeginStep DEF Op
  <1>2. CASE CallPop(t) \/ CallTryPop(t) \/ CallClose(t)
    <2>1. /\ unsent' \subseteq Item
          /\ \/ Begin(t, "pop", NoItem) \/ Begin(t, "tryPop", NoItem)
             \/ Begin(t, "close", NoItem)
      BY <1>2 DEF CallPop, CallTryPop, CallClose, QInv, TypeOK
    <2> QED
      BY <2>1, BeginStep DEF Op
  <1> QED
    BY <1>1, <1>2

-----------------------------------------------------------------------------
(* The steps of the operations.                                             *)

\* A thread moves on without touching the queue or its call, and neither is
\* on its way to an item before the step only, nor falls asleep.
LEMMA MoveStep ==
  ASSUME QInv, NEW t \in Thread, Enter(t) \/ SpuriousWake(t) \/ Return(t)
  PROVE  QInv'
  <1>1. PICK to \in {"inside", "entering", "idle"} :
          /\ pc' = [pc EXCEPT ![t] = to]
          /\ \/ pc[t] = "entering" /\ to = "inside"
             \/ pc[t] = "asleep" /\ to = "entering"
             \/ pc[t] = "returning" /\ to = "idle"
    BY DEF Enter, SpuriousWake, Return
  <1>2. q' = q /\ closed' = closed /\ call' = call /\ unsent' = unsent
    BY DEF Enter, SpuriousWake, Return
  <1>3. /\ pc' \in [Thread -> Place]
        /\ \A u \in Thread : pc'[u] = IF u = t THEN to ELSE pc[u]
    BY <1>1 DEF QInv, TypeOK, Place
  <1>4. TypeOK'
    BY <1>2, <1>3 DEF QInv, TypeOK
  <1>5. CallsFit'
    BY <1>1, <1>2, <1>3 DEF QInv, CallsFit
  <1>6. NoLostWakeup'
    <2>1. Asleep' \subseteq Asleep
      BY <1>1, <1>3 DEF Asleep
    <2>2. Waking \subseteq Waking'
      BY <1>1, <1>2, <1>3 DEF Waking
    <2>3. Len(q') <= Len(q) /\ q' \in Seq(Item)
      BY <1>2 DEF QInv, TypeOK
    <2> QED
      BY <2>1, <2>2, <2>3, NothingLost
  <1>7. CloseWakesAll'
    BY <1>1, <1>2, <1>3 DEF QInv, CloseWakesAll, Asleep
  <1> QED
    BY <1>4, <1>5, <1>6, <1>7 DEF QInv

\* Leaving the critical section moves one thread.
LEMMA LeaveMoves ==
  ASSUME QInv, NEW t \in Thread, NEW op \in Op, NEW to \in Place,
         Leave(t, op, to)
  PROVE  /\ pc[t] = "inside" /\ call[t].op = op
         /\ pc' \in [Thread -> Place] /\ unsent' = unsent
         /\ \A u \in Thread : pc'[u] = IF u = t THEN to ELSE pc[u]
  BY DEF Leave, QInv, TypeOK

\* An accepted push adds an item and a thread that will notify.
LEMMA PushStep ==
  ASSUME QInv, NEW t \in Thread, Push(t)
  PROVE  QInv'
  <1>1. CASE ~closed /\ Leave(t, "push", "notifying")
             /\ q' = Append(q, call[t].value) /\ UNCHANGED <<closed, call>>
    <2>1. /\ pc[t] = "inside" /\ call[t].op = "push"
          /\ pc' \in [Thread -> Place] /\ unsent' = unsent
          /\ \A u \in Thread : pc'[u] = IF u = t THEN "notifying" ELSE pc[u]
      BY <1>1, LeaveMoves DEF Op, Place
    <2>2. call[t].value \in Item
      BY <2>1 DEF QInv, CallsFit
    <2>3. q' \in Seq(Item) /\ Len(q') = Len(q) + 1 /\ Len(q) \in Nat
      BY <1>1, <2>2 DEF QInv, TypeOK
    <2>4. TypeOK'
      BY <1>1, <2>1, <2>3 DEF QInv, TypeOK
    <2>5. CallsFit'
      BY <1>1, <2>1 DEF QInv, CallsFit
    <2>6. NoLostWakeup'
      <3>1. Waking' = Waking \cup {t} /\ t \notin Waking
        BY <1>1, <2>1 DEF Waking
      <3>2. Cardinality(Waking') = Cardinality(Waking) + 1
        BY <3>1, WakingFinite, FS_AddElement
      <3>3. Asleep' = Asleep
        BY <2>1 DEF Asleep
      <3> QED
        BY <2>3, <3>2, <3>3, WakingFinite DEF QInv, NoLostWakeup
    <2>7. CloseWakesAll'
      BY <1>1 DEF CloseWakesAll
    <2> QED
      BY <2>4, <2>5, <2>6, <2>7 DEF QInv
  <1>2. CASE closed /\ Leave(t, "push", "returning")
             /\ call' = [call EXCEPT ![t].threw = TRUE] /\ UNCHANGED <<q, closed>>
    <2>1. /\ pc[t] = "inside" /\ call[t].op = "push"
          /\ pc' \in [Thread -> Place] /\ unsent' = unsent
          /\ \A u \in Thread : pc'[u] = IF u = t THEN "returning" ELSE pc[u]
      BY <1>2, LeaveMoves DEF Op, Place
    <2>2. /\ call' \in [Thread -> Call]
          /\ \A u \in Thread : /\ call'[u].op = call[u].op
                               /\ call'[u].value = call[u].value
      BY <1>2 DEF QInv, TypeOK, Call
    <2>3. TypeOK'
      BY <1>2, <2>1, <2>2 DEF QInv, TypeOK
    <2>4. CallsFit'
      BY <2>1, <2>2 DEF QInv, CallsFit
    <2>5. NoLostWakeup'
      <3>1. Asleep' \subseteq Asleep
        BY <2>1 DEF Asleep
      <3>2. Waking \subseteq Waking'
        BY <2>1, <2>2 DEF Waking
      <3>3. Len(q') <= Len(q) /\ q' \in Seq(Item)
        BY <1>2 DEF QInv, TypeOK
      <3> QED
        BY <3>1, <3>2, <3>3, NothingLost
    <2>6. CloseWakesAll'
      BY <1>2, <2>1, <2>2 DEF QInv, CloseWakesAll, Asleep
    <2> QED
      BY <2>3, <2>4, <2>5, <2>6 DEF QInv
  <1> QED
    BY <1>1, <1>2 DEF Push

\* The front leaves with a thread that was on its way; or there is none.
LEMMA RestTyped ==
  ASSUME TypeOK
  PROVE  /\ Rest(q) \in Seq(Item) /\ Len(Rest(q)) \in Nat /\ Len(q) \in Nat
         /\ q = <<>> => Len(Rest(q)) = 0
         /\ q # <<>> => Len(Rest(q)) = Len(q) - 1 /\ Head(q) \in Item
  BY DEF TypeOK, Rest

\* The call of a thread that takes gets its result.
LEMMA TakeTyped ==
  ASSUME TypeOK, NEW t \in Thread, Take(t)
  PROVE  /\ q' = Rest(q) /\ closed' = closed
         /\ call' \in [Thread -> Call]
         /\ \A u \in Thread : call'[u].op = call[u].op
         /\ \A u \in Thread \ {t} : call'[u] = call[u]
  <1> DEFINE v == IF q = <<>> THEN NoItem ELSE Head(q)
  <1>1. v \in Item \cup {NoItem}
    BY RestTyped
  <1>2. call' = [call EXCEPT ![t].value = v] /\ q' = Rest(q) /\ closed' = closed
    BY DEF Take
  <1> HIDE DEF v
  <1>3. call' \in [Thread -> Call]
    BY <1>1, <1>2 DEF TypeOK, Call
  <1>4. \A u \in Thread : call'[u].op = call[u].op
    BY <1>2 DEF TypeOK, Call
  <1>5. \A u \in Thread \ {t} : call'[u] = call[u]
    BY <1>2 DEF TypeOK
  <1> QED
    BY <1>2, <1>3, <1>4, <1>5

\* What both kinds of pop have in common.
LEMMA TakingStep ==
  ASSUME QInv, NEW t \in Thread, NEW op \in {"pop", "tryPop"},
         Leave(t, op, "returning"), Take(t)
  PROVE  /\ TypeOK' /\ CallsFit' /\ CloseWakesAll' /\ Asleep' = Asleep
         /\ Waking' = IF op = "pop" THEN Waking \ {t} ELSE Waking
         /\ op = "pop" => t \in Waking
  <1>1. /\ pc[t] = "inside" /\ call[t].op = op
        /\ pc' \in [Thread -> Place] /\ unsent' = unsent
        /\ \A u \in Thread : pc'[u] = IF u = t THEN "returning" ELSE pc[u]
    BY LeaveMoves DEF Op, Place
  <1>2. /\ q' = Rest(q) /\ closed' = closed /\ call' \in [Thread -> Call]
        /\ \A u \in Thread : call'[u].op = call[u].op
        /\ \A u \in Thread \ {t} : call'[u] = call[u]
    BY TakeTyped DEF QInv
  <1>3. TypeOK'
    BY <1>1, <1>2, RestTyped DEF QInv, TypeOK
  <1>4. CallsFit'
    BY <1>1, <1>2 DEF QInv, CallsFit
  <1>5. Asleep' = Asleep
    BY <1>1 DEF Asleep
  <1>6. CloseWakesAll'
    BY <1>1, <1>2, <1>5 DEF QInv, CloseWakesAll
  <1>7. /\ Waking' = IF op = "pop" THEN Waking \ {t} ELSE Waking
        /\ op = "pop" => t \in Waking
    BY <1>1, <1>2 DEF Waking
  <1> QED
    BY <1>3, <1>4, <1>5, <1>6, <1>7

\* A pop takes an item and is no longer on its way.
LEMMA PopStep ==
  ASSUME QInv, NEW t \in Thread, Pop(t)
  PROVE  QInv'
  <1>1. /\ TypeOK' /\ CallsFit' /\ CloseWakesAll' /\ Asleep' = Asleep
        /\ Waking' = Waking \ {t} /\ t \in Waking
    BY TakingStep DEF Pop
  <1>2. q' = Rest(q)
    BY DEF Pop, Take
  <1>3. Cardinality(Waking') = Cardinality(Waking) - 1
    BY <1>1, WakingFinite, FS_RemoveElement
  <1>4. Cardinality(Waking') \in Nat
    <2>1. Waking' \in SUBSET Thread
      BY DEF Waking
    <2> QED
      BY <2>1, WakingFinite
  <1>5. NoLostWakeup'
    BY <1>1, <1>2, <1>3, <1>4, RestTyped, WakingFinite DEF QInv, NoLostWakeup
  <1> QED
    BY <1>1, <1>5 DEF QInv

\* tryPop takes an item or nothing, and never sleeps.
LEMMA TryPopStep ==
  ASSUME QInv, NEW t \in Thread, TryPop(t)
  PROVE  QInv'
  <1>1. /\ TypeOK' /\ CallsFit' /\ CloseWakesAll' /\ Asleep' = Asleep
        /\ Waking' = Waking
    BY TakingStep DEF TryPop
  <1>2. q' = Rest(q)
    BY DEF TryPop, Take
  <1>3. Len(q') <= Len(q) /\ q' \in Seq(Item)
    BY <1>2, RestTyped DEF QInv
  <1>4. NoLostWakeup'
    BY <1>1, <1>3, NothingLost
  <1> QED
    BY <1>1, <1>4 DEF QInv

\* Nobody sleeps unless the queue is empty and open.
LEMMA SleepStep ==
  ASSUME QInv, NEW t \in Thread, Sleep(t)
  PROVE  QInv'
  <1>1. /\ pc[t] = "inside" /\ call[t].op = "pop"
        /\ pc' \in [Thread -> Place] /\ unsent' = unsent
        /\ \A u \in Thread : pc'[u] = IF u = t THEN "asleep" ELSE pc[u]
    BY LeaveMoves DEF Sleep, Op, Place
  <1>2. q' = q /\ closed' = closed /\ call' = call /\ q = <<>> /\ ~closed
    BY DEF Sleep, Ready
  <1>3. TypeOK'
    BY <1>1, <1>2 DEF QInv, TypeOK
  <1>4. CallsFit'
    BY <1>1, <1>2 DEF QInv, CallsFit
  <1>5. NoLostWakeup'
    <2>1. Waking' \in SUBSET Thread
      BY DEF Waking
    <2>2. Cardinality(Waking') \in Nat
      BY <2>1, WakingFinite
    <2>3. Len(q') = 0
      BY <1>2
    <2> QED
      BY <2>2, <2>3 DEF NoLostWakeup
  <1>6. CloseWakesAll'
    BY <1>2 DEF CloseWakesAll
  <1> QED
    BY <1>3, <1>4, <1>5, <1>6 DEF QInv

\* close owes a notification to all that sleep.
LEMMA CloseStep ==
  ASSUME QInv, NEW t \in Thread, Close(t)
  PROVE  QInv'
  <1>1. /\ pc[t] = "inside" /\ call[t].op = "close"
        /\ pc' \in [Thread -> Place] /\ unsent' = unsent
        /\ \A u \in Thread : pc'[u] = IF u = t THEN "notifying" ELSE pc[u]
    BY LeaveMoves DEF Close, Op, Place
  <1>2. q' = q /\ closed' = TRUE /\ call' = call
    BY DEF Close
  <1>3. TypeOK'
    BY <1>1, <1>2 DEF QInv, TypeOK
  <1>4. CallsFit'
    BY <1>1, <1>2 DEF QInv, CallsFit
  <1>5. NoLostWakeup'
    <2>1. Asleep' \subseteq Asleep
      BY <1>1 DEF Asleep
    <2>2. Waking \subseteq Waking'
      BY <1>1, <1>2 DEF Waking
    <2>3. Len(q') <= Len(q) /\ q' \in Seq(Item)
      BY <1>2 DEF QInv, TypeOK
    <2> QED
      BY <2>1, <2>2, <2>3, NothingLost
  <1>6. CloseWakesAll'
    BY <1>1, <1>2 DEF CloseWakesAll
  <1> QED
    BY <1>3, <1>4, <1>5, <1>6 DEF QInv

-----------------------------------------------------------------------------
(* The notification.                                                        *)

\* notify_one hands the notifier's item on to a sleeper; notify_all leaves
\* nobody asleep.
LEMMA NotifyStep ==
  ASSUME QInv, NEW t \in Thread, Notify(t)
  PROVE  QInv'
  <1>1. PICK W \in Wakes(call[t].op) :
          pc' = [u \in Thread |-> IF u = t THEN "returning"
                                  ELSE IF u \in W THEN "entering" ELSE pc[u]]
    BY DEF Notify
  <1>2. /\ pc[t] = "notifying"
        /\ q' = q /\ closed' = closed /\ call' = call /\ unsent' = unsent
    BY DEF Notify
  <1>3. W \subseteq Asleep /\ t \notin W
    BY <1>1, <1>2 DEF Wakes, One, Asleep
  <1>4. TypeOK'
    BY <1>1, <1>2 DEF QInv, TypeOK, Place
  <1>5. CallsFit'
    BY <1>1, <1>2, <1>3 DEF QInv, CallsFit, Asleep
  <1>6. Asleep' = Asleep \ W
    BY <1>1, <1>2, <1>3 DEF Asleep
  <1>7. CASE call[t].op # "push" \/ Asleep = {}
    <2>1. Asleep' = {}
      BY <1>1, <1>6, <1>7 DEF Wakes, One
    <2> QED
      BY <1>4, <1>5, <2>1 DEF QInv, NoLostWakeup, CloseWakesAll
  <1>8. CASE call[t].op = "push" /\ Asleep # {}
    <2>1. PICK w \in Asleep : W = {w}
      BY <1>1, <1>8 DEF Wakes, One
    <2>2. w \in Thread /\ w # t /\ pc[w] = "asleep" /\ call[w].op = "pop"
      BY <1>2, <2>1 DEF Asleep, QInv, CallsFit
    <2>3. /\ Waking' = (Waking \ {t}) \cup {w}
          /\ t \in Waking /\ w \notin Waking \ {t} /\ Waking \ {t} \in SUBSET Thread
      BY <1>1, <1>2, <1>8, <2>1, <2>2 DEF Waking
    <2>4. Cardinality(Waking') = Cardinality(Waking)
      <3>1. Cardinality(Waking \ {t}) = Cardinality(Waking) - 1
        BY <2>3, WakingFinite, FS_RemoveElement
      <3>2. IsFiniteSet(Waking \ {t})
        BY <2>3, WakingFinite
      <3>3. Cardinality(Waking') = Cardinality(Waking \ {t}) + 1
        BY <2>3, <3>2, FS_AddElement
      <3> QED
        BY <3>1, <3>3, WakingFinite
    <2>5. NoLostWakeup'
      BY <1>2, <1>8, <2>4 DEF QInv, NoLostWakeup
    <2>6. CloseWakesAll'
      BY <1>1, <1>2, <1>6, <1>8, <2>1, <2>2 DEF QInv, CloseWakesAll
    <2> QED
      BY <1>4, <1>5, <2>5, <2>6 DEF QInv
  <1> QED
    BY <1>7, <1>8

-----------------------------------------------------------------------------
(* The theorems.                                                            *)

\* Every step keeps the invariant.
LEMMA NextQInv ==
  ASSUME QInv, [Next]_vars
  PROVE  QInv'
  <1>1. CASE UNCHANGED vars
    BY <1>1 DEF vars, QInv, TypeOK, CallsFit, NoLostWakeup, CloseWakesAll,
       Waking, Asleep
  <1>2. CASE Next
    <2>1. PICK t \in Thread :
            \/ CallPush(t) \/ CallPop(t) \/ CallTryPop(t) \/ CallClose(t)
            \/ Enter(t) \/ Inside(t) \/ Notify(t) \/ SpuriousWake(t)
            \/ Return(t)
      BY <1>2 DEF Next
    <2> QED
      BY <2>1, CallStep, MoveStep, PushStep, PopStep, SleepStep, TryPopStep,
         CloseStep, NotifyStep DEF Inside
  <1> QED
    BY <1>1, <1>2

\* QInv is inductive: what the places say of the calls is what makes the
\* count of NoLostWakeup come out.
THEOREM QueueInvariant == Spec => []QInv
  <1>1. QInv /\ [Next]_vars => QInv'
    BY NextQInv
  <1> QED
    BY <1>1, InitQInv, PTL DEF Spec

\* For any number of pushers and poppers, no wake-up is lost.
THEOREM WakeupsKept == Spec => []NoLostWakeup
  <1>1. QInv => NoLostWakeup
    BY DEF QInv
  <1> QED
    BY <1>1, QueueInvariant, PTL

\* For any number of poppers, close leaves none of them asleep.
THEOREM CloseIsHeard == Spec => []CloseWakesAll
  <1>1. QInv => CloseWakesAll
    BY DEF QInv
  <1> QED
    BY <1>1, QueueInvariant, PTL

-----------------------------------------------------------------------------
(* The queue implements AtomicQueue.                                        *)

\* The queue begins as the abstract one does.
LEMMA InitAbstract == Init => Abstract!Init
  <1> SUFFICES ASSUME Init PROVE Abstract!Init
    OBVIOUS
  <1>1. Stages = [t \in Thread |-> "idle"]
    BY DEF Init, Stages, Stage
  <1>2. call \in [Thread -> Call]
    BY InitQInv DEF QInv, TypeOK
  <1> QED
    BY <1>1, <1>2 DEF Init, Abstract!Init, Call, Op, Abstract!Call, Abstract!Op

\* One thread that changes its place changes one stage.
LEMMA StagesMove ==
  ASSUME TypeOK, NEW t \in Thread, NEW to \in Place, pc' = [pc EXCEPT ![t] = to]
  PROVE  /\ Stages' = [Stages EXCEPT ![t] = Stage(to)]
         /\ Stages[t] = Stage(pc[t])
  BY DEF TypeOK, Stages

\* A step that does not change a stage is not seen.
LEMMA StagesStay ==
  ASSUME \A u \in Thread : Stage(pc'[u]) = Stage(pc[u])
  PROVE  Stages' = Stages
  BY DEF Stages

\* A call begins: it is pending.
LEMMA BeginAbstract ==
  ASSUME QInv, NEW t \in Thread, NEW op \in Op, NEW value \in Item \cup {NoItem},
         Begin(t, op, value)
  PROVE  Abstract!Invoke(t)
  <1>1. /\ Stages' = [Stages EXCEPT ![t] = "pending"]
        /\ Stages[t] = "idle"
    BY StagesMove DEF Begin, Stage, Place, QInv
  <1>2. \E c \in Abstract!Call : ~c.threw /\ call' = [call EXCEPT ![t] = c]
    BY DEF Begin, Abstract!Call, Abstract!Op, Op
  <1> QED
    BY <1>1, <1>2 DEF Begin, Abstract!Invoke

\* The calls of the threads are calls of the abstract queue.
LEMMA CallAbstract ==
  ASSUME QInv, NEW t \in Thread,
         CallPush(t) \/ CallPop(t) \/ CallTryPop(t) \/ CallClose(t)
  PROVE  Abstract!Invoke(t)
  <1>1. PICK op \in Op, value \in Item \cup {NoItem} : Begin(t, op, value)
    BY DEF CallPush, CallPop, CallTryPop, CallClose, Op, QInv, TypeOK
  <1> QED
    BY <1>1, BeginAbstract

\* Leaving the critical section with the result is where a call takes effect.
LEMMA LeaveAbstract ==
  ASSUME QInv, NEW t \in Thread, NEW op \in Op,
         NEW to \in {"notifying", "returning"}, Leave(t, op, to)
  PROVE  Abstract!Takes(t, op)
  <1>1. Stages' = [Stages EXCEPT ![t] = "done"] /\ Stages[t] = "pending"
    BY StagesMove DEF Leave, Stage, Place, QInv
  <1> QED
    BY <1>1 DEF Leave, Abstract!Takes

\* Taking the mutex is not seen.
LEMMA TakeAbstract ==
  ASSUME NEW t \in Thread, Take(t)
  PROVE  Abstract!Take(t)
  BY DEF Take, Rest, Abstract!Take

\* A critical section is the one step of the abstract call.
LEMMA InsideAbstract ==
  ASSUME QInv, NEW t \in Thread, Inside(t)
  PROVE  Abstract!Next \/ UNCHANGED Abstract!vars
  <1>1. CASE Push(t)
    <2>1. Abstract!Push(t)
      BY <1>1, LeaveAbstract DEF Push, Abstract!Push, Op
    <2> QED
      BY <2>1 DEF Abstract!Next
  <1>2. CASE Pop(t)
    <2>1. Abstract!Takes(t, "pop") /\ Abstract!Take(t)
      BY <1>2, LeaveAbstract, TakeAbstract DEF Pop, Op
    <2>2. Abstract!Pop(t)
      BY <1>2, <2>1 DEF Pop, Ready, Abstract!Pop
    <2> QED
      BY <2>2 DEF Abstract!Next
  <1>3. CASE TryPop(t)
    <2>1. Abstract!TryPop(t)
      BY <1>3, LeaveAbstract, TakeAbstract DEF TryPop, Abstract!TryPop, Op
    <2> QED
      BY <2>1 DEF Abstract!Next
  <1>4. CASE Close(t)
    <2>1. Abstract!Close(t)
      BY <1>4, LeaveAbstract DEF Close, Abstract!Close, Op
    <2> QED
      BY <2>1 DEF Abstract!Next
  <1>5. CASE Sleep(t)
    <2>1. \A u \in Thread : Stage(pc'[u]) = Stage(pc[u])
      BY <1>5 DEF Sleep, Leave, Stage, QInv, TypeOK
    <2> QED
      BY <1>5, <2>1, StagesStay DEF Sleep, Abstract!vars
  <1> QED
    BY <1>1, <1>2, <1>3, <1>4, <1>5 DEF Inside

\* Every step of the queue is a step of AtomicQueue or none.
LEMMA NextAbstract ==
  ASSUME QInv, [Next]_vars
  PROVE  [Abstract!Next]_Abstract!vars
  <1>1. CASE UNCHANGED vars
    BY <1>1 DEF vars, Abstract!vars, Stages
  <1>2. CASE Next
    <2>1. PICK t \in Thread :
            \/ CallPush(t) \/ CallPop(t) \/ CallTryPop(t) \/ CallClose(t)
            \/ Enter(t) \/ Inside(t) \/ Notify(t) \/ SpuriousWake(t)
            \/ Return(t)
      BY <1>2 DEF Next
    <2>2. CASE CallPush(t) \/ CallPop(t) \/ CallTryPop(t) \/ CallClose(t)
      BY <2>2, CallAbstract DEF Abstract!Next
    <2>3. CASE Inside(t)
      BY <2>3, InsideAbstract
    <2>4. CASE Enter(t) \/ SpuriousWake(t)
      <3>1. \A u \in Thread : Stage(pc'[u]) = Stage(pc[u])
        BY <2>4 DEF Enter, SpuriousWake, Stage, QInv, TypeOK
      <3> QED
        BY <2>4, <3>1, StagesStay DEF Enter, SpuriousWake, Abstract!vars
    <2>5. CASE Notify(t)
      <3>1. PICK W \in Wakes(call[t].op) :
              pc' = [u \in Thread |-> IF u = t THEN "returning"
                                      ELSE IF u \in W THEN "entering" ELSE pc[u]]
        BY <2>5 DEF Notify
      <3>2. \A u \in W : pc[u] = "asleep"
        BY DEF Wakes, One, Asleep
      <3>3. \A u \in Thread : Stage(pc'[u]) = Stage(pc[u])
        BY <2>5, <3>1, <3>2 DEF Notify, Stage
      <3> QED
        BY <2>5, <3>3, StagesStay DEF Notify, Abstract!vars
    <2>6. CASE Return(t)
      <3>1. Stages' = [Stages EXCEPT ![t] = "idle"] /\ Stages[t] = "done"
        BY <2>6, StagesMove DEF Return, Stage, Place, QInv
      <3>2. Abstract!Return(t)
        BY <2>6, <3>1 DEF Return, Abstract!Return
      <3> QED
        BY <3>2 DEF Abstract!Next
    <2> QED
      BY <2>1, <2>2, <2>3, <2>4, <2>5, <2>6
  <1> QED
    BY <1>1, <1>2

\* For any threads and items, ThreadSafeQueue is an atomic first-in first-out
\* queue: no item is lost, repeated or overtaken.
THEOREM ImplementsAtomicQueue == Spec => IsAtomicQueue
  <1>1. QInv /\ [Next]_vars => [Abstract!Next]_Abstract!vars
    BY NextAbstract
  <1> QED
    BY <1>1, InitAbstract, QueueInvariant, PTL
    DEF Spec, IsAtomicQueue, Abstract!Spec

=============================================================================
