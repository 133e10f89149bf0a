---------------------------- MODULE AtomicQueue ----------------------------
(***************************************************************************)
(* What ThreadSafeQueue promises its callers: each call takes effect in one *)
(* step between its invocation and its return, on a first-in first-out      *)
(* sequence that can be closed.                                             *)
(***************************************************************************)
EXTENDS Sequences

CONSTANTS Thread, Item, NoItem

VARIABLES
  contents,   \* what has been pushed and not yet popped
  closed,     \* close() has been called
  stage,      \* stage[t]: where t is in its call
  call        \* call[t]: t's last call, its argument or result

vars == <<contents, closed, stage, call>>

Op   == {"push", "pop", "tryPop", "close"}
Call == [op : Op, value : Item \cup {NoItem}, threw : BOOLEAN]

Init ==
  /\ contents = <<>> /\ closed = FALSE
  /\ stage = [t \in Thread |-> "idle"]
  /\ call \in [Thread -> Call]

Invoke(t) ==
  /\ stage[t] = "idle" /\ stage' = [stage EXCEPT ![t] = "pending"]
  /\ \E c \in Call : ~c.threw /\ call' = [call EXCEPT ![t] = c]
  /\ UNCHANGED <<contents, closed>>

Takes(t, op) ==
  /\ stage[t] = "pending" /\ call[t].op = op
  /\ stage' = [stage EXCEPT ![t] = "done"]

\* A push on a closed queue throws, and changes nothing.
Push(t) ==
  /\ Takes(t, "push") /\ UNCHANGED closed
  /\ \/ /\ closed
        /\ call' = [call EXCEPT ![t].threw = TRUE]
        /\ UNCHANGED contents
     \/ /\ ~closed
        /\ contents' = Append(contents, call[t].value)
        /\ UNCHANGED call

Take(t) ==
  /\ UNCHANGED closed
  /\ \/ /\ contents = <<>>
        /\ call' = [call EXCEPT ![t].value = NoItem]
        /\ UNCHANGED contents
     \/ /\ contents # <<>>
        /\ call' = [call EXCEPT ![t].value = Head(contents)]
        /\ contents' = Tail(contents)

\* A pop waits for an item or for the close.
Pop(t) == Takes(t, "pop") /\ (closed \/ contents # <<>>) /\ Take(t)

TryPop(t) == Takes(t, "tryPop") /\ Take(t)

Close(t) ==
  /\ Takes(t, "close")
  /\ closed' = TRUE
  /\ UNCHANGED <<contents, call>>

Return(t) ==
  /\ stage[t] = "done" /\ stage' = [stage EXCEPT ![t] = "idle"]
  /\ UNCHANGED <<contents, closed, call>>

Next == \E t \in Thread :
  Invoke(t) \/ Push(t) \/ Pop(t) \/ TryPop(t) \/ Close(t) \/ Return(t)

Spec == Init /\ [][Next]_vars

=============================================================================
