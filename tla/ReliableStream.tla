--------------------------- MODULE ReliableStream ---------------------------
(* What a user may expect of the transport: what a party enters arrives at   *)
(* every party it is linked to, in order and once, and a link ends only when *)
(* both of its directions are complete.  Bytes are offsets, as in Connection.*)
EXTENDS Integers, Sequences

CONSTANT Party

VARIABLES
  entered,    \* entered[n]: how much n's user has entered
  delivered,  \* delivered[n][p]: what has been given to n's user of p's
  linked,     \* pairs <<n, p>>: n has a link to p
  ended       \* the parties whose disconnect has got through

vars == <<entered, delivered, linked, ended>>

Init ==
  /\ entered = [n \in Party |-> 0]
  /\ delivered = [n \in Party |-> [p \in Party |-> <<>>]]
  /\ linked \subseteq Party \X Party /\ ended = {}

Enter(n) ==
  /\ n \notin ended
  /\ entered'[n] > entered[n]
  /\ entered' = [entered EXCEPT ![n] = entered'[n]]
  /\ UNCHANGED <<delivered, linked, ended>>

\* The next bytes in order; a link may be younger than they are.
Deliver(n, p) ==
  /\ <<n, p>> \in linked
  /\ \E size \in (Len(delivered[n][p]) + 1)..entered[p] :
       delivered' = [delivered EXCEPT ![n][p] = [i \in 1..size |-> i - 1]]
  /\ UNCHANGED <<entered, linked, ended>>

Link(n, p) ==
  /\ n \notin ended /\ linked' = linked \cup {<<n, p>>}
  /\ UNCHANGED <<entered, delivered, ended>>

Complete(n, p) ==
  Len(delivered[n][p]) = entered[p] /\ Len(delivered[p][n]) = entered[n]

Unlink(n) ==
  /\ \E gone \in SUBSET {p \in Party : Complete(n, p)} :
       linked' = linked \ ({n} \X gone)
  /\ UNCHANGED <<entered, delivered, ended>>

End(n) ==
  /\ \A p \in Party : <<n, p>> \notin linked
  /\ ended' = ended \cup {n}
  /\ UNCHANGED <<entered, delivered, linked>>

Next ==
  \E n \in Party :
    \/ Enter(n) \/ Unlink(n) \/ End(n)
    \/ \E p \in Party : Deliver(n, p) \/ Link(n, p)

Spec ==
  /\ Init /\ [][Next]_vars
  /\ \A n, p \in Party : WF_vars(Deliver(n, p))

=============================================================================
