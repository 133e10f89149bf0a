-------------------------- MODULE MCBlockingQueue --------------------------
(* Two pushers, two poppers, a poller that also pushes, and a closer.       *)
EXTENDS BlockingQueue

CONSTANTS p1, c1, c2, r, x, a, b

=============================================================================
