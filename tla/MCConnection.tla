---------------------------- MODULE MCConnection ----------------------------
(* Small instances of Connection: two programs A and B.                     *)
EXTENDS ConnectionProperties

CONSTANTS A, B

\* A is started with B as its target; B waits for connections.
TargetAB == (A :> B) @@ (B :> NoNode)

\* Neither has a target; the applications dial.
NoTargets == (A :> NoNode) @@ (B :> NoNode)

\* A dials B.
DialAB == {<<A, B>>}

NoDials == {}

\* Who enters what.
OnlyA  == (A :> {1}) @@ (B :> {})
Both   == (A :> {1}) @@ (B :> {1})
\* A fills the window with one input or enters a single byte.
Filling == (A :> {1, 5}) @@ (B :> {})
\* The same, and B answers with a single byte.
Mixed   == (A :> {1, 5}) @@ (B :> {1})
=============================================================================
