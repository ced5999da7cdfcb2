----------------------------- MODULE MCOverlay -----------------------------
(***************************************************************************)
(* OverlayRun on a small instance.  Problems and triples are only compared *)
(* for equality and all properties are safety properties, so states that   *)
(* differ by a permutation of either are checked once.                     *)
(***************************************************************************)
EXTENDS OverlayRun, TLC

\* A pool and one problem at a time, over isolated environments and stopping
\* at the first FAIL, and one problem at a time over the shared environments.
SomeFlags == {
  [iso |-> TRUE,  wide |-> TRUE,  strict |-> TRUE],
  [iso |-> TRUE,  wide |-> FALSE, strict |-> TRUE],
  [iso |-> FALSE, wide |-> FALSE, strict |-> FALSE]}

Symmetry == Permutations(Problems) \cup Permutations(Triples)

=============================================================================
