------------------------------ MODULE ChainView ------------------------------
(***************************************************************************)
(* What an instance promises to those who read it: its keys always are     *)
(* what one chain produces.  They move forward by a bounded number of      *)
(* blocks or back to a recent block of the same chain, each time at once.  *)
(* Batches, buffers, retries and crashes do not show.                      *)
(***************************************************************************)
EXTENDS Naturals, FiniteSets

CONSTANTS
  Points,       \* the points of all forks
  Origin,       \* the point before the first block
  Ancestors,    \* the points of the chain that ends in a point, itself included
  StateAt,      \* the keys a chain produces
  MaxForward,   \* the most blocks one step adds
  MaxBack       \* the most blocks one step removes

VARIABLE view   \* the keys a reader finds

\* the blocks of the chain that ends in p, after q
After(q, p) == Ancestors[p] \ Ancestors[q]

Forward(p, q) == p \in Ancestors[q] /\ Cardinality(After(p, q)) <= MaxForward

Back(p, q) == q \in Ancestors[p] /\ Cardinality(After(q, p)) <= MaxBack

Move(p, q) ==
  /\ view = StateAt[p]
  /\ Forward(p, q) \/ Back(p, q)
  /\ view' = StateAt[q]

Init == view = StateAt[Origin]

Next == \E p, q \in Points : Move(p, q)

Spec == Init /\ [][Next]_view
=============================================================================
