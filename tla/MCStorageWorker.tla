--------------------------- MODULE MCStorageWorker ---------------------------
(***************************************************************************)
(* Instances of StorageWorker for TLC: a chain with one fork, a counter    *)
(* whose deltas make a repeated block visible, and a bytes key.            *)
(***************************************************************************)
EXTENDS StorageWorker

CONSTANTS b1, b2, b3, b4, b5, c4, c5, e0, v1, v2, kCursor, kBalance, kDatum

MCBlocks == {b1, b2, b3, b4, b5, c4, c5}

MCParent ==
  [b \in MCBlocks |-> CASE b = b1 -> Origin [] b = b2 -> b1 [] b = b3 -> b2
                        [] b = b4 -> b3 [] b = b5 -> b4 [] b = c4 -> b3 [] b = c5 -> c4]

\* Twenty slots per block, the rate garbage collection counts on, but for the
\* last block of the second fork, which comes late.  The first blocks of the
\* two forks share a slot.
MCSlot ==
  [p \in MCBlocks \cup {Origin} |->
     CASE p = Origin -> 0 [] p = b1 -> 20 [] p = b2 -> 40 [] p = b3 -> 60
       [] p \in {b4, c4} -> 80 [] p = b5 -> 100 [] p = c5 -> 145]

MCAncestors[p \in MCBlocks \cup {Origin}] ==
  IF p = Origin THEN {Origin} ELSE {p} \cup MCAncestors[MCParent[p]]

MCKeys == {kCursor, kBalance, kDatum}

MCBytes == MCBlocks \cup {e0, v1, v2}

Block(b, balance, datum) ==
  [k \in MCKeys |-> CASE k = kCursor -> Set(b) [] k = kBalance -> balance [] k = kDatum -> datum]

MCActions ==
  [b \in MCBlocks |->
     CASE b = b1 -> Block(b, IncrementU64(2), Set(v1))
       [] b = b2 -> Block(b, DecrementU64(2), Delete)
       [] b = b3 -> Block(b, IncrementU64(1), Insert(v1))
       [] b = b4 -> Block(b, DecrementU64(1), Set(v2))
       [] b = b5 -> Block(b, IncrementU64(1), NoAction)
       [] b = c4 -> Block(b, IncrementU64(2), Insert(v2))
       [] b = c5 -> Block(b, NoAction, Delete)]

MCStateAt[p \in MCBlocks \cup {Origin}] ==
  IF p = Origin THEN EmptyStore ELSE ExecuteAll(MCActions[p], MCStateAt[MCParent[p]])

MCSize == [b \in MCBlocks |-> 1]

\* A short chain with a fork, and absolute writes only: a block executed
\* twice leaves no trace, so the state space stays finite whatever is repeated.
MCFewBlocks == {b1, b2, b3, c4}

MCFewParent == [b \in MCFewBlocks |-> CASE b = b1 -> Origin [] b = b2 -> b1 [] OTHER -> b2]

MCFewSlot == [p \in MCFewBlocks \cup {Origin} |-> MCSlot[p]]

MCFewSize == [b \in MCFewBlocks |-> 1]

MCFewAncestors[p \in MCFewBlocks \cup {Origin}] ==
  IF p = Origin THEN {Origin} ELSE {p} \cup MCFewAncestors[MCFewParent[p]]

MCFewActions ==
  [b \in MCFewBlocks |-> Block(b, NoAction, IF b \in {b2, c4} THEN Delete ELSE Set(v1))]

MCFewStateAt[p \in MCFewBlocks \cup {Origin}] ==
  IF p = Origin THEN EmptyStore ELSE ExecuteAll(MCFewActions[p], MCFewStateAt[MCFewParent[p]])
=============================================================================
