----------------------------- MODULE MCChainSync -----------------------------
(***************************************************************************)
(* An instance of ChainSync for TLC: two forks after the first block that  *)
(* carry the same transactions in different blocks, one of them a chain of *)
(* two transactions inside one block, and two blocks at the same slot.     *)
(***************************************************************************)
EXTENDS ChainSync

CONSTANTS b1, b2, b3, c2, c3, c4, g0, g1, o1, o2, o3, o4

MCBlocks == {b1, b2, b3, c2, c3, c4}

MCParent ==
  [b \in MCBlocks |-> CASE b = b1 -> Origin [] b \in {b2, c2} -> b1 [] b = b3 -> b2
                        [] b = c3 -> c2 [] b = c4 -> c3]

MCSlot ==
  [p \in MCBlocks \cup {Origin} |->
     CASE p = Origin -> 0 [] p = b1 -> 1 [] p = b2 -> 2 [] p = c2 -> 3
       [] p \in {b3, c3} -> 4 [] p = c4 -> 6]

MCAncestors[p \in MCBlocks \cup {Origin}] ==
  IF p = Origin THEN {Origin} ELSE {p} \cup MCAncestors[MCParent[p]]

Tx(consumes, references, produces) ==
  [consumes |-> consumes, requires |-> consumes \cup references, produces |-> produces]

MCTxs ==
  LET first == Tx({g0}, {}, {o1})
      second == Tx({o1}, {g1}, {o2})
      third == Tx({o2}, {}, {o3})
      fourth == Tx({g1}, {o3}, {o4})
  IN  [b \in MCBlocks |->
         CASE b = b1 -> <<first>> [] b = b2 -> <<second, third>> [] b = b3 -> <<fourth>>
           [] b = c2 -> <<second>> [] b = c3 -> <<third>> [] b = c4 -> <<fourth>>]

MCOutputs == {g0, g1, o1, o2, o3, o4}
=============================================================================
