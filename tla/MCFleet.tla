------------------------------- MODULE MCFleet -------------------------------
(* Two instances over two immutable heights and a mutable one with a fork;  *)
(* the slots of the first three blocks are adjacent, then there is a gap.   *)
EXTENDS Fleet, TLC

CONSTANTS b1, b2, b3, c3, root

MCBlocks == {b1, b2, b3, c3}
MCSlot == [b \in MCBlocks |-> CASE b = b1 -> 1 [] b = b2 -> 2 [] b = b3 -> 3 [] b = c3 -> 5]
MCParent == [b \in MCBlocks |-> CASE b = b1 -> root [] b = b2 -> b1 [] OTHER -> b2]
MCAncestors == [b \in MCBlocks \cup {root} |-> CASE b = root -> {root} [] b = b1 -> {root, b1}
                  [] b = b2 -> {root, b1, b2} [] OTHER -> {root, b1, b2, b}]
MCImmutable == {b1, b2}
MCNetwork == [i \in Instances |-> "mainnet"]
InstancesSymmetry == Permutations(Instances)
=============================================================================
