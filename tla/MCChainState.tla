---------------------------- MODULE MCChainState ----------------------------
(***************************************************************************)
(* The instance of MCStorageWorker on which the invariants, the inductive  *)
(* one of ChainInvariant included, are checked before they are proved.     *)
(***************************************************************************)
EXTENDS MCStorageWorker, ChainInvariant

\* the instance satisfies what the theorems assume
ASSUME MCIsExact == Exact

\* and has a stretch whose metadata is collected before the buffer forgets it
ASSUME MCIsSparse == {b3, c4} \subseteq Outrun /\ {b1, b2, b4, b5} \cap Outrun = {}
=============================================================================
