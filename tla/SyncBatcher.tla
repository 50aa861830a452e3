----------------------------- MODULE SyncBatcher -----------------------------
(***************************************************************************)
(* One key in the life of the sync batcher (storage/tikv.rs).  Reducers    *)
(* emit actions for the key; SyncBatcher::push_actions merges each one     *)
(* into the single action the batch holds for it; a flush executes that    *)
(* action once.  The question is whether merging changes anything: cur is  *)
(* the value the key would hold had every action been executed alone, in   *)
(* order, and it must be the value a flush leaves.                         *)
(*                                                                         *)
(* Two paths execute a merged action.  Blocks that are immutable go        *)
(* through the batch and execute_storage_op_in_txn ("batch"); a mutable    *)
(* block merges its own actions in a fresh batcher and goes through        *)
(* execute_storage_op_in_txn_with_inverse ("mutable"), which keeps the     *)
(* inverse for a rollback.                                                 *)
(*                                                                         *)
(* A decrement may take more than the key holds.  The ledger rules it out  *)
(* but the code does not: it logs the underflow and deletes the key (u64)  *)
(* or leaves zero (u128).  legal remembers whether that has happened.      *)
(***************************************************************************)
EXTENDS StorageActions

CONSTANTS
  Kinds,     \* the (key family, path) pairs considered
  Deltas,    \* the deltas reducers emit for counters
  MaxCount   \* bound on a counter's value and delta (for model checking)

AllKinds == [family : {"bytes", "u64", "u128"}, path : {"batch", "mutable"}]

ASSUME KindsAssumption == Kinds \subseteq AllKinds

ASSUME DeltasAssumption == Deltas \subseteq Nat \ {0}

\* The pairs on which merging is exact.  Left out are u128 counters in the
\* batch and u64 counters in a mutable block: there an increment merged with
\* an equal decrement is an increment by zero, which the batch path skips
\* and the mutable path writes.
ExactKinds ==
  [family : {"bytes"}, path : {"batch", "mutable"}]
  \cup {[family |-> "u64", path |-> "batch"],
        [family |-> "u128", path |-> "mutable"]}

VARIABLES
  kind,    \* the family of the key and the path its actions take
  base,    \* the value committed for the key
  cur,     \* the value the actions pushed so far give one by one
  legal,   \* no decrement pushed so far took more than cur
  batch,   \* the merged action, None when the batch has none for the key
  undo     \* the inverse of the last mutable flush and the value before it

vars == <<kind, base, cur, legal, batch, undo>>

None == [op |-> "None", arg |-> Absent]

NoUndo == [held |-> FALSE, inverse |-> None, prev |-> Absent]

\* the actions a reducer can emit for a key of family f
ActionsOf(f) ==
  CASE f = "bytes" -> {Set(v) : v \in Bytes} \cup {Delete} \cup {Insert(v) : v \in Bytes}
    [] f = "u64" -> [op : {"IncrementU64", "DecrementU64"}, arg : Deltas]
    [] f = "u128" -> [op : {"IncrementU128", "DecrementU128NoDelete"}, arg : Deltas]

Amount(v) == IF v = Absent THEN 0 ELSE v

\* what the ledger rules guarantee of a counter: an output is spent, and an
\* asset burned, only after it exists
Legal(a, v) ==
  a.op \in {"DecrementU64", "DecrementU128NoDelete"} => a.arg <= Amount(v)

Init ==
  /\ kind \in Kinds
  /\ base = Absent /\ cur = Absent /\ legal = TRUE
  /\ batch = None
  /\ undo = NoUndo

\* push_actions: merge with the action the batch holds, or become it
Push(a) ==
  /\ a.op \in {"IncrementU64", "IncrementU128"} => Amount(cur) + a.arg <= MaxCount
  /\ batch' = IF batch = None THEN a ELSE Merge(batch, a)
  /\ a.op \in CounterOps => batch'.arg <= MaxCount
  /\ cur' = Execute(a, cur)
  /\ legal' = (legal /\ Legal(a, cur))
  /\ UNCHANGED <<kind, base, undo>>

\* the immutable path: apply_actions(.., false), commit, wipe
Flush ==
  /\ kind.path = "batch"
  /\ batch # None
  /\ base' = Execute(batch, base)
  /\ batch' = None
  /\ UNCHANGED <<kind, cur, legal, undo>>

\* the mutable path: apply_actions(.., true) keeps the inverse it returns
FlushWithInverse ==
  /\ kind.path = "mutable"
  /\ batch # None
  /\ base' = ExecuteWithInverse(batch, base)
  /\ undo' = [held |-> TRUE,
              inverse |-> IF HasInverse(batch, base) THEN InverseOp(base) ELSE None,
              prev |-> base]
  /\ batch' = None
  /\ UNCHANGED <<kind, cur, legal>>

\* a rollback of that block, before anything else reaches the key
Undo ==
  /\ undo.held /\ batch = None
  /\ base' = IF undo.inverse = None THEN base ELSE Execute(undo.inverse, base)
  /\ cur' = undo.prev
  /\ undo' = NoUndo
  /\ UNCHANGED <<kind, legal, batch>>

Next ==
  \/ \E a \in ActionsOf(kind.family) : Push(a)
  \/ Flush
  \/ FlushWithInverse
  \/ Undo

Spec == Init /\ [][Next]_vars

-----------------------------------------------------------------------------
(* Properties.                                                             *)

\* Every variable keeps its type; in particular merging never leaves the
\* family of the key (StorageAction::merge panics on a mixed pair).
TypeOK ==
  /\ kind \in Kinds
  /\ base \in Stored /\ cur \in Stored /\ legal \in BOOLEAN
  /\ batch \in StorageAction \cup {None}
  /\ batch # None => Family(batch) = kind.family
  /\ undo \in [held : BOOLEAN, inverse : StorageAction \cup {None}, prev : Stored]

\* push_actions and a flush together do what executing every pushed action
\* alone would do: whenever the batch is empty the committed value is the
\* value of the sequential execution, for the exact kinds of key and as long
\* as no decrement takes more than there is.
BatchEqualsSequence ==
  batch = None /\ legal /\ kind \in ExactKinds => base = cur

\* The inverse kept for a mutable block undoes it exactly: executing it on
\* what the block left restores the value from before the block, for every
\* kind of key and whatever the block's actions merged to: a delta of zero
\* and an underflow that deletes or zeroes the counter included.
InverseRestores ==
  undo.held =>
    undo.prev = IF undo.inverse = None THEN base ELSE Execute(undo.inverse, base)
=============================================================================
