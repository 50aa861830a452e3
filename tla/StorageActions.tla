--------------------------- MODULE StorageActions ---------------------------
(***************************************************************************)
(* The storage actions of polyphony: the writes a reducer's output becomes *)
(* (model.rs, StorageAction) and what executing one does to the value of   *)
(* its key (storage/tikv.rs).  All definitions are about ONE key: a value  *)
(* is what the key holds, Absent when it holds nothing.                    *)
(*                                                                         *)
(* A counter is a natural number; u64 and u128 differ in what reaching     *)
(* zero does, not in their width (lovelace and asset supplies stay below   *)
(* the width, so no addition here overflows).                              *)
(***************************************************************************)
EXTENDS Naturals

CONSTANTS
  Bytes,      \* the values a key that is not a counter can hold
  Absent,     \* the key has no value
  EmptyBytes  \* the value of zero length, vec![]

ASSUME ValuesAssumption ==
  /\ Absent \notin Bytes
  /\ Absent \notin Nat
  /\ EmptyBytes \in Bytes
  /\ Bytes \cap Nat = {}

Value == Bytes \cup Nat

Stored == Value \cup {Absent}

-----------------------------------------------------------------------------
(* The actions (enum StorageAction).  One record type: arg is the value of *)
(* Set and Insert, the delta of the counters, and Absent for Delete.       *)

CounterOps == {"IncrementU64", "DecrementU64",
               "IncrementU128", "DecrementU128NoDelete"}

Set(v) == [op |-> "Set", arg |-> v]
Delete == [op |-> "Delete", arg |-> Absent]
Insert(v) == [op |-> "Insert", arg |-> v]
IncrementU64(d) == [op |-> "IncrementU64", arg |-> d]
DecrementU64(d) == [op |-> "DecrementU64", arg |-> d]
IncrementU128(d) == [op |-> "IncrementU128", arg |-> d]
DecrementU128NoDelete(d) == [op |-> "DecrementU128NoDelete", arg |-> d]

StorageAction ==
  [op : {"Set"}, arg : Value]
  \cup {Delete}
  \cup [op : {"Insert"}, arg : Bytes]
  \cup [op : CounterOps, arg : Nat]

-----------------------------------------------------------------------------
(* Execution.                                                              *)

\* v - d for a key that is deleted at zero; more than the value deletes it
DecrementOrDelete(v, d) == IF v > d THEN v - d ELSE Absent

\* v - d for a key that is kept at zero; more than the value sets zero
DecrementOrZero(v, d) == IF v >= d THEN v - d ELSE 0

\* The value an action leaves, when no inverse is wanted: a delta of zero
\* is skipped before the key is looked at.
Execute(a, v) ==
  CASE a.op \in {"Set", "Delete"} -> a.arg
    [] a.op = "Insert" -> IF v = Absent THEN a.arg ELSE v
    [] a.op \in CounterOps /\ a.arg = 0 -> v
    [] a.op \in {"IncrementU64", "IncrementU128"} /\ a.arg # 0 ->
         IF v = Absent THEN a.arg ELSE v + a.arg
    [] a.op = "DecrementU64" /\ a.arg # 0 ->
         IF v = Absent THEN v ELSE DecrementOrDelete(v, a.arg)
    [] a.op = "DecrementU128NoDelete" /\ a.arg # 0 ->
         IF v = Absent THEN v ELSE DecrementOrZero(v, a.arg)

\* The value an action leaves on the path that also computes its inverse:
\* a delta of zero is not skipped there.
ExecuteWithInverse(a, v) ==
  CASE a.op \in {"Set", "Delete"} -> a.arg
    [] a.op = "Insert" -> IF v = Absent THEN a.arg ELSE v
    [] a.op \in {"IncrementU64", "IncrementU128"} ->
         IF v = Absent THEN a.arg ELSE v + a.arg
    [] a.op = "DecrementU64" ->
         IF v = Absent THEN v ELSE DecrementOrDelete(v, a.arg)
    [] a.op = "DecrementU128NoDelete" ->
         IF v = Absent THEN v ELSE DecrementOrZero(v, a.arg)

\* (mutant) no inverse for the write of a key that did not exist
HasInverseOnlyForOverwrites(a, v) ==
  \/ a.op = "Set" /\ v # a.arg /\ v # Absent
  \/ a.op \in {"Delete", "DecrementU64", "DecrementU128NoDelete"} /\ v # Absent
  \/ a.op \in {"IncrementU64", "IncrementU128"}

\* (mutant) no inverse for a decrement that takes more than the value
HasInverseUnlessUnderflow(a, v) ==
  \/ a.op = "Set" /\ v # a.arg
  \/ a.op = "Insert" /\ v = Absent
  \/ a.op = "Delete" /\ v # Absent
  \/ a.op \in {"DecrementU64", "DecrementU128NoDelete"} /\ v # Absent /\ v >= a.arg
  \/ a.op \in {"IncrementU64", "IncrementU128"}

\* Whether ExecuteWithInverse(a, v) returns an inverse at all.
HasInverse(a, v) ==
  \/ a.op = "Set" /\ v # a.arg
  \/ a.op = "Insert" /\ v = Absent
  \/ a.op \in {"Delete", "DecrementU64", "DecrementU128NoDelete"} /\ v # Absent
  \/ a.op \in {"IncrementU64", "IncrementU128"}

\* The inverse is always the absolute write of the value the key had.
InverseOp(v) == IF v = Absent THEN Delete ELSE Set(v)

-----------------------------------------------------------------------------
(* StorageAction::merge: one action that stands for a followed by b.       *)

\* the actions merge accepts together; any other pair panics
Family(a) ==
  CASE a.op \in {"Set", "Delete", "Insert"} -> "bytes"
    [] a.op \in {"IncrementU64", "DecrementU64"} -> "u64"
    [] a.op \in {"IncrementU128", "DecrementU128NoDelete"} -> "u128"

\* same direction: the deltas add up.  Opposite directions: the larger
\* delta decides, and a tie keeps the direction of a.
MergeCounter(a, b) ==
  IF a.op = b.op THEN [a EXCEPT !.arg = a.arg + b.arg]
  ELSE IF a.arg >= b.arg THEN [a EXCEPT !.arg = a.arg - b.arg]
  ELSE [b EXCEPT !.arg = b.arg - a.arg]

\* (mutant) a delete followed by an insert stays an insert
MergeForgetsDelete(a, b) ==
  CASE a.op \in CounterOps -> MergeCounter(a, b)
    [] a.op \notin CounterOps /\ b.op \in {"Set", "Delete"} -> b
    [] a.op = "Delete" /\ b.op = "Insert" -> b
    [] a.op \in {"Set", "Insert"} /\ b.op = "Insert" -> a

Merge(a, b) ==
  CASE a.op \in CounterOps -> MergeCounter(a, b)
    [] a.op \notin CounterOps /\ b.op \in {"Set", "Delete"} -> b
    [] a.op = "Delete" /\ b.op = "Insert" -> Set(b.arg)
    [] a.op \in {"Set", "Insert"} /\ b.op = "Insert" -> a

-----------------------------------------------------------------------------
(* Rollback metadata: how an inverse is written next to the data and read  *)
(* back (apply_storage_rb_actions, fetch_persistent_buffer).               *)

\* the bytes written for an inverse: the value to restore, empty for Delete
PersistInverse(a) == IF a.op = "Set" THEN a.arg ELSE EmptyBytes

\* the inverse read back: an empty value is a Delete
RestoreInverse(raw) == IF raw = EmptyBytes THEN Delete ELSE Set(raw)
=============================================================================
