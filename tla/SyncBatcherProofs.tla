-------------------------- MODULE SyncBatcherProofs --------------------------
(***************************************************************************)
(* Merging storage actions in the sync batcher is exact, and undoing them  *)
(* is, for any number of actions and every value: the theorems of          *)
(* SyncBatcher.                                                            *)
(***************************************************************************)
EXTENDS SyncBatcher, Integers, TLAPS

\* the values a key of a family can hold
Held(f) == IF f = "bytes" THEN Stored ELSE Nat \cup {Absent}

\* the values it holds between blocks while merging is exact
Domain(f) ==
  CASE f = "bytes" -> Bytes \cup {Absent}
    [] f = "u64" -> (Nat \ {0}) \cup {Absent}
    [] f = "u128" -> Nat \cup {Absent}

\* the change a counter action stands for
Net(a) == IF a.op \in {"IncrementU64", "IncrementU128"} THEN a.arg ELSE 0 - a.arg

\* What the merged action stands for.  A bytes action is compared by its
\* effect; for a counter the batch is the net change of the actions pushed.
Pending ==
  CASE batch = None -> base = cur
    [] batch # None /\ kind.family = "bytes" ->
         batch \in ActionsOf("bytes") /\ Execute(batch, base) = cur
    [] batch # None /\ kind.family = "u64" ->
         Amount(cur) = Amount(base) + Net(batch)
    [] batch # None /\ kind.family = "u128" ->
         /\ cur # Absent
         /\ cur = Amount(base) + Net(batch)
         /\ batch.op = "DecrementU128NoDelete" => base # Absent

\* The part of the invariant that holds for every kind of key and whatever
\* the actions take: InverseRestores needs it to be inductive.
Shape ==
  /\ TypeOK
  /\ base \in Held(kind.family)
  /\ cur \in Held(kind.family)
  /\ undo.prev \in Held(kind.family)
  /\ kind.path = "batch" => undo = NoUndo
  /\ InverseRestores

\* what merging needs to be exact
Sound == legal /\ kind \in ExactKinds

\* the part that holds while it is
Exactness ==
  /\ base \in Domain(kind.family)
  /\ cur \in Domain(kind.family)
  /\ undo.prev \in Domain(kind.family)
  /\ Pending

\* The inductive invariant behind BatchEqualsSequence and InverseRestores.
IInv == Shape /\ (Sound => Exactness)

-----------------------------------------------------------------------------
(* Lemmas about one action.                                                *)

\* The inverse execute_storage_op_in_txn_with_inverse returns restores the
\* value the key had, for every action and every value it applies to.
LEMMA InverseLemma ==
  ASSUME NEW a \in StorageAction, NEW v \in Stored,
         a.op \in CounterOps => v \in Nat \cup {Absent}
  PROVE  LET after == ExecuteWithInverse(a, v)
         IN  v = IF HasInverse(a, v) THEN Execute(InverseOp(v), after) ELSE after
<1>1. CASE a.op = "Set"
  BY <1>1, Zenon DEF ExecuteWithInverse, HasInverse, InverseOp, Execute, Set, Delete,
         CounterOps, DecrementOrDelete, DecrementOrZero
<1>2. CASE a.op = "Delete"
  <2>1. a.arg = Absent
    BY <1>2, ValuesAssumption DEF StorageAction, Delete, CounterOps, Value
  <2> QED
    BY <1>2, <2>1, Zenon DEF ExecuteWithInverse, HasInverse, InverseOp, Execute, Set, Delete,
         CounterOps, DecrementOrDelete, DecrementOrZero
<1>3. CASE a.op = "Insert"
  BY <1>3, Zenon DEF ExecuteWithInverse, HasInverse, InverseOp, Execute, Set, Delete,
         CounterOps, DecrementOrDelete, DecrementOrZero
<1>4. CASE a.op \in {"IncrementU64", "IncrementU128"}
  BY <1>4, Zenon DEF ExecuteWithInverse, HasInverse, InverseOp, Execute, Set, Delete,
         CounterOps, DecrementOrDelete, DecrementOrZero
<1>5. CASE a.op \in {"DecrementU64", "DecrementU128NoDelete"}
  BY <1>5, Zenon DEF ExecuteWithInverse, HasInverse, InverseOp, Execute, Set, Delete,
         CounterOps, DecrementOrDelete, DecrementOrZero
<1> QED
  BY <1>1, <1>2, <1>3, <1>4, <1>5 DEF StorageAction, Delete, CounterOps

\* None is no storage action, so a batch that holds one is not None.
LEMMA NoneIsNoAction == None \notin StorageAction
  BY Zenon DEF None, StorageAction, CounterOps, Delete

LEMMA HeldIsStored == \A f : \A v \in Held(f) : v \in Stored
  BY Zenon DEF Held, Stored, Value

\* Executing an action on a key of its family leaves a value of the family,
\* on either path.
LEMMA ExecuteHeld ==
  ASSUME NEW a \in StorageAction, NEW v \in Held(Family(a))
  PROVE  /\ Execute(a, v) \in Held(Family(a))
         /\ ExecuteWithInverse(a, v) \in Held(Family(a))
<1>1. CASE a.op \in {"Set", "Delete", "Insert"}
  <2>1. Family(a) = "bytes" /\ a.op \notin CounterOps
    BY <1>1, Zenon DEF Family, CounterOps
  <2>2. a.arg \in Stored
    BY DEF StorageAction, Delete, Stored, Value
  <2>3. v \in Stored
    BY <2>1, Zenon DEF Held
  <2> QED
    BY <1>1, <2>1, <2>2, <2>3 DEF Held, Execute, ExecuteWithInverse
<1>2. CASE a.op \in CounterOps
  <2>1. Family(a) # "bytes" /\ a.arg \in Nat
    BY <1>2 DEF Family, CounterOps, StorageAction, Delete
  <2>2. v \in Nat \cup {Absent}
    BY <2>1, Zenon DEF Held
  <2> QED
    BY <1>2, <2>1, <2>2, ValuesAssumption
    DEF Held, Execute, ExecuteWithInverse, CounterOps, DecrementOrDelete, DecrementOrZero
<1> QED BY <1>1, <1>2 DEF StorageAction, Delete, CounterOps

\* Merging two actions on a bytes key is executing one after the other.
LEMMA MergeBytes ==
  ASSUME NEW a \in ActionsOf("bytes"), NEW b \in ActionsOf("bytes"),
         NEW v \in Bytes \cup {Absent}
  PROVE  /\ Merge(a, b) \in ActionsOf("bytes")
         /\ Execute(Merge(a, b), v) = Execute(b, Execute(a, v))
         /\ Execute(a, v) \in Bytes \cup {Absent}
  BY ValuesAssumption
  DEF ActionsOf, Merge, Execute, Set, Delete, Insert, CounterOps

\* Merging two actions of one counter adds their changes up.
LEMMA MergeCounters ==
  ASSUME NEW inc \in {"IncrementU64", "IncrementU128"},
         NEW dec \in {"DecrementU64", "DecrementU128NoDelete"},
         NEW a \in [op : {inc, dec}, arg : Nat], NEW b \in [op : {inc, dec}, arg : Nat]
  PROVE  /\ Merge(a, b) \in [op : {inc, dec}, arg : Nat]
         /\ Net(Merge(a, b)) = Net(a) + Net(b)
         /\ Merge(a, b).op = a.op \/ Merge(a, b).arg # 0
<1>1. Merge(a, b) = MergeCounter(a, b)
  BY Zenon DEF Merge, CounterOps
<1>2. CASE a.op = b.op
  BY <1>1, <1>2 DEF MergeCounter, Net
<1>3. CASE a.op # b.op /\ a.arg >= b.arg
  BY <1>1, <1>3 DEF MergeCounter, Net
<1>4. CASE a.op # b.op /\ a.arg < b.arg
  BY <1>1, <1>4 DEF MergeCounter, Net
<1> QED BY <1>2, <1>3, <1>4

\* Executing one legal action on a counter that is deleted at zero changes
\* the amount by its net change and never stores a zero.
LEMMA ExecuteU64 ==
  ASSUME NEW a \in [op : {"IncrementU64", "DecrementU64"}, arg : Nat],
         NEW v \in (Nat \ {0}) \cup {Absent},
         Amount(v) + Net(a) >= 0
  PROVE  /\ Execute(a, v) \in (Nat \ {0}) \cup {Absent}
         /\ Amount(Execute(a, v)) = Amount(v) + Net(a)
  BY ValuesAssumption
  DEF Execute, Amount, Net, CounterOps, DecrementOrDelete

\* The same for a counter that is kept at zero: a change other than zero
\* leaves a value.
LEMMA ExecuteU128 ==
  ASSUME NEW a \in [op : {"IncrementU128", "DecrementU128NoDelete"}, arg : Nat \ {0}],
         NEW v \in Nat \cup {Absent},
         Amount(v) + Net(a) >= 0
  PROVE  /\ Execute(a, v) \in Nat
         /\ Execute(a, v) = Amount(v) + Net(a)
  BY ValuesAssumption
  DEF Execute, Amount, Net, CounterOps, DecrementOrZero

-----------------------------------------------------------------------------
(* The invariant is inductive.                                             *)

LEMMA InitStep ==
  ASSUME Init
  PROVE  IInv
<1>1. kind \in Kinds /\ kind.family \in {"bytes", "u64", "u128"}
  BY KindsAssumption DEF Init, AllKinds
<1>2. Absent \in Domain(kind.family) /\ Absent \in Held(kind.family)
  BY <1>1, Zenon DEF Domain, Held, Stored
<1>3. None = undo.inverse /\ undo = NoUndo /\ undo.prev = Absent /\ undo.held = FALSE
  BY DEF Init, NoUndo
<1> QED
  BY <1>1, <1>2, <1>3, Zenon
  DEF Init, IInv, Shape, Exactness, TypeOK, Stored, NoUndo, Pending, InverseRestores

\* Pushing an action keeps the shape, for every kind of key.
LEMMA PushShape ==
  ASSUME Shape, NEW a \in ActionsOf(kind.family), Push(a)
  PROVE  Shape'
<1>0. /\ kind' = kind /\ base' = base /\ undo' = undo
      /\ legal' \in BOOLEAN
      /\ kind.family \in {"bytes", "u64", "u128"}
      /\ batch # None => batch \in StorageAction
      /\ batch' = IF batch = None THEN a ELSE Merge(batch, a)
      /\ cur' = Execute(a, cur)
  BY KindsAssumption DEF Shape, Push, TypeOK, AllKinds
<1>1. /\ cur' \in Held(kind.family)
      /\ batch' \in StorageAction
      /\ Family(batch') = kind.family
  <2>1. CASE kind.family = "bytes"
    <3>1. cur \in Stored /\ a \in ActionsOf("bytes")
      BY <2>1, Zenon DEF Shape, Held
    <3>2. cur' \in Stored
      BY <1>0, <3>1
      DEF ActionsOf, Execute, Set, Delete, Insert, CounterOps, Stored, Value
    <3>3. CASE batch = None
      <4>1. batch' = a
        BY <1>0, <3>3, Zenon
      <4> QED
        BY <3>1, <3>2, <4>1, <2>1
        DEF ActionsOf, StorageAction, Set, Delete, Insert, Value, Family, Held
    <3>4. CASE batch # None
      <4>1. batch \in StorageAction /\ Family(batch) = "bytes" /\ batch' = Merge(batch, a)
        BY <1>0, <2>1, <3>4, Zenon DEF Shape, TypeOK
      <4>2. batch.op \in {"Set", "Delete", "Insert"} /\ batch.op \notin CounterOps
        BY <4>1 DEF Family, StorageAction, Delete, CounterOps
      <4>3. batch' \in StorageAction /\ batch'.op \in {"Set", "Delete", "Insert"}
        BY <4>1, <4>2, <3>1
        DEF ActionsOf, Merge, StorageAction, Set, Delete, Insert, Value, CounterOps
      <4>4. Family(batch') = "bytes"
        BY <4>3, Zenon DEF Family
      <4> QED BY <4>3, <4>4, <3>2, <2>1, Zenon DEF Held
    <3> QED BY <3>3, <3>4, Zenon
  <2>2. CASE kind.family = "u64"
    <3>1. cur \in Nat \cup {Absent} /\ a \in [op : {"IncrementU64", "DecrementU64"}, arg : Nat]
      BY <2>2, DeltasAssumption DEF Shape, Held, ActionsOf
    <3>2. cur' \in Nat \cup {Absent}
      BY <1>0, <3>1, ValuesAssumption DEF Execute, CounterOps, DecrementOrDelete
    <3>3. batch' \in [op : {"IncrementU64", "DecrementU64"}, arg : Nat]
      <4>1. CASE batch = None
        BY <1>0, <4>1, <3>1, Zenon
      <4>2. CASE batch # None
        <5>1. batch \in [op : {"IncrementU64", "DecrementU64"}, arg : Nat]
          BY <4>2, <2>2, <1>0 DEF Shape, TypeOK, StorageAction, Delete, CounterOps, Family
        <5> QED BY <5>1, <1>0, <4>2, <3>1, MergeCounters, Zenon
      <4> QED BY <4>1, <4>2, Zenon
    <3>4. batch' \in StorageAction /\ Family(batch') = "u64"
      BY <3>3 DEF StorageAction, CounterOps, Family
    <3> QED BY <3>2, <3>4, <2>2, Zenon DEF Held
  <2>3. CASE kind.family = "u128"
    <3>1. /\ cur \in Nat \cup {Absent}
          /\ a \in [op : {"IncrementU128", "DecrementU128NoDelete"}, arg : Nat]
      BY <2>3, DeltasAssumption DEF Shape, Held, ActionsOf
    <3>2. cur' \in Nat \cup {Absent}
      BY <1>0, <3>1, ValuesAssumption DEF Execute, CounterOps, DecrementOrZero
    <3>3. batch' \in [op : {"IncrementU128", "DecrementU128NoDelete"}, arg : Nat]
      <4>1. CASE batch = None
        BY <1>0, <4>1, <3>1, Zenon
      <4>2. CASE batch # None
        <5>1. batch \in [op : {"IncrementU128", "DecrementU128NoDelete"}, arg : Nat]
          BY <4>2, <2>3, <1>0 DEF Shape, TypeOK, StorageAction, Delete, CounterOps, Family
        <5> QED BY <5>1, <1>0, <4>2, <3>1, MergeCounters, Zenon
      <4> QED BY <4>1, <4>2, Zenon
    <3>4. batch' \in StorageAction /\ Family(batch') = "u128"
      BY <3>3 DEF StorageAction, CounterOps, Family
    <3> QED BY <3>2, <3>4, <2>3, Zenon DEF Held
  <2> QED BY <1>0, <2>1, <2>2, <2>3, Zenon
<1>2. InverseRestores'
  BY <1>0, Zenon DEF Shape, InverseRestores
<1>3. cur' \in Stored
  BY <1>1, HeldIsStored, Zenon
<1> QED
  BY <1>0, <1>1, <1>2, <1>3, Zenon DEF Shape, TypeOK

\* Pushing a legal action keeps merging exact.
LEMMA PushExact ==
  ASSUME Shape, Exactness, kind \in ExactKinds,
         NEW a \in ActionsOf(kind.family), Push(a), Legal(a, cur)
  PROVE  Exactness'
<1>0. /\ kind' = kind /\ base' = base /\ undo' = undo
      /\ kind.family \in {"bytes", "u64", "u128"}
      /\ batch # None => batch \in StorageAction
  BY DEF Shape, Push, ExactKinds, TypeOK
<1>1. /\ cur' \in Domain(kind.family)
      /\ batch' \in StorageAction
      /\ Family(batch') = kind.family
      /\ Pending'
  <2>1. CASE kind.family = "bytes"
    <3>1. base \in Bytes \cup {Absent} /\ cur \in Bytes \cup {Absent}
      BY <2>1, Zenon DEF Exactness, Domain
    <3>2. a \in ActionsOf("bytes")
      BY <2>1, Zenon
    <3>3. batch' \in ActionsOf("bytes") /\ Execute(batch', base) = cur'
      <4>1. CASE batch = None
        BY <4>1, <3>2, Zenon DEF Exactness, Pending, Push
      <4>2. CASE batch # None
        <5>1. batch \in ActionsOf("bytes") /\ Execute(batch, base) = cur
          BY <4>2, <2>1, Zenon DEF Exactness, Pending
        <5>2. batch' = Merge(batch, a) /\ cur' = Execute(a, cur)
          BY <4>2, Zenon DEF Push
        <5> QED
          BY <5>1, <5>2, <3>1, <3>2, MergeBytes
      <4> QED BY <4>1, <4>2, Zenon
    <3>4. cur' \in Bytes \cup {Absent}
      BY <3>1, <3>2, MergeBytes, Zenon DEF Push
    <3>5. batch' \in StorageAction /\ batch' # None /\ Family(batch') = "bytes"
      BY <3>3
      DEF ActionsOf, StorageAction, Set, Delete, Insert, Value, None, Family
    <3> QED
      BY <3>3, <3>4, <3>5, <2>1, <1>0, Zenon DEF Pending, Domain
  <2>2. CASE kind.family = "u64"
    <3>1. /\ base \in Nat \cup {Absent} /\ base # 0
          /\ cur \in Nat \cup {Absent} /\ cur # 0
          /\ Absent \notin Nat
      BY <2>2, ValuesAssumption DEF Exactness, Domain
    <3>2. a \in [op : {"IncrementU64", "DecrementU64"}, arg : Nat]
      BY <2>2, DeltasAssumption, Zenon DEF ActionsOf
    <3>3. Amount(cur) + Net(a) >= 0
      BY <3>1, <3>2 DEF Legal, Amount, Net
    <3>4. cur' \in (Nat \ {0}) \cup {Absent} /\ Amount(cur') = Amount(cur) + Net(a)
      BY <3>1, <3>2, <3>3, ExecuteU64, Zenon DEF Push
    <3>5. /\ batch' \in [op : {"IncrementU64", "DecrementU64"}, arg : Nat]
          /\ Amount(cur') = Amount(base) + Net(batch')
      <4>1. CASE batch = None
        BY <4>1, <3>2, <3>4, Zenon DEF Exactness, Pending, Push
      <4>2. CASE batch # None
        <5>1. batch \in [op : {"IncrementU64", "DecrementU64"}, arg : Nat]
          BY <4>2, <2>2, <1>0 DEF Shape, TypeOK, StorageAction, Delete, CounterOps, Family
        <5>2. Amount(cur) = Amount(base) + Net(batch)
          BY <4>2, <2>2, Zenon DEF Exactness, Pending
        <5>3. batch' = Merge(batch, a)
          BY <4>2, Zenon DEF Push
        <5>4. /\ batch' \in [op : {"IncrementU64", "DecrementU64"}, arg : Nat]
              /\ Net(batch') = Net(batch) + Net(a)
          BY <5>1, <5>3, <3>2, MergeCounters, Zenon
        <5>5. Net(batch) \in Int /\ Net(a) \in Int /\ Amount(base) \in Nat
          BY <5>1, <3>1, <3>2 DEF Net, Amount
        <5> QED
          BY <5>2, <5>4, <5>5, <3>4
      <4> QED BY <4>1, <4>2, Zenon
    <3>6. batch' \in StorageAction /\ batch' # None /\ Family(batch') = "u64"
      BY <3>5 DEF StorageAction, CounterOps, None, Family
    <3> QED
      BY <3>4, <3>5, <3>6, <2>2, <1>0, Zenon DEF Pending, Domain
  <2>3. CASE kind.family = "u128"
    <3>1. /\ base \in Nat \cup {Absent}
          /\ cur \in Nat \cup {Absent}
      BY <2>3, Zenon DEF Exactness, Domain
    <3>2. a \in [op : {"IncrementU128", "DecrementU128NoDelete"}, arg : Nat \ {0}]
      BY <2>3, DeltasAssumption, Zenon DEF ActionsOf
    <3>3. Amount(cur) + Net(a) >= 0
      BY <3>1, <3>2 DEF Legal, Amount, Net
    <3>4. cur' \in Nat /\ cur' = Amount(cur) + Net(a) /\ cur' # Absent
      BY <3>1, <3>2, <3>3, ExecuteU128, ValuesAssumption DEF Push
    <3>5. /\ batch' \in [op : {"IncrementU128", "DecrementU128NoDelete"}, arg : Nat]
          /\ cur' = Amount(base) + Net(batch')
      <4>1. CASE batch = None
        BY <4>1, <3>2, <3>4, Zenon DEF Exactness, Pending, Push
      <4>2. CASE batch # None
        <5>1. batch \in [op : {"IncrementU128", "DecrementU128NoDelete"}, arg : Nat]
          BY <4>2, <2>3, <1>0 DEF Shape, TypeOK, StorageAction, Delete, CounterOps, Family
        <5>2. Amount(cur) = Amount(base) + Net(batch)
          BY <4>2, <2>3, Zenon DEF Exactness, Pending, Amount
        <5>3. batch' = Merge(batch, a)
          BY <4>2, Zenon DEF Push
        <5>4. /\ batch' \in [op : {"IncrementU128", "DecrementU128NoDelete"}, arg : Nat]
              /\ Net(batch') = Net(batch) + Net(a)
          BY <5>1, <5>3, <3>2, MergeCounters, Zenon
        <5>5. Net(batch) \in Int /\ Net(a) \in Int /\ Amount(base) \in Nat
          BY <5>1, <3>1, <3>2 DEF Net, Amount
        <5> QED
          BY <5>2, <5>4, <5>5, <3>4
      <4> QED BY <4>1, <4>2, Zenon
    <3>6. batch'.op = "DecrementU128NoDelete" => base # Absent
      <4> SUFFICES ASSUME base = Absent, batch'.op = "DecrementU128NoDelete"
                   PROVE  FALSE
        BY Zenon
      <4>1. batch'.arg = 0
        BY <3>4, <3>5 DEF Amount, Net
      <4>2. CASE batch = None
        BY <4>1, <4>2, <3>2, Zenon DEF Push
      <4>3. CASE batch # None
        <5>1. batch \in [op : {"IncrementU128", "DecrementU128NoDelete"}, arg : Nat]
          BY <4>3, <2>3, <1>0 DEF Shape, TypeOK, StorageAction, Delete, CounterOps, Family
        <5>2. batch'.op = batch.op \/ batch'.arg # 0
          BY <4>3, <5>1, <3>2, MergeCounters DEF Push
        <5> QED
          BY <4>1, <4>3, <5>2, <2>3, Zenon DEF Exactness, Pending
      <4> QED BY <4>2, <4>3, Zenon
    <3>7. batch' \in StorageAction /\ batch' # None /\ Family(batch') = "u128"
      BY <3>5 DEF StorageAction, CounterOps, None, Family
    <3> QED
      BY <3>4, <3>5, <3>6, <3>7, <2>3, <1>0, Zenon DEF Pending, Domain
  <2> QED BY <1>0, <2>1, <2>2, <2>3, Zenon
<1> QED
  BY <1>0, <1>1, Zenon DEF Exactness

\* a reducer's action for a key of the batch's family is pushed
LEMMA PushStep ==
  ASSUME IInv, NEW a \in ActionsOf(kind.family), Push(a)
  PROVE  IInv'
<1>1. Shape'
  BY PushShape, Zenon DEF IInv
<1>2. Sound' => Sound /\ Legal(a, cur)
  BY Zenon DEF Sound, Push
<1>3. Sound /\ Legal(a, cur) => Exactness'
  BY PushExact, Zenon DEF IInv, Sound
<1> QED BY <1>1, <1>2, <1>3, Zenon DEF IInv

\* the batch is executed on the immutable path
LEMMA FlushStep ==
  ASSUME IInv, Flush
  PROVE  IInv'
<1>0. /\ kind' = kind /\ cur' = cur /\ legal' = legal /\ undo' = undo /\ batch' = None
      /\ base' = Execute(batch, base) /\ batch # None /\ batch \in StorageAction
      /\ Family(batch) = kind.family
      /\ kind.path = "batch" /\ undo = NoUndo
  BY Zenon DEF IInv, Shape, TypeOK, Flush
<1>1. base' \in Held(kind.family)
  BY <1>0, ExecuteHeld, Zenon DEF IInv, Shape
<1>2. InverseRestores'
  BY <1>0, Zenon DEF InverseRestores, NoUndo
<1>3. Shape'
  BY <1>0, <1>1, <1>2, HeldIsStored, Zenon DEF IInv, Shape, TypeOK
<1>4. ASSUME Sound'
      PROVE  Exactness'
  <2>0. Shape /\ Exactness /\ kind \in ExactKinds
    BY <1>0, <1>4, Zenon DEF IInv, Sound
  <2>1. kind.family \in {"bytes", "u64"}
    BY <2>0, <1>0 DEF ExactKinds
  <2>2. base' = cur
    <3>1. CASE kind.family = "bytes"
      BY <1>0, <2>0, <3>1, Zenon DEF Exactness, Pending
    <3>2. CASE kind.family = "u64"
      <4>1. /\ base \in (Nat \ {0}) \cup {Absent}
            /\ cur \in (Nat \ {0}) \cup {Absent}
        BY <2>0, <3>2, Zenon DEF Exactness, Domain
      <4>2. batch \in [op : {"IncrementU64", "DecrementU64"}, arg : Nat]
        BY <3>2, <1>0 DEF StorageAction, Delete, CounterOps, Family
      <4>3. Amount(cur) = Amount(base) + Net(batch) /\ Amount(cur) >= 0
        BY <4>1, <3>2, <1>0, <2>0 DEF Exactness, Pending, Amount
      <4>4. /\ base' \in (Nat \ {0}) \cup {Absent}
            /\ Amount(base') = Amount(cur)
        BY <1>0, <4>1, <4>2, <4>3, ExecuteU64, Zenon
      <4> QED
        BY <4>1, <4>4, ValuesAssumption, Zenon DEF Amount
    <3> QED BY <2>1, <3>1, <3>2, Zenon
  <2> QED BY <1>0, <2>0, <2>2, Zenon DEF Exactness, Pending
<1> QED BY <1>3, <1>4, Zenon DEF IInv

\* a mutable block is executed and its inverse kept
LEMMA FlushWithInverseStep ==
  ASSUME IInv, FlushWithInverse
  PROVE  IInv'
<1>0. /\ kind' = kind /\ cur' = cur /\ legal' = legal /\ batch' = None
      /\ base' = ExecuteWithInverse(batch, base)
      /\ batch # None /\ batch \in StorageAction
      /\ Family(batch) = kind.family
      /\ kind.path = "mutable"
      /\ base \in Stored /\ base \in Held(kind.family)
  BY Zenon DEF IInv, Shape, TypeOK, FlushWithInverse
<1>1. base' \in Held(kind.family)
  BY <1>0, ExecuteHeld, Zenon
<1>2. /\ undo'.prev = base
      /\ undo'.inverse = IF HasInverse(batch, base) THEN InverseOp(base) ELSE None
      /\ undo' \in [held : BOOLEAN, inverse : StorageAction \cup {None}, prev : Stored]
  <2>1. InverseOp(base) \in StorageAction
    BY <1>0, Zenon DEF InverseOp, StorageAction, Set, Stored
  <2> QED BY <2>1, <1>0, Zenon DEF FlushWithInverse
<1>3. InverseRestores'
  <2>1. batch.op \in CounterOps => base \in Nat \cup {Absent}
    <3>1. batch.op \in CounterOps => Family(batch) # "bytes"
      BY Zenon DEF Family, CounterOps
    <3> QED BY <3>1, <1>0, Zenon DEF Held
  <2>2. base = IF HasInverse(batch, base) THEN Execute(InverseOp(base), base') ELSE base'
    BY <1>0, <2>1, InverseLemma, Zenon
  <2>3. InverseOp(base) # None
    BY Zenon DEF InverseOp, Set, Delete, None
  <2> QED
    BY <1>2, <2>2, <2>3, Zenon DEF InverseRestores
<1>4. Shape'
  BY <1>0, <1>1, <1>2, <1>3, HeldIsStored, Zenon DEF IInv, Shape, TypeOK
<1>5. ASSUME Sound'
      PROVE  Exactness'
  <2>0. Shape /\ Exactness /\ kind \in ExactKinds
    BY <1>0, <1>5, Zenon DEF IInv, Sound
  <2>1. kind.family \in {"bytes", "u128"}
    BY <2>0, <1>0 DEF ExactKinds
  <2>2. base' = cur
    <3>1. CASE kind.family = "bytes"
      <4>1. batch \in ActionsOf("bytes") /\ Execute(batch, base) = cur
        BY <1>0, <2>0, <3>1, Zenon DEF Exactness, Pending
      <4>2. Execute(batch, base) = ExecuteWithInverse(batch, base)
        BY <4>1
        DEF ActionsOf, Execute, ExecuteWithInverse, Set, Delete, Insert, CounterOps
      <4> QED BY <4>1, <4>2, <1>0, Zenon
    <3>2. CASE kind.family = "u128"
      <4>1. /\ base \in Nat \cup {Absent}
            /\ cur \in Nat
        BY <2>0, <3>2, <1>0, Zenon DEF Exactness, Domain, Pending
      <4>2. batch \in [op : {"IncrementU128", "DecrementU128NoDelete"}, arg : Nat]
        BY <3>2, <1>0 DEF StorageAction, Delete, CounterOps, Family
      <4>3. /\ cur = Amount(base) + Net(batch)
            /\ batch.op = "DecrementU128NoDelete" => base # Absent
        BY <2>0, <3>2, <1>0, Zenon DEF Exactness, Pending
      <4> QED
        BY <1>0, <4>1, <4>2, <4>3, ValuesAssumption
        DEF ExecuteWithInverse, Amount, Net, DecrementOrZero
    <3> QED BY <2>1, <3>1, <3>2, Zenon
  <2> QED BY <1>0, <1>2, <2>0, <2>2, Zenon DEF Exactness, Pending
<1> QED BY <1>4, <1>5, Zenon DEF IInv

\* the last mutable block is rolled back
LEMMA UndoStep ==
  ASSUME IInv, Undo
  PROVE  IInv'
<1>1. /\ kind' = kind /\ legal' = legal /\ batch' = batch /\ batch = None
      /\ undo' = NoUndo /\ cur' = undo.prev
  BY Zenon DEF Undo
<1>2. base' = undo.prev
  BY Zenon DEF Undo, IInv, Shape, InverseRestores
<1>3. undo.prev \in Stored
  BY Zenon DEF IInv, Shape, TypeOK
<1>4. Absent \in Held(kind.family)
  BY Zenon DEF Held, Stored
<1>5. Shape'
  BY <1>1, <1>2, <1>3, <1>4, Zenon
  DEF IInv, Shape, TypeOK, NoUndo, InverseRestores, Stored
<1>6. ASSUME Sound'
      PROVE  Exactness'
  <2>1. Exactness /\ kind \in ExactKinds
    BY <1>1, <1>6, Zenon DEF IInv, Sound
  <2>2. Absent \in Domain(kind.family)
    BY <2>1 DEF ExactKinds, Domain
  <2> QED BY <1>1, <1>2, <2>1, <2>2, Zenon DEF Exactness, Pending, NoUndo
<1> QED BY <1>5, <1>6, Zenon DEF IInv

-----------------------------------------------------------------------------
(* The theorems.                                                           *)

\* The inductive invariant holds in every reachable state, whatever kinds of
\* key there are.
THEOREM Invariance == Spec => []IInv
<1>1. Init => IInv
  BY InitStep, Zenon
<1>2. IInv /\ [Next]_vars => IInv'
  <2> SUFFICES ASSUME IInv, [Next]_vars
               PROVE  IInv'
    BY Zenon
  <2>1. ASSUME NEW a \in ActionsOf(kind.family), Push(a)
        PROVE  IInv'
    BY <2>1, PushStep, Zenon
  <2>2. CASE Flush
    BY <2>2, FlushStep, Zenon
  <2>3. CASE FlushWithInverse
    BY <2>3, FlushWithInverseStep, Zenon
  <2>4. CASE Undo
    BY <2>4, UndoStep, Zenon
  <2>5. CASE UNCHANGED vars
    BY <2>5, Zenon
    DEF vars, IInv, Shape, Sound, Exactness, TypeOK, Pending, InverseRestores
  <2> QED
    BY <2>1, <2>2, <2>3, <2>4, <2>5, Zenon DEF Next
<1> QED
  BY <1>1, <1>2, PTL DEF Spec

\* Every variable keeps its type, and merging never mixes the action families
\* StorageAction::merge panics on.
THEOREM TypeCorrect == Spec => []TypeOK
<1>1. IInv => TypeOK
  BY Zenon DEF IInv, Shape
<1> QED
  BY <1>1, Invariance, PTL

\* Flushing a batch leaves exactly what its actions, executed one by one,
\* would have left, for every key family and path on which the code does
\* not meet a merged delta of zero, until a decrement takes more than there
\* is.
THEOREM MergingIsExact == Spec => []BatchEqualsSequence
<1>1. IInv => BatchEqualsSequence
  BY Zenon DEF IInv, Sound, Exactness, Pending, BatchEqualsSequence
<1> QED
  BY <1>1, Invariance, PTL

\* The inverse kept for a mutable block undoes the block exactly, for every
\* kind of key and every action, those that take more than there is and
\* those that delete the counter included.
THEOREM UndoIsExact == Spec => []InverseRestores
<1>1. IInv => InverseRestores
  BY Zenon DEF IInv, Shape
<1> QED
  BY <1>1, Invariance, PTL
=============================================================================
