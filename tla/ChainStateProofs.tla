-------------------------- MODULE ChainStateProofs --------------------------
(***************************************************************************)
(* Proofs about the storage worker, for every tree of blocks, every set of *)
(* keys and every value of the bounds.                                     *)
(*                                                                         *)
(* The first part is about the worker whatever fails: the types, and the   *)
(* registry.  The second is that the store is the state of the chain its   *)
(* cursor names: crashes, retries, lost answers and rollbacks cannot       *)
(* separate the two.  It has the lemmas about the tree of blocks, the      *)
(* inverse of a block, the rollback buffer, the metadata it is restored    *)
(* from and what a transaction commits; then that every step preserves the *)
(* invariant of ChainInvariant; then what follows: the worker implements   *)
(* ChainView, Redis only says what was committed, and the persisted        *)
(* metadata covers the rollback buffer.                                    *)
(***************************************************************************)
EXTENDS ChainInvariant, OrderLemmas

BufferEntry == [point : Points, inverse : InverseMaps]

Txns == [store : Stores, rows : [Points -> RowMaps \cup {NoRows}],
         ts : BOOLEAN, inverse : InverseMaps]

\* The inductive strengthening of TypeOK: only blocks have rollback metadata,
\* finitely many at any time, a resumed source starts at one of them, and a
\* committed rollback finds its point in the buffer.
TypeInv ==
  /\ TypeOK
  /\ rows[Origin] = NoRows
  /\ IsFiniteSet(Persisted)
  /\ src.mode = "boot" => src.tip \in Blocks
  /\ pc = "publish" /\ unit.type = "RollBack" => InBuffer(unit.point)

-----------------------------------------------------------------------------
(* Types of the operators on one key.                                      *)

\* an emitted action keeps the type of its key, on both paths
LEMMA ExecuteType ==
  ASSUME NEW k \in Keys, NEW a \in Emitted(k), NEW v \in Values(k) \cup {Absent}
  PROVE  /\ Execute(a, v) \in Values(k) \cup {Absent}
         /\ ExecuteWithInverse(a, v) \in Values(k) \cup {Absent}
<1>1. CASE k \in Counters
  <2>1. /\ a \in [op : CounterOps, arg : Nat] /\ v \in Nat \cup {Absent}
        /\ Values(k) = Nat
    BY <1>1, ActionsAssumption, Zenon DEF Emitted, Values
  <2> QED
    BY <2>1, ValuesAssumption, SMTT(30)
    DEF Execute, ExecuteWithInverse, CounterOps, DecrementOrDelete, DecrementOrZero
<1>2. CASE k \notin Counters
  <2>1. a \in [op : {"Set", "Insert"}, arg : Values(k)] \cup {Delete}
    BY <1>2, Zenon DEF Emitted
  <2> QED
    BY <2>1, SMTT(30) DEF Execute, ExecuteWithInverse, CounterOps, Delete
<1> QED BY <1>1, <1>2, Zenon

\* an inverse keeps the type of its key
LEMMA ExecuteInverseType ==
  ASSUME NEW k \in Keys, NEW a \in [op : {"Set"}, arg : Values(k)] \cup {Delete}, NEW v
  PROVE  Execute(a, v) \in Values(k) \cup {Absent}
BY SMTT(30) DEF Execute, Delete, CounterOps

\* the merge of two emitted actions could have been emitted
LEMMA MergeType ==
  ASSUME NEW k \in Keys, NEW a \in Emitted(k), NEW b \in Emitted(k)
  PROVE  Merge(a, b) \in Emitted(k)
<1>1. CASE k \in Counters
  <2>1. a \in [op : CounterOps, arg : Nat] /\ b \in [op : CounterOps, arg : Nat]
    BY <1>1, Zenon DEF Emitted
  <2>2. MergeCounter(a, b) \in [op : CounterOps, arg : Nat]
    BY <2>1, SMTT(30) DEF MergeCounter
  <2>3. Merge(a, b) = MergeCounter(a, b)
    BY <2>1, Zenon DEF Merge, CounterOps
  <2> QED BY <1>1, <2>2, <2>3, Zenon DEF Emitted
<1>2. CASE k \notin Counters
  <2>1. /\ a \in [op : {"Set", "Insert"}, arg : Values(k)] \cup {Delete}
        /\ b \in [op : {"Set", "Insert"}, arg : Values(k)] \cup {Delete}
    BY <1>2, Zenon DEF Emitted
  <2>2. Merge(a, b) \in [op : {"Set", "Insert"}, arg : Values(k)] \cup {Delete}
    BY <2>1, SMTT(30) DEF Merge, CounterOps, Delete, Set
  <2> QED BY <1>2, <2>2, Zenon DEF Emitted
<1> QED BY <1>1, <1>2, Zenon

-----------------------------------------------------------------------------
(* Types of the operators on all keys.                                     *)

LEMMA ValuesAreStored ==
  ASSUME NEW k \in Keys
  PROVE  /\ Values(k) \subseteq Value
         /\ NoAction \notin Emitted(k)
         /\ Emitted(k) \subseteq StorageAction
<1>1. Values(k) \subseteq Value
  BY ActionsAssumption, Zenon DEF Values, Value
<1>2. k \notin Counters => Values(k) \subseteq Bytes
  BY ActionsAssumption, Zenon DEF Values
<1>3. Emitted(k) \subseteq StorageAction
  BY <1>1, <1>2, Zenon DEF Emitted, StorageAction, Value
<1> QED BY <1>1, <1>3, ActionsAssumption, Zenon

LEMMA ExecuteAllType ==
  ASSUME NEW acts \in ActionMaps, NEW s \in Stores
  PROVE  ExecuteAll(acts, s) \in Stores /\ ExecuteAllWithInverse(acts, s) \in Stores
<1>1. ASSUME NEW k \in Keys
      PROVE  /\ ExecuteAll(acts, s)[k] \in Values(k) \cup {Absent}
             /\ ExecuteAllWithInverse(acts, s)[k] \in Values(k) \cup {Absent}
  <2>1. s[k] \in Values(k) \cup {Absent} /\ acts[k] \in Emitted(k) \cup {NoAction}
    BY Zenon DEF Stores, ActionMaps
  <2> QED BY <2>1, ExecuteType, Zenon DEF ExecuteAll, ExecuteAllWithInverse
<1>2. \A k \in Keys : Values(k) \cup {Absent} \subseteq Stored
  BY ValuesAreStored, Zenon DEF Stored
<1> QED BY <1>1, <1>2, Zenon DEF Stores, ExecuteAll, ExecuteAllWithInverse

LEMMA InverseOfType ==
  ASSUME NEW acts, NEW s \in Stores
  PROVE  InverseOf(acts, s) \in InverseMaps
<1>1. ASSUME NEW k \in Keys
      PROVE  InverseOf(acts, s)[k] \in [op : {"Set"}, arg : Values(k)] \cup {Delete, NoAction}
  BY Zenon DEF Stores, InverseOf, InverseOp, Set
<1>2. \A k \in Keys : [op : {"Set"}, arg : Values(k)] \cup {Delete} \subseteq StorageAction
  BY ValuesAreStored, Zenon DEF StorageAction
<1> QED BY <1>1, <1>2, Zenon DEF InverseMaps, InverseOf

LEMMA MergeAllType ==
  ASSUME NEW acts \in ActionMaps, NEW more \in ActionMaps
  PROVE  MergeAll(acts, more) \in ActionMaps
<1>1. ASSUME NEW k \in Keys
      PROVE  MergeAll(acts, more)[k] \in Emitted(k) \cup {NoAction}
  <2>1. acts[k] \in Emitted(k) \cup {NoAction} /\ more[k] \in Emitted(k) \cup {NoAction}
    BY Zenon DEF ActionMaps
  <2> QED BY <2>1, MergeType, Zenon DEF MergeAll
<1>2. \A k \in Keys : Emitted(k) \subseteq StorageAction
  BY ValuesAreStored, Zenon
<1> QED BY <1>1, <1>2, Zenon DEF ActionMaps, MergeAll

LEMMA NoActionsType ==
  NoActions \in ActionMaps /\ NoActions \in InverseMaps /\ NoActions \in RowMaps
BY Zenon DEF NoActions, ActionMaps, InverseMaps, RowMaps

LEMMA UndoneType ==
  ASSUME NEW undo \in Seq(BufferEntry), NEW s \in Stores
  PROVE  Undone(undo, s) \in Stores
<1>1. ASSUME NEW k \in Keys
      PROVE  Undone(undo, s)[k] \in Values(k) \cup {Absent}
  <2> DEFINE js == {j \in DOMAIN undo : undo[j].inverse[k] # NoAction}
  <2>0. s[k] \in Values(k) \cup {Absent}
    BY Zenon DEF Stores
  <2>1. CASE js = {}
    BY <2>0, <2>1, Zenon DEF Undone
  <2>2. CASE js # {}
    <3>1. Len(undo) \in Nat /\ js \in SUBSET (0..Len(undo))
      BY SMTT(30)
    <3>2. Max(js) \in js
      BY <2>2, <3>1, MaxProperties, Zenon
    <3> DEFINE a == undo[Max(js)].inverse[k]
    <3>3. undo[Max(js)] \in BufferEntry
      BY <3>2, SMTT(30)
    <3>4. a \in [op : {"Set"}, arg : Values(k)] \cup {Delete}
      BY <3>2, <3>3, Zenon DEF BufferEntry, InverseMaps
    <3>5. Undone(undo, s)[k] = Execute(a, s[k])
      BY <2>2, Zenon DEF Undone
    <3> QED BY <3>4, <3>5, ExecuteInverseType, Zenon
  <2> QED BY <2>1, <2>2, Zenon
<1>2. \A k \in Keys : Values(k) \cup {Absent} \subseteq Stored
  BY ValuesAreStored, Zenon DEF Stored
<1> QED BY <1>1, <1>2, Zenon DEF Stores, Undone

LEMMA RowsOfType ==
  ASSUME NEW inverse \in InverseMaps
  PROVE  RowsOf(inverse) \in RowMaps
<1>1. ASSUME NEW k \in Keys
      PROVE  RowsOf(inverse)[k] \in Values(k) \cup {EmptyBytes, NoAction}
  BY SMTT(30) DEF RowsOf, InverseMaps, PersistInverse, Delete
<1>2. \A k \in Keys : Values(k) \cup {EmptyBytes} \subseteq Value
  BY ValuesAreStored, ValuesAssumption, Zenon DEF Value
<1> QED BY <1>1, <1>2, Zenon DEF RowMaps, RowsOf

-----------------------------------------------------------------------------
(* The rollback buffer, in memory and persisted.                           *)

\* add_block puts the block in front and keeps at most MaxBufferLen blocks
LEMMA AddBlockProperties ==
  ASSUME NEW S, NEW buf \in Seq(S), NEW e \in S
  PROVE  /\ AddBlock(buf, e) \in Seq(S)
         /\ Len(AddBlock(buf, e)) \in 1..MaxBufferLen
         /\ Len(AddBlock(buf, e)) <= Len(buf) + 1
         /\ AddBlock(buf, e)[1] = e
         /\ \A i \in 2..Len(AddBlock(buf, e)) : AddBlock(buf, e)[i] = buf[i - 1]
<1> DEFINE n == Min({Len(buf) + 1, MaxBufferLen})
           whole == <<e>> \o buf
<1>1. MaxBufferLen \in Nat \ {0} /\ Len(buf) \in Nat
  BY BoundsAssumption, SMTT(30)
<1>2. n \in {Len(buf) + 1, MaxBufferLen} /\ n <= Len(buf) + 1 /\ n <= MaxBufferLen
  <2>1. {Len(buf) + 1, MaxBufferLen} \in SUBSET Nat
    BY <1>1, SMTT(30)
  <2> QED BY <2>1, MinProperties, Zenon
<1>3. n \in Nat /\ n >= 1
  BY <1>1, <1>2, SMTT(30)
<1> HIDE DEF n
<1>4. whole \in Seq(S) /\ Len(whole) = Len(buf) + 1
  BY <1>1, SMTT(30)
<1>5. whole[1] = e /\ \A i \in 2..(Len(buf) + 1) : whole[i] = buf[i - 1]
  BY <1>1, SMTT(30)
<1> HIDE DEF whole
<1>6. \A i \in 1..n : whole[i] \in S
  BY <1>1, <1>2, <1>3, <1>4, SMTT(30)
<1>7. /\ SubSeq(whole, 1, n) \in Seq(S)
      /\ Len(SubSeq(whole, 1, n)) = n
      /\ \A i \in 1..n : SubSeq(whole, 1, n)[i] = whole[i]
  BY <1>3, <1>6, SMTT(30)
<1>8. AddBlock(buf, e) = SubSeq(whole, 1, n)
  BY Zenon DEF AddBlock, whole, n
<1> QED BY <1>1, <1>2, <1>3, <1>5, <1>7, <1>8, SMTT(30)

IsAdded(new, S, buf, e) ==
  /\ new \in Seq(S)
  /\ Len(new) \in 1..MaxBufferLen
  /\ Len(new) <= Len(buf) + 1
  /\ new[1] = e
  /\ \A i \in 2..Len(new) : new[i] = buf[i - 1]

LEMMA AddBlockAdds ==
  ASSUME NEW S, NEW buf \in Seq(S), NEW e \in S
  PROVE  IsAdded(AddBlock(buf, e), S, buf, e)
<1> DEFINE new == AddBlock(buf, e)
<1>1. /\ new \in Seq(S)
      /\ Len(new) \in 1..MaxBufferLen
      /\ Len(new) <= Len(buf) + 1
      /\ new[1] = e
      /\ \A i \in 2..Len(new) : new[i] = buf[i - 1]
  BY AddBlockProperties, SMTT(30)
<1> HIDE DEF new
<1>2. IsAdded(new, S, buf, e)
  BY <1>1, Zenon DEF IsAdded
<1> QED BY <1>2, Zenon DEF new

\* position finds the newest occurrence of a point
LEMMA PositionProperties ==
  ASSUME TypeInv, NEW p, InBuffer(p)
  PROVE  /\ Position(p) \in 1..Len(buffer)
         /\ buffer[Position(p)].point = p
<1> DEFINE at == {i \in DOMAIN buffer : buffer[i].point = p}
<1>1. buffer \in Seq(BufferEntry) /\ DOMAIN buffer = 1..Len(buffer) /\ Len(buffer) \in Nat
  BY SMTT(30) DEF TypeInv, TypeOK, BufferEntry
<1>2. at \in SUBSET Nat /\ at # {}
  BY <1>1, SMTT(30) DEF InBuffer
<1>3. Min(at) \in at
  BY <1>2, MinProperties, Zenon
<1> QED BY <1>1, <1>3, Zenon DEF Position

LEMMA PointsSinceProperties ==
  ASSUME TypeInv, NEW p, InBuffer(p)
  PROVE  /\ PointsSince(p) \in Seq(BufferEntry)
         /\ Len(PointsSince(p)) = Position(p) - 1
         /\ \A i \in 1..(Position(p) - 1) : PointsSince(p)[i] = buffer[i]
<1>1. buffer \in Seq(BufferEntry)
  BY Zenon DEF TypeInv, TypeOK, BufferEntry
<1>2. Position(p) \in 1..Len(buffer)
  BY PositionProperties, Zenon
<1> QED
  BY <1>1, <1>2, SMTT(30) DEF PointsSince

LEMMA RollbackToPointProperties ==
  ASSUME TypeInv, NEW p, InBuffer(p)
  PROVE  /\ RollbackToPoint(p) \in Seq(BufferEntry)
         /\ Len(RollbackToPoint(p)) = Len(buffer) - Position(p) + 1
         /\ \A i \in 1..(Len(buffer) - Position(p) + 1) :
              RollbackToPoint(p)[i] = buffer[Position(p) + i - 1]
<1>1. buffer \in Seq(BufferEntry)
  BY Zenon DEF TypeInv, TypeOK, BufferEntry
<1>2. Position(p) \in 1..Len(buffer)
  BY PositionProperties, Zenon
<1>3. \A i \in Position(p)..Len(buffer) : buffer[i] \in BufferEntry
  BY <1>1, <1>2, SMTT(30)
<1> QED
  BY <1>1, <1>2, <1>3, SMTT(30) DEF RollbackToPoint

\* the scan of the metadata keys meets every slot once, in order
LEMMA PersistedSlotsProperties ==
  ASSUME TypeInv
  PROVE  /\ PersistedSlots \in SUBSET Nat
         /\ IsFiniteSet(PersistedSlots)
         /\ Cardinality(PersistedSlots) \in Nat
         /\ Persisted # {} => Cardinality(PersistedSlots) # 0
         /\ \A i \in 1..Cardinality(PersistedSlots) :
              /\ NthSlot(i) \in PersistedSlots
              /\ Cardinality({t \in PersistedSlots : t > NthSlot(i)}) = i - 1
<1>1. PersistedSlots \in SUBSET Nat
  BY TreeAssumption, SMTT(30) DEF Persisted, PointsIn, PersistedSlots
<1>2. IsFiniteSet(PersistedSlots)
  <2>1. IsFiniteSet(Persisted)
    BY Zenon DEF TypeInv
  <2> DEFINE f == [p \in Persisted |-> Slot[p]]
  <2>2. f \in Surjection(Persisted, PersistedSlots)
    BY Zenon DEF Surjection, PersistedSlots
  <2> QED BY <2>1, <2>2, FS_Surjection, Zenon
<1>3. Cardinality(PersistedSlots) \in Nat
  BY <1>2, FS_CardinalityType, Zenon
<1>4. Persisted # {} => Cardinality(PersistedSlots) # 0
  BY <1>2, FS_EmptySet, SMTT(30) DEF PersistedSlots
<1>5. ASSUME NEW i \in 1..Cardinality(PersistedSlots)
      PROVE  /\ NthSlot(i) \in PersistedSlots
             /\ Cardinality({t \in PersistedSlots : t > NthSlot(i)}) = i - 1
  <2>1. \E s \in PersistedSlots : Cardinality({t \in PersistedSlots : t > s}) = i - 1
    BY <1>1, <1>2, Ranked, Zenon
  <2> QED BY <2>1, Zenon DEF NthSlot
<1> QED BY <1>1, <1>2, <1>3, <1>4, <1>5, Zenon

LEMMA PersistedPointsType ==
  ASSUME TypeInv
  PROVE  /\ PersistedPoints \in Seq(Persisted)
         /\ Persisted # {} => Len(PersistedPoints) >= 1
<1>1. \A x \in PersistedSlots : PersistedAt(x) \in Persisted
  BY Zenon DEF PersistedSlots, PersistedAt
<1>2. PersistedPoints \in [1..Cardinality(PersistedSlots) -> Persisted]
  BY <1>1, PersistedSlotsProperties, Zenon DEF PersistedPoints
<1> QED BY <1>2, PersistedSlotsProperties, SMTT(30)

LEMMA RestoredBufferType ==
  ASSUME TypeInv
  PROVE  RestoredBuffer \in Seq(BufferEntry) /\ Len(RestoredBuffer) <= MaxBufferLen
<1> DEFINE s == PersistedPoints
           n == Min({Len(s), MaxBufferLen})
           restore(p) == [k \in Keys |-> IF rows[p][k] = NoAction THEN NoAction
                                         ELSE RestoreInverse(rows[p][k])]
<1>1. s \in Seq(Persisted) /\ Len(s) \in Nat
  BY PersistedPointsType, SMTT(30)
<1>2. n \in Nat /\ n <= Len(s) /\ n <= MaxBufferLen
  <2>1. {Len(s), MaxBufferLen} \in SUBSET Nat
    BY <1>1, BoundsAssumption, Zenon
  <2> HIDE DEF s
  <2> QED BY <2>1, MinProperties, Zenon
<1>3. ASSUME NEW p \in Persisted
      PROVE  Entry(p, restore(p)) \in BufferEntry
  <2>1. p \in Points /\ rows[p] \in RowMaps
    BY Zenon DEF Persisted, PointsIn, TypeInv, TypeOK
  <2>2. ASSUME NEW k \in Keys
        PROVE  restore(p)[k] \in [op : {"Set"}, arg : Values(k)] \cup {Delete, NoAction}
    BY <2>1, Zenon DEF RowMaps, RestoreInverse, Set
  <2>3. \A k \in Keys : [op : {"Set"}, arg : Values(k)] \cup {Delete} \subseteq StorageAction
    BY ValuesAreStored, Zenon DEF StorageAction
  <2>4. restore(p) \in InverseMaps
    BY <2>2, <2>3, Zenon DEF InverseMaps
  <2> QED BY <2>1, <2>4, Zenon DEF Entry, BufferEntry
<1>4. RestoredBuffer = [i \in 1..n |-> Entry(s[i], restore(s[i]))]
  BY Zenon DEF RestoredBuffer
<1> HIDE DEF s, n, restore
<1>5. RestoredBuffer \in [1..n -> BufferEntry]
  BY <1>1, <1>2, <1>3, <1>4, SMTT(30)
<1> QED BY <1>2, <1>5, SMTT(30)

-----------------------------------------------------------------------------
(* The transactions.                                                       *)

LEMMA PushedType ==
  ASSUME NEW bt \in Batches,
         NEW b \in Blocks
  PROVE  Pushed(bt, b) \in Batches
<1>1. Actions[b] \in ActionMaps /\ Size[b] \in Nat
  BY ActionsAssumption, TreeAssumption, Zenon
<1>2. MergeAll(bt.acts, Actions[b]) \in ActionMaps
  BY <1>1, MergeAllType, Zenon DEF Batches
<1> QED BY <1>1, <1>2, SMTT(30) DEF Pushed, Batches

\* the store's cursor stands for a point
LEMMA CursorPointType ==
  ASSUME store \in Stores
  PROVE  CursorPoint \in Points
<1>1. store[CursorKey] \in Blocks \cup {Absent}
  BY ActionsAssumption, Zenon DEF Stores, Values
<1> QED BY <1>1, Zenon DEF CursorPoint, Points

LEMMA MutableTxnType ==
  ASSUME TypeInv, unit \in Msgs, unit.type = "RollForward"
  PROVE  /\ MutableTxn \in Txns
         /\ MutableTxn.rows[Origin] = NoRows
         /\ IsFiniteSet(PointsIn(MutableTxn.rows))
<1> DEFINE b == unit.point
           flushed == ExecuteAll(batch.acts, store)
           inverse == InverseOf(Actions[b], flushed)
           init == IF buffer = <<>> /\ lastProcessed # Absent /\ rows[lastProcessed] = NoRows
                   THEN [rows EXCEPT ![lastProcessed] = InitRow] ELSE rows
           added == IF inverse = NoActions THEN init ELSE [init EXCEPT ![b] = RowsOf(inverse)]
           gced == GarbageCollected(added, Slot[b])
<1>1. b \in Blocks /\ b # Origin /\ b \in Points /\ Actions[b] \in ActionMaps
  BY ActionsAssumption, TreeAssumption, Zenon DEF Msgs, Points
<1>2. store \in Stores /\ batch.acts \in ActionMaps /\ rows \in [Points -> RowMaps \cup {NoRows}]
  BY Zenon DEF TypeInv, TypeOK, Batches
<1>3. lastProcessed # Absent => lastProcessed \in Points /\ lastProcessed # Origin
  BY TreeAssumption, Zenon DEF TypeInv, TypeOK, Points
<1>4. flushed \in Stores /\ ExecuteAllWithInverse(Actions[b], flushed) \in Stores
  BY <1>1, <1>2, ExecuteAllType, Zenon
<1>5. inverse \in InverseMaps
  BY <1>4, InverseOfType, Zenon
<1>6. RowsOf(inverse) \in RowMaps /\ InitRow \in RowMaps
  BY <1>5, RowsOfType, NoActionsType, Zenon DEF InitRow
<1> HIDE DEF inverse, flushed
<1>7. /\ init \in [Points -> RowMaps \cup {NoRows}]
      /\ init[Origin] = NoRows
      /\ PointsIn(init) \subseteq Persisted \cup {lastProcessed}
  BY <1>2, <1>3, <1>6, TreeAssumption, Zenon DEF TypeInv, PointsIn, Persisted, Points
<1> HIDE DEF init
<1>8. /\ added \in [Points -> RowMaps \cup {NoRows}]
      /\ added[Origin] = NoRows
      /\ PointsIn(added) \subseteq Persisted \cup {lastProcessed} \cup {b}
  BY <1>1, <1>6, <1>7, Zenon DEF PointsIn, Points
<1> HIDE DEF added
<1>9. /\ gced \in [Points -> RowMaps \cup {NoRows}]
      /\ gced[Origin] = NoRows
      /\ PointsIn(gced) \subseteq Persisted \cup {lastProcessed} \cup {b}
  BY <1>8, Zenon DEF PointsIn, GarbageCollected, Points
<1>10. IsFiniteSet(PointsIn(gced))
  <2>1. IsFiniteSet(Persisted \cup {lastProcessed} \cup {b})
    BY FS_AddElement, Zenon DEF TypeInv
  <2> QED BY <2>1, <1>9, FS_Subset, Zenon
<1>11. MutableTxn = [store |-> ExecuteAllWithInverse(Actions[b], flushed),
                     rows |-> gced, ts |-> TRUE, inverse |-> inverse]
  BY Zenon DEF MutableTxn, flushed, inverse, init, added
<1> QED BY <1>4, <1>5, <1>9, <1>10, <1>11, Zenon DEF Txns

LEMMA TxnType ==
  ASSUME TypeInv, HasTxn
  PROVE  /\ Txn \in Txns
         /\ Txn.rows[Origin] = NoRows
         /\ IsFiniteSet(PointsIn(Txn.rows))
<1>0. unit \in Msgs
  BY Zenon DEF TypeInv, TypeOK, HasTxn, BeginsTxn
<1>1. store \in Stores /\ batch.acts \in ActionMaps /\ rows \in [Points -> RowMaps \cup {NoRows}]
  BY Zenon DEF TypeInv, TypeOK, Batches
<1>2. CASE unit.type = "RollBack"
  <2>1. PointsSince(unit.point) \in Seq(BufferEntry) /\ Position(unit.point) \in Nat
    BY <1>2, PointsSinceProperties, PositionProperties, SMTT(30) DEF HasTxn
  <2>2. Undone(PointsSince(unit.point), store) \in Stores
    BY <1>1, <2>1, UndoneType, Zenon
  <2> DEFINE tr == Trimmed(Slot[unit.point])
  <2>3. /\ tr \in [Points -> RowMaps \cup {NoRows}] /\ tr[Origin] = NoRows
        /\ PointsIn(tr) \subseteq Persisted
    BY <1>1, Zenon DEF Trimmed, TypeInv, PointsIn, Persisted, Points
  <2>4. IsFiniteSet(PointsIn(tr))
    BY <2>3, FS_Subset, Zenon DEF TypeInv
  <2>5. Txn = RollBackTxn
    BY <1>2, Zenon DEF Txn
  <2> HIDE DEF tr
  <2>6. RollBackTxn = [store |-> Undone(PointsSince(unit.point), store), rows |-> tr,
                       ts |-> Position(unit.point) > 1 \/ tr # rows, inverse |-> NoActions]
    BY Zenon DEF RollBackTxn, tr
  <2> QED BY <2>1, <2>2, <2>3, <2>4, <2>5, <2>6, NoActionsType, Zenon DEF Txns
<1>3. CASE unit.type = "RollForward" /\ unit.mutable
  <2>1. Txn = MutableTxn
    BY <1>3, Zenon DEF Txn
  <2> QED BY <1>0, <1>3, <2>1, MutableTxnType, Zenon
<1>4. CASE unit.type = "RollForward" /\ ~unit.mutable
  <2>1. Txn = FlushTxn
    BY <1>4, Zenon DEF Txn
  <2>2. ExecuteAll(batch.acts, store) \in Stores
    BY <1>1, ExecuteAllType, Zenon
  <2>3. PointsIn(rows) = Persisted
    BY Zenon DEF PointsIn, Persisted
  <2>4. FlushTxn \in Txns /\ FlushTxn.rows = rows
    BY <1>1, <2>2, NoActionsType, Zenon DEF FlushTxn, Txns
  <2> QED BY <2>1, <2>3, <2>4, Zenon DEF TypeInv
<1> QED BY <1>0, <1>2, <1>3, <1>4, Zenon DEF Msgs

-----------------------------------------------------------------------------
(* Every step keeps the types.                                             *)

LEMMA InitialTypes ==
  /\ EmptyStore \in Stores /\ EmptyBatch \in Batches /\ NoResult \in Results
  /\ NoEntry \in Entries /\ SourceOff \in Sources /\ SourceOff.mode # "boot"
  /\ <<>> \in Seq([point : Points, inverse : InverseMaps]) /\ Len(<<>>) <= MaxBufferLen
<1>1. EmptyStore \in Stores
  BY Zenon DEF EmptyStore, Stores, Stored
<1>2. EmptyBatch \in Batches /\ NoResult \in Results
  BY NoActionsType, Zenon DEF EmptyBatch, Batches, NoResult, Results
<1>3. NoEntry \in Entries /\ SourceOff \in Sources /\ SourceOff.mode # "boot"
  BY SMTT(30) DEF NoEntry, Entries, SourceOff, Sources, Points
<1>4. Len(<<>>) <= MaxBufferLen
  BY BoundsAssumption, SMTT(30)
<1> QED BY <1>1, <1>2, <1>3, <1>4, SMTT(30)

LEMMA TypeInit == Init => TypeInv
<1> SUFFICES ASSUME Init PROVE TypeInv
  BY Zenon
<1>1. Persisted = {}
  BY Zenon DEF Init, Persisted, PointsIn
<1>2. TypeOK
  BY InitialTypes, Zenon DEF Init, TypeOK
<1>3. rows[Origin] = NoRows /\ src.mode # "boot" /\ pc # "publish"
  BY InitialTypes, Zenon DEF Init, Points
<1> QED BY <1>1, <1>2, <1>3, FS_EmptySet, Zenon DEF TypeInv

LEMMA TypeDie ==
  ASSUME TypeInv, Die, redis' = redis,
         store' \in Stores, rows' \in [Points -> RowMaps \cup {NoRows}],
         rows'[Origin] = NoRows, IsFiniteSet(Persisted')
  PROVE  TypeInv'
<1>1. entry' = entry /\ score' = score
  BY Zenon DEF redis
<1>2. TypeOK'
  BY <1>1, InitialTypes, Zenon DEF TypeInv, TypeOK, Die
<1> QED BY <1>2, InitialTypes, Zenon DEF TypeInv, Die

LEMMA TypeRestart ==
  ASSUME TypeInv, NEW t \in Points, Restart(t)
  PROVE  TypeInv'
<1>1. RestoredBuffer \in Seq([point : Points, inverse : InverseMaps]) /\ Len(RestoredBuffer) <= MaxBufferLen
  BY RestoredBufferType, Zenon DEF BufferEntry
<1>2. store \in Stores /\ store[CursorKey] \in Blocks \cup {Absent} /\ CursorPoint \in Points
  BY ActionsAssumption, CursorPointType, Zenon DEF TypeInv, TypeOK, Stores, Values
<1>3. \A p \in Persisted : p \in Points /\ p \in Blocks
  BY Zenon DEF Persisted, PointsIn, TypeInv, Points
<1>4. /\ src' \in Sources
      /\ src'.mode = "boot" => src'.tip \in Blocks
  <2>1. CASE BufferIsCurrent
    <3>1. PICK p \in Persisted : src' = [mode |-> "boot", tip |-> p, resumed |-> TRUE, paged |-> 0]
      BY <2>1, Zenon DEF Restart
    <3> QED BY <3>1, <1>3, SMTT(30) DEF Sources
  <2>2. CASE ~BufferIsCurrent
    <3>1. src' = [mode |-> "dumping", tip |-> CursorPoint, resumed |-> FALSE, paged |-> 0]
      BY <2>2, Zenon DEF Restart
    <3> QED BY <3>1, <1>2, SMTT(30) DEF Sources
  <2> QED BY <2>1, <2>2, Zenon
<1>5. Persisted' = Persisted
  BY Zenon DEF Restart, Persisted, PointsIn, tikv
<1> QED
  BY <1>1, <1>2, <1>4, <1>5, Zenon DEF TypeInv, TypeOK, Restart, tikv, redis

LEMMA TypeSchedule ==
  ASSUME TypeInv, Schedule \/ Reschedule \/ SwitchToStreaming
  PROVE  TypeInv'
<1>1. CASE Schedule
  <2>1. PICK m \in NextMessages : unit' = m.msg /\ src' = m.src
    BY <1>1, Zenon DEF Schedule
  <2>2. src \in Sources
    BY Zenon DEF TypeInv, TypeOK
  <2>3. /\ m.msg \in Msgs
        /\ m.src \in Sources
        /\ m.src.mode # "boot"
    <3>1. CASE src.mode = "boot"
      <4>1. m = [msg |-> RollBack(src.tip), src |-> [src EXCEPT !.mode = "dumping"]]
        BY <2>1, <3>1, Zenon DEF NextMessages
      <4> QED BY <4>1, <2>2, <3>1, Zenon DEF TypeInv, Msgs, RollBack, Sources
    <3>2. CASE src.mode = "dumping"
      <4>1. PICK b \in Blocks : m = [msg |-> RollForward(b, FALSE), src |-> AfterPage(b)]
        BY <2>1, <3>2, Zenon DEF NextMessages
      <4>2. AfterPage(b) \in Sources /\ AfterPage(b).mode = src.mode
        <5>1. src.paged \in 0..2 /\ b \in Points
          BY <2>2, Zenon DEF Sources, Points
        <5> DEFINE n == IF src.paged < 2 THEN src.paged + 1 ELSE 2
        <5>2. n \in 0..2
          BY <5>1, SMTT(30)
        <5>3. AfterPage(b) = [src EXCEPT !.tip = b, !.paged = n]
          BY Zenon DEF AfterPage
        <5> HIDE DEF n
        <5> QED BY <2>2, <5>1, <5>2, <5>3, Zenon DEF Sources
      <4>3. RollForward(b, FALSE) \in Msgs
        BY Zenon DEF Msgs, RollForward
      <4> QED BY <4>1, <4>2, <4>3, <3>2, Zenon
    <3>3. CASE src.mode = "streaming"
      <4>1. CASE \E b \in Blocks : m = [msg |-> RollForward(b, TRUE), src |-> [src EXCEPT !.tip = b]]
        BY <4>1, <2>2, <3>3, SMTT(30) DEF Msgs, RollForward, Points, Sources
      <4>2. CASE \E p \in Ancestors[src.tip] \ {Origin} :
                   m = [msg |-> RollBack(p), src |-> [src EXCEPT !.tip = p]]
        <5>1. Ancestors[src.tip] \ {Origin} \subseteq Blocks
          BY <2>2, TreeAssumption, Zenon DEF Points, Sources
        <5> QED BY <4>2, <5>1, <2>2, <3>3, SMTT(30) DEF Msgs, RollBack, Points, Sources
      <4> QED BY <2>1, <3>3, <4>1, <4>2, Zenon DEF NextMessages
    <3>4. CASE src.mode = "off"
      BY <2>1, <3>4, Zenon DEF NextMessages
    <3> QED BY <2>2, <3>1, <3>2, <3>3, <3>4, Zenon DEF Sources
  <2>4. m.msg # NoMsg
    BY <2>3, MarkersAssumption, Zenon
  <2> QED BY <1>1, <2>1, <2>3, <2>4, Zenon
          DEF TypeInv, TypeOK, Schedule, tikv, redis, memory, Persisted, PointsIn
<1>2. CASE Reschedule
  BY <1>2, Zenon DEF TypeInv, TypeOK, Reschedule, tikv, redis, memory, Persisted, PointsIn
<1>3. CASE SwitchToStreaming
  BY <1>3, Zenon
  DEF TypeInv, TypeOK, Sources, SwitchToStreaming, tikv, redis, memory, Persisted, PointsIn, InBuffer
<1> QED BY <1>1, <1>2, <1>3, Zenon

LEMMA TypePushToBatch ==
  ASSUME TypeInv, PushToBatch
  PROVE  TypeInv'
<1>1. unit \in Msgs /\ unit.point \in Blocks
  BY Zenon DEF TypeInv, TypeOK, PushToBatch, Executing, Msgs
<1>2. batch' \in Batches
  BY <1>1, PushedType, Zenon DEF PushToBatch, TypeInv, TypeOK
<1> QED BY <1>2, Zenon DEF TypeInv, TypeOK, PushToBatch, tikv, redis, Persisted, PointsIn

LEMMA TypeCommit ==
  ASSUME TypeInv, Commit \/ CommitFails \/ CommitUndetermined \/ RollBackRefused \/ Crash
  PROVE  TypeInv'
<1>1. CASE Commit
  <2>1. /\ Txn \in Txns /\ Txn.rows[Origin] = NoRows /\ IsFiniteSet(PointsIn(Txn.rows))
    BY <1>1, TxnType, Zenon DEF Commit
  <2>2. /\ store' \in Stores /\ rows' \in [Points -> RowMaps \cup {NoRows}]
        /\ rows'[Origin] = NoRows /\ Persisted' = PointsIn(Txn.rows)
        /\ result' \in Results
    BY <1>1, <2>1, Zenon DEF Commit, Txns, Results, Persisted, PointsIn
  <2>3. unit # NoMsg /\ pc = "execute"
    BY <1>1, Zenon DEF Commit, HasTxn, BeginsTxn, TypeInv, TypeOK
  <2>4. unit.type = "RollBack" => InBuffer(unit.point)'
    BY <1>1, Zenon DEF Commit, HasTxn, memory, InBuffer
  <2>5. unit' = unit
    BY <1>1, Zenon DEF Commit
  <2> QED BY <1>1, <2>1, <2>2, <2>3, <2>4, <2>5, Zenon DEF TypeInv, TypeOK, Commit, redis, memory
<1>2. CASE CommitFails
  <2>1. unit # NoMsg /\ unit \in Msgs
    BY <1>2, Zenon DEF CommitFails, BeginsTxn, TypeInv, TypeOK
  <2> QED BY <1>2, <2>1, Zenon
    DEF TypeInv, TypeOK, CommitFails, tikv, redis, memory, Persisted, PointsIn
<1>3. CASE CommitUndetermined
  <2>1. /\ Txn \in Txns /\ Txn.rows[Origin] = NoRows /\ IsFiniteSet(PointsIn(Txn.rows))
    BY <1>3, TxnType, Zenon DEF CommitUndetermined
  <2>2. /\ store' \in Stores /\ rows' \in [Points -> RowMaps \cup {NoRows}]
        /\ rows'[Origin] = NoRows /\ Persisted' = PointsIn(Txn.rows)
    BY <1>3, <2>1, Zenon DEF CommitUndetermined, Txns, Persisted, PointsIn
  <2> QED BY <1>3, <2>1, <2>2, TypeDie, Zenon DEF CommitUndetermined
<1>4. CASE RollBackRefused \/ Crash
  <2>1. /\ store' = store /\ rows' = rows /\ redis' = redis /\ Die /\ Persisted' = Persisted
    BY <1>4, Zenon DEF RollBackRefused, Crash, tikv, redis, Persisted, PointsIn
  <2> QED BY <2>1, TypeDie, Zenon DEF TypeInv, TypeOK
<1> QED BY <1>1, <1>2, <1>3, <1>4, Zenon

LEMMA TypePublish ==
  ASSUME TypeInv, Publish
  PROVE  TypeInv'
<1>1. unit \in Msgs /\ unit.point \in Blocks /\ unit.point \in Points
  BY Zenon DEF TypeInv, TypeOK, Publish, Msgs, Points
<1>2. CursorPoint \in Points /\ Slot[unit.point] \in Nat /\ Batched \in BOOLEAN
  BY <1>1, CursorPointType, TreeAssumption, Zenon DEF TypeInv, TypeOK, Batched, Msgs
<1>3. entry' \in Entries /\ score' \in Nat \cup {Absent} /\ registered' \in BOOLEAN
  <2>1. entry' \in Entries
    BY <1>1, <1>2, Zenon DEF Publish, NewEntry, Entries, TypeInv, TypeOK
  <2>2. score' \in Nat \cup {Absent}
    BY <1>2, Zenon DEF Publish, NewScore, TypeInv, TypeOK
  <2>3. registered' \in BOOLEAN
    BY Zenon DEF Publish
  <2> QED BY <2>1, <2>2, <2>3, Zenon
<1>4. /\ buffer' \in Seq(BufferEntry) /\ Len(buffer') <= MaxBufferLen
      /\ batch' \in Batches
  <2>0. /\ buffer \in Seq(BufferEntry) /\ Len(buffer) <= MaxBufferLen
        /\ batch \in Batches
    BY Zenon DEF TypeInv, TypeOK, BufferEntry
  <2>1. CASE unit.type = "RollBack"
    <3>1. InBuffer(unit.point)
      BY <2>1, Zenon DEF TypeInv, Publish
    <3>2. buffer' = RollbackToPoint(unit.point) /\ batch' = batch
      BY <2>1, Zenon DEF Publish, FinishRollBack
    <3>3. Position(unit.point) \in 1..Len(buffer) /\ Len(buffer) \in Nat
      BY <3>1, <2>0, PositionProperties, SMTT(30)
    <3>4. Len(RollbackToPoint(unit.point)) <= Len(buffer)
      BY <3>1, <3>3, RollbackToPointProperties, SMTT(30)
    <3> QED BY <3>1, <3>2, <3>3, <3>4, <2>0, BoundsAssumption, RollbackToPointProperties, SMTT(30)
  <2>2. CASE unit.type = "RollForward" /\ unit.mutable
    <3> DEFINE init == IF lastProcessed = Absent THEN Origin ELSE lastProcessed
               started == IF buffer = <<>> THEN AddBlock(buffer, Entry(init, NoActions)) ELSE buffer
    <3>1. Entry(init, NoActions) \in BufferEntry
      BY NoActionsType, Zenon DEF Entry, BufferEntry, TypeInv, TypeOK, Points
    <3>2. started \in Seq(BufferEntry)
      BY <2>0, <3>1, AddBlockProperties, Zenon
    <3>3. Entry(unit.point, result.inverse) \in BufferEntry
      BY <1>1, Zenon DEF Entry, BufferEntry, TypeInv, TypeOK, Results
    <3>4. /\ buffer' = AddBlock(started, Entry(unit.point, result.inverse))
          /\ batch' = IF batch.acts = NoActions THEN batch ELSE EmptyBatch
      BY <2>2, Zenon DEF Publish, FinishMutable
    <3> HIDE DEF started
    <3>5. /\ buffer' \in Seq(BufferEntry) /\ Len(buffer') \in 1..MaxBufferLen
      BY <3>2, <3>3, <3>4, AddBlockProperties, Zenon
    <3> QED BY <2>0, <3>4, <3>5, InitialTypes, BoundsAssumption, SMTT(30)
  <2>3. CASE unit.type = "RollForward" /\ ~unit.mutable
    <3>1. batch' = Pushed(EmptyBatch, unit.point) /\ buffer' = buffer
      BY <2>3, Zenon DEF Publish, FinishFlush
    <3>2. Pushed(EmptyBatch, unit.point) \in Batches
      BY <1>1, InitialTypes, PushedType, Zenon
    <3> QED BY <2>0, <3>1, <3>2, Zenon
  <2> QED BY <1>1, <2>1, <2>2, <2>3, Zenon DEF Msgs
<1>5. /\ lastProcessed' \in Blocks /\ pc' = "idle" /\ unit' = NoMsg /\ result' = NoResult
      /\ store' = store /\ rows' = rows /\ twoPC' = twoPC /\ src' = src /\ Persisted' = Persisted
  BY <1>1, Zenon DEF Publish, tikv, Persisted, PointsIn
<1>6. TypeOK'
  BY <1>3, <1>4, <1>5, InitialTypes, Zenon DEF TypeInv, TypeOK, BufferEntry
<1> QED BY <1>5, <1>6, Zenon DEF TypeInv

LEMMA TypePublishFails ==
  ASSUME TypeInv, PublishFails
  PROVE  TypeInv'
<1>1. unit \in Msgs /\ unit.point \in Blocks /\ unit.point \in Points
  BY Zenon DEF TypeInv, TypeOK, PublishFails, Msgs, Points
<1>2. CursorPoint \in Points /\ Slot[unit.point] \in Nat /\ Batched \in BOOLEAN
  BY <1>1, CursorPointType, TreeAssumption, Zenon DEF TypeInv, TypeOK, Batched, Msgs
<1>3. NewEntry \in Entries /\ NewScore \in Nat \cup {Absent}
  BY <1>1, <1>2, Zenon DEF NewEntry, Entries, NewScore, TypeInv, TypeOK
<1>4. entry' \in Entries /\ score' \in Nat \cup {Absent} /\ registered' \in BOOLEAN
  <2>1. CASE UNCHANGED <<entry, score, registered>>
    BY <2>1, Zenon DEF TypeInv, TypeOK
  <2>2. CASE /\ entry' = NewEntry
             /\ score' \in {score, NewScore}
             /\ registered' = (registered \/ Advertises)
    BY <2>2, <1>3, Zenon DEF TypeInv, TypeOK
  <2> QED BY <2>1, <2>2, Zenon DEF PublishFails
<1>5. /\ pc' = "idle" /\ unit' = NoMsg /\ result' = NoResult
      /\ store' = store /\ rows' = rows /\ twoPC' = twoPC /\ src' = src /\ Persisted' = Persisted
      /\ batch' = batch /\ buffer' = buffer /\ lastProcessed' = lastProcessed
  BY Zenon DEF PublishFails, tikv, Persisted, PointsIn
<1>6. TypeOK'
  BY <1>4, <1>5, InitialTypes, Zenon DEF TypeInv, TypeOK
<1> QED BY <1>5, <1>6, Zenon DEF TypeInv

-----------------------------------------------------------------------------
LEMMA TypeStutter ==
  ASSUME TypeInv, UNCHANGED vars
  PROVE  TypeInv'
BY Zenon DEF vars, TypeInv, TypeOK, Persisted, PointsIn, InBuffer

\* The types hold in every reachable state, whatever fails: crashes, lost
\* answers, Redis errors, resumptions at any point, batches of any size.
THEOREM TypeInvariance == Spec => []TypeInv
<1>1. Init => TypeInv
  BY TypeInit, Zenon
<1>2. TypeInv /\ [Next]_vars => TypeInv'
  <2> SUFFICES ASSUME TypeInv, [Next]_vars
               PROVE  TypeInv'
    BY Zenon
  <2>1. CASE Commit \/ CommitFails \/ CommitUndetermined \/ RollBackRefused \/ Crash
    BY <2>1, TypeCommit, Zenon
  <2>2. ASSUME NEW t \in Points, Restart(t) PROVE TypeInv'
    BY <2>2, TypeRestart, Zenon
  <2>3. CASE Schedule \/ Reschedule \/ SwitchToStreaming
    BY <2>3, TypeSchedule, Zenon
  <2>4. CASE PushToBatch
    BY <2>4, TypePushToBatch, Zenon
  <2>5. CASE Publish
    BY <2>5, TypePublish, Zenon
  <2>6. CASE PublishFails
    BY <2>6, TypePublishFails, Zenon
  <2>7. CASE UNCHANGED vars
    BY <2>7, TypeStutter, Zenon
  <2> QED BY <2>1, <2>2, <2>3, <2>4, <2>5, <2>6, <2>7, Zenon DEF Next
<1> QED BY <1>1, <1>2, PTL DEF Spec

\* The worker's type invariant.
THEOREM TypeCorrect == Spec => []TypeOK
<1>1. TypeInv => TypeOK
  BY Zenon DEF TypeInv
<1> QED BY <1>1, TypeInvariance, PTL

-----------------------------------------------------------------------------
(* The registry, whatever fails.                                           *)

IsBlock(m, mutable) == m # NoMsg /\ m.type = "RollForward" /\ m.mutable = mutable

\* A mutable block is pending only while the source streams, and so is the
\* worker registered; a registered worker has no page left to execute.
StreamInv ==
  /\ pc = "down" => ~registered /\ twoPC = NoMsg
  /\ pc = "publish" => twoPC = NoMsg
  /\ registered \/ IsBlock(unit, TRUE) \/ IsBlock(twoPC, TRUE) => src.mode = "streaming"
  /\ registered => ~IsBlock(unit, FALSE) /\ ~IsBlock(twoPC, FALSE)

LEMMA NoBlock == \A mutable : ~IsBlock(NoMsg, mutable)
BY Zenon DEF IsBlock

LEMMA StreamSchedule ==
  ASSUME TypeInv, StreamInv, Schedule
  PROVE  StreamInv'
<1>1. PICK m \in NextMessages : unit' = m.msg /\ src' = m.src
  BY Zenon DEF Schedule
<1>2. /\ pc' = "execute" /\ twoPC = NoMsg /\ twoPC' = NoMsg /\ registered' = registered
      /\ src \in Sources
  BY Zenon DEF Schedule, memory, TypeInv, TypeOK
<1>3. CASE src.mode = "streaming"
  <2>1. m.src.mode = "streaming" /\ m.msg.mutable
    <3>1. \/ \E b \in Blocks : m = [msg |-> RollForward(b, TRUE), src |-> [src EXCEPT !.tip = b]]
          \/ \E p \in Ancestors[src.tip] \ {Origin} :
               m = [msg |-> RollBack(p), src |-> [src EXCEPT !.tip = p]]
      BY <1>3, Zenon DEF NextMessages
    <3> QED BY <1>2, <1>3, <3>1, SMTT(30) DEF RollForward, RollBack, Sources
  <2> QED BY <1>1, <1>2, <2>1, NoBlock, Zenon DEF StreamInv, IsBlock
<1>4. CASE src.mode # "streaming"
  <2>1. ~IsBlock(m.msg, TRUE)
    <3>1. CASE src.mode = "boot"
      <4>1. m = [msg |-> RollBack(src.tip), src |-> [src EXCEPT !.mode = "dumping"]]
        BY <3>1, Zenon DEF NextMessages
      <4> QED BY <4>1, Zenon DEF RollBack, IsBlock
    <3>2. CASE src.mode = "dumping"
      <4>1. PICK b \in Blocks : m = [msg |-> RollForward(b, FALSE), src |-> AfterPage(b)]
        BY <3>2, Zenon DEF NextMessages
      <4> HIDE DEF AfterPage
      <4> QED BY <4>1, Zenon DEF RollForward, IsBlock
    <3>3. CASE src.mode = "off"
      BY <3>3, Zenon DEF NextMessages
    <3> QED BY <1>2, <1>4, <3>1, <3>2, <3>3, Zenon DEF Sources
  <2>2. ~registered
    BY <1>4, Zenon DEF StreamInv
  <2> QED BY <1>1, <1>2, <2>1, <2>2, NoBlock, Zenon DEF StreamInv
<1> QED BY <1>3, <1>4, Zenon

LEMMA StreamPublish ==
  ASSUME ~AdvertiseImmediately, TypeInv, StreamInv, Publish \/ PublishFails
  PROVE  /\ StreamInv'
         /\ registered' \/ score' # score => src.mode = "streaming"
<1>1. /\ pc = "publish" /\ pc' = "idle" /\ unit' = NoMsg /\ twoPC' = twoPC /\ src' = src
      /\ registered' => registered \/ Advertises
      /\ score' # score => registered \/ Advertises
  <2>1. NewScore # score => registered \/ Advertises
    BY Zenon DEF NewScore
  <2>2. CASE Publish
    BY <2>1, <2>2, Zenon DEF Publish
  <2>3. CASE PublishFails
    <3>1. score' # score => registered \/ Advertises
      BY <2>1, <2>3, Zenon DEF PublishFails
    <3>2. registered \in BOOLEAN
      BY Zenon DEF TypeInv, TypeOK
    <3>3. registered' => registered \/ Advertises
      BY <2>3, <3>2, Zenon DEF PublishFails
    <3> QED BY <2>3, <3>1, <3>3, Zenon DEF PublishFails
  <2> QED BY <2>2, <2>3, Zenon
<1>2. unit # NoMsg /\ unit.mutable \in BOOLEAN
  BY <1>1, Zenon DEF TypeInv, TypeOK, Msgs
<1>3. Advertises => IsBlock(unit, TRUE)
  BY <1>2, Zenon DEF Advertises, IsBlock
<1>4. registered' \/ score' # score => src.mode = "streaming"
  BY <1>1, <1>3, Zenon DEF StreamInv
<1> QED BY <1>1, <1>4, NoBlock, Zenon DEF StreamInv

LEMMA StreamNext ==
  ASSUME ~AdvertiseImmediately, TypeInv, StreamInv, [Next]_vars
  PROVE  StreamInv' /\ ScoreMovesStreaming
<1>1. CASE Crash \/ CommitUndetermined \/ RollBackRefused
  BY <1>1, NoBlock, Zenon
  DEF Crash, CommitUndetermined, RollBackRefused, Die, redis, StreamInv, ScoreMovesStreaming
<1>2. ASSUME NEW t \in Points, Restart(t) PROVE StreamInv' /\ ScoreMovesStreaming
  <2>1. /\ pc = "down" /\ pc' = "idle" /\ unit' = unit /\ twoPC' = twoPC
        /\ registered' = registered /\ score' = score
    BY <1>2, Zenon DEF Restart, redis
  <2>2. unit = NoMsg
    BY <2>1, Zenon DEF TypeInv, TypeOK
  <2> QED BY <2>1, <2>2, NoBlock, Zenon DEF StreamInv, ScoreMovesStreaming
<1>3. CASE SwitchToStreaming
  <2>1. /\ src'.mode = "streaming" /\ src.mode = "dumping" /\ pc' = pc /\ unit' = unit /\ twoPC' = twoPC
        /\ registered' = registered /\ score' = score
    BY <1>3, Zenon DEF SwitchToStreaming, redis, memory, TypeInv, TypeOK, Sources
  <2> QED BY <2>1, Zenon DEF StreamInv, ScoreMovesStreaming
<1>4. CASE Reschedule
  <2>1. /\ pc' = "execute" /\ unit' = twoPC /\ twoPC' = twoPC /\ src' = src
        /\ registered' = registered /\ score' = score
    BY <1>4, Zenon DEF Reschedule, redis, memory
  <2> QED BY <2>1, Zenon DEF StreamInv, ScoreMovesStreaming
<1>5. CASE Schedule
  <2>1. score' = score
    BY <1>5, Zenon DEF Schedule, redis
  <2> QED BY <1>5, <2>1, StreamSchedule, Zenon DEF ScoreMovesStreaming
<1>6. CASE PushToBatch \/ Commit \/ CommitFails
  <2>1. /\ pc = "execute" /\ pc' \in {"idle", "publish"} /\ src' = src
        /\ registered' = registered /\ score' = score
        /\ unit' \in {unit, NoMsg} /\ twoPC' \in {twoPC, unit, NoMsg}
        /\ pc' = "publish" => twoPC' = NoMsg
    BY <1>6, Zenon DEF PushToBatch, Executing, Commit, HasTxn, BeginsTxn, CommitFails, redis, memory
  <2> QED BY <2>1, NoBlock, Zenon DEF StreamInv, ScoreMovesStreaming
<1>7. CASE Publish \/ PublishFails
  BY <1>7, StreamPublish, Zenon DEF ScoreMovesStreaming
<1>8. CASE UNCHANGED vars
  BY <1>8, Zenon DEF vars, StreamInv, ScoreMovesStreaming
<1> QED BY <1>1, <1>2, <1>3, <1>4, <1>5, <1>6, <1>7, <1>8, Zenon DEF Next

LEMMA StreamInvariance == ~AdvertiseImmediately => (Spec => []StreamInv)
<1> SUFFICES ASSUME ~AdvertiseImmediately PROVE Spec => []StreamInv
  BY Zenon
<1>1. Init => StreamInv
  BY NoBlock, Zenon DEF Init, StreamInv
<1>2. TypeInv /\ StreamInv /\ [Next]_vars => StreamInv'
  BY StreamNext, Zenon
<1> QED BY <1>1, <1>2, TypeInvariance, PTL DEF Spec

\* Unless it is told to advertise at once, a worker that backfills never
\* changes its score (maybe_advertise, update_scores), whatever fails: for any
\* batch size, with Redis errors, lost answers and restarts at any point.
THEOREM BackfillUnadvertised == ~AdvertiseImmediately => (Spec => AdvertisedAfterMutable)
<1> SUFFICES ASSUME ~AdvertiseImmediately PROVE Spec => AdvertisedAfterMutable
  BY Zenon
<1>1. TypeInv /\ StreamInv /\ [Next]_vars => [ScoreMovesStreaming]_vars
  BY StreamNext, Zenon
<1>2. Spec => []StreamInv
  BY StreamInvariance, Zenon
<1> QED BY <1>1, <1>2, TypeInvariance, PTL DEF Spec, AdvertisedAfterMutable

-----------------------------------------------------------------------------
(* The tree of blocks.                                                     *)

\* a chain is ordered by slot, and contains the chains of its points
Ordered(c) ==
  /\ c \in Ancestors[c]
  /\ \A p \in Ancestors[c] :
       /\ Slot[p] <= Slot[c]
       /\ Ancestors[p] \subseteq Ancestors[c]
       /\ \A q \in Ancestors[c] : Slot[q] <= Slot[p] => q \in Ancestors[p]

LEMMA BlocksAreATree == IsTree(Blocks, Origin, Parent, Ancestors, Slot)
BY TreeAssumption, Zenon DEF IsTree, Points

LEMMA ChainsAreOrdered == \A c \in Points : Ordered(c)
BY BlocksAreATree, TreeOrder, SMTT(30) DEF Ordered, ChainOrder, Points

\* the points of one chain have different slots
LEMMA SlotsDiffer ==
  ASSUME NEW c \in Points, NEW p \in Ancestors[c], NEW q \in Ancestors[c], Slot[p] = Slot[q]
  PROVE  p = q
BY BlocksAreATree, TreeSlotsDiffer, SMTT(30) DEF Points

\* below a block, a chain goes on with its parent
LEMMA ParentIsNext ==
  ASSUME NEW c \in Points, NEW p \in Ancestors[c], p \in Blocks
  PROVE  /\ Parent[p] \in Ancestors[c] /\ Slot[Parent[p]] < Slot[p]
         /\ \A q \in Ancestors[c] : Slot[q] < Slot[p] => Slot[q] <= Slot[Parent[p]]
BY BlocksAreATree, TreeParent, Zenon DEF Points

-----------------------------------------------------------------------------
(* What the store holds after a chain.                                     *)

LEMMA CursorOfState ==
  ASSUME NEW p \in Points
  PROVE  StateAt[p][CursorKey] = IF p = Origin THEN Absent ELSE p
<1>1. CASE p = Origin
  BY <1>1, StateAssumption, ActionsAssumption, Zenon DEF EmptyStore
<1>2. CASE p \in Blocks
  <2>1. Set(p) # NoAction
    BY <1>2, ActionsAssumption, SMTT(30) DEF Set, StorageAction, Value
  <2>2. StateAt[p] = ExecuteAll(Actions[p], StateAt[Parent[p]]) /\ Actions[p][CursorKey] = Set(p)
    BY <1>2, StateAssumption, ActionsAssumption, Zenon
  <2>3. StateAt[p][CursorKey] = Execute(Set(p), StateAt[Parent[p]][CursorKey])
    BY <2>1, <2>2, ActionsAssumption, Zenon DEF ExecuteAll
  <2> QED BY <1>2, <2>3, TreeAssumption, Zenon DEF Execute, Set, CounterOps
<1> QED BY <1>1, <1>2, Zenon DEF Points

\* so a store that is the state of a chain knows which one
LEMMA CursorNamesChain ==
  ASSUME NEW p \in Points, store = StateAt[p]
  PROVE  CursorPoint = p
<1>1. Absent \notin Blocks
  BY ActionsAssumption, ValuesAssumption, Zenon
<1> QED BY <1>1, CursorOfState, Zenon DEF CursorPoint, Points

\* the inverse of a block restores the state before it, key by key
LEMMA InverseUndoesBlock ==
  ASSUME Exact, NEW b \in Blocks, NEW k \in Keys
  PROVE  IF ChainInverse(b)[k] = NoAction
         THEN StateAt[b][k] = StateAt[Parent[b]][k]
         ELSE \A v : Execute(ChainInverse(b)[k], v) = StateAt[Parent[b]][k]
<1> DEFINE a == Actions[b][k]
           v == StateAt[Parent[b]][k]
<1>1. /\ StateAt[Parent[b]] \in Stores /\ Actions[b] \in ActionMaps
  BY TreeAssumption, StateAssumption, ActionsAssumption, Zenon
<1>2. v \in Values(k) \cup {Absent} /\ a \in Emitted(k) \cup {NoAction}
  BY <1>1, Zenon DEF Stores, ActionMaps
<1>3. StateAt[b][k] = IF a = NoAction THEN v ELSE ExecuteWithInverse(a, v)
  BY ZenonT(60) DEF Exact, ExecuteAllWithInverse
<1>4. ChainInverse(b)[k] = IF a # NoAction /\ HasInverse(a, v) THEN InverseOp(v) ELSE NoAction
  BY Zenon DEF ChainInverse, InverseOf
<1>5. InverseOp(v) # NoAction /\ \A x : Execute(InverseOp(v), x) = v
  <2>1. v \in Stored
    BY <1>2, ValuesAreStored, Zenon DEF Stored
  <2>2. InverseOp(v) \in StorageAction
    BY <2>1, Zenon DEF InverseOp, StorageAction, Set, Stored
  <2> QED BY <2>2, ActionsAssumption, Zenon DEF InverseOp, Execute, Set, Delete, CounterOps
<1> HIDE DEF a, v
<1>6. a # NoAction /\ ~HasInverse(a, v) => ExecuteWithInverse(a, v) = v
  <2> SUFFICES ASSUME a \in Emitted(k), ~HasInverse(a, v)
               PROVE  ExecuteWithInverse(a, v) = v
    BY <1>2, Zenon
  <2>1. a.op \in {"Set", "Delete", "Insert"} \cup CounterOps
    BY SMTT(30) DEF Emitted, Delete
  <2>2. a.op = "Delete" => a.arg = Absent
    BY SMTT(30) DEF Emitted, Delete, CounterOps
  <2> QED BY <2>1, <2>2, Zenon DEF HasInverse, ExecuteWithInverse, CounterOps
<1> QED BY <1>3, <1>4, <1>5, <1>6, Zenon DEF v

-----------------------------------------------------------------------------
(* The rollback buffer.                                                    *)

\* where no block has an inverse for a key, the key does not change
LEMMA FlatChain ==
  ASSUME Exact, NEW buf \in Seq(BufferEntry), ChainBuffer(buf), NEW k \in Keys,
         NEW i \in 1..Len(buf), NEW j \in i..Len(buf),
         \A m \in i..(j - 1) : buf[m].inverse[k] = NoAction
  PROVE  StateAt[buf[i].point][k] = StateAt[buf[j].point][k]
<1> DEFINE same(n) == StateAt[buf[i].point][k] = StateAt[buf[n].point][k]
           Bad == {n \in i..j : ~same(n)}
<1>0. Len(buf) \in Nat /\ i \in Nat /\ j \in Nat /\ i <= j /\ j <= Len(buf) /\ 1 <= i
  BY SMTT(30)
<1> SUFFICES ASSUME Bad # {} PROVE FALSE
  BY <1>0, SMTT(30)
<1>1. Bad \in SUBSET Nat
  BY <1>0, SMTT(30)
<1>2. PICK n \in Bad : \A m \in Bad : n <= m
  BY <1>1, Least, Zenon
<1>3. n \in i..j /\ ~same(n)
  BY <1>2, Zenon
<1> HIDE DEF same
<1>4. n # i
  BY <1>3, Zenon DEF same
<1>5. n - 1 \in i..(j - 1) /\ n - 1 \in 1..(Len(buf) - 1) /\ n - 1 \in i..j /\ ~(n <= n - 1)
      /\ (n - 1) + 1 = n
  BY <1>0, <1>3, <1>4, SMTT(30)
<1>6. same(n - 1)
  BY <1>2, <1>5, Zenon
<1>7. /\ buf[n - 1].point \in Blocks
      /\ buf[n].point = Parent[buf[n - 1].point]
      /\ ChainInverse(buf[n - 1].point)[k] = NoAction
  BY <1>5, Zenon DEF ChainBuffer
<1>8. StateAt[buf[n - 1].point][k] = StateAt[buf[n].point][k]
  BY <1>7, InverseUndoesBlock, Zenon
<1> QED BY <1>3, <1>6, <1>8, Zenon DEF same

\* A rollback to any point of the buffer: the inverses of the blocks after it
\* lead from the state of the newest block to the state at the point.
LEMMA UndoReachesPoint ==
  ASSUME Exact, NEW buf \in Seq(BufferEntry), ChainBuffer(buf), NEW i \in 1..Len(buf),
         NEW undo \in Seq(BufferEntry), Len(undo) = i - 1,
         \A j \in 1..(i - 1) : undo[j] = buf[j]
  PROVE  Undone(undo, StateAt[buf[1].point]) = StateAt[buf[i].point]
<1>0. Len(buf) \in Nat /\ i \in Nat /\ 1 <= i /\ i <= Len(buf) /\ DOMAIN undo = 1..(i - 1)
  BY SMTT(30)
<1>1. ASSUME NEW k \in Keys
      PROVE  Undone(undo, StateAt[buf[1].point])[k] = StateAt[buf[i].point][k]
  <2> DEFINE js == {j \in DOMAIN undo : undo[j].inverse[k] # NoAction}
             s == StateAt[buf[1].point]
  <2>1. CASE js = {}
    <3>1. \A m \in 1..(i - 1) : buf[m].inverse[k] = NoAction
      BY <2>1, <1>0, Zenon
    <3>2. 1 \in 1..Len(buf) /\ i \in 1..Len(buf)
      BY <1>0, SMTT(30)
    <3>3. StateAt[buf[1].point][k] = StateAt[buf[i].point][k]
      BY <3>1, <3>2, FlatChain, Zenon
    <3> QED BY <2>1, <3>3, Zenon DEF Undone
  <2>2. CASE js # {}
    <3> DEFINE m == Max(js)
    <3>1. m \in js /\ \A n \in js : n <= m
      <4>1. i - 1 \in Nat /\ js \in SUBSET (0..(i - 1))
        BY <1>0, SMTT(30)
      <4> HIDE DEF js
      <4> QED BY <4>1, <2>2, MaxProperties, Zenon
    <3>2. Undone(undo, s)[k] = Execute(undo[m].inverse[k], s[k])
      BY <2>2, Zenon DEF Undone
    <3> HIDE DEF m
    <3>3. m \in 1..(i - 1) /\ buf[m].inverse[k] # NoAction /\ undo[m] = buf[m]
      BY <3>1, <1>0, Zenon
    <3>4. m \in 1..(Len(buf) - 1) /\ m + 1 \in 1..Len(buf) /\ i \in (m + 1)..Len(buf)
      BY <3>3, <1>0, SMTT(30)
    <3>5. \A n \in (m + 1)..(i - 1) : buf[n].inverse[k] = NoAction
      <4>1. \A n \in (m + 1)..(i - 1) : n \in 1..(i - 1) /\ ~(n <= m)
        BY <3>3, <1>0, SMTT(30)
      <4>2. \A n \in (m + 1)..(i - 1) : n \notin js
        BY <3>1, <4>1, Zenon
      <4> QED BY <4>1, <4>2, <1>0, Zenon
    <3>6. StateAt[buf[m + 1].point][k] = StateAt[buf[i].point][k]
      BY <3>4, <3>5, FlatChain, Zenon
    <3>7. /\ buf[m].point \in Blocks
          /\ buf[m + 1].point = Parent[buf[m].point]
          /\ buf[m].inverse = ChainInverse(buf[m].point)
      BY <3>4, Zenon DEF ChainBuffer
    <3>8. Execute(buf[m].inverse[k], s[k]) = StateAt[buf[m + 1].point][k]
      BY <3>3, <3>7, InverseUndoesBlock, ZenonT(60)
    <3> QED BY <3>2, <3>3, <3>6, <3>8, Zenon
  <2> QED BY <2>1, <2>2, SMTT(30)
<1>2. StateAt[buf[i].point] \in [Keys -> Stored]
  <2>1. buf[i] \in BufferEntry
    BY SMTT(30)
  <2>2. buf[i].point \in Points
    BY <2>1, Zenon DEF BufferEntry
  <2> QED BY <2>2, StateAssumption, Zenon DEF Stores
<1> DEFINE u == Undone(undo, StateAt[buf[1].point])
<1>3. u = [k \in Keys |-> u[k]]
  BY Zenon DEF Undone
<1>4. \A k \in Keys : u[k] = StateAt[buf[i].point][k]
  BY <1>1, Zenon
<1> HIDE DEF u
<1>5. u = StateAt[buf[i].point]
  BY <1>2, <1>3, <1>4, Zenon
<1> QED BY <1>5, Zenon DEF u

\* the points of the buffer are on the chain of the newest
LEMMA BufferOnChain ==
  ASSUME NEW buf \in Seq(BufferEntry), ChainBuffer(buf), NEW i \in 1..Len(buf)
  PROVE  buf[i].point \in Ancestors[buf[1].point]
<1> DEFINE c == buf[1].point
           Bad == {n \in 1..Len(buf) : buf[n].point \notin Ancestors[c]}
<1>0. Len(buf) \in Nat /\ 1 \in 1..Len(buf) /\ c \in Points
  <2>1. 1 \in 1..Len(buf) /\ buf[1] \in BufferEntry
    BY SMTT(30)
  <2> QED BY <2>1, SMTT(30) DEF BufferEntry
<1> SUFFICES ASSUME Bad # {} PROVE FALSE
  BY Zenon
<1>1. Bad \in SUBSET Nat
  BY SMTT(30)
<1>2. PICK n \in Bad : \A m \in Bad : n <= m
  BY <1>1, Least, Zenon
<1>3. n # 1
  BY <1>0, <1>2, ChainsAreOrdered, Zenon DEF Ordered
<1> HIDE DEF c
<1>4. /\ n - 1 \in 1..Len(buf) /\ n - 1 \in 1..(Len(buf) - 1) /\ ~(n <= n - 1)
      /\ (n - 1) + 1 = n
  BY <1>0, <1>2, <1>3, SMTT(30)
<1>5. buf[n - 1].point \in Ancestors[c]
  BY <1>2, <1>4, Zenon
<1>6. buf[n - 1].point \in Blocks /\ buf[n].point = Parent[buf[n - 1].point]
  BY <1>4, Zenon DEF ChainBuffer
<1>7. buf[n].point \in Ancestors[c]
  BY <1>0, <1>5, <1>6, ParentIsNext, Zenon
<1> QED BY <1>2, <1>7, Zenon

-----------------------------------------------------------------------------
(* The rollback metadata and the buffer restored from it.                  *)

\* the points of the metadata, newest first, are the cursor and its ancestors
LEMMA PersistedPointsAreChain ==
  ASSUME TypeInv, RowsInv, Persisted # {}
  PROVE  /\ PersistedPoints[1] = CursorPoint
         /\ \A i \in 1..(Len(PersistedPoints) - 1) :
              /\ PersistedPoints[i] \in Blocks
              /\ PersistedPoints[i + 1] = Parent[PersistedPoints[i]]
              /\ Slot[PersistedPoints[i + 1]] < Slot[PersistedPoints[i]]
              /\ PersistedPoints[i + 1] \in Persisted
<1> DEFINE c == CursorPoint
           n == Cardinality(PersistedSlots)
           s == PersistedPoints
           Above(x) == {t \in PersistedSlots : t > x}
<1>1. c \in Points
  BY CursorPointType, Zenon DEF TypeInv, TypeOK
<1>2. /\ Persisted \subseteq Ancestors[c]
      /\ \A q \in Persisted, x \in Ancestors[c] : Slot[x] >= Slot[q] => x \in Persisted
  BY Zenon DEF RowsInv, ChainRows, PointsIn, Persisted
<1>3. /\ Persisted \subseteq Blocks /\ Persisted \subseteq Points
      /\ \A p \in Persisted : Slot[p] \in Nat
  BY TreeAssumption, Zenon DEF Persisted, PointsIn, TypeInv, Points
<1>4. /\ PersistedSlots \in SUBSET Nat /\ IsFiniteSet(PersistedSlots)
      /\ n \in Nat /\ n # 0
      /\ \A i \in 1..n : NthSlot(i) \in PersistedSlots /\ Cardinality(Above(NthSlot(i))) = i - 1
  BY PersistedSlotsProperties, Zenon
<1>5. s = [i \in 1..n |-> PersistedAt(NthSlot(i))] /\ Len(s) = n
  BY <1>4, SMTT(30) DEF PersistedPoints
<1>6. \A x \in PersistedSlots : PersistedAt(x) \in Persisted /\ Slot[PersistedAt(x)] = x
  BY Zenon DEF PersistedSlots, PersistedAt
<1>7. \A i \in 1..n : s[i] \in Persisted /\ Slot[s[i]] = NthSlot(i)
  BY <1>4, <1>5, <1>6, Zenon
<1>8. c \in Persisted
  BY <1>1, <1>2, <1>3, ChainsAreOrdered, TreeAssumption, Zenon DEF Ordered
<1>9. \A x : IsFiniteSet(Above(x)) /\ Cardinality(Above(x)) \in Nat
  BY <1>4, FS_Subset, FS_CardinalityType, Zenon
<1>12. \A x, t : t \in Above(x) <=> t \in PersistedSlots /\ t > x
  BY Zenon
<1>13. \A t \in PersistedSlots : t \in Nat
  BY <1>4, Zenon
<1>14. \A i \in 1..n : NthSlot(i) \in PersistedSlots /\ Cardinality(Above(NthSlot(i))) = i - 1
  BY <1>4, Zenon
<1>15. n \in Nat /\ n # 0
  BY <1>4, Zenon
<1> HIDE DEF n, s, c, Above
<1>10. s[1] = c
  <2>1. 1 \in 1..n
    BY <1>15, SMTT(30)
  <2>2. Above(NthSlot(1)) = {}
    <3>1. Cardinality(Above(NthSlot(1))) = 0
      BY <2>1, <1>14, SMTT(30)
    <3> QED BY <3>1, <1>9, FS_EmptySet, Zenon
  <2>3. Slot[c] \in PersistedSlots /\ Slot[c] \in Nat
    BY <1>8, <1>3, Zenon DEF PersistedSlots
  <2>4. Slot[c] <= Slot[s[1]] /\ s[1] \in Persisted
    <3>1. s[1] \in Persisted /\ Slot[s[1]] = NthSlot(1)
      BY <2>1, <1>7, Zenon
    <3>2. ~(Slot[c] > Slot[s[1]]) /\ Slot[s[1]] \in Nat
      BY <3>1, <2>2, <2>3, <1>3, <1>12, Zenon
    <3> QED BY <3>1, <3>2, <2>3, SMTT(30)
  <2>5. Slot[s[1]] <= Slot[c] /\ Slot[s[1]] \in Nat
    BY <2>4, <1>1, <1>2, <1>3, ChainsAreOrdered, Zenon DEF Ordered
  <2>6. Slot[s[1]] = Slot[c]
    BY <2>3, <2>4, <2>5, SMTT(30)
  <2> QED BY <2>4, <2>6, <1>1, <1>2, <1>8, SlotsDiffer, Zenon
<1>11. ASSUME NEW i \in 1..(n - 1)
       PROVE  /\ s[i] \in Blocks /\ s[i + 1] = Parent[s[i]]
              /\ Slot[s[i + 1]] < Slot[s[i]] /\ s[i + 1] \in Persisted
  <2> DEFINE p == s[i]
             q == s[i + 1]
             a == Slot[p]
             b == Slot[q]
             m == Slot[Parent[p]]
  <2>1. i \in 1..n /\ i + 1 \in 1..n /\ i \in Nat /\ n - 1 \in Nat /\ (i + 1) - 1 = i
    BY <1>15, SMTT(30)
  <2>2. /\ p \in Persisted /\ q \in Persisted /\ a \in PersistedSlots /\ b \in PersistedSlots
        /\ a \in Nat /\ b \in Nat /\ p \in Blocks
        /\ Cardinality(Above(a)) = i - 1 /\ Cardinality(Above(b)) = i
    <3>1. p \in Persisted /\ q \in Persisted /\ a = NthSlot(i) /\ b = NthSlot(i + 1)
      BY <2>1, <1>7, Zenon
    <3>2. a \in PersistedSlots /\ Cardinality(Above(a)) = i - 1
      BY <3>1, <2>1, <1>14, Zenon
    <3>3. b \in PersistedSlots /\ Cardinality(Above(b)) = i
      BY <3>1, <2>1, <1>14, Zenon
    <3> HIDE DEF p, q, a, b
    <3> QED BY <3>1, <3>2, <3>3, <1>3, <1>13, SMTT(30)
  <2> HIDE DEF p, q, a, b
  <2>3. b < a
    <3> SUFFICES ASSUME a <= b PROVE FALSE
      BY <2>2, SMTT(30)
    <3>1. Above(b) \subseteq Above(a)
      <4>1. \A t \in PersistedSlots : t > b => t > a
        BY <2>2, <1>13, SMTT(30)
      <4> QED BY <4>1, <1>12, Zenon
    <3>2. Cardinality(Above(b)) <= Cardinality(Above(a))
      BY <3>1, <1>9, FS_Subset, Zenon
    <3> QED BY <3>2, <2>2, <2>1, SMTT(30)
  <2>4. /\ Parent[p] \in Ancestors[c] /\ m < a /\ b <= m /\ m \in Nat
    <3>1. p \in Ancestors[c] /\ q \in Ancestors[c]
      BY <2>2, <1>2, Zenon
    <3>2. Parent[p] \in Points /\ m \in Nat
      BY <2>2, TreeAssumption, Zenon
    <3> QED BY <3>1, <3>2, <2>2, <2>3, <1>1, ParentIsNext, Zenon DEF a, b
  <2>5. Parent[p] \in Persisted /\ m \in PersistedSlots
    <3>1. Slot[Parent[p]] >= Slot[q]
      BY <2>4, <2>2, Zenon DEF b
    <3> QED BY <3>1, <2>2, <2>4, <1>2, Zenon DEF PersistedSlots
  <2> HIDE DEF m
  <2>6. m = b
    <3> SUFFICES ASSUME b < m PROVE FALSE
      BY <2>2, <2>4, SMTT(30)
    <3>1. /\ a \notin Above(a) /\ m \notin Above(a) \cup {a}
          /\ Above(a) \cup {a} \cup {m} \subseteq Above(b)
      <4>1. ~(a > a) /\ ~(m > a) /\ m # a /\ a > b /\ m > b
        BY <2>2, <2>3, <2>4, SMTT(30)
      <4>2. \A t \in PersistedSlots : t > a => t > b
        BY <2>2, <2>3, <1>13, SMTT(30)
      <4>3. a \notin Above(a) /\ m \notin Above(a)
        BY <4>1, <1>12, Zenon
      <4>4. a \in Above(b) /\ m \in Above(b)
        BY <4>1, <2>2, <2>5, <1>12, Zenon
      <4>5. \A t \in Above(a) : t \in Above(b)
        BY <4>2, <1>12, Zenon
      <4> QED BY <4>1, <4>3, <4>4, <4>5, Zenon
    <3>2. /\ IsFiniteSet(Above(a) \cup {a}) /\ Cardinality(Above(a) \cup {a}) = i
      <4>1. IsFiniteSet(Above(a))
        BY <1>9, Zenon
      <4>2. Cardinality(Above(a) \cup {a}) = Cardinality(Above(a)) + 1
        BY <4>1, <3>1, FS_AddElement, Zenon
      <4>3. IsFiniteSet(Above(a) \cup {a})
        BY <4>1, FS_AddElement, Zenon
      <4> QED BY <4>2, <4>3, <2>1, <2>2, SMTT(30)
    <3>3. Cardinality(Above(a) \cup {a} \cup {m}) = i + 1
      BY <3>1, <3>2, FS_AddElement, Zenon
    <3>4. i + 1 <= Cardinality(Above(b))
      BY <3>1, <3>3, <1>9, FS_Subset, Zenon
    <3> QED BY <3>4, <2>2, <2>1, SMTT(30)
  <2>7. q = Parent[p]
    BY <2>2, <2>4, <2>6, <1>1, <1>2, SlotsDiffer, Zenon DEF m, b
  <2> QED BY <2>2, <2>3, <2>7, Zenon DEF p, q, a, b
<1> QED BY <1>5, <1>10, <1>11, Zenon DEF s, c

\* what is persisted of a block's inverses is read back as it was
LEMMA RestoredInverse ==
  ASSUME Exact, NEW b \in Blocks, NEW k \in Keys
  PROVE  (IF RowsOf(ChainInverse(b))[k] = NoAction THEN NoAction
          ELSE RestoreInverse(RowsOf(ChainInverse(b))[k])) = ChainInverse(b)[k]
<1> DEFINE v == StateAt[Parent[b]][k]
           x == ChainInverse(b)[k]
<1>1. v \in Value \cup {Absent} /\ v # EmptyBytes
  <2>1. Parent[b] \in Points
    BY TreeAssumption, Zenon
  <2> QED BY <2>1, StateAssumption, Zenon DEF Stores, Stored, Exact
<1>2. x \in {NoAction, InverseOp(v)}
  BY Zenon DEF ChainInverse, InverseOf
<1>3. RowsOf(ChainInverse(b))[k] = IF x = NoAction THEN NoAction ELSE PersistInverse(x)
  BY Zenon DEF RowsOf
<1> HIDE DEF v, x
<1>4. x # NoAction => /\ PersistInverse(x) # NoAction
                      /\ RestoreInverse(PersistInverse(x)) = x
  <2>1. EmptyBytes # NoAction /\ (v # Absent => v # NoAction)
    BY <1>1, ActionsAssumption, ValuesAssumption, Zenon DEF Value
  <2> QED BY <1>1, <1>2, <2>1, SMTT(30) DEF InverseOp, PersistInverse, RestoreInverse, Set, Delete
<1> QED BY <1>3, <1>4, Zenon DEF x

\* a restart restores the buffer of the cursor's chain, or none
LEMMA RestoredBufferIsChain ==
  ASSUME Exact, TypeInv, RowsInv
  PROVE  /\ Persisted = {} => RestoredBuffer = <<>>
         /\ Persisted # {} => /\ RestoredBuffer # <<>>
                              /\ RestoredBuffer[1].point = CursorPoint
         /\ ChainBuffer(RestoredBuffer)
<1> DEFINE s == PersistedPoints
           n == Min({Len(s), MaxBufferLen})
           restore(p) == [k \in Keys |-> IF rows[p][k] = NoAction THEN NoAction
                                         ELSE RestoreInverse(rows[p][k])]
<1>1. s \in Seq(Persisted) /\ Len(s) \in Nat /\ (Persisted # {} => Len(s) >= 1)
  BY PersistedPointsType, SMTT(30)
<1>2. RestoredBuffer = [i \in 1..n |-> Entry(s[i], restore(s[i]))]
  BY Zenon DEF RestoredBuffer
<1>3. n \in {Len(s), MaxBufferLen} /\ n \in Nat /\ n <= Len(s) /\ MaxBufferLen >= 1
  <2>1. {Len(s), MaxBufferLen} \in SUBSET Nat /\ MaxBufferLen >= 1
    BY <1>1, BoundsAssumption, SMTT(30)
  <2> HIDE DEF s
  <2> QED BY <2>1, MinProperties, Zenon
<1>4. Persisted = {} => Len(s) = 0
  <2> SUFFICES ASSUME Persisted = {} PROVE Len(s) = 0
    BY Zenon
  <2>1. PersistedSlots = {}
    BY Zenon DEF PersistedSlots
  <2>2. Cardinality(PersistedSlots) = 0
    BY <2>1, FS_EmptySet, Zenon
  <2> QED BY <2>2, SMTT(30) DEF PersistedPoints
<1>5. Persisted # {} =>
        /\ s[1] = CursorPoint
        /\ \A i \in 1..(Len(s) - 1) :
             /\ s[i] \in Blocks /\ s[i + 1] = Parent[s[i]]
             /\ Slot[s[i + 1]] < Slot[s[i]] /\ s[i + 1] \in Persisted
  BY PersistedPointsAreChain, Zenon
<1> HIDE DEF s, n
<1>6. Persisted = {} => RestoredBuffer = <<>> /\ n = 0
  <2> SUFFICES ASSUME Persisted = {} PROVE RestoredBuffer = <<>> /\ n = 0
    BY Zenon
  <2>1. n = 0
    BY <1>1, <1>3, <1>4, SMTT(30)
  <2> QED BY <2>1, <1>2, SMTT(30)
<1>7. Len(RestoredBuffer) = n /\ \A i \in 1..n : RestoredBuffer[i] = Entry(s[i], restore(s[i]))
  BY <1>2, <1>3, SMTT(30)
<1>8. Persisted # {} => RestoredBuffer # <<>> /\ RestoredBuffer[1].point = CursorPoint
  <2> SUFFICES ASSUME Persisted # {}
               PROVE  RestoredBuffer # <<>> /\ RestoredBuffer[1].point = CursorPoint
    BY Zenon
  <2>1. n >= 1 /\ 1 \in 1..n
    BY <1>1, <1>3, SMTT(30)
  <2>2. RestoredBuffer[1] = Entry(s[1], restore(s[1])) /\ Len(RestoredBuffer) # 0
    BY <2>1, <1>3, <1>7, SMTT(30)
  <2> QED BY <2>2, <1>5, SMTT(30) DEF Entry
<1>9. ASSUME NEW i \in 1..(n - 1)
      PROVE  /\ RestoredBuffer[i].point \in Blocks
             /\ RestoredBuffer[i + 1].point = Parent[RestoredBuffer[i].point]
             /\ RestoredBuffer[i].inverse = ChainInverse(RestoredBuffer[i].point)
  <2>1. i \in 1..(Len(s) - 1) /\ i \in 1..n /\ i + 1 \in 1..n /\ i \in 1..Len(s)
    BY <1>1, <1>3, SMTT(30)
  <2>2. Persisted # {}
    BY <1>6, <2>1, SMTT(30)
  <2>3. /\ s[i] \in Blocks /\ s[i + 1] = Parent[s[i]] /\ s[i] \in Persisted
        /\ Slot[s[i + 1]] < Slot[s[i]] /\ s[i + 1] \in Persisted
    BY <1>1, <1>5, <2>1, <2>2, SMTT(30)
  <2>4. rows[s[i]] = RowsOf(ChainInverse(s[i]))
    BY <2>3, Zenon DEF RowsInv, ChainRows, PointsIn, Persisted
  <2>5. \A k \in Keys : restore(s[i])[k] = ChainInverse(s[i])[k]
    BY <2>3, <2>4, RestoredInverse, Zenon
  <2>6. restore(s[i]) = ChainInverse(s[i])
    <3>1. ChainInverse(s[i]) = [k \in Keys |-> ChainInverse(s[i])[k]]
      BY Zenon DEF ChainInverse, InverseOf
    <3>2. restore(s[i]) = [k \in Keys |-> restore(s[i])[k]]
      BY Zenon
    <3> HIDE DEF restore
    <3> QED BY <2>5, <3>1, <3>2, Zenon
  <2> HIDE DEF restore
  <2>7. /\ RestoredBuffer[i].point = s[i] /\ RestoredBuffer[i + 1].point = s[i + 1]
        /\ RestoredBuffer[i].inverse = restore(s[i])
    BY <1>7, <2>1, SMTT(30) DEF Entry
  <2> QED BY <2>3, <2>6, <2>7, Zenon
<1>10. ChainBuffer(RestoredBuffer)
  BY <1>7, <1>9, Zenon DEF ChainBuffer
<1> QED BY <1>6, <1>8, <1>10, Zenon

\* without metadata there is nothing to be wrong
LEMMA NoRowsAreChain ==
  ASSUME NEW rs, PointsIn(rs) = {}, NEW c
  PROVE  ChainRows(rs, c)
BY Zenon DEF ChainRows

\* the row of the point before the first mutable block
LEMMA InitRowsAreChain ==
  ASSUME NEW rs \in [Points -> RowMaps \cup {NoRows}], PointsIn(rs) = {}, NEW c \in Points
  PROVE  ChainRows([rs EXCEPT ![c] = InitRow], c)
<1>1. PointsIn([rs EXCEPT ![c] = InitRow]) = {c}
  BY NoActionsType, MarkersAssumption, Zenon DEF PointsIn, InitRow
<1>2. c \in Ancestors[c] /\ \A x \in Ancestors[c] : Slot[x] >= Slot[c] => x = c
  <2>1. c \in Ancestors[c] /\ Slot[c] \in Nat
    BY ChainsAreOrdered, TreeAssumption, Zenon DEF Ordered
  <2>2. ASSUME NEW x \in Ancestors[c], Slot[x] >= Slot[c] PROVE x = c
    <3>1. Slot[x] <= Slot[c] /\ Slot[x] \in Nat
      BY ChainsAreOrdered, TreeAssumption, Zenon DEF Ordered
    <3>2. Slot[x] = Slot[c]
      BY <2>1, <2>2, <3>1, SMTT(30)
    <3> QED BY <2>1, <3>2, SlotsDiffer, Zenon
  <2> QED BY <2>1, <2>2, Zenon
<1>3. ~(Slot[c] < Slot[c])
  BY TreeAssumption, SMTT(30)
<1> QED BY <1>1, <1>2, <1>3, Zenon DEF ChainRows

\* a mutable block adds its row at the upper end, and the garbage collection
\* takes from the lower end
LEMMA AddedRowsAreChain ==
  ASSUME NEW b \in Blocks, NEW rs \in [Points -> RowMaps \cup {NoRows}],
         ChainRows(rs, Parent[b])
  PROVE  ChainRows(GarbageCollected([rs EXCEPT ![b] = RowsOf(ChainInverse(b))], Slot[b]), b)
<1> DEFINE P == Parent[b]
           added == [rs EXCEPT ![b] = RowsOf(ChainInverse(b))]
           new == GarbageCollected(added, Slot[b])
           Old(p) == Slot[b] >= GcSlots /\ Slot[p] < Slot[b] - GcSlots
<1>1. /\ P \in Points /\ b \in Points /\ Slot[P] < Slot[b] /\ Slot[P] \in Nat /\ Slot[b] \in Nat
      /\ Ancestors[b] = Ancestors[P] \cup {b} /\ GcSlots \in Nat
      /\ Ancestors[P] \subseteq Points
  BY TreeAssumption, BoundsAssumption, Zenon DEF Points
<1>2. RowsOf(ChainInverse(b)) \in RowMaps /\ RowsOf(ChainInverse(b)) # NoRows
  <2>1. ChainInverse(b) \in InverseMaps
    BY <1>1, StateAssumption, InverseOfType, Zenon DEF ChainInverse
  <2> QED BY <2>1, RowsOfType, MarkersAssumption, Zenon
<1>3. \A p \in Ancestors[P] : Slot[p] <= Slot[P] /\ Slot[p] \in Nat /\ Slot[p] < Slot[b] /\ p # b
  <2>1. \A p \in Ancestors[P] : Slot[p] <= Slot[P] /\ Slot[p] \in Nat
    BY <1>1, ChainsAreOrdered, TreeAssumption, Zenon DEF Ordered
  <2> QED BY <1>1, <2>1, SMTT(30)
<1>4. PointsIn(rs) \subseteq Ancestors[P]
  BY Zenon DEF ChainRows
<1>5. ~Old(b)
  BY <1>1, SMTT(30)
<1>6. \A p \in Points : new[p] = IF Old(p) THEN NoRows
                                 ELSE IF p = b THEN RowsOf(ChainInverse(b)) ELSE rs[p]
  BY <1>1, Zenon DEF GarbageCollected
<1> HIDE DEF new, added
<1>7. PointsIn(new) = {p \in PointsIn(rs) : ~Old(p)} \cup {b}
  BY <1>1, <1>2, <1>3, <1>4, <1>5, <1>6, SMTT(30) DEF PointsIn
<1>8. \A p, q \in Points : Slot[q] >= Slot[p] /\ ~Old(p) => ~Old(q)
  BY <1>1, TreeAssumption, SMTT(30)
<1> HIDE DEF Old
<1>9. PointsIn(new) \subseteq Ancestors[b]
  BY <1>1, <1>4, <1>7, Zenon
<1>10. ASSUME NEW q \in PointsIn(new), NEW x \in Ancestors[b], Slot[x] >= Slot[q]
       PROVE  x \in PointsIn(new)
  <2>1. CASE x = b
    BY <2>1, <1>7, Zenon
  <2>2. CASE x \in Ancestors[P]
    <3>1. q # b
      BY <2>2, <1>3, <1>1, <1>10, SMTT(30)
    <3>2. q \in PointsIn(rs) /\ ~Old(q) /\ q \in Points
      BY <3>1, <1>7, Zenon DEF PointsIn
    <3>3. x \in PointsIn(rs)
      BY <2>2, <3>2, <1>10, Zenon DEF ChainRows
    <3>4. ~Old(x)
      BY <2>2, <3>2, <1>1, <1>8, <1>10, Zenon
    <3> QED BY <3>3, <3>4, <1>7, Zenon
  <2> QED BY <2>1, <2>2, <1>1, Zenon
<1>11. ASSUME NEW p \in PointsIn(new), NEW q \in PointsIn(new), Slot[q] < Slot[p]
       PROVE  new[p] = RowsOf(ChainInverse(p))
  <2>1. CASE p = b
    BY <2>1, <1>1, <1>5, <1>6, Zenon
  <2>2. CASE p # b
    <3>1. p \in PointsIn(rs) /\ ~Old(p) /\ p \in Points
      BY <2>2, <1>7, Zenon DEF PointsIn
    <3>2. q # b
      BY <3>1, <1>1, <1>3, <1>4, <1>11, SMTT(30)
    <3>3. q \in PointsIn(rs)
      BY <3>2, <1>7, SMTT(30)
    <3>4. rs[p] = RowsOf(ChainInverse(p))
      BY <3>1, <3>3, <1>11, SMTT(30) DEF ChainRows
    <3> QED BY <2>2, <3>1, <3>4, <1>6, Zenon
  <2> QED BY <2>1, <2>2, Zenon
<1>12. ChainRows(new, b)
  BY <1>9, <1>10, <1>11, Zenon DEF ChainRows
<1> QED BY <1>12, Zenon DEF new, added

\* the trim of a rollback takes from the upper end
LEMMA TrimmedRowsAreChain ==
  ASSUME TypeInv, NEW c \in Points, ChainRows(rows, c), NEW p \in Ancestors[c]
  PROVE  ChainRows(Trimmed(Slot[p]), p)
<1> DEFINE new == Trimmed(Slot[p])
<1>1. /\ p \in Points /\ Slot[p] \in Nat /\ \A q \in Points : Slot[q] \in Nat
      /\ Ancestors[p] \subseteq Ancestors[c] /\ Ancestors[c] \subseteq Points
      /\ \A q \in Ancestors[c] : Slot[q] <= Slot[p] => q \in Ancestors[p]
      /\ \A q \in Ancestors[p] : Slot[q] <= Slot[p]
  BY ChainsAreOrdered, TreeAssumption, Zenon DEF Ordered
<1>2. /\ PointsIn(new) = {q \in PointsIn(rows) : Slot[q] <= Slot[p]}
      /\ \A q \in PointsIn(new) : new[q] = rows[q]
  <2>1. \A q \in Points : Slot[q] > Slot[p] <=> ~(Slot[q] <= Slot[p])
    BY <1>1, SMTT(30)
  <2> QED BY <2>1, Zenon DEF PointsIn, Trimmed
<1> HIDE DEF new
<1>3. PointsIn(new) \subseteq Ancestors[p]
  BY <1>1, <1>2, Zenon DEF ChainRows
<1>4. ASSUME NEW q \in PointsIn(new), NEW x \in Ancestors[p], Slot[x] >= Slot[q]
      PROVE  x \in PointsIn(new)
  BY <1>1, <1>2, <1>4, Zenon DEF ChainRows
<1>5. ASSUME NEW x \in PointsIn(new), NEW q \in PointsIn(new), Slot[q] < Slot[x]
      PROVE  new[x] = RowsOf(ChainInverse(x))
  BY <1>2, <1>5, SMTT(30) DEF ChainRows
<1>6. ChainRows(new, p)
  BY <1>3, <1>4, <1>5, Zenon DEF ChainRows
<1> QED BY <1>6, Zenon DEF new

-----------------------------------------------------------------------------
(* What a transaction commits.                                             *)

\* every block changes the cursor, so it has inverses and a row
LEMMA InverseNotEmpty ==
  ASSUME NEW b \in Blocks
  PROVE  ChainInverse(b) # NoActions /\ Actions[b] # NoActions
<1> DEFINE v == StateAt[Parent[b]][CursorKey]
<1>1. Parent[b] \in Points /\ Parent[b] # b /\ b \in Value
  <2>1. Slot[Parent[b]] \in Nat /\ Slot[Parent[b]] < Slot[b] /\ Slot[b] \in Nat
    BY TreeAssumption, Zenon DEF Points
  <2>2. Slot[Parent[b]] # Slot[b]
    BY <2>1, SMTT(30)
  <2> QED BY <2>2, TreeAssumption, ActionsAssumption, Zenon DEF Value
<1>2. v = IF Parent[b] = Origin THEN Absent ELSE Parent[b]
  BY <1>1, CursorOfState, Zenon
<1>3. v # b
  BY <1>1, <1>2, ActionsAssumption, ValuesAssumption, Zenon
<1>4. /\ Actions[b][CursorKey] = Set(b) /\ Set(b) # NoAction /\ HasInverse(Set(b), v)
  BY <1>1, <1>3, ActionsAssumption, SMTT(30) DEF HasInverse, Set, StorageAction
<1>5. InverseOp(v) # NoAction
  <2>1. v \in Stored
    BY <1>1, <1>2, ActionsAssumption, SMTT(30) DEF Stored, Points, Value
  <2> QED BY <2>1, ActionsAssumption, SMTT(30) DEF InverseOp, StorageAction, Set, Stored
<1> HIDE DEF v
<1>6. ChainInverse(b)[CursorKey] = InverseOp(v)
  BY <1>4, ActionsAssumption, Zenon DEF ChainInverse, InverseOf, v
<1>7. NoActions[CursorKey] = NoAction
  BY ActionsAssumption, Zenon DEF NoActions
<1> QED BY <1>4, <1>5, <1>6, <1>7, SMTT(30)

\* the store once the batch is written
LEMMA FlushedIsTip ==
  ASSUME TypeInv, StoreIsChainState, BatchInv, pc # "publish"
  PROVE  Tip \in Points /\ ExecuteAll(batch.acts, store) = StateAt[Tip]
<1>1. CursorPoint \in Points /\ store \in [Keys -> Stored]
  BY CursorPointType, Zenon DEF TypeInv, TypeOK, Stores
<1>2. CASE batch.len = 0
  <2>1. batch.acts = NoActions /\ Tip = CursorPoint
    BY <1>2, Zenon DEF BatchInv, Tip
  <2>2. ExecuteAll(NoActions, store) = store
    BY <1>1, Zenon DEF ExecuteAll, NoActions
  <2> QED BY <1>1, <2>1, <2>2, Zenon DEF StoreIsChainState
<1>3. CASE batch.len = 1
  <2>1. /\ batch.last \in Blocks /\ batch.acts = Actions[batch.last]
        /\ Parent[batch.last] = CursorPoint /\ Tip = batch.last
    BY <1>3, SMTT(30) DEF BatchInv, Tip
  <2> QED BY <2>1, StateAssumption, Zenon DEF StoreIsChainState, Points
<1> QED BY <1>2, <1>3, Zenon DEF BatchInv

\* where the transaction of the unit leaves the cursor
Target == IF Batched THEN Parent[unit.point] ELSE unit.point

LEMMA RollBackCommits ==
  ASSUME Exact, TypeInv, ChainInv, HasTxn, unit.type = "RollBack"
  PROVE  /\ Target = unit.point /\ Target \in Points
         /\ Txn.store = StateAt[Target]
         /\ ChainRows(Txn.rows, Target)
<1> DEFINE p == unit.point
<1>1. /\ unit \in Msgs /\ pc = "execute" /\ InBuffer(p) /\ p \in Points
  BY Zenon DEF TypeInv, TypeOK, HasTxn, BeginsTxn, Msgs, Points
<1>2. Target = p
  BY SMTT(30) DEF Target, Batched
<1>3. /\ Position(p) \in 1..Len(buffer) /\ buffer[Position(p)].point = p
      /\ PointsSince(p) \in Seq(BufferEntry) /\ Len(PointsSince(p)) = Position(p) - 1
      /\ \A i \in 1..(Position(p) - 1) : PointsSince(p)[i] = buffer[i]
      /\ buffer \in Seq(BufferEntry)
  BY <1>1, PositionProperties, PointsSinceProperties, Zenon DEF TypeInv, TypeOK, BufferEntry
<1>4. buffer # <<>> /\ buffer[1].point = CursorPoint /\ ChainBuffer(buffer)
  BY <1>1, <1>3, SMTT(30) DEF ChainInv, BufferInv
<1>5. Undone(PointsSince(p), StateAt[buffer[1].point]) = StateAt[buffer[Position(p)].point]
  BY <1>3, <1>4, UndoReachesPoint, Zenon
<1>6. Undone(PointsSince(p), store) = StateAt[p]
  BY <1>3, <1>4, <1>5, Zenon DEF ChainInv, StoreIsChainState
<1>7. p \in Ancestors[CursorPoint]
  BY <1>3, <1>4, BufferOnChain, Zenon
<1>8. ChainRows(Trimmed(Slot[p]), p)
  <2>1. CursorPoint \in Points /\ ChainRows(rows, CursorPoint)
    BY CursorPointType, Zenon DEF TypeInv, TypeOK, ChainInv, RowsInv
  <2> QED BY <1>7, <2>1, TrimmedRowsAreChain, Zenon
<1>9. Txn = RollBackTxn
  BY SMTT(30) DEF Txn
<1>10. Txn.store = Undone(PointsSince(p), store) /\ Txn.rows = Trimmed(Slot[p])
  BY <1>9, SMTT(30) DEF RollBackTxn
<1> QED BY <1>1, <1>2, <1>6, <1>8, <1>10, Zenon

LEMMA FlushCommits ==
  ASSUME Exact, TypeInv, ChainInv, HasTxn, unit.type = "RollForward", ~unit.mutable
  PROVE  /\ Target = Parent[unit.point] /\ Target \in Points
         /\ Txn.store = StateAt[Target]
         /\ Txn.rows = rows /\ Persisted = {}
         /\ ChainRows(Txn.rows, Target)
<1>1. unit \in Msgs /\ unit # NoMsg /\ pc = "execute" /\ unit.mutable = FALSE
  BY Zenon DEF TypeInv, TypeOK, HasTxn, BeginsTxn, Msgs
<1>2. Pending = unit /\ Awaits("RollForward", FALSE)
  BY <1>1, SMTT(30) DEF Pending, Awaits
<1>3. Target = Parent[unit.point] /\ Parent[unit.point] = Tip
  BY <1>1, <1>2, SMTT(30) DEF Target, Batched, ChainInv, UnitInv
<1>4. Persisted = {}
  BY <1>1, <1>2, Zenon DEF ChainInv, SourceInv, BufferInv
<1>5. Txn = FlushTxn
  BY Zenon DEF Txn
<1>6. Txn.store = ExecuteAll(batch.acts, store) /\ Txn.rows = rows
  BY <1>5, Zenon DEF FlushTxn
<1>7. ChainRows(rows, Target)
  BY <1>4, NoRowsAreChain, SMTT(30) DEF Persisted, PointsIn
<1> QED BY <1>1, <1>3, <1>4, <1>6, <1>7, FlushedIsTip, SMTT(30) DEF ChainInv

LEMMA MutableCommits ==
  ASSUME Exact, TypeInv, ChainInv, HasTxn, unit.type = "RollForward", unit.mutable
  PROVE  /\ Target = unit.point /\ Target \in Blocks
         /\ Txn.store = StateAt[Target]
         /\ Txn.inverse = ChainInverse(unit.point)
         /\ ChainRows(Txn.rows, Target)
         /\ buffer # <<>> => buffer[1].point = Parent[unit.point]
         /\ buffer = <<>> => LastIs(Parent[unit.point])
<1> DEFINE b == unit.point
           flushed == ExecuteAll(batch.acts, store)
           inverse == InverseOf(Actions[b], flushed)
           init == IF buffer = <<>> /\ lastProcessed # Absent /\ rows[lastProcessed] = NoRows
                   THEN [rows EXCEPT ![lastProcessed] = InitRow] ELSE rows
           added == IF inverse = NoActions THEN init ELSE [init EXCEPT ![b] = RowsOf(inverse)]
<1>1. unit \in Msgs /\ unit # NoMsg /\ pc = "execute" /\ unit.mutable = TRUE /\ b \in Blocks
  BY Zenon DEF TypeInv, TypeOK, HasTxn, BeginsTxn, Msgs
<1>2. Pending = unit /\ Awaits("RollForward", TRUE) /\ ~Awaits("RollForward", FALSE)
  BY <1>1, SMTT(30) DEF Pending, Awaits
<1>3. Target = b /\ Parent[b] = Tip
  BY <1>1, <1>2, SMTT(30) DEF Target, Batched, ChainInv, UnitInv
<1>4. flushed = StateAt[Parent[b]] /\ Parent[b] \in Points
  BY <1>1, <1>3, FlushedIsTip, SMTT(30) DEF ChainInv
<1>5. inverse = ChainInverse(b) /\ inverse # NoActions
  BY <1>1, <1>4, InverseNotEmpty, Zenon DEF ChainInverse
<1>6. /\ Txn.store = ExecuteAllWithInverse(Actions[b], flushed)
      /\ Txn.rows = GarbageCollected(added, Slot[b])
      /\ Txn.inverse = inverse
  BY SMTT(30) DEF Txn, MutableTxn
<1>7. Txn.store = StateAt[b]
  BY <1>1, <1>4, <1>6, Zenon DEF Exact
<1>8. buffer = <<>> => Persisted = {} /\ LastIs(Parent[b])
  <2> SUFFICES ASSUME buffer = <<>> PROVE Persisted = {} /\ LastIs(Parent[b])
    BY Zenon
  <2>1. Persisted = {} /\ ~src.resumed /\ src.mode = "streaming"
    BY <1>1, <1>2, Zenon DEF ChainInv, BufferInv, SourceInv
  <2>2. /\ src.paged \in {0, 2}
        /\ src.paged = 0 => batch.len = 0 /\ LastIs(CursorPoint)
        /\ src.paged = 2 => batch.len = 1 /\ lastProcessed = batch.last
    <3>1. PagedInv
      BY Zenon DEF ChainInv
    <3>2. /\ src.paged \in {0, 2}
          /\ src.paged = 0 => batch.len = 0 /\ LastIs(CursorPoint)
          /\ src.paged # 0 => batch.len = 1
          /\ src.paged = 2 => lastProcessed = batch.last
      BY <2>1, <3>1, <1>1, <1>2, Zenon DEF PagedInv
    <3> QED BY <3>2, SMTT(30)
  <2>3. batch.len = 1 => batch.last \in Blocks
    BY Zenon DEF ChainInv, BatchInv
  <2>4. CASE src.paged = 0
    BY <2>1, <2>2, <2>4, <1>3, SMTT(30) DEF Tip
  <2>5. CASE src.paged = 2
    BY <2>1, <2>2, <2>3, <2>5, <1>3, TreeAssumption, SMTT(30) DEF Tip, LastIs
  <2> QED BY <2>2, <2>4, <2>5, Zenon
<1>9. buffer # <<>> => buffer[1].point = Parent[b] /\ ChainRows(rows, Parent[b])
  <2> SUFFICES ASSUME buffer # <<>>
               PROVE  buffer[1].point = Parent[b] /\ ChainRows(rows, Parent[b])
    BY Zenon
  <2>1. Tip = CursorPoint
    BY Zenon DEF ChainInv, BatchInv, Tip
  <2> QED BY <2>1, <1>1, <1>3, Zenon DEF ChainInv, BufferInv, RowsInv
<1>10. ChainRows(init, Parent[b]) /\ init \in [Points -> RowMaps \cup {NoRows}]
  <2>0. rows \in [Points -> RowMaps \cup {NoRows}]
    BY Zenon DEF TypeInv, TypeOK
  <2>1. CASE buffer # <<>>
    BY <2>0, <2>1, <1>9, SMTT(30)
  <2>2. CASE buffer = <<>>
    <3>1. PointsIn(rows) = {} /\ LastIs(Parent[b])
      BY <2>2, <1>8, SMTT(30) DEF PointsIn, Persisted
    <3>2. CASE lastProcessed = Absent
      BY <2>0, <3>1, <3>2, NoRowsAreChain, Zenon
    <3>3. CASE lastProcessed # Absent
      <4>1. lastProcessed = Parent[b] /\ rows[lastProcessed] = NoRows
        BY <3>1, <3>3, <1>4, Zenon DEF LastIs, PointsIn
      <4>2. init = [rows EXCEPT ![Parent[b]] = InitRow]
        BY <2>2, <3>3, <4>1, Zenon
      <4>3. InitRow \in RowMaps
        BY NoActionsType, SMTT(30) DEF InitRow
      <4> QED BY <2>0, <3>1, <4>2, <4>3, <1>4, InitRowsAreChain, ZenonT(60)
    <3> QED BY <3>2, <3>3, Zenon
  <2> QED BY <2>1, <2>2, Zenon
<1>11. added = [init EXCEPT ![b] = RowsOf(ChainInverse(b))]
  BY <1>5, Zenon
<1> HIDE DEF init, added, inverse, flushed
<1>12. ChainRows(Txn.rows, b)
  BY <1>1, <1>6, <1>10, <1>11, AddedRowsAreChain, Zenon
<1> QED BY <1>1, <1>3, <1>5, <1>6, <1>7, <1>8, <1>9, <1>12, SMTT(30)

\* a commit leaves the store and the metadata of the chain to its target
LEMMA CommittedChain ==
  ASSUME Exact, TypeInv, ChainInv, HasTxn, store' = Txn.store, rows' = Txn.rows
  PROVE  CursorPoint' = Target /\ StoreIsChainState' /\ RowsInv'
<1>1. unit \in Msgs
  BY Zenon DEF TypeInv, TypeOK, HasTxn, BeginsTxn
<1>2. Target \in Points /\ Txn.store = StateAt[Target] /\ ChainRows(Txn.rows, Target)
  <2>1. CASE unit.type = "RollBack"
    BY <2>1, RollBackCommits, Zenon
  <2>2. CASE unit.type = "RollForward" /\ unit.mutable
    BY <2>2, MutableCommits, Zenon DEF Points
  <2>3. CASE unit.type = "RollForward" /\ ~unit.mutable
    BY <2>3, FlushCommits, Zenon
  <2> QED BY <1>1, <2>1, <2>2, <2>3, Zenon DEF Msgs
<1>3. CursorPoint' = Target
  <2>1. store'[CursorKey] = IF Target = Origin THEN Absent ELSE Target
    BY <1>2, CursorOfState, Zenon
  <2>2. Absent \notin Blocks
    BY ActionsAssumption, ValuesAssumption, Zenon
  <2> QED BY <1>2, <2>1, <2>2, Zenon DEF CursorPoint, Points
<1>4. StoreIsChainState'
  BY <1>2, <1>3, Zenon DEF StoreIsChainState
<1>5. RowsInv'
  BY <1>2, <1>3, Zenon DEF RowsInv
<1> QED BY <1>3, <1>4, <1>5, Zenon

-----------------------------------------------------------------------------
(* The steps.                                                              *)

LEMMA ChainInit == Init => ChainInv
<1> SUFFICES ASSUME Init PROVE ChainInv
  BY Zenon
<1>1. CursorPoint = Origin /\ store = EmptyStore /\ PointsIn(rows) = {}
  BY ActionsAssumption, Zenon DEF Init, CursorPoint, EmptyStore, PointsIn
<1>2. StoreIsChainState
  BY <1>1, StateAssumption, Zenon DEF StoreIsChainState
<1>3. RowsInv
  BY <1>1, NoRowsAreChain, Zenon DEF RowsInv
<1>4. BatchInv
  BY SMTT(30) DEF Init, EmptyBatch, BatchInv
<1>5. BufferInv
  BY SMTT(30) DEF Init, BufferInv, ChainBuffer
<1>6. SourceInv /\ UnitInv /\ PagedInv
  BY Zenon DEF Init, SourceOff, SourceInv, UnitInv, PagedInv, Pending, Awaits
<1> QED BY <1>2, <1>3, <1>4, <1>5, <1>6, Zenon DEF ChainInv

\* whatever ends the process, only the store and the metadata remain
LEMMA ChainDie ==
  ASSUME Die, StoreIsChainState', RowsInv'
  PROVE  ChainInv'
<1>1. BatchInv'
  BY SMTT(30) DEF Die, EmptyBatch, BatchInv
<1>2. BufferInv'
  <2>1. buffer' = <<>> /\ pc' = "down"
    BY Zenon DEF Die
  <2> QED BY <2>1, SMTT(30) DEF BufferInv, ChainBuffer
<1>3. SourceInv' /\ UnitInv' /\ PagedInv'
  BY Zenon DEF Die, SourceOff, SourceInv, UnitInv, PagedInv, Pending, Awaits
<1> QED BY <1>1, <1>2, <1>3, Zenon DEF ChainInv

LEMMA ChainEnds ==
  ASSUME Exact, TypeInv, ChainInv, Crash \/ RollBackRefused \/ CommitUndetermined
  PROVE  ChainInv'
<1>1. CASE Crash \/ RollBackRefused
  <2>1. StoreIsChainState' /\ RowsInv'
    BY <1>1, Zenon
    DEF Crash, RollBackRefused, ChainInv, StoreIsChainState, RowsInv, CursorPoint, tikv
  <2> QED BY <1>1, <2>1, ChainDie, Zenon DEF Crash, RollBackRefused
<1>2. CASE CommitUndetermined
  BY <1>2, CommittedChain, ChainDie, Zenon DEF CommitUndetermined
<1> QED BY <1>1, <1>2, Zenon

LEMMA ChainRestart ==
  ASSUME Exact, TypeInv, ChainInv, NEW t \in Points, Restart(t)
  PROVE  ChainInv'
<1>1. /\ pc = "down" /\ pc' = "idle" /\ store' = store /\ rows' = rows /\ twoPC' = twoPC
      /\ batch' = batch /\ buffer' = RestoredBuffer /\ lastProcessed' = store[CursorKey]
      /\ CursorPoint' = CursorPoint /\ Persisted' = Persisted
  BY Zenon DEF Restart, tikv, CursorPoint, Persisted, PointsIn
<1>2. batch = EmptyBatch /\ twoPC = NoMsg
  BY <1>1, Zenon DEF ChainInv, SourceInv
<1>3. StoreIsChainState' /\ RowsInv'
  BY <1>1, Zenon DEF ChainInv, StoreIsChainState, RowsInv
<1>4. BatchInv'
  BY <1>1, <1>2, SMTT(30) DEF EmptyBatch, BatchInv
<1>5. /\ Persisted = {} => buffer' = <<>>
      /\ Persisted # {} => buffer' # <<>> /\ buffer'[1].point = CursorPoint
      /\ ChainBuffer(buffer')
  BY <1>1, RestoredBufferIsChain, Zenon DEF ChainInv
<1>6. BufferInv'
  BY <1>1, <1>5, Zenon DEF BufferInv
<1>7. Pending' = NoMsg /\ Tip' = CursorPoint
  BY <1>1, <1>2, Zenon DEF Pending, Tip, EmptyBatch
<1>8. UnitInv'
  BY <1>1, <1>7, Zenon DEF UnitInv
<1>9. LastIs(CursorPoint)'
  <2>1. store[CursorKey] \in Blocks \cup {Absent}
    BY ActionsAssumption, Zenon DEF TypeInv, TypeOK, Stores, Values
  <2> QED BY <1>1, <2>1, TreeAssumption, Zenon DEF LastIs, CursorPoint
<1>10. SourceInv' /\ PagedInv'
  <2>1. CASE BufferIsCurrent
    <3>1. src'.mode = "boot" /\ src'.resumed = TRUE
      <4>1. PICK p \in Persisted :
              src' = [mode |-> "boot", tip |-> p, resumed |-> TRUE, paged |-> 0]
        BY <2>1, Zenon DEF Restart
      <4> QED BY <4>1, Zenon
    <3>2. buffer' # <<>>
      BY <2>1, <1>5, Zenon DEF BufferIsCurrent
    <3> QED BY <3>1, <3>2, <1>1, <1>2, <1>7, SMTT(30) DEF SourceInv, PagedInv, Awaits
  <2>2. CASE ~BufferIsCurrent
    <3>1. src' = [mode |-> "dumping", tip |-> CursorPoint, resumed |-> FALSE, paged |-> 0]
      BY <2>2, Zenon DEF Restart
    <3>2. Persisted = {}
      <4> SUFFICES ASSUME Persisted # {} PROVE FALSE
        BY Zenon
      <4>1. PersistedPoints[1] = CursorPoint
        BY PersistedPointsAreChain, Zenon DEF ChainInv
      <4>2. Slot[CursorPoint] \in Nat
        BY CursorPointType, TreeAssumption, Zenon DEF TypeInv, TypeOK
      <4> QED BY <2>2, <4>1, <4>2, SMTT(30) DEF BufferIsCurrent
    <3>3. buffer' = <<>> /\ batch'.len = 0
      BY <3>2, <1>1, <1>2, <1>5, Zenon DEF EmptyBatch
    <3>4. SourceInv'
      BY <3>1, <3>3, <1>1, <1>2, <1>7, Zenon DEF SourceInv, Awaits
    <3>5. PagedInv'
      BY <3>1, <3>3, <1>1, <1>7, <1>9, SMTT(30) DEF PagedInv, Awaits
    <3> QED BY <3>4, <3>5, Zenon
  <2> QED BY <2>1, <2>2, Zenon
<1> QED BY <1>3, <1>4, <1>6, <1>8, <1>10, Zenon DEF ChainInv

LEMMA ChainSwitch ==
  ASSUME Exact, TypeInv, ChainInv, SwitchToStreaming
  PROVE  ChainInv'
<1>1. /\ UNCHANGED <<store, rows, batch, buffer, lastProcessed, pc, unit, twoPC, result>>
      /\ CursorPoint' = CursorPoint /\ Persisted' = Persisted
  BY Zenon DEF SwitchToStreaming, tikv, memory, CursorPoint, Persisted, PointsIn
<1>2. Tip' = Tip /\ Pending' = Pending
  BY <1>1, Zenon DEF Tip, Pending
<1>3. /\ src.mode = "dumping" /\ src'.mode = "streaming" /\ src'.tip = src.tip
      /\ src'.resumed = src.resumed /\ src'.paged = src.paged
      /\ src.resumed \/ src.paged \in {0, 2}
  BY Zenon DEF SwitchToStreaming, TypeInv, TypeOK, Sources, Exact
<1>4. pc # "down"
  BY <1>3, SMTT(30) DEF ChainInv, SourceInv, SourceOff
<1>5. StoreIsChainState' /\ RowsInv' /\ BatchInv' /\ BufferInv'
  BY <1>1, Zenon DEF ChainInv, StoreIsChainState, RowsInv, BatchInv, BufferInv
<1>6. SourceInv'
  BY <1>1, <1>2, <1>3, <1>4, SMTT(30) DEF ChainInv, SourceInv, Awaits, ShouldFlush
<1>7. UnitInv'
  <2>1. InBuffer(unit.point)' = InBuffer(unit.point)
    BY <1>1, Zenon DEF InBuffer
  <2> QED BY <1>1, <1>2, <2>1, Zenon DEF ChainInv, UnitInv, Awaits, LastIs
<1>8. PagedInv'
  BY <1>1, <1>2, <1>3, Zenon DEF ChainInv, PagedInv, Awaits, LastIs
<1> QED BY <1>5, <1>6, <1>7, <1>8, Zenon DEF ChainInv

LEMMA ChainReschedule ==
  ASSUME Exact, TypeInv, ChainInv, Reschedule
  PROVE  ChainInv'
<1>1. /\ UNCHANGED <<store, rows, batch, buffer, lastProcessed, twoPC, result, src>>
      /\ CursorPoint' = CursorPoint /\ Persisted' = Persisted
      /\ pc = "idle" /\ pc' = "execute" /\ twoPC # NoMsg /\ unit' = twoPC
  BY Zenon DEF Reschedule, tikv, memory, CursorPoint, Persisted, PointsIn
<1>2. Tip' = Tip /\ Pending' = Pending /\ Pending = twoPC
  BY <1>1, Zenon DEF Tip, Pending
<1>3. StoreIsChainState' /\ RowsInv' /\ BatchInv' /\ BufferInv'
  BY <1>1, Zenon DEF ChainInv, StoreIsChainState, RowsInv, BatchInv, BufferInv
<1>4. SourceInv'
  BY <1>1, <1>2, Zenon DEF ChainInv, SourceInv, Awaits, ShouldFlush
<1>5. UnitInv'
  BY <1>1, <1>2, Zenon DEF ChainInv, UnitInv
<1>6. PagedInv'
  BY <1>1, <1>2, Zenon DEF ChainInv, PagedInv, Awaits, LastIs
<1> QED BY <1>3, <1>4, <1>5, <1>6, Zenon DEF ChainInv

\* what the source sends extends what storage holds
LEMMA NextMessageExtends ==
  ASSUME Exact, TypeInv, ChainInv, pc = "idle", twoPC = NoMsg, NEW m \in NextMessages
  PROVE  /\ m.msg \in Msgs
         /\ m.src.tip = m.msg.point /\ m.src.resumed = src.resumed
         /\ m.msg.type = "RollForward" => Parent[m.msg.point] = Tip
         /\ m.msg.type = "RollForward" /\ m.msg.mutable =>
              src.mode = "streaming" /\ m.src.mode = "streaming" /\ m.src.paged = src.paged
         /\ m.msg.type = "RollForward" /\ ~m.msg.mutable =>
              /\ src.mode = "dumping" /\ m.src.mode = "dumping" /\ ~src.resumed
              /\ m.src.paged = IF src.paged < 2 THEN src.paged + 1 ELSE 2
         /\ m.msg.type = "RollBack" =>
              /\ m.src.paged = src.paged
              /\ \/ src.mode = "boot" /\ m.src.mode = "dumping"
                 \/ src.mode = "streaming" /\ m.src.mode = "streaming"
<1>1. src \in Sources /\ (src.mode = "boot" => src.tip \in Blocks)
  BY Zenon DEF TypeInv, TypeOK
<1>2. src.mode \in {"dumping", "streaming"} => src.tip = Tip
  BY Zenon DEF ChainInv, SourceInv, Pending
<1>3. CASE src.mode = "boot"
  <2>1. m = [msg |-> RollBack(src.tip), src |-> [src EXCEPT !.mode = "dumping"]]
    BY <1>3, Zenon DEF NextMessages
  <2> QED BY <2>1, <1>1, <1>3, Zenon DEF RollBack, Msgs, Sources
<1>4. CASE src.mode = "dumping"
  <2>1. PICK b \in {b \in Blocks : Parent[b] = src.tip /\ (src.resumed => WalMayMiss)} :
          m = [msg |-> RollForward(b, FALSE), src |-> AfterPage(b)]
    BY <1>4, Zenon DEF NextMessages
  <2>2. ~src.resumed /\ b \in Blocks /\ Parent[b] = Tip
    BY <2>1, <1>2, <1>4, Zenon DEF Exact
  <2>3. /\ AfterPage(b).tip = b /\ AfterPage(b).resumed = src.resumed
        /\ AfterPage(b).mode = src.mode
        /\ AfterPage(b).paged = IF src.paged < 2 THEN src.paged + 1 ELSE 2
    BY <1>1, Zenon DEF AfterPage, Sources
  <2> HIDE DEF AfterPage
  <2> QED BY <2>1, <2>2, <2>3, <1>4, Zenon DEF RollForward, Msgs
<1>5. CASE src.mode = "streaming"
  <2>1. CASE \E b \in {b \in Blocks : Parent[b] = src.tip} :
               m = [msg |-> RollForward(b, TRUE), src |-> [src EXCEPT !.tip = b]]
    <3>1. PICK b \in Blocks : /\ Parent[b] = src.tip
                              /\ m = [msg |-> RollForward(b, TRUE), src |-> [src EXCEPT !.tip = b]]
      BY <2>1, Zenon
    <3> QED BY <3>1, <1>1, <1>2, <1>5, Zenon DEF RollForward, Msgs, Sources
  <2>2. CASE \E p \in Ancestors[src.tip] \ {Origin} :
               m = [msg |-> RollBack(p), src |-> [src EXCEPT !.tip = p]]
    <3>1. PICK p \in Ancestors[src.tip] \ {Origin} :
             m = [msg |-> RollBack(p), src |-> [src EXCEPT !.tip = p]]
      BY <2>2, Zenon
    <3>2. p \in Blocks
      BY <1>1, TreeAssumption, Zenon DEF Sources, Points
    <3> QED BY <3>1, <3>2, <1>1, <1>5, Zenon DEF RollBack, Msgs, Sources
  <2> QED BY <2>1, <2>2, <1>5, Zenon DEF NextMessages
<1> QED BY <1>1, <1>3, <1>4, <1>5, Zenon DEF NextMessages, Sources

LEMMA ChainSchedule ==
  ASSUME Exact, TypeInv, ChainInv, Schedule
  PROVE  ChainInv'
<1>1. /\ UNCHANGED <<store, rows, batch, buffer, lastProcessed, twoPC, result>>
      /\ CursorPoint' = CursorPoint /\ Persisted' = Persisted
      /\ pc = "idle" /\ pc' = "execute" /\ twoPC = NoMsg
  BY Zenon DEF Schedule, tikv, memory, CursorPoint, Persisted, PointsIn
<1>2. PICK m \in NextMessages : unit' = m.msg /\ src' = m.src
  BY Zenon DEF Schedule
<1>3. /\ unit' \in Msgs
      /\ src'.tip = unit'.point /\ src'.resumed = src.resumed
      /\ unit'.type = "RollForward" => Parent[unit'.point] = Tip
      /\ unit'.type = "RollForward" /\ unit'.mutable =>
           src.mode = "streaming" /\ src'.mode = "streaming" /\ src'.paged = src.paged
      /\ unit'.type = "RollForward" /\ ~unit'.mutable =>
           /\ src.mode = "dumping" /\ src'.mode = "dumping" /\ ~src.resumed
           /\ src'.paged = IF src.paged < 2 THEN src.paged + 1 ELSE 2
      /\ unit'.type = "RollBack" =>
           /\ src'.paged = src.paged
           /\ \/ src.mode = "boot" /\ src'.mode = "dumping"
              \/ src.mode = "streaming" /\ src'.mode = "streaming"
  BY <1>1, <1>2, NextMessageExtends, Zenon
<1>4. unit' # NoMsg /\ unit'.type \in {"RollForward", "RollBack"} /\ unit'.mutable \in BOOLEAN
      /\ (unit'.type = "RollBack" => unit'.mutable)
  BY <1>3, MarkersAssumption, Zenon DEF Msgs
<1>5. Tip' = Tip /\ Pending' = unit' /\ Pending = NoMsg
  BY <1>1, Zenon DEF Tip, Pending
<1>6. StoreIsChainState' /\ RowsInv' /\ BatchInv' /\ BufferInv'
  BY <1>1, Zenon DEF ChainInv, StoreIsChainState, RowsInv, BatchInv, BufferInv
<1>7. src.mode = "boot" => buffer # <<>>
  BY Zenon DEF ChainInv, SourceInv
<1>8. SourceInv'
  <2>1. src.mode = "dumping" /\ ~src.resumed => buffer = <<>>
    BY Zenon DEF ChainInv, SourceInv
  <2>2. src.mode = "boot" => buffer # <<>> /\ src.resumed
    BY <1>1, Zenon DEF ChainInv, SourceInv
  <2>3. src.resumed => buffer # <<>>
    BY Zenon DEF ChainInv, SourceInv
  <2> QED BY <1>1, <1>3, <1>4, <1>5, <2>1, <2>2, <2>3, SMTT(30) DEF SourceInv, Awaits
<1>9. UnitInv'
  BY <1>1, <1>3, <1>5, Zenon DEF UnitInv
<1>10. PagedInv'
  <2> SUFFICES ASSUME ~src.resumed, buffer = <<>> PROVE PagedInv'
    BY <1>1, <1>3, Zenon DEF PagedInv
  <2>1. PagedInv
    BY Zenon DEF ChainInv
  <2>2. /\ src.mode = "streaming" => src.paged \in {0, 2}
        /\ src.paged = 0 => batch.len = 0 /\ LastIs(CursorPoint)
        /\ src.paged # 0 => batch.len = 1
        /\ src.paged = 2 => lastProcessed = batch.last
    BY <1>1, <1>5, <2>1, SMTT(30) DEF PagedInv, Awaits
  <2>3. LastIs(CursorPoint)' = LastIs(CursorPoint)
    BY <1>1, Zenon DEF LastIs
  <2>4. CASE unit'.type = "RollForward" /\ ~unit'.mutable
    <3>1. src.paged \in 0..2
      BY Zenon DEF TypeInv, TypeOK, Sources
    <3>2. /\ src'.mode = "dumping" /\ src'.paged # 0
          /\ src'.paged = 1 => src.paged = 0
          /\ src'.paged = 2 => src.paged # 0
      BY <1>3, <2>4, <3>1, SMTT(30)
    <3> QED BY <1>1, <1>4, <1>5, <2>2, <2>4, <3>2, SMTT(30) DEF PagedInv, Awaits
  <2>5. CASE ~(unit'.type = "RollForward" /\ ~unit'.mutable)
    <3>1. src'.paged = src.paged /\ src'.mode = src.mode
      BY <1>3, <1>4, <1>7, <2>5, Zenon
    <3> QED BY <1>1, <1>4, <1>5, <2>2, <2>3, <2>5, <3>1, SMTT(30) DEF PagedInv, Awaits
  <2> QED BY <2>4, <2>5, Zenon
<1> QED BY <1>6, <1>8, <1>9, <1>10, Zenon DEF ChainInv

\* a block pushed to an empty batch
LEMMA PushedToEmpty ==
  ASSUME NEW bt, bt.acts = NoActions, bt.len = 0, NEW b \in Blocks
  PROVE  /\ Pushed(bt, b).acts = Actions[b] /\ Pushed(bt, b).len = 1
         /\ Pushed(bt, b).last = b
<1>1. Actions[b] \in [Keys -> StorageAction \cup {NoAction}]
  BY ActionsAssumption, Zenon DEF ActionMaps
<1>2. MergeAll(NoActions, Actions[b]) = Actions[b]
  BY <1>1, Zenon DEF MergeAll, NoActions
<1> QED BY <1>2, SMTT(30) DEF Pushed

LEMMA ChainPushToBatch ==
  ASSUME Exact, TypeInv, ChainInv, PushToBatch
  PROVE  ChainInv'
<1> DEFINE b == unit.point
<1>1. /\ UNCHANGED <<store, rows, buffer, lastProcessed, twoPC, result, src>>
      /\ CursorPoint' = CursorPoint /\ Persisted' = Persisted
      /\ pc = "execute" /\ pc' = "idle" /\ unit' = NoMsg /\ batch' = Pushed(batch, b)
      /\ unit.type = "RollForward" /\ unit.mutable = FALSE /\ ~ShouldFlush(b)
  BY Zenon DEF PushToBatch, Executing, tikv, CursorPoint, Persisted, PointsIn
<1>2. unit \in Msgs /\ unit # NoMsg /\ b \in Blocks
  BY <1>1, Zenon DEF TypeInv, TypeOK, Msgs
<1>3. Pending = unit /\ Awaits("RollForward", FALSE)
  BY <1>1, <1>2, Zenon DEF Pending, Awaits
<1>4. batch.len = 0 /\ batch.acts = NoActions
  <2>1. ~(batch.len >= BatchLen) /\ BatchLen <= 1 /\ BatchLen \in Nat
    BY <1>1, BoundsAssumption, Zenon DEF ShouldFlush, Exact
  <2>2. batch.len \in {0, 1} /\ (batch.len = 0 => batch.acts = NoActions)
    BY Zenon DEF ChainInv, BatchInv
  <2> QED BY <2>1, <2>2, Zenon
<1>5. batch'.acts = Actions[b] /\ batch'.len = 1 /\ batch'.last = b
  BY <1>1, <1>2, <1>4, PushedToEmpty, Zenon
<1>6. twoPC = NoMsg
  BY <1>1, ZenonT(30), Zenon DEF ChainInv, SourceInv
<1>7. /\ buffer = <<>> /\ ~src.resumed /\ src.tip = b /\ src.mode \in {"dumping", "streaming"}
      /\ Persisted = {}
  BY <1>1, <1>2, <1>3, Zenon DEF ChainInv, SourceInv, BufferInv
<1>8. Parent[b] = CursorPoint
  BY <1>1, <1>2, <1>3, <1>4, Zenon DEF ChainInv, UnitInv, Tip
<1>9. Tip' = b /\ Pending' = NoMsg
  <2>1. Tip' = b
    BY <1>5, SMTT(30) DEF Tip
  <2>2. Pending' = NoMsg
    BY <1>1, <1>6, Zenon DEF Pending
  <2> QED BY <2>1, <2>2, Zenon
<1>10. StoreIsChainState' /\ RowsInv'
  BY <1>1, Zenon DEF ChainInv, StoreIsChainState, RowsInv
<1>11. BatchInv'
  BY <1>1, <1>2, <1>5, <1>7, <1>8, SMTT(30) DEF BatchInv
<1>12. BufferInv'
  BY <1>1, <1>7, Zenon DEF ChainInv, BufferInv
<1>13. SourceInv'
  BY <1>1, <1>6, <1>7, <1>9, Zenon DEF SourceInv, Awaits
<1>14. UnitInv'
  BY <1>1, <1>9, ZenonT(30), Zenon DEF UnitInv
<1>15. PagedInv'
  <2>1. PagedInv
    BY Zenon DEF ChainInv
  <2>2. /\ src.mode = "streaming" => src.paged \in {0, 2}
        /\ src.paged # 0
        /\ src.paged = 2 => batch.len = 1
    BY <2>1, <1>1, <1>3, <1>7, Zenon DEF PagedInv
  <2>3. src.paged = 1
    BY <2>2, <1>4, SMTT(30) DEF TypeInv, TypeOK, Sources
  <2>4. src.mode # "streaming"
    BY <2>2, <2>3, SMTT(30)
  <2>5. 1 # 0 /\ 1 # 2
    BY SMTT(30)
  <2> QED BY <2>3, <2>4, <2>5, <1>1, <1>5, <1>9, SMTT(30) DEF PagedInv, Awaits
<1> QED BY <1>10, <1>11, <1>12, <1>13, <1>14, <1>15, SMTT(30) DEF ChainInv

LEMMA ChainCommit ==
  ASSUME Exact, TypeInv, ChainInv, Commit
  PROVE  ChainInv'
<1>1. /\ UNCHANGED <<batch, buffer, lastProcessed, unit, src>>
      /\ pc = "execute" /\ pc' = "publish" /\ twoPC' = NoMsg /\ HasTxn
      /\ store' = Txn.store /\ rows' = Txn.rows /\ result'.inverse = Txn.inverse
  BY Zenon DEF Commit, HasTxn, BeginsTxn, memory
<1>2. unit \in Msgs /\ unit # NoMsg /\ unit.type \in {"RollForward", "RollBack"}
      /\ unit.mutable \in BOOLEAN /\ (unit.type = "RollBack" => InBuffer(unit.point))
  BY <1>1, Zenon DEF TypeInv, TypeOK, Msgs, HasTxn
<1>3. Pending = unit /\ Pending' = unit
  BY <1>1, Zenon DEF Pending
<1>4. CursorPoint' = Target /\ StoreIsChainState' /\ RowsInv'
  BY <1>1, CommittedChain, Zenon
<1>5. BatchInv'
  BY <1>1, Zenon DEF ChainInv, BatchInv
<1>6. BufferInv'
  BY <1>1, Zenon DEF ChainInv, BufferInv
<1>7. SourceInv'
  BY <1>1, <1>2, <1>3, Zenon DEF ChainInv, SourceInv, Awaits
<1>8. UnitInv'
  <2>1. CASE unit.type = "RollBack"
    <3>1. Target = unit.point /\ InBuffer(unit.point)'
      BY <2>1, <1>1, <1>2, SMTT(30) DEF Target, Batched, InBuffer
    <3> QED BY <2>1, <3>1, <1>1, <1>3, <1>4, Zenon DEF UnitInv, Awaits
  <2>2. CASE unit.type = "RollForward" /\ unit.mutable
    <3>1. /\ Target = unit.point /\ Txn.inverse = ChainInverse(unit.point)
          /\ buffer # <<>> => buffer[1].point = Parent[unit.point]
          /\ buffer = <<>> => LastIs(Parent[unit.point])
      BY <2>2, <1>1, MutableCommits, Zenon
    <3>2. unit.mutable = TRUE
      BY <2>2, <1>2, Zenon
    <3> QED BY <2>2, <3>1, <3>2, <1>1, <1>3, <1>4, SMTT(30) DEF UnitInv, Awaits, LastIs
  <2>3. CASE unit.type = "RollForward" /\ ~unit.mutable
    <3>1. Target = Parent[unit.point] /\ Txn.rows = rows /\ Persisted = {}
      BY <2>3, <1>1, FlushCommits, Zenon
    <3>2. Persisted' = {} /\ unit.mutable = FALSE
      BY <3>1, <2>3, <1>1, <1>2, SMTT(30) DEF Persisted, PointsIn
    <3> QED BY <2>3, <3>1, <3>2, <1>1, <1>3, <1>4, ZenonT(30) DEF UnitInv, Awaits
  <2> QED BY <1>2, <2>1, <2>2, <2>3, Zenon
<1>9. PagedInv'
  BY <1>1, <1>3, SMTT(30) DEF ChainInv, PagedInv, Awaits
<1> QED BY <1>4, <1>5, <1>6, <1>7, <1>8, <1>9, SMTT(30) DEF ChainInv

LEMMA ChainCommitFails ==
  ASSUME Exact, TypeInv, ChainInv, CommitFails
  PROVE  ChainInv'
<1>1. /\ UNCHANGED <<store, rows, batch, buffer, lastProcessed, result, src>>
      /\ CursorPoint' = CursorPoint /\ Persisted' = Persisted
      /\ pc = "execute" /\ pc' = "idle" /\ twoPC' = unit /\ BeginsTxn
  BY Zenon DEF CommitFails, BeginsTxn, tikv, memory, CursorPoint, Persisted, PointsIn
<1>2. Pending = unit /\ Pending' = unit /\ Tip' = Tip /\ unit # NoMsg
  BY <1>1, SMTT(30) DEF Pending, Tip, TypeInv, TypeOK
<1>3. StoreIsChainState' /\ RowsInv' /\ BatchInv' /\ BufferInv'
  BY <1>1, SMTT(30) DEF ChainInv, StoreIsChainState, RowsInv, BatchInv, BufferInv
<1>4. SourceInv'
  BY <1>1, <1>2, Zenon DEF ChainInv, SourceInv, Awaits, BeginsTxn, ShouldFlush
<1>5. UnitInv'
  BY <1>1, <1>2, Zenon DEF ChainInv, UnitInv
<1>6. PagedInv'
  BY <1>1, <1>2, Zenon DEF ChainInv, PagedInv, Awaits, LastIs
<1> QED BY <1>3, <1>4, <1>5, <1>6, Zenon DEF ChainInv

\* a block in front of a chain it extends
LEMMA AddedToChain ==
  ASSUME NEW buf \in Seq(BufferEntry), ChainBuffer(buf), NEW b \in Blocks,
         buf # <<>> => buf[1].point = Parent[b]
  PROVE  /\ ChainBuffer(AddBlock(buf, Entry(b, ChainInverse(b))))
         /\ AddBlock(buf, Entry(b, ChainInverse(b))) # <<>>
         /\ AddBlock(buf, Entry(b, ChainInverse(b)))[1].point = b
<1> DEFINE e == Entry(b, ChainInverse(b))
           new == AddBlock(buf, e)
<1>1. e \in BufferEntry /\ e.point = b /\ e.inverse = ChainInverse(b)
  <2>1. b \in Points /\ Parent[b] \in Points
    BY TreeAssumption, Zenon DEF Points
  <2>2. ChainInverse(b) \in InverseMaps
    BY <2>1, StateAssumption, InverseOfType, Zenon DEF ChainInverse
  <2> QED BY <2>1, <2>2, Zenon DEF Entry, BufferEntry
<1> HIDE DEF e
<1>2. /\ new \in Seq(BufferEntry) /\ Len(new) \in 1..MaxBufferLen /\ Len(new) <= Len(buf) + 1
      /\ new[1] = e /\ \A i \in 2..Len(new) : new[i] = buf[i - 1]
  <2>1. IsAdded(new, BufferEntry, buf, e)
    BY <1>1, AddBlockAdds, Zenon
  <2> HIDE DEF new
  <2> QED BY <2>1, Zenon DEF IsAdded
<1> HIDE DEF new
<1>3. Len(new) \in Nat /\ Len(buf) \in Nat /\ new # <<>> /\ Len(new) <= Len(buf) + 1
  BY <1>2, BoundsAssumption, SMTT(30)
<1>4. ASSUME NEW i \in 1..(Len(new) - 1)
      PROVE  /\ new[i].point \in Blocks
             /\ new[i + 1].point = Parent[new[i].point]
             /\ new[i].inverse = ChainInverse(new[i].point)
  <2>1. i + 1 \in 2..Len(new) /\ (i + 1) - 1 = i /\ i \in Nat
    BY <1>3, SMTT(30)
  <2>2. new[i + 1] = buf[i]
    BY <1>2, <2>1, Zenon
  <2>3. CASE i = 1
    <3>1. buf # <<>>
      BY <1>2, <1>3, <2>1, <2>3, SMTT(30)
    <3> QED BY <2>2, <2>3, <3>1, <1>1, <1>2, SMTT(30)
  <2>4. CASE i # 1
    <3>1. i \in 2..Len(new) /\ i - 1 \in 1..(Len(buf) - 1) /\ (i - 1) + 1 = i
      BY <1>3, <2>1, <2>4, SMTT(30)
    <3>2. new[i] = buf[i - 1]
      BY <1>2, <3>1, Zenon
    <3> QED BY <2>2, <3>1, <3>2, Zenon DEF ChainBuffer
  <2> QED BY <2>3, <2>4, Zenon
<1>5. ChainBuffer(new)
  BY <1>4, Zenon DEF ChainBuffer
<1> QED BY <1>1, <1>2, <1>3, <1>5, Zenon DEF new, e

\* what a rollback to the k-th of n points leaves: the points from k on
LEMMA Shifted ==
  ASSUME NEW n \in Nat, NEW k \in 1..n, NEW i \in 1..((n - k + 1) - 1)
  PROVE  /\ i \in 1..(n - k + 1) /\ i + 1 \in 1..(n - k + 1)
         /\ k + i - 1 \in 1..(n - 1) /\ k + (i + 1) - 1 = (k + i - 1) + 1
  BY SMTT(30)

LEMMA RollbackIsChain ==
  ASSUME TypeInv, ChainBuffer(buffer), NEW p, InBuffer(p)
  PROVE  /\ RollbackToPoint(p) \in Seq(BufferEntry) /\ ChainBuffer(RollbackToPoint(p))
         /\ RollbackToPoint(p) # <<>> /\ RollbackToPoint(p)[1].point = p
<1> DEFINE k == Position(p)
           left == RollbackToPoint(p)
<1>1. k \in 1..Len(buffer) /\ buffer[k].point = p /\ Len(buffer) \in Nat
  BY PositionProperties, SMTT(30) DEF TypeInv, TypeOK
<1>2. /\ left \in Seq(BufferEntry) /\ Len(left) = Len(buffer) - k + 1
      /\ \A i \in 1..(Len(buffer) - k + 1) : left[i] = buffer[k + i - 1]
  BY RollbackToPointProperties, Zenon
<1> HIDE DEF k, left
<1>3. left # <<>> /\ left[1].point = p
  <2>1. 1 \in 1..(Len(buffer) - k + 1) /\ k + 1 - 1 = k /\ Len(left) # 0
    BY <1>1, <1>2, SMTT(30)
  <2>2. left[1] = buffer[k + 1 - 1]
    BY <2>1, <1>2, Zenon
  <2> QED BY <1>1, <2>1, <2>2, SMTT(30)
<1>4. ASSUME NEW i \in 1..(Len(left) - 1)
      PROVE  /\ left[i].point \in Blocks
             /\ left[i + 1].point = Parent[left[i].point]
             /\ left[i].inverse = ChainInverse(left[i].point)
  <2>1. /\ i \in 1..(Len(buffer) - k + 1) /\ i + 1 \in 1..(Len(buffer) - k + 1)
        /\ k + i - 1 \in 1..(Len(buffer) - 1) /\ k + (i + 1) - 1 = (k + i - 1) + 1
    BY <1>1, <1>2, Shifted, SMTT(30)
  <2>2. left[i] = buffer[k + i - 1] /\ left[i + 1] = buffer[k + (i + 1) - 1]
    BY <2>1, <1>2, Zenon
  <2>3. LET j == k + i - 1
        IN  /\ buffer[j].point \in Blocks
            /\ buffer[j + 1].point = Parent[buffer[j].point]
            /\ buffer[j].inverse = ChainInverse(buffer[j].point)
    BY <2>1, Zenon DEF ChainBuffer
  <2> QED BY <2>1, <2>2, <2>3, Zenon
<1> QED BY <1>2, <1>3, <1>4, ZenonT(30), Zenon DEF ChainBuffer, left

\* the buffer a mutable block is added to: the point before the first such
\* block starts it
Started ==
  IF buffer = <<>>
  THEN AddBlock(buffer, Entry(IF lastProcessed = Absent THEN Origin ELSE lastProcessed, NoActions))
  ELSE buffer

LEMMA StartedIsChain ==
  ASSUME TypeInv, ChainBuffer(buffer), NEW b \in Blocks,
         buffer # <<>> => buffer[1].point = Parent[b],
         buffer = <<>> => LastIs(Parent[b])
  PROVE  /\ Started \in Seq(BufferEntry) /\ ChainBuffer(Started) /\ Started[1].point = Parent[b]
         /\ buffer = <<>> => Len(Started) <= 1
<1>0. buffer \in Seq(BufferEntry)
  BY Zenon DEF TypeInv, TypeOK, BufferEntry
<1>1. CASE buffer # <<>>
  BY <1>0, <1>1, Zenon DEF Started
<1>2. CASE buffer = <<>>
  <2> DEFINE init == IF lastProcessed = Absent THEN Origin ELSE lastProcessed
             e == Entry(init, NoActions)
  <2>1. Parent[b] \in Points /\ Absent \notin Blocks
    BY TreeAssumption, ActionsAssumption, ValuesAssumption, Zenon
  <2>2. init = Parent[b]
    BY <1>2, <2>1, Zenon DEF LastIs, Points
  <2>3. e \in BufferEntry /\ e.point = Parent[b]
    BY <2>1, <2>2, NoActionsType, SMTT(30) DEF Entry, BufferEntry
  <2>4. Started = AddBlock(buffer, e)
    BY <1>2, Zenon DEF Started
  <2> HIDE DEF e
  <2>5. /\ AddBlock(buffer, e) \in Seq(BufferEntry) /\ AddBlock(buffer, e)[1] = e
        /\ Len(AddBlock(buffer, e)) <= Len(buffer) + 1
    <3>1. IsAdded(AddBlock(buffer, e), BufferEntry, buffer, e)
      BY <2>3, <1>0, AddBlockAdds, Zenon
    <3> QED BY <3>1, Zenon DEF IsAdded
  <2>6. Len(AddBlock(buffer, e)) <= 1 /\ Len(AddBlock(buffer, e)) \in Nat
    BY <2>5, <1>2, SMTT(30)
  <2>7. ChainBuffer(AddBlock(buffer, e))
    BY <2>6, SMTT(30) DEF ChainBuffer
  <2> QED BY <1>2, <2>3, <2>4, <2>5, <2>6, <2>7, Zenon
<1> QED BY <1>1, <1>2, Zenon

LEMMA ChainPublish ==
  ASSUME Exact, TypeInv, ChainInv, Publish
  PROVE  ChainInv'
<1> DEFINE b == unit.point
<1>1. /\ UNCHANGED <<store, rows, twoPC, src>>
      /\ CursorPoint' = CursorPoint /\ Persisted' = Persisted
      /\ pc = "publish" /\ pc' = "idle" /\ unit' = NoMsg /\ lastProcessed' = b
  BY Zenon DEF Publish, tikv, CursorPoint, Persisted, PointsIn
<1>2. /\ unit \in Msgs /\ unit # NoMsg /\ b \in Blocks
      /\ unit.type \in {"RollForward", "RollBack"} /\ unit.mutable \in BOOLEAN
  BY <1>1, Zenon DEF TypeInv, TypeOK, Msgs
<1>3. Pending = unit /\ Pending' = NoMsg /\ twoPC = NoMsg /\ twoPC' = NoMsg
  BY <1>1, Zenon DEF Pending, ChainInv, SourceInv
<1>4. src.tip = b /\ src.mode \in {"dumping", "streaming"}
  BY <1>2, <1>3, Zenon DEF ChainInv, SourceInv
<1>5. StoreIsChainState' /\ RowsInv'
  BY <1>1, Zenon DEF ChainInv, StoreIsChainState, RowsInv
<1>6. UnitInv'
  BY <1>1, <1>3, Zenon DEF UnitInv, Awaits
<1>7. buffer \in Seq(BufferEntry) /\ ChainBuffer(buffer)
  BY Zenon DEF TypeInv, TypeOK, BufferEntry, ChainInv, BufferInv
<1>8. CASE unit.type = "RollBack"
  <2>1. /\ buffer' = RollbackToPoint(b) /\ batch' = batch
    BY <1>8, ZenonT(30), Zenon DEF Publish, FinishRollBack
  <2>2. CursorPoint = b /\ InBuffer(b)
    BY <1>1, <1>8, Zenon DEF ChainInv, UnitInv
  <2>3. buffer # <<>>
    BY <1>7, <2>2, SMTT(30) DEF InBuffer
  <2>4. buffer # <<>> /\ buffer' # <<>> /\ buffer'[1].point = b
    BY <1>7, <2>1, <2>2, <2>3, RollbackIsChain, Zenon
  <2>5. ChainBuffer(buffer')
    BY <1>7, <2>1, <2>2, RollbackIsChain, Zenon
  <2>6. batch.len = 0 /\ batch.acts = NoActions
    BY <2>4, Zenon DEF ChainInv, BatchInv
  <2>7. BatchInv' /\ Tip' = b
    BY <2>1, <2>2, <2>6, <1>1, SMTT(30) DEF BatchInv, Tip
  <2>8. BufferInv'
    BY <2>2, <2>4, <2>5, <1>1, SMTT(30) DEF BufferInv
  <2>9. src.mode = "dumping" => src.resumed
    BY <2>4, SMTT(30) DEF ChainInv, SourceInv
  <2>10. SourceInv'
    BY <2>4, <2>7, <2>9, <1>1, <1>3, <1>4, SMTT(30) DEF SourceInv, Awaits
  <2>11. PagedInv'
    BY <2>4, SMTT(30) DEF PagedInv
  <2> QED BY <1>5, <1>6, <2>7, <2>8, <2>10, <2>11, SMTT(30) DEF ChainInv
<1>9. CASE unit.type = "RollForward" /\ unit.mutable
  <2>1. /\ buffer' = AddBlock(Started, Entry(b, result.inverse))
        /\ batch' = IF batch.acts = NoActions THEN batch ELSE EmptyBatch
    BY <1>2, <1>9, Zenon DEF Publish, FinishMutable, Started
  <2>2. Awaits("RollForward", TRUE)
    BY <1>2, <1>3, <1>9, SMTT(30) DEF Awaits
  <2>3. /\ CursorPoint = b /\ result.inverse = ChainInverse(b)
        /\ buffer # <<>> => buffer[1].point = Parent[b]
        /\ buffer = <<>> => LastIs(Parent[b])
    BY <1>1, <2>2, SMTT(30) DEF ChainInv, UnitInv
  <2>4. src.mode = "streaming"
    BY <2>2, Zenon DEF ChainInv, SourceInv
  <2>5. Started \in Seq(BufferEntry) /\ ChainBuffer(Started) /\ Started[1].point = Parent[b]
    BY <1>2, <1>7, <2>3, StartedIsChain, ZenonT(30)
  <2>6. ChainBuffer(buffer') /\ buffer' # <<>> /\ buffer'[1].point = b
    BY <2>1, <2>3, <2>5, <1>2, AddedToChain, SMTT(30)
  <2>7. batch'.len = 0 /\ batch'.acts = NoActions
    <3>1. batch.len = 1 => batch.acts # NoActions
      BY InverseNotEmpty, Zenon DEF ChainInv, BatchInv
    <3>2. batch.len \in {0, 1}
      BY Zenon DEF ChainInv, BatchInv
    <3> QED BY <2>1, <3>1, <3>2, SMTT(30) DEF EmptyBatch
  <2>8. BatchInv' /\ Tip' = b
    BY <2>3, <2>7, <1>1, SMTT(30) DEF BatchInv, Tip
  <2>9. BufferInv'
    BY <2>3, <2>6, <1>1, Zenon DEF BufferInv
  <2>10. SourceInv'
    BY <2>4, <2>6, <2>8, <1>1, <1>3, <1>4, Zenon DEF SourceInv, Awaits
  <2>11. PagedInv'
    BY <2>6, Zenon DEF PagedInv
  <2> QED BY <1>5, <1>6, <2>8, <2>9, <2>10, <2>11, SMTT(30) DEF ChainInv
<1>10. CASE unit.type = "RollForward" /\ ~unit.mutable
  <2>1. buffer' = buffer /\ batch' = Pushed(EmptyBatch, b)
    BY <1>2, <1>10, ZenonT(30), Zenon DEF Publish, FinishFlush
  <2>2. batch'.acts = Actions[b] /\ batch'.len = 1 /\ batch'.last = b
    BY <2>1, <1>2, PushedToEmpty, Zenon DEF EmptyBatch
  <2>3. Awaits("RollForward", FALSE)
    BY <1>2, <1>3, <1>10, SMTT(30) DEF Awaits
  <2>4. CursorPoint = Parent[b] /\ Persisted = {} /\ buffer = <<>> /\ ~src.resumed
    BY <2>3, <1>1, Zenon DEF ChainInv, UnitInv, SourceInv
  <2>5. BatchInv' /\ Tip' = b
    <3>1. buffer' = <<>>
      BY <2>1, <2>4, SMTT(30)
    <3>2. BatchInv'
      BY <2>2, <2>4, <3>1, <1>1, <1>2, SMTT(30) DEF BatchInv
    <3>3. Tip' = b
      BY <2>2, SMTT(30) DEF Tip
    <3> QED BY <3>2, <3>3, Zenon
  <2>6. BufferInv'
    BY <2>1, <2>4, <1>1, <1>7, Zenon DEF BufferInv
  <2>7. SourceInv'
    BY <2>1, <2>4, <2>5, <1>1, <1>3, <1>4, ZenonT(30) DEF SourceInv, Awaits
  <2>8. PagedInv'
    <3>1. src.paged # 0 /\ (src.mode = "streaming" => src.paged \in {0, 2})
      BY <2>3, <2>4, <1>1, Zenon DEF ChainInv, PagedInv
    <3> QED BY <3>1, <2>2, <1>1, <1>3, Zenon DEF PagedInv, Awaits
  <2> QED BY <1>5, <1>6, <2>5, <2>6, <2>7, <2>8, Zenon DEF ChainInv
<1> QED BY <1>2, <1>8, <1>9, <1>10, Zenon

LEMMA ChainStutter ==
  ASSUME ChainInv, UNCHANGED vars
  PROVE  ChainInv'
<1>1. /\ CursorPoint' = CursorPoint /\ Persisted' = Persisted /\ Tip' = Tip
      /\ Pending' = Pending
  BY Zenon DEF vars, CursorPoint, Persisted, PointsIn, Tip, Pending
<1>2. StoreIsChainState' /\ RowsInv' /\ BatchInv' /\ BufferInv'
  BY <1>1, Zenon DEF vars, ChainInv, StoreIsChainState, RowsInv, BatchInv, BufferInv
<1>3. SourceInv' /\ PagedInv'
  BY <1>1, ZenonT(60) DEF vars, ChainInv, SourceInv, PagedInv, Awaits, ShouldFlush, LastIs
<1>4. UnitInv'
  BY <1>1, Zenon DEF vars, ChainInv, UnitInv, Awaits, LastIs, InBuffer
<1> QED BY <1>2, <1>3, <1>4, Zenon DEF ChainInv

-----------------------------------------------------------------------------
\* The invariant holds in every reachable state of an Exact configuration.
THEOREM ChainInvariance == Exact => (Spec => []ChainInv)
<1> SUFFICES ASSUME Exact PROVE Spec => []ChainInv
  BY Zenon
<1>1. Init => ChainInv
  BY ChainInit, Zenon
<1>2. TypeInv /\ ChainInv /\ [Next]_vars => ChainInv'
  <2> SUFFICES ASSUME TypeInv, ChainInv, [Next]_vars
               PROVE  ChainInv'
    BY Zenon
  <2>1. CASE Crash \/ RollBackRefused \/ CommitUndetermined
    BY <2>1, ChainEnds, Zenon
  <2>2. ASSUME NEW t \in Points, Restart(t) PROVE ChainInv'
    BY <2>2, ChainRestart, Zenon
  <2>3. CASE SwitchToStreaming
    BY <2>3, ChainSwitch, Zenon
  <2>4. CASE Reschedule
    BY <2>4, ChainReschedule, SMTT(30)
  <2>5. CASE Schedule
    BY <2>5, ChainSchedule, Zenon
  <2>6. CASE PushToBatch
    BY <2>6, ChainPushToBatch, Zenon
  <2>7. CASE Commit
    BY <2>7, ChainCommit, Zenon
  <2>8. CASE CommitFails
    BY <2>8, ChainCommitFails, Zenon
  <2>9. CASE Publish
    BY <2>9, ChainPublish, Zenon
  <2>10. CASE PublishFails
    BY <2>10, Zenon DEF PublishFails, Exact
  <2>11. CASE UNCHANGED vars
    BY <2>11, ChainStutter, Zenon
  <2> QED
    BY <2>1, <2>2, <2>3, <2>4, <2>5, <2>6, <2>7, <2>8, <2>9, <2>10, <2>11, Zenon DEF Next
<1>3. Spec => []TypeInv
  BY TypeInvariance, Zenon
<1> QED BY <1>1, <1>2, <1>3, PTL DEF Spec

\* In every reachable state the committed keys are what the blocks up to the
\* committed cursor produce (apply_actions, rollback and restart together).
THEOREM StoreFollowsChain == Exact => (Spec => []StoreIsChainState)
<1>1. ChainInv => StoreIsChainState
  BY Zenon DEF ChainInv
<1> QED BY <1>1, ChainInvariance, PTL

\* A block is only ever executed on top of its parent, also when the unit is
\* executed again after a failed commit (schedule, work_unit_2pc).
THEOREM UnitsExtendStore == Exact => (Spec => []UnitExtendsStore)
<1>1. TypeInv /\ ChainInv => UnitExtendsStore
  <2> SUFFICES ASSUME TypeInv, ChainInv, pc = "execute", unit.type = "RollForward"
               PROVE  Parent[unit.point] = IF batch.len > 0 THEN batch.last ELSE CursorPoint
    BY Zenon DEF UnitExtendsStore
  <2>1. Pending = unit /\ unit # NoMsg
    BY Zenon DEF Pending, TypeInv, TypeOK
  <2>2. Parent[unit.point] = Tip
    BY <2>1, Zenon DEF ChainInv, UnitInv
  <2>3. batch.len \in {0, 1}
    BY SMTT(30) DEF ChainInv, BatchInv
  <2> QED BY <2>2, <2>3, SMTT(30) DEF Tip
<1> QED BY <1>1, ChainInvariance, TypeInvariance, PTL

\* A commit leaves the cursor where its unit says (execute).
THEOREM CommitsLand == Exact => (Spec => []CommitLands)
<1>1. TypeInv /\ ChainInv => CommitLands
  <2> SUFFICES ASSUME TypeInv, ChainInv, pc = "publish"
               PROVE  CursorPoint = IF Batched THEN Parent[unit.point] ELSE unit.point
    BY Zenon DEF CommitLands
  <2>1. unit \in Msgs /\ unit # NoMsg /\ Pending = unit
    BY Zenon DEF TypeInv, TypeOK, Pending
  <2>2. unit.type \in {"RollForward", "RollBack"} /\ unit.mutable \in BOOLEAN
    BY <2>1, Zenon DEF Msgs
  <2> QED BY <2>1, <2>2, Zenon DEF ChainInv, UnitInv, Awaits, Batched
<1> QED BY <1>1, ChainInvariance, TypeInvariance, PTL

\* The rollback buffer is an unbroken piece of the cursor's chain.
THEOREM BufferFollowsChain == Exact => (Spec => []BufferIsChain)
<1>1. ChainInv => BufferIsChain
  BY Zenon DEF ChainInv, BufferInv, ChainBuffer, BufferIsChain
<1> QED BY <1>1, ChainInvariance, PTL

-----------------------------------------------------------------------------
(* The worker implements ChainView: the commits of an Exact configuration, *)
(* and nothing else, move the keys, each along one chain.                  *)

\* what the two bounds of ChainView are in an Exact configuration
Forwards == (IF BatchLen = 0 THEN 1 ELSE BatchLen) + 1

LEMMA ForwardBound ==
  ASSUME Exact
  PROVE  Forwards = 2
<1>1. BatchLen \in {0, 1}
  BY BoundsAssumption, SMTT(30) DEF Exact
<1> QED BY <1>1, SMTT(30) DEF Forwards

\* a set of at most two points
LEMMA AtMostTwo ==
  ASSUME NEW S, NEW x, NEW y, S \subseteq {x, y}
  PROVE  Cardinality(S) \in Nat /\ Cardinality(S) <= 2
<1>1. IsFiniteSet({x}) /\ Cardinality({x}) = 1
  BY FS_Singleton, Zenon
<1>2. /\ IsFiniteSet({x} \cup {y})
      /\ Cardinality({x} \cup {y}) = IF y \in {x} THEN Cardinality({x}) ELSE Cardinality({x}) + 1
  BY <1>1, FS_AddElement, Zenon
<1>3. Cardinality({x} \cup {y}) \in {1, 2}
  BY <1>1, <1>2, SMTT(30)
<1>4. S \in SUBSET ({x} \cup {y})
  BY Zenon
<1>5. IsFiniteSet(S) /\ Cardinality(S) <= Cardinality({x} \cup {y})
  BY <1>2, <1>4, FS_Subset, Zenon
<1>6. Cardinality(S) \in Nat
  BY <1>5, FS_CardinalityType, Zenon
<1> QED BY <1>3, <1>5, <1>6, SMTT(30)

\* the blocks of a chain after a point of the buffer are in the buffer
LEMMA BufferCovers ==
  ASSUME NEW buf \in Seq(BufferEntry), ChainBuffer(buf), NEW n \in 1..Len(buf),
         NEW x \in Ancestors[buf[1].point], x \notin Ancestors[buf[n].point]
  PROVE  \E i \in 1..(n - 1) : x = buf[i].point
<1> DEFINE I == {i \in 1..n : x \notin Ancestors[buf[i].point]}
<1>1. n \in Nat /\ Len(buf) \in Nat /\ n <= Len(buf) /\ I \in SUBSET Nat /\ n \in I
  BY SMTT(30)
<1>2. PICK m \in I : \A i \in I : m <= i
  BY <1>1, Least, Zenon
<1>3. m \in 1..n /\ m # 1 /\ x \notin Ancestors[buf[m].point]
  BY <1>2, Zenon
<1>4. m - 1 \in 1..(n - 1) /\ m - 1 \in 1..(Len(buf) - 1) /\ (m - 1) + 1 = m /\ m - 1 \in 1..n
  BY <1>1, <1>3, SMTT(30)
<1>5. x \in Ancestors[buf[m - 1].point]
  <2>1. m - 1 \notin I
    BY <1>2, <1>3, <1>4, SMTT(30)
  <2> QED BY <2>1, <1>4, Zenon
<1>6. buf[m - 1].point \in Blocks /\ buf[m].point = Parent[buf[m - 1].point]
  <2>1. buf[(m - 1) + 1].point = Parent[buf[m - 1].point] /\ buf[m - 1].point \in Blocks
    BY <1>4, Zenon DEF ChainBuffer
  <2> QED BY <2>1, <1>4, Zenon
<1>7. x = buf[m - 1].point
  BY <1>3, <1>5, <1>6, TreeAssumption, SMTT(30)
<1> QED BY <1>4, <1>7, Zenon

\* the points of the first entries of the buffer
LEMMA FewPoints ==
  ASSUME NEW buf, NEW n \in Nat, n >= 1, NEW S,
         \A x \in S : \E i \in 1..(n - 1) : x = buf[i].point
  PROVE  Cardinality(S) \in Nat /\ Cardinality(S) <= n - 1
<1> DEFINE T == {buf[i].point : i \in 1..(n - 1)}
           f == [i \in 1..(n - 1) |-> buf[i].point]
<1>1. IsFiniteSet(1..(n - 1)) /\ Cardinality(1..(n - 1)) = n - 1
  <2>1. /\ IsFiniteSet(1..(n - 1))
        /\ Cardinality(1..(n - 1)) = IF 1 > n - 1 THEN 0 ELSE (n - 1) - 1 + 1
    BY FS_Interval, SMTT(30)
  <2>2. (IF 1 > n - 1 THEN 0 ELSE (n - 1) - 1 + 1) = n - 1
    BY SMTT(30)
  <2> QED BY <2>1, <2>2, SMTT(30)
<1>2. f \in Surjection(1..(n - 1), T)
  <2>1. f \in [1..(n - 1) -> T]
    BY Zenon
  <2>2. \A t \in T : \E i \in 1..(n - 1) : f[i] = t
    BY Zenon
  <2> QED BY <2>1, <2>2, Zenon DEF Surjection
<1>3. S \in SUBSET T
  BY Zenon
<1> HIDE DEF f, T
<1>4. IsFiniteSet(T) /\ Cardinality(T) <= Cardinality(1..(n - 1))
  <2> DEFINE A == 1..(n - 1)
  <2>1. IsFiniteSet(A) /\ f \in Surjection(A, T)
    BY <1>1, <1>2, Zenon
  <2> HIDE DEF A
  <2>2. IsFiniteSet(T) /\ Cardinality(T) <= Cardinality(A)
    BY <2>1, FS_Surjection, Zenon
  <2> QED BY <2>2, Zenon DEF A
<1>5. IsFiniteSet(S) /\ Cardinality(S) <= Cardinality(T)
  BY <1>3, <1>4, FS_Subset, Zenon
<1>6. Cardinality(S) \in Nat /\ Cardinality(T) \in Nat
  BY <1>4, <1>5, FS_CardinalityType, Zenon
<1> QED BY <1>1, <1>4, <1>5, <1>6, SMTT(30)

-----------------------------------------------------------------------------
(* The steps of the worker are steps of the view.                          *)

\* a rollback goes back within the buffer
LEMMA RollBackIsBack ==
  ASSUME Exact, TypeInv, ChainInv, HasTxn, unit.type = "RollBack"
  PROVE  View!Back(CursorPoint, Target)
<1> DEFINE p == unit.point
           n == Position(p)
<1>1. /\ unit \in Msgs /\ pc = "execute" /\ InBuffer(p) /\ p \in Points
  BY Zenon DEF TypeInv, TypeOK, HasTxn, BeginsTxn, Msgs, Points
<1>2. Target = p
  BY RollBackCommits, Zenon
<1>3. n \in 1..Len(buffer) /\ buffer[n].point = p /\ buffer \in Seq(BufferEntry)
  BY <1>1, PositionProperties, SMTT(60) DEF TypeInv, TypeOK, BufferEntry
<1>4. buffer[1].point = CursorPoint /\ ChainBuffer(buffer)
  BY <1>1, <1>3, SMTT(30) DEF ChainInv, BufferInv
<1>5. p \in Ancestors[CursorPoint]
  BY <1>3, <1>4, BufferOnChain, Zenon
<1>6. \A x \in Ancestors[CursorPoint] \ Ancestors[p] : \E i \in 1..(n - 1) : x = buffer[i].point
  BY <1>3, <1>4, BufferCovers, ZenonT(30)
<1>7. n \in Nat /\ n >= 1 /\ n <= MaxBufferLen
  BY <1>3, BoundsAssumption, SMTT(60) DEF TypeInv, TypeOK
<1> HIDE DEF n
<1>8. /\ Cardinality(Ancestors[CursorPoint] \ Ancestors[p]) \in Nat
      /\ Cardinality(Ancestors[CursorPoint] \ Ancestors[p]) <= n - 1
  BY <1>6, <1>7, FewPoints, ZenonT(30), Zenon
<1>9. Cardinality(Ancestors[CursorPoint] \ Ancestors[p]) <= MaxBufferLen - 1
  BY <1>7, <1>8, BoundsAssumption, SMTT(60)
<1> QED BY <1>2, <1>5, <1>9, SMTT(30) DEF View!Back, View!After, Cardinality, View!Cardinality

\* the batch is empty or holds the child of the cursor
LEMMA TipIsNear ==
  ASSUME TypeInv, ChainInv, pc # "publish"
  PROVE  /\ Tip \in Points /\ CursorPoint \in Ancestors[Tip]
         /\ Ancestors[Tip] \subseteq Ancestors[CursorPoint] \cup {Tip}
<1>1. CursorPoint \in Points
  BY CursorPointType, Zenon DEF TypeInv, TypeOK
<1>2. CursorPoint \in Ancestors[CursorPoint]
  BY <1>1, ChainsAreOrdered, Zenon DEF Ordered
<1>3. CASE batch.len = 0
  BY <1>1, <1>2, <1>3, Zenon DEF Tip
<1>4. CASE batch.len = 1
  <2>1. Tip = batch.last /\ batch.last \in Blocks /\ Parent[batch.last] = CursorPoint
    BY <1>4, SMTT(30) DEF ChainInv, BatchInv, Tip
  <2> QED BY <2>1, <1>2, TreeAssumption, Zenon DEF Points
<1> QED BY <1>3, <1>4, Zenon DEF ChainInv, BatchInv

\* a block goes forward by itself and the batch, a batch by itself
LEMMA RollForwardIsForward ==
  ASSUME Exact, TypeInv, ChainInv, HasTxn, unit.type = "RollForward"
  PROVE  View!Forward(CursorPoint, Target)
<1>1. unit \in Msgs /\ unit # NoMsg /\ pc = "execute" /\ unit.mutable \in BOOLEAN
      /\ unit.point \in Blocks
  BY Zenon DEF TypeInv, TypeOK, HasTxn, BeginsTxn, Msgs
<1>2. Pending = unit
  BY <1>1, Zenon DEF Pending
<1>3. Parent[unit.point] = Tip
  BY <1>1, <1>2, Zenon DEF ChainInv, UnitInv
<1>4. /\ Tip \in Points /\ CursorPoint \in Ancestors[Tip]
      /\ Ancestors[Tip] \subseteq Ancestors[CursorPoint] \cup {Tip}
  BY <1>1, TipIsNear, Zenon
<1>5. CursorPoint \in Ancestors[Target]
      /\ Ancestors[Target] \ Ancestors[CursorPoint] \subseteq {Tip, unit.point}
  <2>1. CASE unit.mutable
    <3>1. Target = unit.point
      BY <2>1, MutableCommits, Zenon
    <3> QED BY <3>1, <1>1, <1>3, <1>4, TreeAssumption, SMTT(30)
  <2>2. CASE ~unit.mutable
    <3>1. Target = Tip
      BY <2>2, <1>3, FlushCommits, Zenon
    <3> QED BY <3>1, <1>4, Zenon
  <2> QED BY <1>1, <2>1, <2>2, Zenon
<1>6. Cardinality(Ancestors[Target] \ Ancestors[CursorPoint]) <= Forwards
  BY <1>5, AtMostTwo, ForwardBound, ZenonT(30)
<1> QED BY <1>5, <1>6, Zenon DEF View!Forward, View!After, Forwards, Cardinality, View!Cardinality

LEMMA CommitIsMove ==
  ASSUME Exact, TypeInv, ChainInv, HasTxn, store' = Txn.store, rows' = Txn.rows
  PROVE  View!Next
<1>1. unit \in Msgs /\ CursorPoint \in Points
  BY CursorPointType, Zenon DEF TypeInv, TypeOK, HasTxn, BeginsTxn
<1>2. CursorPoint' = Target /\ StoreIsChainState'
  BY CommittedChain, Zenon
<1>3. store = StateAt[CursorPoint] /\ store' = StateAt[Target]
  BY <1>2, Zenon DEF ChainInv, StoreIsChainState
<1>4. Target \in Points
  <2>1. CASE unit.type = "RollBack"
    BY <2>1, RollBackCommits, Zenon
  <2>2. CASE unit.type = "RollForward" /\ unit.mutable
    BY <2>2, MutableCommits, Zenon DEF Points
  <2>3. CASE unit.type = "RollForward" /\ ~unit.mutable
    BY <2>3, FlushCommits, Zenon
  <2> QED BY <1>1, <2>1, <2>2, <2>3, Zenon DEF Msgs
<1>5. View!Forward(CursorPoint, Target) \/ View!Back(CursorPoint, Target)
  <2>1. CASE unit.type = "RollBack"
    BY <2>1, RollBackIsBack, Zenon
  <2>2. CASE unit.type = "RollForward"
    BY <2>2, RollForwardIsForward, Zenon
  <2> QED BY <1>1, <2>1, <2>2, Zenon DEF Msgs
<1> QED BY <1>1, <1>3, <1>4, <1>5, SMTT(30) DEF View!Next, View!Move

LEMMA StepIsMove ==
  ASSUME Exact, TypeInv, ChainInv, [Next]_vars
  PROVE  [View!Next]_store
<1>1. CASE Commit
  BY <1>1, CommitIsMove, Zenon DEF Commit
<1>2. CASE CommitUndetermined
  BY <1>2, CommitIsMove, Zenon DEF CommitUndetermined
<1>3. CASE Crash \/ RollBackRefused
  BY <1>3, Zenon DEF Crash, RollBackRefused, tikv
<1>4. ASSUME NEW t \in Points, Restart(t) PROVE UNCHANGED store
  BY <1>4, Zenon DEF Restart, tikv
<1>5. CASE SwitchToStreaming \/ Reschedule \/ Schedule \/ PushToBatch
  BY <1>5, Zenon DEF SwitchToStreaming, Reschedule, Schedule, PushToBatch, tikv
<1>6. CASE CommitFails \/ Publish \/ PublishFails
  BY <1>6, Zenon DEF CommitFails, Publish, PublishFails, tikv
<1>7. CASE UNCHANGED vars
  BY <1>7, Zenon DEF vars
<1> QED BY <1>1, <1>2, <1>3, <1>4, <1>5, <1>6, <1>7, SMTT(30) DEF Next

\* The storage worker implements ChainView: whatever is batched, retried, lost
\* in a crash or rolled back, a reader sees the keys of one chain, moved by at
\* most a batch and a block forward, or by less than MAX_BUFFER_LEN back.
THEOREM ImplementsChainView == Exact => (Spec => ReadersSeeAChain)
<1> SUFFICES ASSUME Exact PROVE Spec => ReadersSeeAChain
  BY Zenon
<1>1. Init => View!Init
  BY StateAssumption, Zenon DEF Init, View!Init
<1>2. TypeInv /\ ChainInv /\ [Next]_vars => [View!Next]_store
  BY StepIsMove, Zenon
<1>3. Spec => []TypeInv
  BY TypeInvariance, Zenon
<1>4. Spec => []ChainInv
  BY ChainInvariance, Zenon
<1> QED BY <1>1, <1>2, <1>3, <1>4, PTL DEF Spec, ReadersSeeAChain, View!Spec

-----------------------------------------------------------------------------
(* What redis says is what was committed.                                  *)

\* The score of a registered worker is the slot of the cursor, until a commit
\* that has a timestamp is published.
RedisInv ==
  /\ EntryIsCommitted
  /\ registered /\ ~(pc = "publish" /\ result.ts) => score = Slot[CursorPoint]

\* what a commit without a timestamp leaves as it was
LEMMA NothingCommitted ==
  ASSUME Exact, TypeInv, ChainInv, StreamInv, Commit, registered, ~result'.ts
  PROVE  CursorPoint' = CursorPoint
<1>1. HasTxn /\ pc = "execute" /\ store' = Txn.store /\ rows' = Txn.rows /\ result'.ts = Txn.ts
  BY Zenon DEF Commit, HasTxn, BeginsTxn
<1>2. /\ unit \in Msgs /\ unit # NoMsg
      /\ unit.type \in {"RollForward", "RollBack"} /\ unit.mutable \in BOOLEAN
  BY <1>1, Zenon DEF TypeInv, TypeOK, Msgs
<1>3. CursorPoint' = Target
  BY <1>1, CommittedChain, Zenon
<1>4. unit.mutable
  BY <1>2, Zenon DEF StreamInv, IsBlock, Msgs
<1>5. unit.type = "RollBack"
  <2> SUFFICES ASSUME unit.type = "RollForward" PROVE FALSE
    BY <1>2, Zenon
  <2>1. Txn.ts = TRUE
    BY <1>4, SMTT(30) DEF Txn, MutableTxn
  <2> QED BY <1>1, <2>1, Zenon
<1> DEFINE p == unit.point
<1>6. InBuffer(p) /\ p \in Points
  BY <1>1, <1>2, <1>5, ZenonT(30) DEF HasTxn, Msgs, Points
<1>7. Position(p) \in 1..Len(buffer) /\ buffer[Position(p)].point = p /\ Len(buffer) \in Nat
  BY <1>6, PositionProperties, SMTT(30) DEF TypeInv, TypeOK, BufferEntry
<1>8. ~(Position(p) > 1)
  <2>1. Txn = RollBackTxn
    BY <1>5, SMTT(30) DEF Txn
  <2>2. Txn.ts = (Position(p) > 1 \/ Trimmed(Slot[p]) # rows)
    BY <2>1, SMTT(60) DEF RollBackTxn
  <2> QED BY <1>1, <2>2, Zenon
<1>9. Position(p) = 1 /\ buffer # <<>>
  BY <1>7, <1>8, SMTT(30)
<1>10. p = CursorPoint
  BY <1>1, <1>7, <1>9, Zenon DEF ChainInv, BufferInv
<1>11. Target = p
  BY <1>1, <1>5, RollBackCommits, Zenon
<1> QED BY <1>3, <1>10, <1>11, Zenon

LEMMA RedisPublish ==
  ASSUME ~AdvertiseImmediately, TypeInv, CommitLands, StreamInv, RedisInv, Publish
  PROVE  RedisInv'
<1>1. /\ pc = "publish" /\ CursorPoint' = CursorPoint
      /\ entry' = NewEntry /\ score' = NewScore /\ registered' = (registered \/ Advertises)
  BY Zenon DEF Publish, tikv, CursorPoint
<1>2. /\ unit # NoMsg /\ unit.type \in {"RollForward", "RollBack"} /\ unit.mutable \in BOOLEAN
      /\ registered \in BOOLEAN
  BY <1>1, Zenon DEF TypeInv, TypeOK, Msgs
<1>3. ~Batched => CursorPoint = unit.point
  BY <1>1, Zenon DEF CommitLands
<1>4. EntryIsCommitted'
  <2>1. CASE result.ts
    BY <1>1, <1>3, <2>1, Zenon DEF NewEntry, EntryIsCommitted
  <2>2. CASE ~result.ts
    BY <1>1, <2>2, Zenon DEF NewEntry, EntryIsCommitted, RedisInv
  <2> QED BY <2>1, <2>2, Zenon
<1>5. registered \/ Advertises => NewScore = Slot[CursorPoint]
  <2>1. CASE Advertises
    <3>1. ~Batched
      BY <1>2, <2>1, Zenon DEF Advertises, Batched
    <3> QED BY <1>3, <2>1, <3>1, Zenon DEF NewScore
  <2>2. CASE registered /\ result.ts
    <3>1. ~Batched
      BY <1>2, <2>2, Zenon DEF StreamInv, IsBlock, Batched
    <3> QED BY <1>3, <2>2, <3>1, Zenon DEF NewScore
  <2>3. CASE registered /\ ~result.ts /\ ~Advertises
    BY <2>3, Zenon DEF NewScore, RedisInv
  <2> QED BY <2>1, <2>2, <2>3, Zenon
<1>6. registered' => score' = Slot[CursorPoint']
  BY <1>1, <1>2, <1>5, Zenon
<1> QED BY <1>4, <1>6, Zenon DEF RedisInv

LEMMA RedisNext ==
  ASSUME Exact, ~AdvertiseImmediately, TypeInv, ChainInv, CommitLands, StreamInv, RedisInv,
         [Next]_vars
  PROVE  RedisInv'
<1>1. CASE Crash \/ CommitUndetermined \/ RollBackRefused
  BY <1>1, Zenon
  DEF Crash, CommitUndetermined, RollBackRefused, Die, redis, RedisInv, EntryIsCommitted
<1>2. ASSUME NEW t \in Points, Restart(t) PROVE RedisInv'
  BY <1>2, Zenon DEF Restart, redis, StreamInv, RedisInv, EntryIsCommitted
<1>3. CASE SwitchToStreaming \/ Reschedule \/ Schedule \/ PushToBatch \/ CommitFails
  <2>1. /\ UNCHANGED <<entry, score, registered, store>>
        /\ pc' = "publish" => pc = "publish" /\ result' = result
    BY <1>3, Zenon
    DEF SwitchToStreaming, Reschedule, Schedule, PushToBatch, CommitFails, redis, memory, tikv
  <2>2. CursorPoint' = CursorPoint
    BY <2>1, Zenon DEF CursorPoint
  <2>3. registered => pc # "publish" \/ ~(pc = "publish" /\ result.ts) \/ pc' = "publish"
    BY <1>3, Zenon
    DEF SwitchToStreaming, Reschedule, Schedule, PushToBatch, CommitFails, Executing, BeginsTxn
  <2> QED BY <2>1, <2>2, <2>3, Zenon DEF RedisInv, EntryIsCommitted
<1>4. CASE Commit
  <2>1. UNCHANGED <<entry, score, registered>> /\ pc = "execute" /\ pc' = "publish"
    BY <1>4, Zenon DEF Commit, HasTxn, BeginsTxn, redis, memory
  <2>2. registered /\ ~result'.ts => CursorPoint' = CursorPoint
    BY <1>4, NothingCommitted, Zenon
  <2> QED BY <2>1, <2>2, Zenon DEF RedisInv, EntryIsCommitted
<1>5. CASE Publish
  BY <1>5, RedisPublish, Zenon
<1>6. CASE PublishFails
  BY <1>6, Zenon DEF PublishFails, Exact
<1>7. CASE UNCHANGED vars
  BY <1>7, Zenon DEF vars, RedisInv, EntryIsCommitted, CursorPoint
<1> QED BY <1>1, <1>2, <1>3, <1>4, <1>5, <1>6, <1>7, SMTT(30) DEF Next

\* Once advertised, the worker keeps its score at the slot of the committed
\* cursor, and the entry of a mutable block or a rollback names the state its
\* timestamp shows (insert_timestamp_entry, update_scores, maybe_advertise).
THEOREM RedisFollowsCommits ==
  Exact /\ ~AdvertiseImmediately => (Spec => []RedisIsCommitted)
<1> SUFFICES ASSUME Exact, ~AdvertiseImmediately PROVE Spec => []RedisIsCommitted
  BY Zenon
<1>1. Init => RedisInv
  BY SMTT(30) DEF Init, NoEntry, RedisInv, EntryIsCommitted
<1>2. TypeInv /\ ChainInv /\ CommitLands /\ StreamInv /\ RedisInv /\ [Next]_vars => RedisInv'
  BY RedisNext, Zenon
<1>3. RedisInv => RedisIsCommitted
  BY Zenon DEF RedisInv, RedisIsCommitted, ScoreIsCursor
<1>4. Spec => []StreamInv
  BY StreamInvariance, Zenon
<1>5. Spec => []ChainInv /\ []CommitLands
  BY ChainInvariance, CommitsLand, Zenon
<1> QED BY <1>1, <1>2, <1>3, <1>4, <1>5, TypeInvariance, PTL DEF Spec

-----------------------------------------------------------------------------
(* The persisted metadata covers the buffer.                               *)

\* the metadata rs has every point of a buffer, but for those outrun
Reached(buf, rs) == \A i \in 1..Len(buf) : buf[i].point \in PointsIn(rs) \cup {Origin} \cup Outrun

\* the buffer, or what publishing the committed unit makes of it
NextBuffer ==
  IF pc # "publish" \/ Batched THEN buffer
  ELSE IF unit.type = "RollBack" THEN RollbackToPoint(unit.point)
  ELSE AddBlock(Started, Entry(unit.point, result.inverse))

RunwayInv == Reached(NextBuffer, rows)

\* the rows after a mutable block: those before, its own, and the one that
\* starts the metadata, except for those too old
LEMMA MutableRows ==
  ASSUME Exact, TypeInv, ChainInv, HasTxn, unit.type = "RollForward", unit.mutable,
         NEW q \in PointsIn(rows) \cup {unit.point}
                   \cup {p \in {lastProcessed} : buffer = <<>> /\ p # Absent},
         Slot[unit.point] <= Slot[q] + GcSlots
  PROVE  q \in PointsIn(Txn.rows)
<1> DEFINE b == unit.point
           flushed == ExecuteAll(batch.acts, store)
           inverse == InverseOf(Actions[b], flushed)
           init == IF buffer = <<>> /\ lastProcessed # Absent /\ rows[lastProcessed] = NoRows
                   THEN [rows EXCEPT ![lastProcessed] = InitRow] ELSE rows
           added == IF inverse = NoActions THEN init ELSE [init EXCEPT ![b] = RowsOf(inverse)]
<1>1. unit \in Msgs /\ pc = "execute" /\ b \in Blocks /\ b \in Points
  BY Zenon DEF TypeInv, TypeOK, HasTxn, BeginsTxn, Msgs, Points
<1>2. rows \in [Points -> RowMaps \cup {NoRows}] /\ lastProcessed \in Blocks \cup {Absent}
  BY Zenon DEF TypeInv, TypeOK
<1>3. q \in Points /\ Slot[q] \in Nat /\ Slot[b] \in Nat /\ GcSlots \in Nat
  BY <1>1, <1>2, TreeAssumption, BoundsAssumption, SMTT(30) DEF PointsIn, Points
<1>4. Txn.rows = GarbageCollected(added, Slot[b]) /\ Txn.inverse = inverse
  BY SMTT(30) DEF Txn, MutableTxn
<1>5. inverse # NoActions /\ inverse \in InverseMaps
  <2>1. inverse = ChainInverse(b)
    BY <1>4, MutableCommits, Zenon
  <2>2. ChainInverse(b) \in InverseMaps
    BY <1>1, TreeAssumption, StateAssumption, InverseOfType, ZenonT(30) DEF ChainInverse
  <2> QED BY <2>1, <2>2, <1>1, InverseNotEmpty, Zenon
<1>6. added = [init EXCEPT ![b] = RowsOf(inverse)]
  BY <1>5, Zenon
<1> HIDE DEF inverse, flushed
<1>7. RowsOf(inverse) # NoRows /\ InitRow # NoRows
  <2>1. RowsOf(inverse) \in RowMaps /\ InitRow \in RowMaps
    BY <1>5, RowsOfType, NoActionsType, Zenon DEF InitRow
  <2> QED BY <2>1, MarkersAssumption, Zenon
<1>8. init \in [Points -> RowMaps \cup {NoRows, InitRow}] /\ (q # b => init[q] # NoRows)
  BY <1>2, <1>3, <1>7, Zenon DEF PointsIn, Points
<1> HIDE DEF init
<1>9. added[q] # NoRows
  BY <1>3, <1>6, <1>7, <1>8, Zenon
<1> HIDE DEF added
<1>10. ~(Slot[q] < Slot[b] - GcSlots)
  BY <1>3, SMTT(60)
<1>11. GarbageCollected(added, Slot[b])[q] = added[q]
  BY <1>3, <1>10, Zenon DEF GarbageCollected
<1> QED BY <1>3, <1>4, <1>9, <1>11, Zenon DEF PointsIn

\* no point of the new buffer that is not outrun is too old for the garbage
\* collection
LEMMA NewBufferIsClose ==
  ASSUME NEW buf \in Seq(BufferEntry), ChainBuffer(buf), Len(buf) <= MaxBufferLen,
         buf[1].point \in Blocks, NEW n \in 1..Len(buf), buf[n].point \in Points \ Outrun
  PROVE  Slot[buf[1].point] <= Slot[buf[n].point] + GcSlots
<1> DEFINE b == buf[1].point
           p == buf[n].point
<1>1. p \in Ancestors[b]
  BY BufferOnChain, Zenon
<1>2. \A x \in Ancestors[b] \ Ancestors[p] : \E i \in 1..(n - 1) : x = buf[i].point
  BY BufferCovers, Zenon
<1>3. n \in Nat /\ n >= 1 /\ n <= MaxBufferLen /\ MaxBufferLen \in Nat
  BY BoundsAssumption, SMTT(30)
<1> HIDE DEF b, p
<1>4. /\ Cardinality(Ancestors[b] \ Ancestors[p]) \in Nat
      /\ Cardinality(Ancestors[b] \ Ancestors[p]) <= n - 1
  BY <1>2, <1>3, FewPoints, Zenon
<1>5. Cardinality(Ancestors[b] \ Ancestors[p]) < MaxBufferLen
  BY <1>3, <1>4, SMTT(30)
<1>6. b \in Blocks /\ p \in Points /\ p \notin Outrun
  BY Zenon DEF b, p
<1>7. ~(Slot[b] > Slot[p] + GcSlots)
  BY <1>1, <1>5, <1>6, Zenon DEF Outrun
<1>8. Slot[b] \in Nat /\ Slot[p] \in Nat /\ GcSlots \in Nat
  BY <1>6, TreeAssumption, BoundsAssumption, Zenon DEF Points
<1>9. Slot[b] <= Slot[p] + GcSlots
  BY <1>7, <1>8, SMTT(30)
<1> QED BY <1>9, Zenon DEF b, p

LEMMA RunwayMutable ==
  ASSUME Exact, TypeInv, ChainInv, Reached(buffer, rows),
         HasTxn, unit.type = "RollForward", unit.mutable
  PROVE  Reached(AddBlock(Started, Entry(unit.point, ChainInverse(unit.point))), Txn.rows)
<1> DEFINE b == unit.point
           e == Entry(b, ChainInverse(b))
           new == AddBlock(Started, e)
<1>1. /\ b \in Blocks /\ Parent[b] \in Points
      /\ buffer # <<>> => buffer[1].point = Parent[b]
      /\ buffer = <<>> => LastIs(Parent[b])
  BY MutableCommits, TreeAssumption, Zenon
<1>2. ChainBuffer(buffer) /\ buffer \in Seq(BufferEntry)
  BY Zenon DEF ChainInv, BufferInv, TypeInv, TypeOK, BufferEntry
<1>3. /\ Started \in Seq(BufferEntry) /\ ChainBuffer(Started) /\ Started[1].point = Parent[b]
      /\ buffer = <<>> => Len(Started) <= 1
  BY <1>1, <1>2, StartedIsChain, Zenon
<1>4. ChainBuffer(new) /\ new[1].point = b
  BY <1>1, <1>3, AddedToChain, Zenon
<1>5. e \in BufferEntry
  BY <1>1, TreeAssumption, StateAssumption, InverseOfType, ZenonT(30)
  DEF ChainInverse, Entry, BufferEntry, Points
<1> HIDE DEF e
<1>6. /\ new \in Seq(BufferEntry) /\ Len(new) \in 1..MaxBufferLen /\ Len(new) <= Len(Started) + 1
      /\ \A i \in 2..Len(new) : new[i] = Started[i - 1]
  <2>1. IsAdded(new, BufferEntry, Started, e)
    BY <1>3, <1>5, AddBlockAdds, Zenon
  <2> HIDE DEF new
  <2> QED BY <2>1, Zenon DEF IsAdded
<1> HIDE DEF new
<1>7. Len(new) <= MaxBufferLen
  BY <1>6, BoundsAssumption, SMTT(30)
<1> SUFFICES ASSUME NEW n \in 1..Len(new), new[n].point # Origin, new[n].point \notin Outrun
             PROVE  new[n].point \in PointsIn(Txn.rows)
  BY Zenon DEF Reached, new, e
<1>8. Slot[b] <= Slot[new[n].point] + GcSlots
  <2>1. new[n].point \in Points
    <3>1. new \in Seq(BufferEntry)
      BY <1>6, Zenon
    <3>2. new[n] \in BufferEntry
      BY <3>1, SMTT(30)
    <3> QED BY <3>2, SMTT(30) DEF BufferEntry
  <2> QED BY <1>1, <1>4, <1>6, <1>7, <2>1, NewBufferIsClose, Zenon
<1>9. CASE n = 1
  BY <1>4, <1>8, <1>9, MutableRows, Zenon
<1>10. CASE n # 1
  <2>1. n \in 2..Len(new) /\ n - 1 \in 1..Len(Started)
    BY <1>3, <1>6, <1>10, SMTT(30)
  <2>2. new[n] = Started[n - 1]
    BY <1>6, <2>1, Zenon
  <2>3. CASE buffer # <<>>
    <3>1. Started = buffer
      BY <2>3, Zenon DEF Started
    <3>2. new[n].point \in PointsIn(rows)
      BY <2>1, <2>2, <3>1, Zenon DEF Reached
    <3> QED BY <1>8, <3>2, MutableRows, Zenon
  <2>4. CASE buffer = <<>>
    <3>1. n - 1 = 1 /\ new[n].point = Parent[b]
      <4>1. n - 1 = 1
        BY <1>3, <2>1, <2>4, SMTT(30)
      <4> QED BY <1>3, <2>2, <4>1, Zenon
    <3>2. lastProcessed = new[n].point /\ lastProcessed # Absent
      BY <1>1, <2>4, <3>1, ActionsAssumption, ValuesAssumption, SMTT(30) DEF LastIs, Points
    <3> QED BY <1>8, <2>4, <3>2, MutableRows, Zenon
  <2> QED BY <2>3, <2>4, Zenon
<1> QED BY <1>9, <1>10, Zenon

LEMMA RunwayRollBack ==
  ASSUME Exact, TypeInv, ChainInv, Reached(buffer, rows), HasTxn, unit.type = "RollBack"
  PROVE  Reached(RollbackToPoint(unit.point), Txn.rows)
<1> DEFINE p == unit.point
           left == RollbackToPoint(p)
<1>1. unit \in Msgs /\ p \in Points /\ InBuffer(p)
  BY Zenon DEF TypeInv, TypeOK, HasTxn, BeginsTxn, Msgs, Points
<1>2. left \in Seq(BufferEntry) /\ ChainBuffer(left) /\ left[1].point = p
  BY <1>1, RollbackIsChain, SMTT(30) DEF ChainInv, BufferInv
<1>3. Txn.rows = Trimmed(Slot[p])
  <2>1. Txn = RollBackTxn
    BY SMTT(30) DEF Txn
  <2> QED BY <2>1, SMTT(30) DEF RollBackTxn
<1>4. /\ Position(p) \in 1..Len(buffer) /\ Len(buffer) \in Nat
      /\ Len(left) = Len(buffer) - Position(p) + 1
      /\ \A i \in 1..(Len(buffer) - Position(p) + 1) : left[i] = buffer[Position(p) + i - 1]
  <2>1. buffer \in Seq(BufferEntry)
    BY Zenon DEF TypeInv, TypeOK, BufferEntry
  <2>2. Len(buffer) \in Nat
    BY <2>1, SMTT(30)
  <2>3. Position(p) \in 1..Len(buffer)
    BY <1>1, PositionProperties, Zenon
  <2>4. /\ Len(left) = Len(buffer) - Position(p) + 1
        /\ \A i \in 1..(Len(buffer) - Position(p) + 1) : left[i] = buffer[Position(p) + i - 1]
    BY <1>1, RollbackToPointProperties, Zenon
  <2> QED BY <2>2, <2>3, <2>4, Zenon
<1> DEFINE k == Position(p)
<1> HIDE DEF k, left
<1> SUFFICES ASSUME NEW n \in 1..Len(left), left[n].point # Origin, left[n].point \notin Outrun
             PROVE  left[n].point \in PointsIn(Trimmed(Slot[p]))
  BY <1>3, ZenonT(30), Zenon DEF Reached, left
<1>5. k + n - 1 \in 1..Len(buffer) /\ left[n] = buffer[k + n - 1]
  BY <1>4, SMTT(30) DEF k
<1>6. left[n].point \in PointsIn(rows)
  BY <1>5, Zenon DEF Reached
<1>7. left[n].point \in Ancestors[p]
  BY <1>2, BufferOnChain, Zenon
<1>8. ~(Slot[left[n].point] > Slot[p])
  <2>1. Slot[left[n].point] <= Slot[p]
    BY <1>1, <1>7, ChainsAreOrdered, Zenon DEF Ordered
  <2>2. Slot[left[n].point] \in Nat /\ Slot[p] \in Nat
    BY <1>1, <1>6, TreeAssumption, Zenon DEF PointsIn
  <2> QED BY <2>1, <2>2, SMTT(30)
<1> QED BY <1>6, <1>8, Zenon DEF PointsIn, Trimmed

LEMMA RunwayCommit ==
  ASSUME Exact, TypeInv, ChainInv, RunwayInv, Commit
  PROVE  RunwayInv'
<1>1. /\ HasTxn /\ pc = "execute" /\ pc' = "publish" /\ rows' = Txn.rows
      /\ UNCHANGED <<unit, buffer, lastProcessed>> /\ result'.inverse = Txn.inverse
  BY Zenon DEF Commit, HasTxn, BeginsTxn, memory
<1>2. unit \in Msgs /\ unit # NoMsg /\ unit.mutable \in BOOLEAN /\ unit.type \in {"RollForward", "RollBack"}
  BY <1>1, Zenon DEF TypeInv, TypeOK, Msgs
<1>3. Reached(buffer, rows)
  BY <1>1, Zenon DEF RunwayInv, NextBuffer
<1>4. CASE unit.type = "RollBack"
  <2>1. NextBuffer' = RollbackToPoint(unit.point)
    BY <1>1, <1>4, Zenon DEF NextBuffer, Batched, RollbackToPoint, Position
  <2>2. Reached(RollbackToPoint(unit.point), Txn.rows)
    BY <1>1, <1>3, <1>4, RunwayRollBack, Zenon
  <2> QED BY <1>1, <2>1, <2>2, Zenon DEF RunwayInv
<1>5. CASE unit.type = "RollForward" /\ unit.mutable
  <2>1. Txn.inverse = ChainInverse(unit.point)
    BY <1>1, <1>5, MutableCommits, Zenon
  <2>2. NextBuffer' = AddBlock(Started, Entry(unit.point, ChainInverse(unit.point)))
    BY <1>1, <1>5, <2>1, Zenon DEF NextBuffer, Batched, Started
  <2>3. Reached(AddBlock(Started, Entry(unit.point, ChainInverse(unit.point))), Txn.rows)
    BY <1>1, <1>3, <1>5, RunwayMutable, Zenon
  <2> QED BY <1>1, <2>2, <2>3, Zenon DEF RunwayInv
<1>6. CASE unit.type = "RollForward" /\ ~unit.mutable
  <2>1. NextBuffer' = buffer /\ Txn.rows = rows
    BY <1>1, <1>6, FlushCommits, Zenon DEF NextBuffer, Batched
  <2> QED BY <1>1, <1>3, <2>1, Zenon DEF RunwayInv
<1> QED BY <1>2, <1>4, <1>5, <1>6, Zenon

LEMMA RunwayRestart ==
  ASSUME TypeInv, NEW t \in Points, Restart(t)
  PROVE  RunwayInv'
<1> DEFINE s == PersistedPoints
           n == Min({Len(s), MaxBufferLen})
           restore(p) == [k \in Keys |-> IF rows[p][k] = NoAction THEN NoAction
                                         ELSE RestoreInverse(rows[p][k])]
<1>1. pc' = "idle" /\ rows' = rows /\ buffer' = RestoredBuffer
  BY Zenon DEF Restart, tikv
<1>2. s \in Seq(Persisted) /\ Len(s) \in Nat
  BY PersistedPointsType, SMTT(30)
<1>3. n \in Nat /\ n <= Len(s)
  <2>1. {Len(s), MaxBufferLen} \in SUBSET Nat
    BY <1>2, BoundsAssumption, Zenon
  <2> HIDE DEF s
  <2> QED BY <2>1, MinProperties, Zenon
<1>4. RestoredBuffer = [i \in 1..n |-> Entry(s[i], restore(s[i]))]
  BY Zenon DEF RestoredBuffer
<1> HIDE DEF s, n, restore
<1>5. Len(RestoredBuffer) = n /\ \A i \in 1..n : RestoredBuffer[i].point = s[i]
  BY <1>3, <1>4, SMTT(30) DEF Entry
<1>6. \A i \in 1..n : s[i] \in Persisted
  BY <1>2, <1>3, SMTT(30)
<1>7. Reached(RestoredBuffer, rows)
  BY <1>5, <1>6, Zenon DEF Reached, Persisted, PointsIn
<1> QED BY <1>1, <1>7, Zenon DEF RunwayInv, NextBuffer

LEMMA RunwayNext ==
  ASSUME Exact, TypeInv, ChainInv, RunwayInv, [Next]_vars
  PROVE  RunwayInv'
<1>1. CASE Crash \/ CommitUndetermined \/ RollBackRefused
  <2>1. buffer' = <<>> /\ pc' = "down"
    BY <1>1, Zenon DEF Crash, CommitUndetermined, RollBackRefused, Die
  <2> QED BY <2>1, SMTT(60) DEF RunwayInv, NextBuffer, Reached
<1>2. ASSUME NEW t \in Points, Restart(t) PROVE RunwayInv'
  BY <1>2, RunwayRestart, Zenon
<1>3. CASE SwitchToStreaming
  <2>1. UNCHANGED <<pc, unit, buffer, lastProcessed, result, rows>>
    BY <1>3, Zenon DEF SwitchToStreaming, memory, tikv
  <2>2. NextBuffer' = NextBuffer
    BY <2>1, Zenon DEF NextBuffer, Batched, Started, RollbackToPoint, Position
  <2> QED BY <2>1, <2>2, Zenon DEF RunwayInv
<1>4. CASE Reschedule \/ Schedule \/ PushToBatch \/ CommitFails
  <2>1. pc # "publish" /\ pc' # "publish" /\ UNCHANGED <<buffer, rows>>
    BY <1>4, Zenon
    DEF Reschedule, Schedule, PushToBatch, Executing, CommitFails, BeginsTxn, memory, tikv
  <2> QED BY <2>1, Zenon DEF RunwayInv, NextBuffer
<1>5. CASE Commit
  BY <1>5, RunwayCommit, Zenon
<1>6. CASE Publish
  <2>1. pc = "publish" /\ pc' = "idle" /\ rows' = rows
    BY <1>6, Zenon DEF Publish, tikv
  <2>2. unit.type \in {"RollForward", "RollBack"} /\ unit.mutable \in BOOLEAN
    BY <2>1, Zenon DEF TypeInv, TypeOK, Msgs
  <2>3. buffer' = NextBuffer
    BY <1>6, <2>1, <2>2, Zenon
    DEF Publish, FinishRollBack, FinishMutable, FinishFlush, NextBuffer, Batched, Started
  <2> QED BY <2>1, <2>3, Zenon DEF RunwayInv, NextBuffer
<1>7. CASE PublishFails
  BY <1>7, Zenon DEF PublishFails, Exact
<1>8. CASE UNCHANGED vars
  <2>1. UNCHANGED <<pc, unit, buffer, lastProcessed, result, rows>>
    BY <1>8, Zenon DEF vars
  <2>2. NextBuffer' = NextBuffer
    BY <2>1, Zenon DEF NextBuffer, Batched, Started, RollbackToPoint, Position
  <2> QED BY <2>1, <2>2, Zenon DEF RunwayInv
<1> QED BY <1>1, <1>2, <1>3, <1>4, <1>5, <1>6, <1>7, <1>8, SMTT(30) DEF Next

\* Every point of the memory buffer is persisted, unless fewer than
\* MAX_BUFFER_LEN blocks have left it further behind than the slots that
\* garbage_collect_rollback_metadata keeps: on whatever chain, that is all a
\* restart can take from the runway of a rollback.
THEOREM RunwayPersisted == Exact => (Spec => []RunwayIsPersisted)
<1> SUFFICES ASSUME Exact PROVE Spec => []RunwayIsPersisted
  BY Zenon
<1>1. Init => RunwayInv
  <2> SUFFICES ASSUME Init PROVE RunwayInv
    BY Zenon
  <2>1. buffer = <<>> /\ pc = "down"
    BY Zenon DEF Init
  <2> QED BY <2>1, SMTT(30) DEF RunwayInv, NextBuffer, Reached
<1>2. TypeInv /\ ChainInv /\ RunwayInv /\ [Next]_vars => RunwayInv'
  BY RunwayNext, Zenon
<1>3. TypeInv /\ RunwayInv => RunwayIsPersisted
  BY SMTT(60) DEF TypeInv, TypeOK, RunwayInv, NextBuffer, Reached, PointsIn, Persisted, RunwayIsPersisted
<1>4. Spec => []ChainInv
  BY ChainInvariance, Zenon
<1> QED BY <1>1, <1>2, <1>3, <1>4, TypeInvariance, PTL DEF Spec
=============================================================================
