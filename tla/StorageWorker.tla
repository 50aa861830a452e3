---------------------------- MODULE StorageWorker ----------------------------
(***************************************************************************)
(* The storage stage of polyphony (storage/tikv.rs) with what surrounds it:*)
(* the TiKV keys of one instance, the rollback buffer in memory and its    *)
(* persisted copy, the cursor entry and registry score in Redis, and the   *)
(* source stage reduced to the messages it can send.                       *)
(*                                                                         *)
(* A block is known by its point.  What its reducers emit is Actions[b],   *)
(* one merged action per key (see SyncBatcher); every block also sets the  *)
(* cursor key to itself.  StateAt[b] is what the store must hold after the *)
(* chain that ends in b: it is the specification the worker is held to.    *)
(***************************************************************************)
EXTENDS StorageActions, Integers, Sequences, FiniteSetsExt

CONSTANTS
  Blocks,         \* the points of all blocks of all forks
  Origin,         \* the point before the first block
  Parent,         \* the point a block extends
  Ancestors,      \* the points of the chain that ends in a point, itself included
  Slot,           \* the slot of a point
  Size,           \* the bytes of a block's actions, as SyncBatcher estimates them
  Keys,           \* the keys of the instance
  CursorKey,      \* the key that holds the cursor
  Counters,       \* the keys that hold a counter
  Actions,        \* the merged actions of a block
  StateAt,        \* the store a chain must lead to
  NoAction,       \* a key without an action
  NoRows,         \* a point without rollback metadata
  NoMsg           \* no work unit

CONSTANTS
  BatchLen,       \* sync_batch_size
  MaxBytes,       \* tikv_raft_entry_max_size
  MaxBufferLen,   \* MAX_BUFFER_LEN
  GcSlots,        \* slots of rollback metadata kept, MAX_BUFFER_LEN * 20
  AdvertiseImmediately, \* advertise_immediately
  SwitchAfter,    \* blocks paged before a switch to streaming: 0, 1, or 2 for more
  WalMayMiss,     \* the compressor's log may lack the point a restart resumes at
  RedisMayFail    \* a Redis call may fail

Points == Blocks \cup {Origin}

\* what a key can hold, and what reducers emit for it
Values(k) == IF k = CursorKey THEN Blocks ELSE IF k \in Counters THEN Nat ELSE Bytes

Emitted(k) ==
  IF k \in Counters THEN [op : CounterOps, arg : Nat]
  ELSE [op : {"Set", "Insert"}, arg : Values(k)] \cup {Delete}

Stores ==
  {s \in [Keys -> Stored] : \A k \in Keys : s[k] \in Values(k) \cup {Absent}}

\* at most one action per key: of a block, or of the inverse of one
ActionMaps ==
  {a \in [Keys -> StorageAction \cup {NoAction}] :
     \A k \in Keys : a[k] \in Emitted(k) \cup {NoAction}}

InverseMaps ==
  {a \in [Keys -> StorageAction \cup {NoAction}] :
     \A k \in Keys : a[k] \in [op : {"Set"}, arg : Values(k)] \cup {Delete, NoAction}}

\* what is persisted of an inverse per key, NoAction for a key without one
RowMaps ==
  {r \in [Keys -> Value \cup {NoAction}] :
     \A k \in Keys : r[k] \in Values(k) \cup {EmptyBytes, NoAction}}

EmptyStore == [k \in Keys |-> Absent]

NoActions == [k \in Keys |-> NoAction]

-----------------------------------------------------------------------------
(* Actions on all keys (apply_actions).                                    *)

ExecuteAll(acts, s) ==
  [k \in Keys |-> IF acts[k] = NoAction THEN s[k] ELSE Execute(acts[k], s[k])]

ExecuteAllWithInverse(acts, s) ==
  [k \in Keys |-> IF acts[k] = NoAction THEN s[k] ELSE ExecuteWithInverse(acts[k], s[k])]

InverseOf(acts, s) ==
  [k \in Keys |-> IF acts[k] # NoAction /\ HasInverse(acts[k], s[k])
                  THEN InverseOp(s[k]) ELSE NoAction]

MergeAll(acts, more) ==
  [k \in Keys |-> CASE more[k] = NoAction -> acts[k]
                    [] more[k] # NoAction /\ acts[k] = NoAction -> more[k]
                    [] OTHER -> Merge(acts[k], more[k])]

\* The inverses of a list of blocks, newest first, executed in that order:
\* each is an absolute write, so for every key the oldest one decides.
Undone(undo, s) ==
  [k \in Keys |->
     LET js == {j \in DOMAIN undo : undo[j].inverse[k] # NoAction}
     IN  IF js = {} THEN s[k]
         ELSE Execute(undo[Max(js)].inverse[k], s[k])]

-----------------------------------------------------------------------------
(* What the constants are.                                                 *)

\* the blocks form a tree rooted at Origin, and slots grow along a chain
ASSUME TreeAssumption ==
  /\ Origin \notin Blocks
  /\ Parent \in [Blocks -> Points]
  /\ Slot \in [Points -> Nat]
  /\ Slot[Origin] = 0
  /\ \A b \in Blocks : Slot[Parent[b]] < Slot[b]
  /\ Ancestors \in [Points -> SUBSET Points]
  /\ Ancestors[Origin] = {Origin}
  /\ \A b \in Blocks : Ancestors[b] = Ancestors[Parent[b]] \cup {b}
  /\ Size \in [Blocks -> Nat]

\* every block sets the cursor to itself
ASSUME ActionsAssumption ==
  /\ CursorKey \in Keys \ Counters
  /\ Blocks \subseteq Bytes
  /\ NoAction \notin StorageAction \cup Value
  /\ Actions \in [Blocks -> ActionMaps]
  /\ \A b \in Blocks : Actions[b][CursorKey] = Set(b)

\* the store a chain leads to: its blocks' actions, executed in order
ASSUME StateAssumption ==
  /\ StateAt \in [Points -> Stores]
  /\ StateAt[Origin] = EmptyStore
  /\ \A b \in Blocks : StateAt[b] = ExecuteAll(Actions[b], StateAt[Parent[b]])

ASSUME BoundsAssumption ==
  /\ BatchLen \in Nat /\ MaxBytes \in Nat /\ GcSlots \in Nat
  /\ SwitchAfter \subseteq 0..2
  /\ MaxBufferLen \in Nat \ {0}
  /\ AdvertiseImmediately \in BOOLEAN /\ WalMayMiss \in BOOLEAN /\ RedisMayFail \in BOOLEAN

-----------------------------------------------------------------------------
VARIABLES
  store,          \* TiKV: the value of every key
  rows,           \* TiKV: the rollback metadata of every point
  entry,          \* Redis: the last cursor entry published
  score,          \* Redis: this instance's score in the registry
  pc,             \* where the worker is
  unit,           \* the work unit it executes
  twoPC,          \* work_unit_2pc: the unit to execute again after a restart
  result,         \* what the last commit returned: a timestamp, the inverses
  batch,          \* the sync batcher
  buffer,         \* the rollback buffer, newest block first
  lastProcessed,  \* last_processed
  registered,     \* registered
  src             \* the source stage

tikv == <<store, rows>>
redis == <<entry, score>>
memory == <<batch, buffer, lastProcessed, registered>>
vars == <<store, rows, entry, score, pc, unit, twoPC, result,
          batch, buffer, lastProcessed, registered, src>>

RollForward(b, mutable) == [type |-> "RollForward", point |-> b, mutable |-> mutable]
RollBack(p) == [type |-> "RollBack", point |-> p, mutable |-> TRUE]

Msgs == [type : {"RollForward"}, point : Blocks, mutable : BOOLEAN]
        \cup [type : {"RollBack"}, point : Blocks, mutable : {TRUE}]

ASSUME MarkersAssumption == NoMsg \notin Msgs /\ NoRows \notin RowMaps

\* SyncBatcher: the merged actions, the blocks they are from and their bytes
Batches == [acts : ActionMaps, len : Nat, last : Blocks \cup {Absent}, bytes : Nat]

EmptyBatch == [acts |-> NoActions, len |-> 0, last |-> Absent, bytes |-> 0]

Results == [ts : BOOLEAN, inverse : InverseMaps]

NoResult == [ts |-> FALSE, inverse |-> NoActions]

\* RedisEntry: the point, and what its timestamp stands for (see NewEntry)
Entries == [point : Points \cup {Absent}, snapshot : Points \cup {Absent}, batched : BOOLEAN]

NoEntry == [point |-> Absent, snapshot |-> Absent, batched |-> FALSE]

\* The source stage.  One that is not running has mode "off".  resumed: it started from the
\* persisted rollback buffer.  paged: blocks paged since, counted up to 2.
Sources == [mode : {"off", "boot", "dumping", "streaming"}, tip : Points,
            resumed : BOOLEAN, paged : 0..2]

SourceOff == [mode |-> "off", tip |-> Origin, resumed |-> FALSE, paged |-> 0]

\* the cursor in the store, as the point it stands for
CursorPoint == IF store[CursorKey] = Absent THEN Origin ELSE store[CursorKey]

-----------------------------------------------------------------------------
(* The rollback buffer (rollback/buffer.rs).                               *)

Entry(p, inverse) == [point |-> p, inverse |-> inverse]

AddBlock(buf, e) == SubSeq(<<e>> \o buf, 1, Min({Len(buf) + 1, MaxBufferLen}))

InBuffer(p) == \E i \in DOMAIN buffer : buffer[i].point = p

Position(p) == Min({i \in DOMAIN buffer : buffer[i].point = p})

PointsSince(p) == SubSeq(buffer, 1, Position(p) - 1)

\* (mutant) the point rolled back to leaves the buffer too
RollbackPastPoint(p) == SubSeq(buffer, Position(p) + 1, Len(buffer))

RollbackToPoint(p) == SubSeq(buffer, Position(p), Len(buffer))

-----------------------------------------------------------------------------
(* Its persisted copy: rollback metadata keys, ordered by slot.            *)

\* the points with metadata in rs, and in the table
PointsIn(rs) == {p \in Points : rs[p] # NoRows}

Persisted == PointsIn(rows)

\* apply_storage_rb_actions
RowsOf(inverse) ==
  [k \in Keys |-> IF inverse[k] = NoAction THEN NoAction ELSE PersistInverse(inverse[k])]

\* (mutant) the point before the first mutable block is not persisted
InitRowMissing == NoRows

\* the row of the point before the first mutable block: a deletion of the
\* empty key, which no reducer uses, so it says nothing about Keys
InitRow == NoActions

\* garbage_collect_rollback_metadata
GarbageCollected(rs, slot) ==
  [p \in Points |-> IF slot >= GcSlots /\ Slot[p] < slot - GcSlots THEN NoRows ELSE rs[p]]

\* (mutant) the metadata of the undone blocks stays
TrimmedNothing(slot) == rows

\* trim_persistent_rollback_metadata
Trimmed(slot) == [p \in Points |-> IF Slot[p] > slot THEN NoRows ELSE rows[p]]

\* The persisted points, newest first: the keys are scanned in the order of
\* their slots, and a new slot starts a new point.
PersistedSlots == {Slot[p] : p \in Persisted}

NthSlot(i) ==
  CHOOSE s \in PersistedSlots : Cardinality({t \in PersistedSlots : t > s}) = i - 1

PersistedAt(slot) == CHOOSE p \in Persisted : Slot[p] = slot

PersistedPoints == [i \in 1..Cardinality(PersistedSlots) |-> PersistedAt(NthSlot(i))]

\* fetch_persistent_buffer, and spawn_stages filling the memory buffer
RestoredBuffer ==
  LET s == PersistedPoints
      restore(p) == [k \in Keys |-> IF rows[p][k] = NoAction THEN NoAction
                                    ELSE RestoreInverse(rows[p][k])]
  IN  [i \in 1..Min({Len(s), MaxBufferLen}) |-> Entry(s[i], restore(s[i]))]

-----------------------------------------------------------------------------
(* Stages and process.                                                     *)

Init ==
  /\ store = EmptyStore /\ rows = [p \in Points |-> NoRows]
  /\ entry = NoEntry /\ score = Absent
  /\ pc = "down" /\ unit = NoMsg /\ twoPC = NoMsg /\ result = NoResult
  /\ batch = EmptyBatch /\ buffer = <<>> /\ lastProcessed = Absent /\ registered = FALSE
  /\ src = SourceOff

\* A stage panics, or the process is killed: the daemon ends the process and
\* everything in memory is gone.
Die ==
  /\ pc' = "down" /\ unit' = NoMsg /\ twoPC' = NoMsg /\ result' = NoResult
  /\ batch' = EmptyBatch /\ buffer' = <<>> /\ lastProcessed' = Absent /\ registered' = FALSE
  /\ src' = SourceOff

Crash == pc # "down" /\ Die /\ UNCHANGED <<tikv, redis>>

\* The points the source tries to intersect at, in order: the persisted
\* buffer, unless it lies behind the cursor (try_intersect_with_rollback_buf).
BufferIsCurrent ==
  /\ Persisted # {}
  /\ Slot[PersistedPoints[1]] >= Slot[CursorPoint]

IntersectsBuffer(chain, p) ==
  LET s == PersistedPoints
  IN  \E i \in DOMAIN s : s[i] = p /\ p \in chain /\ \A j \in 1..(i - 1) : s[j] \notin chain

\* The process starts while the upstream is at some tip.  From the persisted
\* buffer the source first sends a rollback to the intersection; otherwise it
\* starts at the cursor, or at the configured origin.  No intersection is an
\* error that ends the process again.  The other two ways to configure the
\* first start, at a point or at the compressor's tip, are left out.
Restart(tip) ==
  /\ pc = "down"
  /\ IF BufferIsCurrent
     THEN \E p \in Persisted :
            /\ IntersectsBuffer(Ancestors[tip], p)
            /\ src' = [mode |-> "boot", tip |-> p, resumed |-> TRUE, paged |-> 0]
     ELSE /\ CursorPoint \in Ancestors[tip]
          /\ src' = [mode |-> "dumping", tip |-> CursorPoint, resumed |-> FALSE, paged |-> 0]
  /\ pc' = "idle"
  /\ buffer' = RestoredBuffer
  /\ lastProcessed' = store[CursorKey]
  /\ UNCHANGED <<tikv, redis, unit, twoPC, result, batch, registered>>

\* The source found its position in the compressor's log of mutable blocks.
SwitchToStreaming ==
  /\ src.mode = "dumping" /\ src.tip # Origin
  /\ src.resumed \/ src.paged \in SwitchAfter
  /\ src' = [src EXCEPT !.mode = "streaming"]
  /\ UNCHANGED <<tikv, redis, memory, pc, unit, twoPC, result>>

AfterPage(b) == [src EXCEPT !.tip = b, !.paged = IF @ < 2 THEN @ + 1 ELSE 2]

\* The messages the source can send next, and its state after each.
NextMessages ==
  CASE src.mode = "boot" ->
         {[msg |-> RollBack(src.tip), src |-> [src EXCEPT !.mode = "dumping"]]}
    [] src.mode = "dumping" ->
         {[msg |-> RollForward(b, FALSE), src |-> AfterPage(b)] :
             b \in {b \in Blocks : Parent[b] = src.tip /\ (src.resumed => WalMayMiss)}}
    [] src.mode = "streaming" ->
         {[msg |-> RollForward(b, TRUE), src |-> [src EXCEPT !.tip = b]] :
             b \in {b \in Blocks : Parent[b] = src.tip}}
         \cup
         {[msg |-> RollBack(p), src |-> [src EXCEPT !.tip = p]] :
             p \in Ancestors[src.tip] \ {Origin}}
    [] src.mode = "off" -> {}

-----------------------------------------------------------------------------
(* The worker.                                                             *)

\* schedule: a unit that was not committed comes before new messages
Reschedule ==
  /\ pc = "idle" /\ twoPC # NoMsg
  /\ unit' = twoPC /\ pc' = "execute"
  /\ UNCHANGED <<tikv, redis, memory, twoPC, result, src>>

Schedule ==
  /\ pc = "idle" /\ twoPC = NoMsg
  /\ \E m \in NextMessages : unit' = m.msg /\ src' = m.src
  /\ pc' = "execute"
  /\ UNCHANGED <<tikv, redis, memory, twoPC, result>>

ShouldFlush(b) == (batch.bytes + Size[b]) * 2 > MaxBytes \/ batch.len >= BatchLen

Pushed(bt, b) ==
  [acts |-> MergeAll(bt.acts, Actions[b]), len |-> bt.len + 1,
   last |-> b, bytes |-> bt.bytes + Size[b]]

Executing(type, mutable) == pc = "execute" /\ unit.type = type /\ unit.mutable = mutable

\* an immutable block that fits into the batch: no transaction
PushToBatch ==
  /\ Executing("RollForward", FALSE) /\ ~ShouldFlush(unit.point)
  /\ batch' = Pushed(batch, unit.point)
  /\ pc' = "idle" /\ unit' = NoMsg
  /\ UNCHANGED <<tikv, redis, buffer, lastProcessed, registered, twoPC, result, src>>

\* An immutable block that does not fit: the batch is written, without it.
\* A transaction that writes nothing has no commit timestamp.
FlushTxn ==
  [store |-> ExecuteAll(batch.acts, store), rows |-> rows,
   ts |-> batch.acts # NoActions, inverse |-> NoActions]

\* A mutable block: what is left of the batch, the block with its inverses,
\* the rollback metadata, and the garbage collection of old metadata.
MutableTxn ==
  LET b == unit.point
      flushed == ExecuteAll(batch.acts, store)
      inverse == InverseOf(Actions[b], flushed)
      init == IF buffer = <<>> /\ lastProcessed # Absent /\ rows[lastProcessed] = NoRows
              THEN [rows EXCEPT ![lastProcessed] = InitRow] ELSE rows
      added == IF inverse = NoActions THEN init ELSE [init EXCEPT ![b] = RowsOf(inverse)]
  IN  [store |-> ExecuteAllWithInverse(Actions[b], flushed),
       rows |-> GarbageCollected(added, Slot[b]),
       ts |-> TRUE, inverse |-> inverse]

\* A rollback: the inverses of the blocks after the point, and the trim of
\* their metadata.
RollBackTxn ==
  LET trimmed == Trimmed(Slot[unit.point])
  IN  [store |-> Undone(PointsSince(unit.point), store), rows |-> trimmed,
       ts |-> Position(unit.point) > 1 \/ trimmed # rows, inverse |-> NoActions]

\* executing the unit begins a transaction
BeginsTxn ==
  /\ pc = "execute"
  /\ unit.type = "RollForward" /\ ~unit.mutable => ShouldFlush(unit.point)

\* and gets to commit it: the buffer holds the point of a rollback
HasTxn == BeginsTxn /\ (unit.type = "RollBack" => InBuffer(unit.point))

Txn ==
  CASE unit.type = "RollBack" -> RollBackTxn
    [] unit.type = "RollForward" /\ unit.mutable -> MutableTxn
    [] unit.type = "RollForward" /\ ~unit.mutable -> FlushTxn

\* commit_txn_or_rollback succeeds and the 2pc unit is unlocked
Commit ==
  /\ HasTxn
  /\ store' = Txn.store /\ rows' = Txn.rows
  /\ result' = [ts |-> Txn.ts, inverse |-> Txn.inverse]
  /\ pc' = "publish" /\ twoPC' = NoMsg
  /\ UNCHANGED <<redis, memory, unit, src>>

\* (mutant) the unit is not kept in work_unit_2pc
CommitFailsUnlocked ==
  /\ BeginsTxn
  /\ twoPC' = NoMsg /\ unit' = NoMsg /\ pc' = "idle"
  /\ UNCHANGED <<tikv, redis, memory, result, src>>

\* TiKV reports an error that says nothing was committed, at any step of the
\* transaction: the stage restarts and finds the unit in work_unit_2pc
CommitFails ==
  /\ BeginsTxn
  /\ twoPC' = unit /\ unit' = NoMsg /\ pc' = "idle"
  /\ UNCHANGED <<tikv, redis, memory, result, src>>

\* TiKV commits but the answer is lost: the stage panics.  (A lost answer to
\* a commit that did not happen is Crash.)
CommitUndetermined ==
  /\ HasTxn
  /\ store' = Txn.store /\ rows' = Txn.rows
  /\ Die /\ UNCHANGED redis

\* (mutant) the keys are dropped, to be indexed again from the start
RollBackRefusedWipes ==
  /\ Executing("RollBack", TRUE) /\ ~InBuffer(unit.point)
  /\ store' = EmptyStore /\ rows' = [p \in Points |-> NoRows]
  /\ Die /\ UNCHANGED redis

\* a rollback to a point the buffer does not hold ends the process
RollBackRefused ==
  /\ Executing("RollBack", TRUE) /\ ~InBuffer(unit.point)
  /\ Die /\ UNCHANGED <<tikv, redis>>

-----------------------------------------------------------------------------
(* After the commit: Redis, then memory.                                   *)

Batched == unit.type = "RollForward" /\ ~unit.mutable

\* insert_timestamp_entry: the unit's point with the commit's timestamp.
\* snapshot is the cursor a reader finds at that timestamp.
NewEntry ==
  IF result.ts
  THEN [point |-> unit.point, snapshot |-> CursorPoint, batched |-> Batched]
  ELSE entry

\* (mutant) the first commit advertises, whether mutable or not
AdvertisesEarly == ~registered /\ unit.type = "RollForward"

\* maybe_advertise
Advertises ==
  /\ ~registered
  /\ unit.type = "RollForward"
  /\ unit.mutable \/ AdvertiseImmediately

\* (mutant) the score is written once, on registration
NewScoreOnce == IF Advertises THEN Slot[unit.point] ELSE score

NewScore ==
  IF Advertises \/ (registered /\ result.ts) THEN Slot[unit.point] ELSE score

\* the memory the worker updates once the commit is published
FinishFlush ==
  /\ batch' = Pushed(EmptyBatch, unit.point)
  /\ UNCHANGED buffer

FinishMutable ==
  LET init == IF lastProcessed = Absent THEN Origin ELSE lastProcessed
      started == IF buffer = <<>> THEN AddBlock(buffer, Entry(init, NoActions)) ELSE buffer
  IN  /\ buffer' = AddBlock(started, Entry(unit.point, result.inverse))
      /\ batch' = IF batch.acts = NoActions THEN batch ELSE EmptyBatch

FinishRollBack ==
  /\ buffer' = RollbackToPoint(unit.point)
  /\ UNCHANGED batch

Publish ==
  /\ pc = "publish"
  /\ entry' = NewEntry /\ score' = NewScore
  /\ registered' = (registered \/ Advertises)
  /\ CASE unit.type = "RollBack" -> FinishRollBack
       [] unit.type = "RollForward" /\ unit.mutable -> FinishMutable
       [] unit.type = "RollForward" /\ ~unit.mutable -> FinishFlush
  /\ lastProcessed' = unit.point
  /\ pc' = "idle" /\ unit' = NoMsg /\ result' = NoResult
  /\ UNCHANGED <<tikv, twoPC, src>>

\* A Redis call fails: the stage restarts with the 2pc unit already unlocked,
\* so the memory updates of this unit never happen.
PublishFails ==
  /\ RedisMayFail
  /\ pc = "publish"
  /\ \/ /\ result.ts                                  \* before the entry
        /\ UNCHANGED <<entry, score, registered>>
     \/ /\ Advertises \/ (registered /\ result.ts)      \* while updating scores
        /\ entry' = NewEntry
        /\ score' \in {score, NewScore}
        /\ registered' = (registered \/ Advertises)
  /\ pc' = "idle" /\ unit' = NoMsg /\ result' = NoResult
  /\ UNCHANGED <<tikv, batch, buffer, lastProcessed, twoPC, src>>

-----------------------------------------------------------------------------
Next ==
  \/ Crash
  \/ \E tip \in Points : Restart(tip)
  \/ SwitchToStreaming
  \/ Reschedule
  \/ Schedule
  \/ PushToBatch
  \/ Commit
  \/ CommitFails
  \/ CommitUndetermined
  \/ RollBackRefused
  \/ Publish
  \/ PublishFails

Spec == Init /\ [][Next]_vars

-----------------------------------------------------------------------------
(* Properties.                                                             *)

\* Every variable keeps its type: a key never changes between counter and
\* bytes, inverses are only sets and deletes, the buffer stays bounded.
TypeOK ==
  /\ store \in Stores
  /\ rows \in [Points -> RowMaps \cup {NoRows}]
  /\ entry \in Entries
  /\ score \in Nat \cup {Absent}
  /\ pc \in {"down", "idle", "execute", "publish"}
  /\ unit \in Msgs \cup {NoMsg} /\ twoPC \in Msgs \cup {NoMsg}
  /\ pc \in {"execute", "publish"} <=> unit # NoMsg
  /\ result \in Results
  /\ batch \in Batches
  /\ buffer \in Seq([point : Points, inverse : InverseMaps])
  /\ Len(buffer) <= MaxBufferLen
  /\ lastProcessed \in Blocks \cup {Absent}
  /\ registered \in BOOLEAN
  /\ src \in Sources

\* Whatever crashes, retries and rollbacks happened, the committed keys are
\* exactly what the blocks of the chain up to the committed cursor produce:
\* nothing applied twice, nothing skipped, nothing left of a fork.
StoreIsChainState == store = StateAt[CursorPoint]

\* A block is only ever executed on top of its parent: the source's position
\* and what storage holds, the batch included, never drift apart.
UnitExtendsStore ==
  (pc = "execute" /\ unit.type = "RollForward") =>
    Parent[unit.point] = IF batch.len > 0 THEN batch.last ELSE CursorPoint

\* A commit leaves the cursor where its unit says: at the block, at the
\* rollback's point, and for a batch at the block before the incoming one.
CommitLands ==
  pc = "publish" => CursorPoint = IF Batched THEN Parent[unit.point] ELSE unit.point

\* The buffer is an unbroken piece of the chain that ends in the cursor, so a
\* rollback to any of its points undoes every block after that point.
BufferIsChain ==
  (pc = "idle" /\ buffer # <<>> /\ src.mode = "streaming") =>
    /\ buffer[1].point = CursorPoint
    /\ \A i \in 1..(Len(buffer) - 1) : buffer[i + 1].point = Parent[buffer[i].point]

\* The points that fewer than MaxBufferLen blocks leave more than GcSlots slots
\* behind.  The buffer is bounded by blocks and its metadata is collected by
\* slots, twenty for each block: on a stretch of the chain that is sparser than
\* that, the buffer holds points whose metadata is gone.
Outrun ==
  {p \in Points : \E b \in Blocks :
     /\ p \in Ancestors[b]
     /\ Cardinality(Ancestors[b] \ Ancestors[p]) < MaxBufferLen
     /\ Slot[b] > Slot[p] + GcSlots}

\* Every point a rollback can reach in memory can be reached after a restart
\* as well: the persisted metadata covers the memory buffer, with nothing lost
\* but the points a sparse stretch of the chain has outrun.
RunwayIsPersisted ==
  pc = "idle" => \A i \in DOMAIN buffer : buffer[i].point \in Persisted \cup {Origin} \cup Outrun

\* A cursor entry for a mutable block or a rollback names the state a reader
\* finds at its timestamp.
EntryIsCommitted == ~entry.batched => entry.point = entry.snapshot

\* the score only moves while the source streams mutable blocks
ScoreMovesStreaming == score' # score => src.mode = "streaming"

\* A backfilling instance stays out of the registry (maybe_advertise): no step
\* announces a page of immutable blocks, be it after a restart with the score
\* of an earlier run in Redis, after a commit that was executed again, or after
\* Redis failed between the registration and the score.
AdvertisedAfterMutable == [][ScoreMovesStreaming]_vars

\* Once the instance advertised itself, its registry score is the slot of the
\* committed cursor whenever the worker is idle.
ScoreIsCursor == (pc = "idle" /\ registered) => score = Slot[CursorPoint]

\* What redis says of the instance is what was committed: the timestamp of
\* an entry shows its block, and the score is the slot of the cursor.
RedisIsCommitted == EntryIsCommitted /\ ScoreIsCursor

-----------------------------------------------------------------------------
(* What a reader sees of the store.                                        *)

\* One commit writes a full batch and the mutable block after it; a batch of
\* no blocks is flushed as one.  It undoes what the buffer holds at most.
View == INSTANCE ChainView
          WITH view <- store,
               MaxForward <- (IF BatchLen = 0 THEN 1 ELSE BatchLen) + 1,
               MaxBack <- MaxBufferLen - 1

\* The worker implements ChainView: behind the batch, the buffer, the retries
\* and the crashes, every commit moves the keys along one chain, forward by a
\* batch and a block at most, back by what the buffer holds at most.
ReadersSeeAChain == View!Spec
=============================================================================
