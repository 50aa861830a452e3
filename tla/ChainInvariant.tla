---------------------------- MODULE ChainInvariant ---------------------------
(***************************************************************************)
(* The invariant behind StoreIsChainState: how the batch, the buffer, the  *)
(* persisted metadata, the source and the unit in progress hang together.  *)
(*                                                                         *)
(* It holds under the hypotheses Exact names.  None of them can be         *)
(* dropped; the README says what goes wrong without each.                  *)
(***************************************************************************)
EXTENDS StorageWorker

\* What the theorem assumes of the configuration and of the blocks: batches
\* of one block, no Redis failures, a log that reaches back to the point a
\* restart resumes at, no switch to streaming after exactly one paged block,
\* no merged delta of zero in a mutable block and no empty values.
Exact ==
  /\ BatchLen <= 1
  /\ ~RedisMayFail
  /\ ~WalMayMiss
  /\ SwitchAfter \subseteq {0, 2}
  /\ \A b \in Blocks : ExecuteAllWithInverse(Actions[b], StateAt[Parent[b]]) = StateAt[b]
  /\ \A p \in Points, k \in Keys : StateAt[p][k] # EmptyBytes

\* the inverses of a block, computed on the chain it extends
ChainInverse(b) == InverseOf(Actions[b], StateAt[Parent[b]])

\* an unbroken piece of a chain, newest first, with the inverses of all its
\* blocks but the oldest
ChainBuffer(buf) ==
  \A i \in 1..(Len(buf) - 1) :
    /\ buf[i].point \in Blocks
    /\ buf[i + 1].point = Parent[buf[i].point]
    /\ buf[i].inverse = ChainInverse(buf[i].point)

\* where storage stands when what the batch holds is counted
Tip == IF batch.len = 0 THEN CursorPoint ELSE batch.last

\* the work unit that is not finished yet
Pending == IF pc \in {"execute", "publish"} THEN unit ELSE twoPC

Awaits(type, mutable) ==
  Pending # NoMsg /\ Pending.type = type /\ Pending.mutable = mutable

\* lastProcessed names p
LastIs(p) == lastProcessed = IF p = Origin THEN Absent ELSE p

\* The rollback metadata rs is the upper end of the chain that ends in c, and
\* carries the inverses of all its blocks but the oldest.
ChainRows(rs, c) ==
  /\ PointsIn(rs) \subseteq Ancestors[c]
  /\ \A q \in PointsIn(rs), x \in Ancestors[c] : Slot[x] >= Slot[q] => x \in PointsIn(rs)
  /\ \A p, q \in PointsIn(rs) : Slot[q] < Slot[p] => rs[p] = RowsOf(ChainInverse(p))

RowsInv == ChainRows(rows, CursorPoint)

\* The batch holds at most one block, the child of the cursor; while it does,
\* no block is in the buffer.
BatchInv ==
  /\ batch.len \in {0, 1}
  /\ batch.len = 0 => batch.acts = NoActions
  /\ batch.len = 1 =>
       /\ batch.last \in Blocks /\ batch.acts = Actions[batch.last]
       /\ buffer = <<>>
       /\ pc # "publish" => Parent[batch.last] = CursorPoint /\ Persisted = {}

\* The buffer starts at the cursor, or at the parent of a mutable block that
\* is committed but not yet in it.
BufferInv ==
  /\ ChainBuffer(buffer)
  /\ pc \in {"idle", "execute"} =>
       /\ buffer # <<>> => buffer[1].point = CursorPoint
       /\ Persisted # {} => buffer # <<>>

\* The source is where storage is, one unit ahead while a unit is pending.
SourceInv ==
  /\ pc = "down" => src = SourceOff /\ batch = EmptyBatch /\ buffer = <<>> /\ twoPC = NoMsg
  /\ pc \in {"idle", "execute", "publish"} => src.mode # "off"
  /\ pc = "execute" /\ twoPC # NoMsg => twoPC = unit
  /\ pc = "publish" => twoPC = NoMsg
  /\ src.mode = "boot" => pc = "idle" /\ twoPC = NoMsg /\ src.resumed
  /\ Pending = NoMsg /\ src.mode \in {"dumping", "streaming"} => src.tip = Tip
  /\ Pending # NoMsg => src.tip = Pending.point /\ src.mode \in {"dumping", "streaming"}
  /\ Awaits("RollForward", TRUE) => src.mode = "streaming"
  /\ Awaits("RollForward", FALSE) => ~src.resumed /\ buffer = <<>>
  /\ src.resumed => buffer # <<>>
  /\ src.mode = "dumping" /\ ~src.resumed => buffer = <<>>
  /\ twoPC # NoMsg /\ twoPC.type = "RollForward" /\ ~twoPC.mutable => ShouldFlush(twoPC.point)

\* A unit extends what storage holds, and is committed where it says.
UnitInv ==
  /\ pc # "publish" /\ Pending # NoMsg /\ Pending.type = "RollForward" =>
       Parent[Pending.point] = Tip
  /\ pc = "publish" /\ unit.type = "RollBack" =>
       CursorPoint = unit.point /\ InBuffer(unit.point)
  /\ pc = "publish" /\ Awaits("RollForward", TRUE) =>
       /\ CursorPoint = unit.point
       /\ result.inverse = ChainInverse(unit.point)
       /\ buffer # <<>> => buffer[1].point = Parent[unit.point]
       /\ buffer = <<>> => LastIs(Parent[unit.point])
  /\ pc = "publish" /\ Awaits("RollForward", FALSE) =>
       CursorPoint = Parent[unit.point] /\ Persisted = {}

\* While no mutable block is processed, lastProcessed follows the pages: it is
\* the cursor before the first, and the block in the batch after the second.
PagedInv ==
  ~src.resumed /\ buffer = <<>> /\ pc # "down" =>
    /\ src.mode = "streaming" => src.paged \in {0, 2}
    /\ src.paged = 0 => batch.len = 0 /\ ~Awaits("RollForward", FALSE)
    /\ src.paged = 0 /\ pc # "publish" => LastIs(CursorPoint)
    /\ Awaits("RollForward", FALSE) =>
         /\ src.paged = 1 => batch.len = 0
         /\ src.paged = 2 => batch.len = 1
    /\ src.paged # 0 /\ ~Awaits("RollForward", FALSE) => batch.len = 1
    /\ src.paged = 2 /\ ~Awaits("RollForward", FALSE) => lastProcessed = batch.last

\* The inductive invariant behind StoreIsChainState.
ChainInv ==
  /\ StoreIsChainState
  /\ RowsInv
  /\ BatchInv
  /\ BufferInv
  /\ SourceInv
  /\ UnitInv
  /\ PagedInv
=============================================================================
