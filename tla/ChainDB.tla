------------------------------ MODULE ChainDB ------------------------------
(***************************************************************************)
(* The store of the compressor (storage/mod.rs) and the roll stage that    *)
(* writes it (sync/roll.rs): the blocks by slot, the unspent outputs, the  *)
(* resolved inputs of every block, and the log of mutable blocks.          *)
(*                                                                         *)
(* An output is known by its reference; what is stored for it is the slot  *)
(* of the block that produced it (its bytes and era never change).  Where  *)
(* the events of the roll stage come from is ChainSync's.                  *)
(***************************************************************************)
EXTENDS Integers, Sequences, FiniteSetsExt, Functions

CONSTANTS
  Blocks,         \* the blocks of all forks
  Origin,         \* the point before the first block
  Parent,         \* the point a block extends
  Ancestors,      \* the points of the chain that ends in a point, itself included
  Slot,           \* the slot of a point
  Txs,            \* the transactions of a block: what they produce, consume, require
  Outputs,        \* the outputs of all transactions and of the genesis file
  Genesis,        \* the outputs of the genesis file
  None,           \* no value
  ImmutableAfter  \* immutable_after_slots, None when it is not set

Points == Blocks \cup {Origin}

Txo == Nat \cup {None}

ASSUME ChainAssumption ==
  /\ Origin \notin Blocks /\ None \notin Points
  /\ Parent \in [Blocks -> Points] /\ Slot \in [Points -> Nat]
  /\ Ancestors \in [Points -> SUBSET Points]
  /\ \A b \in Blocks : Slot[Parent[b]] < Slot[b]
  /\ \A b \in Blocks : Ancestors[b] = Ancestors[Parent[b]] \cup {b}
  /\ Ancestors[Origin] = {Origin}

Transactions == [consumes : SUBSET Outputs, requires : SUBSET Outputs, produces : SUBSET Outputs]

Produced(b) == UNION {Txs[b][i].produces : i \in DOMAIN Txs[b]}

Consumed(b) == UNION {Txs[b][i].consumes : i \in DOMAIN Txs[b]}

Required(b) == UNION {Txs[b][i].requires : i \in DOMAIN Txs[b]}

\* the blocks of the chain that ends in a point
Chain(p) == Ancestors[p] \ {Origin}

\* what exists when the i-th transaction of a block is applied, and what is spent
ProducedBefore(b, i) ==
  Genesis \cup (UNION {Produced(c) : c \in Chain(Parent[b])})
          \cup (UNION {Txs[b][j].produces : j \in 1..(i - 1)})

ConsumedBefore(b, i) ==
  (UNION {Consumed(c) : c \in Chain(Parent[b])}) \cup (UNION {Txs[b][j].consumes : j \in 1..(i - 1)})

\* What ledger validity says of every chain: a transaction requires what it
\* consumes, what it requires exists and is unspent, and what it produces is new.
ASSUME LedgerAssumption ==
  /\ Genesis \subseteq Outputs /\ None \notin Nat /\ ImmutableAfter \in Nat \cup {None}
  /\ Txs \in [Blocks -> Seq(Transactions)]
  /\ \A b \in Blocks : \A i \in DOMAIN Txs[b] :
       /\ Txs[b][i].consumes \subseteq Txs[b][i].requires
       /\ Txs[b][i].requires \subseteq ProducedBefore(b, i) \ ConsumedBefore(b, i)
       /\ Txs[b][i].produces \cap ProducedBefore(b, i) = {}

VARIABLES
  blocks,     \* BlockBySlotKV: the block of every slot that has one
  resolvers,  \* ResolverBySlotKV: the block and the outputs its transactions require
  txos,       \* TxoKV
  wal,        \* MutableKV: sequence number to log entry
  nextSeq,    \* next_wal_seq
  lastHash,   \* last_block_hash
  mutable,    \* Stage::mutable
  up          \* the process runs

db == <<blocks, resolvers, txos>>
roll == <<db, wal, nextSeq, lastHash, mutable, up>>

-----------------------------------------------------------------------------
(* The log (enum Log).                                                     *)

LogTypes == {"Apply", "Undo", "Mark", "Origin"}

Log(type, p) == [type |-> type, point |-> p]

Logs == [type : LogTypes, point : Points]

\* slot().unwrap_or_default(): 0 for Origin
LogSlot(l) == IF l.type = "Origin" THEN 0 ELSE Slot[l.point]

\* entries written at the next sequence numbers
Written(w, from, logs) ==
  [n \in DOMAIN w \cup (from..(from + Len(logs) - 1)) |->
     IF n \in DOMAIN w THEN w[n] ELSE logs[n - from + 1]]

\* (mutant) old entries are removed wherever they are, not from the start
PrunedAnywhere(w, before) == Restrict(w, {n \in DOMAIN w : LogSlot(w[n]) >= before})

\* MutableKV::prune: from the start up to the first entry at the slot or later
Pruned(w, before) ==
  Restrict(w, {n \in DOMAIN w : \E m \in DOMAIN w : m <= n /\ LogSlot(w[m]) >= before})

-----------------------------------------------------------------------------
(* Outputs.                                                                *)

\* (mutant) the slot of the spending block is stored for every output
ResolvedHere(b, u) ==
  [o \in Required(b) |-> IF u[o] # None \/ o \in Produced(b) THEN Slot[b] ELSE None]

\* resolve_block_tx_inputs: from the table, or else from the block itself
Resolved(b, u) ==
  [o \in Required(b) |-> IF u[o] # None THEN u[o]
                         ELSE IF o \in Produced(b) THEN Slot[b] ELSE None]

ApplyTx(u, tx, slot) ==
  [o \in Outputs |-> IF o \in tx.consumes THEN None
                     ELSE IF o \in tx.produces THEN slot ELSE u[o]]

UndoTx(u, tx, resolver) ==
  [o \in Outputs |-> IF o \in tx.produces THEN None
                     ELSE IF o \in tx.consumes THEN resolver[o] ELSE u[o]]

\* the transactions of a block in order
ApplyTxs(b, u) ==
  LET after[i \in 0..Len(Txs[b])] ==
        IF i = 0 THEN u ELSE ApplyTx(after[i - 1], Txs[b][i], Slot[b])
  IN  after[Len(Txs[b])]

\* (mutant) the transactions of a block are undone in the order they were applied
UndoTxsInOrder(b, u, resolver) ==
  LET after[i \in 0..Len(Txs[b])] ==
        IF i = 0 THEN u ELSE UndoTx(after[i - 1], Txs[b][i], resolver)
  IN  after[Len(Txs[b])]

\* and in reverse
UndoTxs(b, u, resolver) ==
  LET after[i \in 0..Len(Txs[b])] ==
        IF i = 0 THEN u ELSE UndoTx(after[i - 1], Txs[b][Len(Txs[b]) + 1 - i], resolver)
  IN  after[Len(Txs[b])]

-----------------------------------------------------------------------------
(* The state of the store.                                                 *)

\* the blocks after a slot, newest first: what a rollback removes
StoredAfter(slot) ==
  LET after == {s \in DOMAIN blocks : s > slot}
  IN  [i \in 1..Cardinality(after) |->
         blocks[CHOOSE s \in after : Cardinality({t \in after : t > s}) = i - 1]]

Tip == IF DOMAIN blocks = {} THEN Origin ELSE blocks[Max(DOMAIN blocks)]

Seeded(u) == [o \in Outputs |-> IF o \in Genesis THEN 0 ELSE u[o]]

OpenInit ==
  /\ blocks = <<>> /\ resolvers = <<>> /\ txos = [o \in Outputs |-> None]
  /\ wal = <<>> /\ nextSeq = 1 /\ lastHash = None /\ mutable = FALSE
  /\ up = FALSE

\* The process ends.  Everything but the store is gone, and the log is
\* cleared when it is opened again.
Close ==
  /\ up
  /\ up' = FALSE
  /\ wal' = <<>> /\ nextSeq' = 1 /\ lastHash' = None /\ mutable' = FALSE
  /\ UNCHANGED db

\* open, and the genesis outputs
Open ==
  /\ ~up
  /\ up' = TRUE
  /\ txos' = Seeded(txos)
  /\ lastHash' = IF Tip = Origin THEN None ELSE Tip
  /\ UNCHANGED <<blocks, resolvers, wal, nextSeq, mutable>>

\* intersect_options(5): the newest block, then 1, 3, 7 and 15 are skipped
Offered == <<1, 3, 7, 15, 31>>

IntersectOptions ==
  LET stored == StoredAfter(-1)
      reached == {i \in DOMAIN Offered : Offered[i] <= Len(stored)}
  IN  [i \in reached |-> stored[Offered[i]]]

\* Stage::execute: once a point is close enough to the tip it was sent with,
\* everything is logged; without immutable_after_slots nothing ever is
Mutable(p, tip) == mutable \/ (ImmutableAfter # None /\ Slot[p] + ImmutableAfter > Slot[tip])

-----------------------------------------------------------------------------
\* else PreviousHashMismatch or MissingTxo
AcceptsBlock(b) ==
  /\ lastHash \in {None, Parent[b]}
  /\ \A o \in Required(b) : Resolved(b, txos)[o] # None

\* RollForward: apply_block_with_context
Apply(b, tip) ==
  LET m == Mutable(b, tip)
      logged == Written(wal, nextSeq, <<Log("Apply", b)>>)
  IN  /\ up /\ AcceptsBlock(b)
      /\ blocks' = [s \in DOMAIN blocks \cup {Slot[b]} |-> IF s = Slot[b] THEN b ELSE blocks[s]]
      /\ resolvers' = [s \in DOMAIN resolvers \cup {Slot[b]} |->
                         IF s = Slot[b] THEN [block |-> b, txos |-> Resolved(b, txos)] ELSE resolvers[s]]
      /\ txos' = ApplyTxs(b, txos)
      /\ wal' = IF ~m THEN wal
                ELSE IF ImmutableAfter # None /\ Slot[b] >= ImmutableAfter
                THEN Pruned(logged, Slot[b] - ImmutableAfter)
                ELSE logged
      /\ nextSeq' = nextSeq + 1
      /\ lastHash' = b /\ mutable' = m
      /\ UNCHANGED up

\* what undoing a list of blocks leaves of the outputs
UndoAll(bs) ==
  LET after[i \in 0..Len(bs)] ==
        IF i = 0 THEN txos ELSE UndoTxs(bs[i], after[i - 1], resolvers[Slot[bs[i]]].txos)
  IN  after[Len(bs)]

\* last_block_hash after a rollback
HashAfter(p) == IF p = Origin THEN None ELSE p

\* (mutant) only the block that follows the point
UndoesNext(p) ==
  LET after == StoredAfter(IF p = Origin THEN -1 ELSE Slot[p])
  IN  IF after = <<>> THEN <<>> ELSE <<after[Len(after)]>>

\* the blocks a rollback to a point undoes, newest first
Undoes(p) == StoredAfter(IF p = Origin THEN -1 ELSE Slot[p])

\* else InvalidRollbackPoint, MissingResolver or ResolverHashMismatch
AcceptsRollback(p) ==
  /\ p # Origin => Slot[p] \in DOMAIN blocks /\ blocks[Slot[p]] = p
  /\ \A b \in Range(Undoes(p)) : Slot[b] \in DOMAIN resolvers /\ resolvers[Slot[b]].block = b

\* the transaction of rollback and rollback_to_origin
Undo(p, m, mark) ==
  \E undone \in {Undoes(p)} :
    LET logs == Append([i \in DOMAIN undone |-> Log("Undo", undone[i])], mark)
        slots == {Slot[undone[i]] : i \in DOMAIN undone}
    IN  /\ up /\ AcceptsRollback(p)
        /\ blocks' = Restrict(blocks, DOMAIN blocks \ slots)
        /\ resolvers' = Restrict(resolvers, DOMAIN resolvers \ slots)
        /\ txos' = UndoAll(undone)
        /\ wal' = IF m THEN Written(wal, nextSeq, logs) ELSE wal
        /\ nextSeq' = IF m THEN nextSeq + Len(logs) ELSE nextSeq
        /\ lastHash' = HashAfter(p)
        /\ mutable' = m
        /\ UNCHANGED up

Rollback(p, tip) == p # Origin /\ Undo(p, Mutable(p, tip), Log("Mark", p))

RollbackToOrigin(tip) == Undo(Origin, Mutable(Origin, tip), Log("Origin", Origin))

-----------------------------------------------------------------------------
(* What the chain says, for reference.                                     *)

ProducedAt(o, p) == {b \in Chain(p) : o \in Produced(b)}

ConsumedAt(o, p) == {b \in Chain(p) : o \in Consumed(b)}

\* the slot that produced an output, as the chain up to p has it
CreatedAt(o, p) ==
  IF o \in Genesis THEN 0
  ELSE IF ProducedAt(o, p) = {} THEN None ELSE Slot[CHOOSE b \in ProducedAt(o, p) : TRUE]

UnspentAt(o, p) == IF ConsumedAt(o, p) = {} THEN CreatedAt(o, p) ELSE None

-----------------------------------------------------------------------------
(* Properties.                                                             *)

\* the types of the store's variables
DbTypes ==
  /\ DOMAIN blocks \subseteq Range(Slot) /\ Range(blocks) \subseteq Blocks
  /\ DOMAIN resolvers \subseteq Range(Slot)
  /\ txos \in [Outputs -> Txo]
  /\ Range(wal) \subseteq Logs /\ \A n \in DOMAIN wal : n < nextSeq
  /\ lastHash \in Blocks \cup {None}
  /\ mutable \in BOOLEAN /\ up \in BOOLEAN

\* The table of blocks is always one whole chain, whatever was rolled back
\* and whenever the process ended.
StoreIsChain ==
  /\ Range(blocks) = Chain(Tip)
  /\ \A s \in DOMAIN blocks : Slot[blocks[s]] = s

\* apply_block_with_context and rollback leave exactly the outputs the
\* stored chain leaves unspent, each with the slot that produced it on THIS
\* fork.  Spent genesis outputs are the exception: they are written again
\* on every start.
OutputsAreUnspent ==
  \A o \in Outputs :
    IF o \in Genesis THEN up /\ UnspentAt(o, Tip) # None => txos[o] = 0
    ELSE txos[o] = UnspentAt(o, Tip)

\* Every stored block can be undone and served with its inputs: its resolver
\* is its own, has every required output, and has it as the chain created it.
ResolversAreComplete ==
  /\ DOMAIN resolvers = DOMAIN blocks
  /\ \A s \in DOMAIN blocks :
       /\ resolvers[s].block = blocks[s]
       /\ \A o \in Required(blocks[s]) : resolvers[s].txos[o] = CreatedAt(o, blocks[s])

\* where a log entry leaves from and where it leads
From(l) == IF l.type = "Apply" THEN Parent[l.point] ELSE l.point
To(l) == IF l.type = "Undo" THEN Parent[l.point] ELSE l.point

\* A consumer that holds the point of any entry of the log and replays the
\* entries after it walks the tree block by block and ends at the stored
\* tip: pruning and rollbacks leave no gap and nothing out of order.
LogLeadsToTip ==
  \A n \in DOMAIN wal :
    IF n + 1 \in DOMAIN wal THEN To(wal[n]) = From(wal[n + 1])
    ELSE n + 1 = nextSeq /\ To(wal[n]) = Tip
=============================================================================
