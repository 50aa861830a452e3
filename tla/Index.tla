-------------------------------- MODULE Index --------------------------------
(***************************************************************************)
(* One polyphony instance over a growing and rolling-back chain: blocks    *)
(* are reduced (Reducers), their actions merged per key and executed on    *)
(* the key space (StorageActions, Timbre), and undone by their inverses.   *)
(* The storage stage's transactions, crashes and restarts are the subject  *)
(* of StorageWorker; here every step commits.  The question is what the    *)
(* key space says about the ledger.                                        *)
(***************************************************************************)
EXTENDS Reducers

CONSTANTS
  Encoder,               \* <<dataplane, instance>>
  Genesis,               \* outputs that exist before the first block
  TxPool,                \* the transactions a block can contain
  BlockHash(_, _, _),    \* of parent hash, slot, transactions (external)
  Followed,              \* the addresses that the filter of BalanceByAddress names
  MaxBlocks, MaxTxs, MaxSlot

VARIABLES
  chain,   \* the blocks reduced so far
  db,      \* the key space
  batch,   \* merged actions of immutable blocks that are not executed yet
  undo     \* per mutable block, the inverses of its actions

vars == <<chain, db, batch, undo>>

-----------------------------------------------------------------------------
(* The ledger (external): what a chain of blocks has produced and left     *)
(* unspent, and which transactions can follow.                             *)

BlockOutputs(b) ==
  LET made == FlatMap(produces, b.txs)
  IN  [r \in {made[i].ref : i \in DOMAIN made} |->
         [slot |-> b.slot, out |-> made[CHOOSE i \in DOMAIN made : made[i].ref = r].out]]

Outputs(bs) == FoldLeft(LAMBDA all, b : BlockOutputs(b) @@ all, <<>>, bs)

TxsOf(bs) == FlatMap(LAMBDA b : b.txs, bs)

Spent(bs) == ToSet(FlatMap(consumes, TxsOf(bs)))

Unspent(bs) == {r \in DOMAIN Outputs(bs) : r \notin Spent(bs)}

AmountIn(value, policy, name) ==
  Total(LAMBDA a : IF a.policy = policy /\ a.name = name THEN a.amount ELSE 0, AssetsOf(value))

\* a sequence of transactions each of which spends what exists by then
Applicable(bs, ts) ==
  \A i \in DOMAIN ts :
    LET before == Append(bs, [slot |-> 0, txs |-> SubSeq(ts, 1, i - 1)])
        exists == Unspent(before) \cup (Genesis \ Spent(before))
    IN  /\ ts[i] \notin ToSet(TxsOf(before))
        /\ ToSet(ts[i].inputs) \cup ToSet(ts[i].collateral) \subseteq exists

Tip(bs) == IF bs = <<>> THEN Origin ELSE Point(Last(bs))

NextBlock(slot, ts) ==
  [slot |-> slot, hash |-> BlockHash(Tip(chain).hash, slot, ts), height |-> Len(chain) + 1,
   size |-> Len(ts), txs |-> ts,
   header |-> <<slot, BlockHash(Tip(chain).hash, slot, ts), Tip(chain).hash>>]

\* the compressor resolves every output a block consumes, also its own
Context(b) ==
  LET all == Outputs(Append(chain, b))
  IN  [r \in DOMAIN all \cap ToSet(FlatMap(LAMBDA tx : tx.inputs \o tx.collateral, b.txs)) |-> all[r]]

-----------------------------------------------------------------------------
(* Actions on many keys.                                                   *)

Get(kvs, k) == IF k \in DOMAIN kvs THEN kvs[k] ELSE Absent

\* SyncBatcher::push_actions: per key, its actions merged in order
push_actions(acts, ops) ==
  [k \in DOMAIN acts \cup {ops[i].key : i \in DOMAIN ops} |->
     LET own == Map(LAMBDA op : op.act, SelectSeq(ops, LAMBDA op : op.key = k))
     IN  IF k \in DOMAIN acts THEN FoldLeft(Merge, acts[k], own)
         ELSE FoldLeft(Merge, Head(own), Tail(own))]

\* the key space after acts, executed with or without computing inverses
Applied(kvs, acts, inverses) ==
  LET after == [k \in DOMAIN acts |-> IF inverses THEN ExecuteWithInverse(acts[k], Get(kvs, k))
                                      ELSE Execute(acts[k], Get(kvs, k))] @@ kvs
  IN  Restrict(after, {k \in DOMAIN after : after[k] # Absent})

Inverses(kvs, acts) ==
  [k \in {x \in DOMAIN acts : HasInverse(acts[x], Get(kvs, x))} |-> InverseOp(Get(kvs, k))]

-----------------------------------------------------------------------------
Init ==
  /\ chain = <<>> /\ db = <<>> /\ batch = <<>> /\ undo = <<>>

\* an immutable block: pushed to the batch
RollForwardImmutable(b) ==
  /\ undo = <<>>
  /\ CanReduce(b, Context(b))
  /\ batch' = push_actions(batch, ReduceBlock(Encoder, b, Context(b)))
  /\ chain' = Append(chain, b)
  /\ UNCHANGED <<db, undo>>

Flush ==
  /\ batch # <<>>
  /\ db' = Applied(db, batch, FALSE)
  /\ batch' = <<>>
  /\ UNCHANGED <<chain, undo>>

\* a mutable block: the batch is flushed, the block's own actions are merged
\* and executed, and their inverses kept
RollForwardMutable(b) ==
  /\ CanReduce(b, Context(b))
  /\ LET flushed == Applied(db, batch, FALSE)
         acts    == push_actions(<<>>, ReduceBlock(Encoder, b, Context(b)))
     IN  /\ db' = Applied(flushed, acts, TRUE)
         /\ undo' = Append(undo, Inverses(flushed, acts))
  /\ batch' = <<>>
  /\ chain' = Append(chain, b)

\* the last n mutable blocks, newest first
RollBack(n) ==
  /\ n <= Len(undo)
  /\ db' = FoldLeft(LAMBDA kvs, inverse : Applied(kvs, inverse, FALSE), db,
                    Reverse(SubSeq(undo, Len(undo) - n + 1, Len(undo))))
  /\ undo' = SubSeq(undo, 1, Len(undo) - n)
  /\ chain' = SubSeq(chain, 1, Len(chain) - n)
  /\ UNCHANGED batch

NewBlocks ==
  {NextBlock(slot, ts) :
     slot \in (Tip(chain).slot + 1)..MaxSlot,
     ts \in {s \in UNION {[1..n -> TxPool] : n \in 0..MaxTxs} : Applicable(chain, s)}}

Next ==
  \/ Len(chain) < MaxBlocks /\ \E b \in NewBlocks : RollForwardImmutable(b)
  \/ Len(chain) < MaxBlocks /\ \E b \in NewBlocks : RollForwardMutable(b)
  \/ Flush
  \/ \E n \in 1..MaxBlocks : RollBack(n)

Spec == Init /\ [][Next]_vars

-----------------------------------------------------------------------------
(* Properties.  They speak of the key space when no action waits in the    *)
(* batch, and compare it with the ledger of the chain indexed so far.      *)

Flushed == batch = <<>>

AllOutputs == UNION {ToSet(tx.outputs) \cup ToSet(Optional(tx.collret, NoOutput)) : tx \in TxPool}
Addresses == {o.address : o \in AllOutputs}
Assets == UNION {{<<a.policy, a.name>> : a \in ToSet(AssetsOf(tx.mint))} : tx \in TxPool}

Keys(reducer) == {k \in DOMAIN db : Len(k) > 4 /\ SubSeq(k, 1, 4) = Data(Encoder, reducer)}

Amount(v) == IF v = Absent THEN 0 ELSE v

\* the unspent outputs that blocks produced; those of the genesis are not indexed
LiveOf(bs) ==
  LET all == Outputs(bs)
  IN  {[ref |-> r, slot |-> all[r].slot, out |-> all[r].out] : r \in Unspent(bs)}
Live == LiveOf(chain)

\* an address as it can be read back from a key
Known(a) ==
  IF IsShelley(a) \/ Len(a.byron) <= MAX_BYRON_ADDRESS_LEN THEN a ELSE [hash |-> Blake2b(a.byron)]

UtxoSuffix(u) == <<u.slot, u.ref[1], u.ref[2]>>

\* The variables are sequences and functions on keys of the expected shape:
\* no more inverses than blocks, and every pending action is one that the
\* batch can merge.
TypeOK ==
  /\ Len(chain) <= MaxBlocks /\ Len(undo) <= Len(chain)
  /\ \A k \in DOMAIN db : Len(k) >= 3
  /\ \A k \in DOMAIN batch : Family(batch[k]) \in {"bytes", "u64", "u128"}
  /\ undo # <<>> => batch = <<>>

\* The three UTxO indexes (utxo_cbor_by_address, utxos_by_asset,
\* utxos_by_policy) hold exactly the unspent outputs of the chain, each at
\* the slot of the block that produced it, through outputs spent in the
\* block that made them, failed transactions and rollbacks; and what their
\* keys and values decode to is what was written.
UtxoIndexesAreTheLedger ==
  Flushed =>
    /\ {<<decode_utxos_by_address_key(k), db[k]>> :
          k \in Keys(REDUCER_UTXOS_BY_SHELLEY_ADDRESS) \cup Keys(REDUCER_UTXOS_BY_BYRON_ADDRESS)}
       = {<<ListItem(Known(u.out.address), UtxoSuffix(u)), <<u.out>>>> : u \in Live}
    /\ {<<decode_utxos_by_asset_key(k), decode_utxos_by_asset_value(db[k])>> :
          k \in Keys(REDUCER_UTXOS_BY_ASSET)}
       = UNION {{<<ListItem(<<a.policy, a.name>>, UtxoSuffix(u)),
                   [address |-> Known(u.out.address), amount |-> a.amount]>> :
                   a \in ToSet(AssetsOf(u.out.assets))} : u \in Live}
    /\ {<<decode_utxos_by_policy_key(k), decode_utxos_by_policy_value(db[k])>> :
          k \in Keys(REDUCER_UTXOS_BY_POLICY)}
       = UNION {{<<ListItem(p.policy, UtxoSuffix(u)),
                   [address |-> Known(u.out.address), assets |-> p.assets]>> :
                   p \in ToSet(u.out.assets)} : u \in Live}

\* The balance kept for an address by increments and decrements
\* (balance_by_address, behind a filter that names the address) is the sum
\* of its unspent outputs: no merge, failed transaction, output spent in its
\* own block, transaction the filter skips or rollback makes it drift.
BalanceIsUtxoSum ==
  Flushed =>
    \A a \in Followed :
      Amount(Get(db, encode_lovelace_by_address_key(Encoder, a)))
      = MapThenSumSet(LAMBDA u : u.out.coin, {u \in Live : u.out.address = a})

\* The supply counted from mints and burns (supply_by_asset) is what the
\* unspent outputs listed under the asset hold (utxos_by_asset): two
\* reducers that look at different parts of a transaction agree.
SupplyIsCirculation ==
  Flushed =>
    \A a \in Assets :
      Amount(Get(db, encode_supply_by_asset_key(Encoder, a[1], a[2])))
      = MapThenSumSet(LAMBDA k : decode_utxos_by_asset_value(db[k]).amount,
                      KeysIn(db, encode_asset_utxos_range(Encoder, a[1], a[2], None, None)))

\* The transaction count of an address (tx_count_by_address) is the length
\* of the list of its transactions (txs_by_address).
CountIsListLength ==
  Flushed =>
    \A a \in Addresses :
      Amount(Get(db, encode_tx_count_by_address_key(Encoder, a)))
      = Cardinality(KeysIn(db, encode_address_txs_range(Encoder, a, None, None)))

\* every transaction of the chain with its place and the outputs it moves
HistoryOf(bs) ==
  LET all == Outputs(bs)
  IN  UNION {{[tx |-> bs[i].txs[j], slot |-> bs[i].slot, index |-> j - 1,
               spent |-> {all[r].out : r \in ToSet(consumes(bs[i].txs[j])) \cap DOMAIN all},
               made |-> {x.out : x \in ToSet(produces(bs[i].txs[j]))}] :
                j \in DOMAIN bs[i].txs} : i \in DOMAIN bs}
History == HistoryOf(chain)

AddressesOf(outs) == {o.address : o \in outs}
CredsOf(outs) == {a.payment : a \in {x \in AddressesOf(outs) : IsShelley(x)}}
PoliciesOf(outs) == UNION {{p.policy : p \in ToSet(o.assets)} : o \in outs}

\* The transaction lists of addresses and of payment credentials
\* (txs_by_address, txs_by_pay_cred) hold exactly the transactions of the
\* chain that spend from, pay to or are signed by them, with the right
\* flags, failed transactions included.
HistoryIsComplete ==
  Flushed =>
    /\ {<<decode_txs_by_address_key(k), decode_txs_by_address_value(db[k])>> :
          k \in Keys(REDUCER_TXS_BY_ADDRESS)}
       = UNION {{<<ListItem(Known(a), <<h.slot, h.index, h.tx.hash>>),
                   [input |-> a \in AddressesOf(h.spent), output |-> a \in AddressesOf(h.made)]>> :
                   a \in AddressesOf(h.spent \cup h.made)} : h \in History}
    /\ {<<decode_txs_by_payment_cred_key(k), decode_txs_by_payment_cred_value(db[k])>> :
          k \in Keys(REDUCER_TXS_BY_PAY_CRED)}
       = UNION {LET signers == {<<0, key>> : key \in ToSet(h.tx.signers)}
                IN  {<<ListItem(c, <<h.slot, h.index, h.tx.hash>>),
                       [input |-> c \in CredsOf(h.spent), output |-> c \in CredsOf(h.made),
                        signer |-> c \in signers]>> :
                       c \in CredsOf(h.spent \cup h.made) \cup signers} : h \in History}

\* txs_by_policy looks at mints and outputs only; since a valid transaction
\* pays out or burns what it spends, every valid transaction that spends,
\* pays out, mints or burns an asset of a policy is in the policy's list.
PolicyHistoryIsComplete ==
  Flushed =>
    \A h \in History :
      h.tx.valid =>
        \A p \in PoliciesOf(h.spent \cup h.made) \cup {m.policy : m \in ToSet(h.tx.mint)} :
          LET k == encode_txs_by_policy_key(Encoder, p, h.slot, h.index)
          IN  /\ k \in DOMAIN db
              /\ {<<p, n>> : n \in ToSet(decode_txs_by_policy_value(db[k]).names)}
                 = {a \in Assets :
                      /\ a[1] = p
                      /\ \/ AmountIn(h.tx.mint, a[1], a[2]) # 0
                         \/ \E o \in h.spent \cup h.made : AmountIn(o.assets, a[1], a[2]) # 0}

\* What the chain has said about a datum hash: the bytes, only the hash, or
\* nothing.  datum_by_hash says the same: bytes once seen are not lost to a
\* later output that only has the hash, and a rollback forgets them.
DatumsResolve ==
  Flushed =>
    LET said == UNION {UNION {ToSet(Optional(o.datum, NoDatum)) :
                                o \in ToSet(tx.outputs \o Optional(tx.collret, NoOutput))}
                       \cup ToSet(tx.data) : tx \in ToSet(TxsOf(chain))}
    IN  {<<k[5], db[k]>> : k \in Keys(REDUCER_DATUM_BY_HASH)}
        = {<<h, LET full == {d \in said : d.hash = h /\ d.bytes # Absent}
                IN  IF full = {} THEN <<>> ELSE <<(CHOOSE d \in full : TRUE).bytes>> >> :
             h \in {d.hash : d \in said}}

\* script_by_hash keeps the first transaction of the chain that shows the
\* script ("will only write this key once on first occurrence"), also after
\* the block of an earlier or later occurrence was rolled back.
ScriptIsFirstSeen ==
  Flushed =>
    \A k \in Keys(REDUCER_SCRIPT_BY_HASH) :
      LET shows == {h \in History : \E x \in ToSet(ScriptByHash([slot |-> h.slot, txs |-> <<h.tx>>])) :
                                      x.hash = k[5]}
      IN  \E h \in shows :
            /\ db[k][1] = h.tx.hash /\ db[k][2] = h.slot
            /\ \A g \in shows : h.slot < g.slot \/ (h.slot = g.slot /\ h.index <= g.index)

\* cip25_metadata_by_asset holds the 721 metadata of the latest valid mint
\* of the asset that carries one, and nothing once that mint is rolled back.
\* That is what the code does: the comment on top of the reducer says that a
\* value is only written when the metadata have the "expected fields (policy
\* -> name) for the asset" (cip25_metadata_by_asset.rs:4), which process_tx
\* never looks at.  So metadata that do not describe the asset replace older
\* ones that do.
MetadataIsLatestMint ==
  Flushed =>
    \A a \in Assets :
      LET mints == {h \in History : /\ h.tx.valid /\ h.tx.metadata # NoMetadata
                                    /\ h.tx.metadata.label721 # Absent /\ AmountIn(h.tx.mint, a[1], a[2]) > 0}
          v == Get(db, encode_cip25_metadata_by_asset_key(Encoder, a[1], a[2]))
      IN  IF mints = {} THEN v = Absent
          ELSE \E h \in mints :
                 /\ v = <<h.tx.metadata.label721>>
                 /\ \A g \in mints : g.slot < h.slot \/ (g.slot = h.slot /\ g.index <= h.index)

\* An asset with a supply has an entry among the updates of its policy that
\* names it: asset_info unwraps the first such entry after reading a supply.
SupplyHasUpdate ==
  \A a \in Assets :
    encode_supply_by_asset_key(Encoder, a[1], a[2]) \in DOMAIN db =>
      \E k \in KeysIn(db, encode_updates_by_policy_range(Encoder, a[1], None, None)) :
        \E u \in ToSet(decode_updates_by_policy_value(db[k]).assets) : u.name = a[2]

\* What tx_info reads from different reducers fits together: exactly the
\* heights up to the cursor's have a block, its hash leads back to the
\* height, every transaction it names is stored and placed at that height
\* and position, and no transaction of an abandoned block is left.
BlocksAgree ==
  Flushed /\ chain # <<>> =>
    LET cursor == decode_cursor_value(db[encode_cursor_key(Encoder)])
        blockAt(i) == decode_block_by_height_value(db[encode_block_by_height_key(Encoder, i)])
    IN  /\ cursor = Tip(chain)
        /\ \A i \in 1..(MaxBlocks + 1) :
             encode_block_by_height_key(Encoder, i) \in DOMAIN db <=> i <= cursor.height
        /\ \A i \in 1..cursor.height :
             /\ db[encode_height_by_block_hash_key(Encoder, blockAt(i).hash)] = <<i>>
             /\ \A j \in DOMAIN blockAt(i).txs :
                  LET hash == blockAt(i).txs[j]
                  IN  /\ decode_block_by_tx_value(db[encode_block_by_tx_key(Encoder, hash)])
                          = [height |-> i, index |-> j - 1]
                      /\ db[encode_tx_by_hash_key(Encoder, hash)][1].hash = hash
        /\ Cardinality(Keys(REDUCER_BLOCK_BY_TX)) = Len(TxsOf(chain))
        /\ Cardinality(Keys(REDUCER_TX_BY_HASH)) = Len(TxsOf(chain))
        /\ Cardinality(Keys(REDUCER_BLOCK_BY_HEIGHT)) = 2 * cursor.height

\* The three aggregates kept by deltas (balances, supplies, counts) are what
\* adding up the lists they summarise gives, after every merge, failed
\* transaction and rollback.
AggregatesAreSums == BalanceIsUtxoSum /\ SupplyIsCirculation /\ CountIsListLength

\* Nothing is missing from the transaction lists of addresses, credentials
\* and policies, and nothing of an abandoned block is left in them.
HistoriesAreComplete == HistoryIsComplete /\ PolicyHistoryIsComplete

\* The keys that several blocks write (data, scripts, metadata) hold the
\* occurrence that each reducer promises: the fullest, the first, the last,
\* of the chain as it is now.
LookupsAreTheChain == DatumsResolve /\ ScriptIsFirstSeen /\ MetadataIsLatestMint

\* What one request reads from several reducers fits together, and the
\* batch is empty whenever a block can be undone.
RecordsAgree == TypeOK /\ BlocksAgree /\ SupplyHasUpdate
=============================================================================
