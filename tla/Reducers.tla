------------------------------ MODULE Reducers ------------------------------
(***************************************************************************)
(* The reducers of polyphony: what each one emits for a block              *)
(* (reducers/*.rs), the filters and error policies that decide what it     *)
(* skips (crosscut/), and the storage action every output becomes          *)
(* (storage/tikv.rs, reducer_output_to_storage_ops).                       *)
(*                                                                         *)
(* A block is [slot, hash, height, size, header, txs].  A transaction is   *)
(*   [hash, valid, inputs, collateral, outputs, collret, mint, metadata,   *)
(*    fee, data, scripts, signers, withdrawals, redeemers]                 *)
(* with references <<tx, index>>, an output [address, coin, assets, datum, *)
(* script] (or NoOutput), assets and mints as sequences of                 *)
(* [policy, assets : Seq([name, amount])], a datum [hash, bytes] whose     *)
(* bytes are Absent when only the hash is known (or NoDatum), a script     *)
(* [kind, hash, bytes] (or NoScript), and metadata [label721, bytes] (or   *)
(* NoMetadata), where label721 is Absent or the value of that label,       *)
(* [named, bytes], with the assets <<policy, name>> it really describes.   *)
(* The context of a block maps the references it consumes to [slot, out],  *)
(* the slot being that of the block that produced the output.              *)
(***************************************************************************)
EXTENDS Timbre

CONSTANTS
  Absent,                           \* no value
  NoOutput, NoDatum, NoScript, NoMetadata, NoFilter,
  MissingData, AnyError,            \* RuntimePolicy: "none", "skip", "warn" or "default"
  Filters,                          \* the predicate (or NoFilter) of each reducer that takes one
  CborFilter                        \* the addresses UtxoCborByAddress keeps, or NoFilter

INSTANCE StorageActions WITH Bytes <- {}, Absent <- Absent, EmptyBytes <- <<>>

Map(Op(_), s) == [i \in DOMAIN s |-> Op(s[i])]
FlatMap(Op(_), s) == FlattenSeq(Map(Op, s))
Unique(s) == FoldLeft(LAMBDA seen, x : IF Contains(seen, x) THEN seen ELSE Append(seen, x), <<>>, s)
Total(Of(_), s) == FoldLeft(LAMBDA sum, x : sum + Of(x), 0, s)
Optional(x, none) == IF x = none THEN <<>> ELSE <<x>>

-----------------------------------------------------------------------------
(* The ledger's view of a transaction (external: pallas).                  *)

consumes(tx) == Unique(IF tx.valid THEN tx.inputs ELSE tx.collateral)

\* a transaction that fails its scripts only produces its collateral return
produces(tx) ==
  IF tx.valid
  THEN [i \in DOMAIN tx.outputs |-> [ref |-> <<tx.hash, i - 1>>, out |-> tx.outputs[i]]]
  ELSE Map(LAMBDA o : [ref |-> <<tx.hash, Len(tx.outputs)>>, out |-> o],
           Optional(tx.collret, NoOutput))

\* block.txs() with their position in the block
txs(b) == [i \in DOMAIN b.txs |-> [index |-> i - 1, tx |-> b.txs[i]]]

\* every single asset of a multi-asset value
AssetsOf(value) ==
  FlatMap(LAMBDA p : Map(LAMBDA a : [policy |-> p.policy, name |-> a.name, amount |-> a.amount],
                         p.assets),
          value)

-----------------------------------------------------------------------------
(* Error policies: an output that is not in the context is skipped, or the *)
(* worker panics.                                                          *)

handle_error(action) == action \in {"skip", "warn"}

SkipsMissing == handle_error(IF AnyError # "none" THEN AnyError ELSE MissingData)

\* the outputs a list of references finds in the context
find_utxos(refs, ctx) ==
  Map(LAMBDA r : [ref |-> r, slot |-> ctx[r].slot, out |-> ctx[r].out],
      SelectSeq(refs, LAMBDA r : r \in DOMAIN ctx))

find_consumed_txos(tx, ctx) == find_utxos(consumes(tx), ctx)

-----------------------------------------------------------------------------
(* Filters.                                                                *)

\* (external) a Byron address has no script; a withdrawal is of a stake address [stake]
has_script(a) ==
  \/ "payment" \in DOMAIN a /\ a.payment[1] = 1
  \/ "stake" \in DOMAIN a /\ a.stake[1] = 1

\* An address pattern: a set of alternatives, and is_script (or Absent) when
\* none of them matches.
matches(pattern, a) ==
  \/ a \in pattern.exact
  \/ IsShelley(a) /\ a.payment \in pattern.payment
  \/ IsShelley(a) /\ a.delegation \in pattern.stake
  \/ pattern.is_script # Absent /\ pattern.is_script = has_script(a)

eval_output_address(tx, pattern) ==
  \E i \in DOMAIN tx.outputs : matches(pattern, tx.outputs[i].address)

AnyAddress(found, pattern) == \E i \in DOMAIN found : matches(pattern, found[i].out.address)

eval_input_address(tx, ctx, pattern) == AnyAddress(find_utxos(tx.inputs, ctx), pattern)
eval_collateral_address(tx, ctx, pattern) == AnyAddress(find_utxos(tx.collateral, ctx), pattern)

eval_withdrawal_address(tx, pattern) ==
  \E i \in DOMAIN tx.withdrawals : matches(pattern, tx.withdrawals[i])

\* (mutant) only what the transaction pays to
eval_address_of_outputs(tx, ctx, pattern) == eval_output_address(tx, pattern)

eval_address(tx, ctx, pattern) ==
  \/ eval_output_address(tx, pattern)
  \/ eval_input_address(tx, ctx, pattern)
  \/ eval_withdrawal_address(tx, pattern)
  \/ eval_collateral_address(tx, ctx, pattern)

\* slot_before only counts when slot_after is not given
eval_block(b, pattern) ==
  IF pattern.slot_after # Absent THEN b.slot > pattern.slot_after
  ELSE pattern.slot_before # Absent /\ b.slot < pattern.slot_before

eval_transaction(tx, pattern) == pattern.is_valid # Absent /\ tx.valid = pattern.is_valid

RECURSIVE eval_predicate(_, _, _, _)
eval_predicate(p, b, tx, ctx) ==
  CASE p.kind = "not" -> ~eval_predicate(p.of, b, tx, ctx)
    [] p.kind = "any_of" -> \E i \in DOMAIN p.of : eval_predicate(p.of[i], b, tx, ctx)
    [] p.kind = "all_of" -> \A i \in DOMAIN p.of : eval_predicate(p.of[i], b, tx, ctx)
    [] p.kind = "output_address" -> eval_output_address(tx, p.of)
    [] p.kind = "input_address" -> eval_input_address(tx, ctx, p.of)
    [] p.kind = "withdrawal_address" -> eval_withdrawal_address(tx, p.of)
    [] p.kind = "collateral_address" -> eval_collateral_address(tx, ctx, p.of)
    [] p.kind = "address" -> eval_address(tx, ctx, p.of)
    [] p.kind = "block" -> eval_block(b, p.of)
    [] p.kind = "transaction" -> eval_transaction(tx, p.of)

filter_matches(reducer, b, tx, ctx) ==
  Filters[reducer] = NoFilter \/ eval_predicate(Filters[reducer], b, tx, ctx)

\* whether a lookup that stops at the first match meets a missing output before it
LookupFails(refs, ctx, pattern) ==
  \E i \in DOMAIN refs : /\ refs[i] \notin DOMAIN ctx
                         /\ ~AnyAddress(find_utxos(SubSeq(refs, 1, i - 1), ctx), pattern)

\* whether evaluating a predicate gets to an output that is missing
RECURSIVE PredicateFails(_, _, _, _)
PredicateFails(p, b, tx, ctx) ==
  CASE p.kind = "not" -> PredicateFails(p.of, b, tx, ctx)
    [] p.kind = "any_of" ->
         \E i \in DOMAIN p.of : /\ PredicateFails(p.of[i], b, tx, ctx)
                                /\ \A j \in 1..(i - 1) : ~eval_predicate(p.of[j], b, tx, ctx)
    [] p.kind = "all_of" ->
         \E i \in DOMAIN p.of : /\ PredicateFails(p.of[i], b, tx, ctx)
                                /\ \A j \in 1..(i - 1) : eval_predicate(p.of[j], b, tx, ctx)
    [] p.kind = "input_address" -> LookupFails(tx.inputs, ctx, p.of)
    [] p.kind = "collateral_address" -> LookupFails(tx.collateral, ctx, p.of)
    [] p.kind = "address" ->
         /\ ~eval_output_address(tx, p.of)
         /\ \/ LookupFails(tx.inputs, ctx, p.of)
            \/ /\ ~eval_input_address(tx, ctx, p.of) /\ ~eval_withdrawal_address(tx, p.of)
               /\ LookupFails(tx.collateral, ctx, p.of)
    [] OTHER -> FALSE

FilterFails(reducer, b, tx, ctx) ==
  Filters[reducer] # NoFilter /\ PredicateFails(Filters[reducer], b, tx, ctx)

\* Reducing the block gets to its end unless a reducer or its filter asks for
\* an output that is not in the context and may not be missing.
CanReduce(b, ctx) ==
  ~(/\ ~SkipsMissing
    /\ \E tx \in ToSet(b.txs) :
         \/ ~(ToSet(consumes(tx)) \subseteq DOMAIN ctx)
         \/ \E reducer \in DOMAIN Filters : FilterFails(reducer, b, tx, ctx))

\* the transactions of a block that pass the reducer's filter
Filtered(reducer, b, ctx) == SelectSeq(txs(b), LAMBDA t : filter_matches(reducer, b, t.tx, ctx))
Valid(b) == SelectSeq(txs(b), LAMBDA t : t.tx.valid)

-----------------------------------------------------------------------------
(* The reducers: the outputs of one block, in the order they are pushed.   *)

BalanceByAddress(b, ctx) ==
  FlatMap(LAMBDA t :
            Map(LAMBDA x : [address |-> x.out.address, amount |-> x.out.coin, increment |-> FALSE],
                find_consumed_txos(t.tx, ctx))
            \o Map(LAMBDA x : [address |-> x.out.address, amount |-> x.out.coin, increment |-> TRUE],
                   produces(t.tx)),
          Filtered("BalanceByAddress", b, ctx))

CoinOf(x) == x.out.coin

compute_byron_tx_fee(tx, ctx) ==
  Total(CoinOf, find_consumed_txos(tx, ctx)) - Total(CoinOf, produces(tx))

compute_total_collateral(tx, ctx) ==
  Total(CoinOf, find_utxos(Unique(tx.collateral), ctx))
  - Total(LAMBDA o : o.coin, Optional(tx.collret, NoOutput))

\* a Byron transaction has no fee field
FeeOf(tx, ctx) ==
  IF ~tx.valid THEN compute_total_collateral(tx, ctx)
  ELSE IF tx.fee = Absent THEN compute_byron_tx_fee(tx, ctx) ELSE tx.fee

BlockByHeight(b, ctx) ==
  LET rdmrs == FlatMap(LAMBDA tx : tx.redeemers, b.txs)
  IN  << [hash |-> b.hash, height |-> b.height, header |-> b.header, size |-> b.size,
          txs |-> [i \in DOMAIN b.txs |-> b.txs[i].hash],
          output |-> Total(LAMBDA t : Total(LAMBDA o : o.coin, t.tx.outputs), Valid(b)),
          fees |-> Total(LAMBDA tx : FeeOf(tx, ctx), b.txs),
          invocations |-> Len(rdmrs),
          mem |-> Total(LAMBDA r : r.mem, rdmrs),
          steps |-> Total(LAMBDA r : r.steps, rdmrs)] >>

BlockByTx(b) ==
  [i \in DOMAIN b.txs |->
     [tx_hash |-> b.txs[i].hash, block_height |-> b.height, block_index |-> i - 1]]

\* for every asset minted, whether or not the 721 metadata describe it
Cip25MetadataByAsset(b) ==
  FlatMap(LAMBDA t :
            IF t.tx.metadata = NoMetadata \/ t.tx.metadata.label721 = Absent THEN <<>>
            ELSE Map(LAMBDA a : [policy |-> a.policy, name |-> a.name,
                                 metadata_721 |-> t.tx.metadata.label721],
                     SelectSeq(AssetsOf(t.tx.mint), LAMBDA a : a.amount > 0)),
          Valid(b))

\* outputs and the collateral return first, the witnesses last; also of
\* transactions that are not valid
DatumByHash(b, ctx) ==
  FlatMap(LAMBDA t : FlatMap(LAMBDA o : Optional(o.datum, NoDatum),
                             t.tx.outputs \o Optional(t.tx.collret, NoOutput))
                     \o t.tx.data,
          Filtered("DatumByHash", b, ctx))

MintMetadataByAsset(b) ==
  FlatMap(LAMBDA t :
            IF t.tx.metadata = NoMetadata THEN <<>>
            ELSE Map(LAMBDA a : [policy |-> a.policy, name |-> a.name, slot |-> b.slot,
                                 tx_block_index |-> t.index, tx_hash |-> t.tx.hash,
                                 amount |-> a.amount, metadata |-> t.tx.metadata.bytes],
                     SelectSeq(AssetsOf(t.tx.mint), LAMBDA a : a.amount # 0)),
          Valid(b))

ScriptByHash(b) ==
  FlatMap(LAMBDA tx :
            Map(LAMBDA x : [hash |-> x.hash, kind |-> x.kind, bytes |-> x.bytes,
                            tx_hash |-> tx.hash, slot |-> b.slot],
                FlatMap(LAMBDA o : Optional(o.script, NoScript),
                        tx.outputs \o Optional(tx.collret, NoOutput)) \o tx.scripts),
          b.txs)

SupplyDelta(a) == [policy |-> a.policy, asset_name |-> a.name, delta |-> a.amount]

SupplyByAsset(b) ==
  FlatMap(LAMBDA t : Map(SupplyDelta, AssetsOf(t.tx.mint)), Valid(b))

TxByHash(b, ctx) ==
  Map(LAMBDA t : [tx_hash |-> t.tx.hash, tx_bytes |-> <<t.tx>>], Filtered("TxByHash", b, ctx))

\* the addresses a transaction spends from and pays to
Touched(tx, ctx) ==
  Map(LAMBDA x : x.out.address, find_consumed_txos(tx, ctx) \o produces(tx))

\* once per transaction and address
TxCountByAddress(b, ctx) ==
  FlatMap(LAMBDA t : Map(LAMBDA a : [address |-> a], Unique(Touched(t.tx, ctx))),
          Filtered("TxCountByAddress", b, ctx))

TxsByAddress(b, ctx) ==
  FlatMap(LAMBDA t :
            LET in  == Map(LAMBDA x : x.out.address, find_consumed_txos(t.tx, ctx))
                out == Map(LAMBDA x : x.out.address, produces(t.tx))
            IN  Map(LAMBDA a : [address |-> a, slot |-> b.slot, tx_hash |-> t.tx.hash,
                                tx_block_index |-> t.index,
                                input |-> Contains(in, a), output |-> Contains(out, a)],
                    Unique(in \o out)),
          Filtered("TxsByAddress", b, ctx))

\* Shelley credentials of inputs and outputs, and the required signers
TxsByPayCred(b, ctx) ==
  FlatMap(LAMBDA t :
            LET creds(xs) == Map(LAMBDA x : x.out.address.payment,
                                 SelectSeq(xs, LAMBDA x : IsShelley(x.out.address)))
                in  == creds(find_consumed_txos(t.tx, ctx))
                out == creds(produces(t.tx))
                signers == Map(LAMBDA key : <<0, key>>, t.tx.signers)
            IN  Map(LAMBDA c : [payment_cred |-> c, slot |-> b.slot, tx_hash |-> t.tx.hash,
                                tx_block_index |-> t.index, input |-> Contains(in, c),
                                output |-> Contains(out, c), required_signer |-> Contains(signers, c)],
                    Unique(in \o out \o signers)),
          Filtered("TxsByPayCred", b, ctx))

\* (mutant) only what is paid out
TxsByPolicyOfOutputs(b) ==
  FlatMap(LAMBDA t :
            LET value == FlatMap(LAMBDA o : o.assets, t.tx.outputs)
                names(p) == Map(LAMBDA a : a.name,
                                SelectSeq(AssetsOf(value), LAMBDA a : a.policy = p /\ a.amount # 0))
            IN  Map(LAMBDA p : [policy |-> p, slot |-> b.slot, tx_hash |-> t.tx.hash,
                                tx_block_index |-> t.index, assets |-> Unique(names(p))],
                    Unique(Map(LAMBDA v : v.policy, value))),
          Valid(b))

\* A policy is listed with the names minted or paid out in an amount that is
\* not zero, and also when all its amounts are zero.  Inputs are not looked
\* at, and neither are transactions that failed.
TxsByPolicy(b) ==
  FlatMap(LAMBDA t :
            LET value == t.tx.mint \o FlatMap(LAMBDA o : o.assets, t.tx.outputs)
                names(p) == Map(LAMBDA a : a.name,
                                SelectSeq(AssetsOf(value), LAMBDA a : a.policy = p /\ a.amount # 0))
            IN  Map(LAMBDA p : [policy |-> p, slot |-> b.slot, tx_hash |-> t.tx.hash,
                                tx_block_index |-> t.index, assets |-> Unique(names(p))],
                    Unique(Map(LAMBDA v : v.policy, value))),
          Valid(b))

UpdatesByPolicy(b) ==
  FlatMap(LAMBDA t : Map(LAMBDA p : [policy |-> p.policy, slot |-> b.slot, tx_hash |-> t.tx.hash,
                                     tx_block_index |-> t.index, assets |-> p.assets],
                         t.tx.mint),
          Valid(b))

\* the references a block both produces and consumes
chained_txo_refs(b) ==
  ToSet(FlatMap(LAMBDA tx : Map(LAMBDA x : x.ref, produces(tx)), b.txs))
  \cap ToSet(FlatMap(consumes, b.txs))

\* (mutant) a consumed output is looked for under the slot of this block
MovedAtThisSlot(b, ctx) ==
  SelectSeq(FlatMap(LAMBDA tx :
                      Map(LAMBDA x : [ref |-> x.ref, slot |-> b.slot, out |-> x.out, produced |-> FALSE],
                          find_consumed_txos(tx, ctx))
                      \o Map(LAMBDA x : [ref |-> x.ref, slot |-> b.slot, out |-> x.out, produced |-> TRUE],
                             produces(tx)),
                    b.txs),
            LAMBDA m : m.ref \notin chained_txo_refs(b))

\* Every output a block consumes or produces, chained ones left out: what
\* the three UTxO reducers have in common.  A consumed output is known by
\* the slot of the block that produced it.
MovedUtxos(b, ctx) ==
  SelectSeq(FlatMap(LAMBDA tx :
                      Map(LAMBDA x : [ref |-> x.ref, slot |-> x.slot, out |-> x.out, produced |-> FALSE],
                          find_consumed_txos(tx, ctx))
                      \o Map(LAMBDA x : [ref |-> x.ref, slot |-> b.slot, out |-> x.out, produced |-> TRUE],
                             produces(tx)),
                    b.txs),
            LAMBDA m : m.ref \notin chained_txo_refs(b))

UtxoCborByAddress(b, ctx) ==
  SelectSeq(MovedUtxos(b, ctx), LAMBDA m : CborFilter = NoFilter \/ m.out.address \in CborFilter)

UtxosByAsset(b, ctx) ==
  FlatMap(LAMBDA m : Map(LAMBDA a : [policy |-> a.policy, asset_name |-> a.name, amount |-> a.amount,
                                     slot |-> m.slot, ref |-> m.ref, address |-> m.out.address,
                                     produced |-> m.produced],
                         AssetsOf(m.out.assets)),
          MovedUtxos(b, ctx))

UtxosByPolicy(b, ctx) ==
  FlatMap(LAMBDA m : Map(LAMBDA p : [policy |-> p.policy, assets |-> p.assets, slot |-> m.slot,
                                     ref |-> m.ref, address |-> m.out.address, produced |-> m.produced],
                         m.out.assets),
          MovedUtxos(b, ctx))

-----------------------------------------------------------------------------
(* Outputs become storage actions on keys (reducer_output_to_storage_ops). *)

On(key, act) == [key |-> key, act |-> act]

BalanceOp(e, o) ==
  On(encode_lovelace_by_address_key(e, o.address),
     IF o.increment THEN IncrementU64(o.amount) ELSE DecrementU64(o.amount))
HeightByHashOp(e, o) == On(encode_height_by_block_hash_key(e, o.hash), Set(<<o.height>>))
BlockByHeightOp(e, o) ==
  On(encode_block_by_height_key(e, o.height), Set(encode_block_by_height_value(o)))
BlockByTxOp(e, o) ==
  On(encode_block_by_tx_key(e, o.tx_hash), Set(encode_block_by_tx_value(o.block_height, o.block_index)))

Cip25Op(e, o) ==
  On(encode_cip25_metadata_by_asset_key(e, o.policy, o.name), Set(<<o.metadata_721>>))

\* (mutant) a hash without bytes overwrites
DatumOpOverwrites(e, o) ==
  On(encode_datum_by_hash_key(e, o.hash), Set(IF o.bytes = Absent THEN <<>> ELSE <<o.bytes>>))

\* a hash alone never overwrites the bytes
DatumOp(e, o) ==
  On(encode_datum_by_hash_key(e, o.hash), IF o.bytes = Absent THEN Insert(<<>>) ELSE Set(<<o.bytes>>))

MintMetadataOp(e, o) ==
  On(encode_mint_metadata_by_asset_key(e, o.policy, o.name, o.slot, o.tx_block_index),
     Set(encode_mint_metadata_by_asset_value(o.tx_hash, o.amount, o.metadata)))

ScriptOp(e, o) ==
  On(encode_script_by_hash_key(e, o.hash),
     Insert(encode_script_by_hash_value(o.tx_hash, o.slot, o.kind, o.bytes)))

SupplyOp(e, o) ==
  On(encode_supply_by_asset_key(e, o.policy, o.asset_name),
     IF o.delta < 0 THEN DecrementU128NoDelete(-o.delta) ELSE IncrementU128(o.delta))

TxByHashOp(e, o) == On(encode_tx_by_hash_key(e, o.tx_hash), Set(o.tx_bytes))
TxCountOp(e, o) == On(encode_tx_count_by_address_key(e, o.address), IncrementU64(1))
TxsByAddressOp(e, o) ==
  On(encode_txs_by_address_key(e, o.address, o.slot, o.tx_block_index, o.tx_hash),
     Set(encode_txs_by_address_value(o.input, o.output)))
TxsByPayCredOp(e, o) ==
  On(encode_txs_by_payment_cred_key(e, o.payment_cred, o.slot, o.tx_block_index, o.tx_hash),
     Set(encode_txs_by_payment_cred_value(o.input, o.output, o.required_signer)))
TxsByPolicyOp(e, o) ==
  On(encode_txs_by_policy_key(e, o.policy, o.slot, o.tx_block_index),
     Set(encode_txs_by_policy_value(o.tx_hash, o.assets)))
UpdatesOp(e, o) ==
  On(encode_updates_by_policy_key(e, o.policy, o.slot, o.tx_block_index),
     Set(encode_updates_by_policy_value(o.tx_hash, o.assets)))

\* a consumed output is deleted, a produced one set
Move(key, produced, value) == On(key, IF produced THEN Set(value) ELSE Delete)

UtxoCborOp(e, o) ==
  Move(IF IsShelley(o.out.address)
       THEN encode_utxos_by_shelley_address_key(e, o.out.address, o.slot, o.ref[1], o.ref[2])
       ELSE encode_utxos_by_byron_address_key(e, o.out.address, o.slot, o.ref[1], o.ref[2]),
       o.produced, <<o.out>>)
UtxosByAssetOp(e, o) ==
  Move(encode_utxos_by_asset_key(e, o.policy, o.asset_name, o.slot, o.ref[1], o.ref[2]),
       o.produced, encode_utxos_by_asset_value(o.address, o.amount))
UtxosByPolicyOp(e, o) ==
  Move(encode_utxos_by_policy_key(e, o.policy, o.slot, o.ref[1], o.ref[2]),
       o.produced, encode_utxos_by_policy_value(o.address, o.assets))

\* the wall clock in the info value is not modelled
CursorOps(e, point) ==
  <<On(encode_cursor_key(e), Set(encode_cursor_value(point)))>>
  \o IF point = Origin THEN <<>> ELSE <<On(encode_info_key(e), Set(encode_info_value(point, 0)))>>

-----------------------------------------------------------------------------
(* Worker::reduce_block with every reducer configured, the cursor last.    *)

Point(b) == [slot |-> b.slot, hash |-> b.hash, height |-> b.height]

ReduceBlock(e, b, ctx) ==
  LET ops(Op(_, _), outputs) == Map(LAMBDA o : Op(e, o), outputs)
  IN  ops(BalanceOp, BalanceByAddress(b, ctx))
      \o ops(HeightByHashOp, BlockByHeight(b, ctx)) \o ops(BlockByHeightOp, BlockByHeight(b, ctx))
      \o ops(BlockByTxOp, BlockByTx(b))
      \o ops(DatumOp, DatumByHash(b, ctx))
      \o ops(Cip25Op, Cip25MetadataByAsset(b))
      \o ops(MintMetadataOp, MintMetadataByAsset(b))
      \o ops(ScriptOp, ScriptByHash(b))
      \o ops(SupplyOp, SupplyByAsset(b))
      \o ops(TxByHashOp, TxByHash(b, ctx))
      \o ops(TxCountOp, TxCountByAddress(b, ctx))
      \o ops(TxsByAddressOp, TxsByAddress(b, ctx))
      \o ops(TxsByPayCredOp, TxsByPayCred(b, ctx))
      \o ops(TxsByPolicyOp, TxsByPolicy(b))
      \o ops(UpdatesOp, UpdatesByPolicy(b))
      \o ops(UtxoCborOp, UtxoCborByAddress(b, ctx))
      \o ops(UtxosByAssetOp, UtxosByAsset(b, ctx))
      \o ops(UtxosByPolicyOp, UtxosByPolicy(b, ctx))
      \o CursorOps(e, Point(b))
=============================================================================
