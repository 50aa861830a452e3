------------------------------- MODULE Timbre -------------------------------
(***************************************************************************)
(* What polyphony writes and mapi reads (crates/timbre): how the keys of   *)
(* every reducer, their ranges, the values and the page cursors are laid   *)
(* out and read back.                                                      *)
(***************************************************************************)
EXTENDS KeySpace, SequencesExt

-----------------------------------------------------------------------------
(* What is read back.                                                      *)

From(s, i) == SubSeq(s, i, Len(s))

\* what is decoded, and how much of the input it took
Decoded(x, n) == [value |-> x, len |-> n]

decode_short_bytestring(b) == Decoded(SubSeq(b, 2, 1 + b[1]), 1 + b[1])

decode_shelley_address(b) ==
  LET n == DelegationLen(b[5])
  IN  Decoded([network |-> b[1], payment |-> SubSeq(b, 2, 3), delegation |-> SubSeq(b, 5, 4 + n)],
              4 + n)

\* DecodedAddress: a long Byron address comes back as its hash only
decode_byron_address(b) ==
  IF b[1] = 0 THEN Decoded([byron |-> SubSeq(b, 3, 2 + b[2])], 2 + b[2])
  ELSE Decoded([hash |-> b[2]], 2)

decode_address_with_type(b) ==
  LET d == IF b[1] = ADDRESS_SHELLEY THEN decode_shelley_address(From(b, 2))
           ELSE decode_byron_address(From(b, 2))
  IN  Decoded(d.value, d.len + 1)

-----------------------------------------------------------------------------
(* Keys.                                                                   *)

encode_tx_by_hash_key(e, hash) == Data(e, REDUCER_TX_BY_HASH) \o <<hash>>
encode_tx_count_by_address_key(e, a) ==
  Data(e, REDUCER_TX_COUNT_BY_ADDRESS) \o encode_address_with_type(a)
encode_lovelace_by_address_key(e, a) ==
  Data(e, REDUCER_LOVELACE_BY_ADDRESS) \o encode_address_with_type(a)
encode_datum_by_hash_key(e, hash) == Data(e, REDUCER_DATUM_BY_HASH) \o <<hash>>
encode_block_by_height_key(e, height) == Data(e, REDUCER_BLOCK_BY_HEIGHT) \o <<48, height>>
encode_height_by_block_hash_key(e, hash) == Data(e, REDUCER_BLOCK_BY_HEIGHT) \o <<49, hash>>
encode_block_by_tx_key(e, hash) == Data(e, REDUCER_BLOCK_BY_TX) \o <<hash>>
encode_script_by_hash_key(e, hash) == Data(e, REDUCER_SCRIPT_BY_HASH) \o <<hash>>
encode_supply_by_asset_key(e, policy, name) ==
  Data(e, REDUCER_SUPPLY_BY_ASSET) \o <<policy, BREAK>> \o name
encode_cip25_metadata_by_asset_key(e, policy, name) ==
  Data(e, REDUCER_CIP25_METADATA_BY_ASSET) \o <<policy>> \o encode_short_bytestring(name)
encode_token_registry_by_asset_key(e, policy, name) ==
  e \o <<PREFIX_TOKEN_REGISTRY, policy>> \o name

encode_utxos_by_policy_key(e, policy, slot, u_hash, u_index) ==
  UtxosOfPolicy(e, policy) \o <<BREAK, slot, u_hash, u_index>>
encode_utxos_by_asset_key(e, policy, name, slot, u_hash, u_index) ==
  UtxosOfAsset(e, policy, name) \o <<BREAK, slot, u_hash, u_index>>
encode_utxos_by_shelley_address_key(e, a, slot, u_hash, u_index) ==
  UtxosOfShelley(e, a) \o <<BREAK, slot, u_hash, u_index>>
encode_utxos_by_byron_address_key(e, a, slot, u_hash, u_index) ==
  UtxosOfByron(e, a) \o <<BREAK, slot, u_hash, u_index>>
encode_txs_by_address_key(e, a, slot, index, hash) ==
  TxsOfAddress(e, a) \o <<BREAK, slot, index, hash>>
encode_txs_by_payment_cred_key(e, c, slot, index, hash) ==
  TxsOfPayCred(e, c) \o <<BREAK, slot, index, hash>>
encode_txs_by_policy_key(e, policy, slot, index) ==
  TxsOfPolicy(e, policy) \o <<BREAK, slot, index>>

\* (mutant) one entry per policy and block
UpdatesKeyOfBlock(e, policy, slot, index) == UpdatesOfPolicy(e, policy) \o <<BREAK, slot, 0>>

encode_updates_by_policy_key(e, policy, slot, index) ==
  UpdatesOfPolicy(e, policy) \o <<BREAK, slot, index>>
encode_mint_metadata_by_asset_key(e, policy, name, slot, index) ==
  MintsOfAsset(e, policy, name) \o <<BREAK, slot, index>>

\* an inverse operation for key k, the i-th of its block
encode_rollback_metadata_key(e, slot, hash, i, k) ==
  e \o <<PREFIX_ROLLBACK, BREAK, slot, hash, ROLLBACK_INVERSE_OPERATION, i>> \o k

-----------------------------------------------------------------------------
(* Ranges of lists.                                                        *)

encode_shelley_address_utxos_range(e, a, lower, upper) ==
  ListRange(UtxosOfShelley(e, a), lower, upper)
encode_byron_address_utxos_range(e, a, lower, upper) ==
  ListRange(UtxosOfByron(e, a), lower, upper)
encode_address_utxos_range(e, a, lower, upper) ==
  IF IsShelley(a) THEN encode_shelley_address_utxos_range(e, a, lower, upper)
  ELSE encode_byron_address_utxos_range(e, a, lower, upper)
encode_asset_utxos_range(e, policy, name, lower, upper) ==
  ListRange(UtxosOfAsset(e, policy, name), lower, upper)
encode_policy_utxos_range(e, policy, lower, upper) ==
  ListRange(UtxosOfPolicy(e, policy), lower, upper)
encode_address_txs_range(e, a, lower, upper) == ListRange(TxsOfAddress(e, a), lower, upper)
encode_txs_by_payment_cred_range(e, c, lower, upper) ==
  ListRange(TxsOfPayCred(e, c), lower, upper)
encode_txs_by_policy_range(e, policy, lower, upper) ==
  ListRange(TxsOfPolicy(e, policy), lower, upper)
encode_updates_by_policy_range(e, policy, lower, upper) ==
  ListRange(UpdatesOfPolicy(e, policy), lower, upper)
encode_supply_by_asset_range(e, policy, lower, upper) ==
  ListRange(SuppliesOfPolicy(e, policy), lower, upper)

\* called without bounds only
encode_mint_metadata_by_asset_range(e, policy, name) ==
  ListRange(MintsOfAsset(e, policy, name), None, None)

\* Every address of one payment credential, whatever it delegates to; a lower
\* bound is the address and the suffix of the last key served.
encode_utxos_by_payment_cred_range(e, network, payment, lower) ==
  LET all == Data(e, REDUCER_UTXOS_BY_SHELLEY_ADDRESS)
      own == all \o <<network>> \o encode_shelley_payment_cred(payment)
  IN  [start |-> IF lower = None THEN own \o <<BREAK>>
                 ELSE all \o encode_shelley_address(lower.address) \o <<BREAK>> \o lower.suffix \o <<0>>,
       end |-> own \o <<BREAK + 1>>]

-----------------------------------------------------------------------------
(* Values.                                                                 *)

Origin == [slot |-> 0, hash |-> 0, height |-> 0]

encode_cursor_value(point) ==
  IF point = Origin THEN <<79>> ELSE <<83, point.slot, point.hash, point.height>>
decode_cursor_value(b) ==
  IF b[1] = 79 THEN Origin ELSE [slot |-> b[2], hash |-> b[3], height |-> b[4]]

encode_info_value(point, timestamp) == <<point.height, point.hash, 0, timestamp>>

encode_utxos_by_asset_value(a, amount) == encode_address_with_type(a) \o <<amount>>
decode_utxos_by_asset_value(b) ==
  LET a == decode_address_with_type(b) IN [address |-> a.value, amount |-> b[a.len + 1]]

\* lists of entries, each starting with a name or an amount and a name
AmountThenName(x) == <<x.amount>> \o encode_short_bytestring(x.name)
NameThenAmount(x) == encode_short_bytestring(x.name) \o <<x.amount>>

Concat(Encode(_), xs) == FlattenSeq([i \in DOMAIN xs |-> Encode(xs[i])])

\* Take(b) decodes the first entry of b
DecodeAll(Take(_), b) ==
  LET from[i \in 1..(Len(b) + 1)] ==
        IF i > Len(b) THEN <<>>
        ELSE <<Take(From(b, i)).value>> \o from[i + Take(From(b, i)).len]
  IN  from[1]

TakeAmountThenName(b) ==
  LET n == decode_short_bytestring(From(b, 2))
  IN  Decoded([name |-> n.value, amount |-> b[1]], n.len + 1)
TakeNameThenAmount(b) ==
  LET n == decode_short_bytestring(b)
  IN  Decoded([name |-> n.value, amount |-> b[n.len + 1]], n.len + 1)

encode_utxos_by_policy_value(a, assets) ==
  encode_address_with_type(a) \o Concat(AmountThenName, assets)
decode_utxos_by_policy_value(b) ==
  LET a == decode_address_with_type(b)
  IN  [address |-> a.value, assets |-> DecodeAll(TakeAmountThenName, From(b, a.len + 1))]

encode_txs_by_policy_value(hash, names) == <<hash>> \o Concat(encode_short_bytestring, names)
decode_txs_by_policy_value(b) ==
  [tx_hash |-> b[1], names |-> DecodeAll(decode_short_bytestring, From(b, 2))]

encode_updates_by_policy_value(hash, assets) == <<hash>> \o Concat(NameThenAmount, assets)
decode_updates_by_policy_value(b) ==
  [tx_hash |-> b[1], assets |-> DecodeAll(TakeNameThenAmount, From(b, 2))]

encode_mint_metadata_by_asset_value(hash, amount, metadata) == <<hash, amount, metadata>>
decode_mint_metadata_by_asset_value(b) == [tx_hash |-> b[1], amount |-> b[2], metadata |-> b[3]]
encode_block_by_tx_value(height, index) == <<height, index>>
decode_block_by_tx_value(b) == [height |-> b[1], index |-> b[2]]
encode_script_by_hash_value(hash, slot, kind, script) == <<hash, slot, kind, script>>
decode_script_by_hash_value(b) == [tx_hash |-> b[1], slot |-> b[2], kind |-> b[3], bytes |-> b[4]]

encode_block_by_height_value(b) ==
  <<b.hash, Len(b.txs)>> \o b.txs \o <<b.size, b.output, b.fees, b.invocations, b.mem, b.steps, b.header>>
decode_block_by_height_value(b) ==
  LET n == b[2]
  IN  [hash |-> b[1], txs |-> SubSeq(b, 3, 2 + n), size |-> b[n + 3], output |-> b[n + 4],
       fees |-> b[n + 5], invocations |-> b[n + 6], mem |-> b[n + 7], steps |-> b[n + 8],
       header |-> b[n + 9]]

\* one byte of flags
encode_txs_by_address_value(input, output) ==
  <<(IF input THEN 128 ELSE 0) + (IF output THEN 64 ELSE 0)>>
decode_txs_by_address_value(b) ==
  [input |-> (b[1] \div 128) % 2 = 1, output |-> (b[1] \div 64) % 2 = 1]
encode_txs_by_payment_cred_value(input, output, signer) ==
  <<encode_txs_by_address_value(input, output)[1] + (IF signer THEN 32 ELSE 0)>>
decode_txs_by_payment_cred_value(b) ==
  [input |-> (b[1] \div 128) % 2 = 1, output |-> (b[1] \div 64) % 2 = 1,
   signer |-> (b[1] \div 32) % 2 = 1]

-----------------------------------------------------------------------------
(* Keys read back: what follows the address, asset or policy of a list.    *)

ListItem(owner, suffix) == [owner |-> owner, suffix |-> suffix]

\* the data keys mapi decodes; the owner starts after <<dataplane, instance, DATA, reducer>>
decode_utxos_by_address_key(k) ==
  LET a == IF k[4] = REDUCER_UTXOS_BY_SHELLEY_ADDRESS THEN decode_shelley_address(From(k, 5))
           ELSE decode_byron_address(From(k, 5))
  IN  ListItem(a.value, From(k, 6 + a.len))
decode_txs_by_address_key(k) ==
  LET a == decode_address_with_type(From(k, 5)) IN ListItem(a.value, From(k, 6 + a.len))
decode_utxos_by_asset_key(k) ==
  LET n == decode_short_bytestring(From(k, 7)) IN ListItem(<<k[5], n.value>>, From(k, 8 + n.len))
decode_utxos_by_policy_key(k) == ListItem(k[5], From(k, 7))
decode_txs_by_policy_key(k) == ListItem(k[5], From(k, 7))
decode_updates_by_policy_key(k) == ListItem(k[5], From(k, 7))
decode_txs_by_payment_cred_key(k) == ListItem(SubSeq(k, 5, 6), From(k, 8))
decode_supply_by_asset_key(k) == [policy |-> k[5], asset_name |-> From(k, 7)]

-----------------------------------------------------------------------------
(* Page cursors: the place of the last result of a page, in base64 text    *)
(* (external).  Decoding one gives a bound, or Malformed when it has the   *)
(* wrong length for its list.                                              *)

Base64(bytes) == [b64 |-> bytes]

Malformed == [kind |-> "malformed"]

\* a cursor that is the suffix of a key, of n fields
SuffixCursor(c, n) == IF Len(c.b64) = n THEN AtCursor(c.b64) ELSE Malformed

encode_address_utxos_cursor(slot, u_hash, u_index) == Base64(<<slot, u_hash, u_index>>)
decode_utxos_by_address_cursor(c) == SuffixCursor(c, 3)

encode_address_txs_cursor(slot, block_index, tx_hash) == Base64(<<slot, block_index, tx_hash>>)
decode_txs_by_address_cursor(c) == SuffixCursor(c, 3)

encode_txs_by_payment_cred_cursor(slot, block_index, tx_hash) ==
  Base64(<<slot, block_index, tx_hash>>)
decode_txs_by_payment_cred_cursor(c) == SuffixCursor(c, 3)

encode_txs_by_policy_cursor(slot, block_index) == Base64(<<slot, block_index>>)
decode_txs_by_policy_cursor(c) == SuffixCursor(c, 2)

encode_updates_by_policy_cursor(slot, block_index) == Base64(<<slot, block_index>>)
decode_updates_by_policy_cursor(c) == SuffixCursor(c, 2)

encode_supply_by_asset_cursor(name) == Base64(name)
decode_supply_by_asset_cursor(c) == AtCursor(c.b64)

\* with the position of the address among those asked for
encode_addresses_utxos_cursor(i, slot, u_hash, u_index) == Base64(<<i, slot, u_hash, u_index>>)
decode_utxos_by_addresses_cursor(c) ==
  IF Len(c.b64) # 4 THEN Malformed
  ELSE [kind |-> "cursor", index |-> c.b64[1], suffix |-> From(c.b64, 2)]

\* with the address itself
encode_utxos_by_payment_cred_cursor(a, slot, u_hash, u_index) ==
  Base64(encode_shelley_address(a) \o <<slot, u_hash, u_index>>)
decode_utxos_by_payment_cred_cursor(c) ==
  IF Len(c.b64) \notin {8, 9, 11} \/ Len(c.b64) # decode_shelley_address(c.b64).len + 3 THEN Malformed
  ELSE LET a == decode_shelley_address(c.b64)
       IN  [kind |-> "cursor", address |-> a.value, suffix |-> From(c.b64, a.len + 1)]

\* with both
encode_utxos_by_payment_creds_cursor(i, a, slot, u_hash, u_index) ==
  Base64(<<i>> \o encode_shelley_address(a) \o <<slot, u_hash, u_index>>)
decode_utxos_by_payment_creds_cursor(c) ==
  LET rest == decode_utxos_by_payment_cred_cursor([b64 |-> From(c.b64, 2)])
  IN  IF c.b64 = <<>> \/ rest = Malformed THEN Malformed
      ELSE [kind |-> "cursor", index |-> c.b64[1], address |-> rest.address, suffix |-> rest.suffix]

\* an address alone; a Byron address as its bytes
encode_policy_holders_cursor(a) == Base64(a)
decode_policy_holders_cursor(c) == c.b64
=============================================================================
