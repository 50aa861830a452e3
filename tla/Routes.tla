-------------------------------- MODULE Routes --------------------------------
(***************************************************************************)
(* The routes of mapi that read the key space (services/mapi/src/routes),  *)
(* with the helpers they share (utils.rs), as operators from a snapshot of *)
(* the key space to an answer.  Inputs are decoded already: an address, a  *)
(* credential, a policy, an asset <<policy, name>>, a reference            *)
(* <<tx, index>>.  JSON, number formats and slot-to-time conversions are   *)
(* left out.  An item of a list keeps its place in it as the field pos.    *)
(* The answers are those of a store that answers in time (see Pages).      *)
(***************************************************************************)
EXTENDS Reducers

CONSTANTS
  DEFAULT_MAX_ITEMS_PER_PAGE,  \* the default and the largest page
  SCAN_SIZE,                   \* entries per scan of a range that is read to its end
  MaxMessage,                  \* entries that fit in one answer of TiKV
  NetworkId,                   \* of the chain served
  EmptyBytesHash,              \* the hash of the empty byte string
  ReferenceNft, UserNft, UserFt, \* the four bytes in front of a CIP-68 asset name, as one
  Cip68Fields(_),              \* of datum bytes: the metadata fields they have, or Absent when
                               \* they are no CIP-68 metadata (external)
  AddressText(_)               \* the place of an address among all, by its text (external)

ASSUME PageFits == /\ DEFAULT_MAX_ITEMS_PER_PAGE \in Nat \ {0}
                   /\ DEFAULT_MAX_ITEMS_PER_PAGE < MaxMessage
                   /\ SCAN_SIZE \in Nat \ {0}

-----------------------------------------------------------------------------
(* Answers.                                                                *)

Failed(status) == [status |-> status]
IsError(x) == "status" \in DOMAIN x

bad_request == Failed(400)
not_found == Failed(404)
internal_server_error == Failed(500)

get_last_updated(snap, e) == decode_cursor_value(snap[encode_cursor_key(e)])

\* An answer stamped with the cursor of the same snapshot, or the error; there
\* is no answer before the instance has a cursor.
Stamped(snap, e, r) ==
  IF encode_cursor_key(e) \notin DOMAIN snap THEN internal_server_error
  ELSE IF IsError(r) THEN r
  ELSE r @@ [last_updated |-> get_last_updated(snap, e)]

TimestampedResponse(snap, e, data) == Stamped(snap, e, [data |-> data])

\* the page that Page makes of parsed parameters q
PaginatedResponse(snap, e, q, Page(_)) ==
  IF IsError(q) THEN q ELSE Stamped(snap, e, Page(q))

\* The first count results; a further one is only looked at to tell whether
\* there is a next page.
PageOf(results, count, CursorOf(_), Item(_)) ==
  [data |-> Map(Item, First(results, count)),
   next_cursor |-> IF Len(results) > count THEN CursorOf(results[count]) ELSE Absent]

\* a page that cannot be answered when one of the entries read for it is Bad
PageUnless(Bad(_), results, count, CursorOf(_), Item(_)) ==
  IF \E i \in DOMAIN First(results, count) : Bad(results[i]) THEN internal_server_error
  ELSE PageOf(results, count, CursorOf, Item)

-----------------------------------------------------------------------------
(* Page parameters [count, order, from, to, cursor], each possibly Absent; *)
(* decoded is the cursor as the route decodes it.                          *)

CountOf(p) == IF p.count = Absent THEN DEFAULT_MAX_ITEMS_PER_PAGE ELSE p.count

\* The cursor replaces the bound it moves away from: the lower one in
\* ascending order, the upper one in descending order.
parse_slot_page_params(p, decoded) ==
  LET order  == IF p.order = Absent THEN "asc" ELSE p.order
      cursor == IF p.cursor = Absent THEN None ELSE decoded
      at(s)  == IF s = Absent THEN None ELSE AtSlot(s)
  IN  IF \/ CountOf(p) \notin 1..DEFAULT_MAX_ITEMS_PER_PAGE
         \/ cursor = Malformed
         \/ p.from # Absent /\ p.to # Absent /\ p.from > p.to
         \/ cursor # None /\ p.from # Absent /\ cursor.suffix[1] < p.from
         \/ cursor # None /\ p.to # Absent /\ cursor.suffix[1] > p.to
      THEN bad_request
      ELSE [count |-> CountOf(p), order |-> order,
            lower |-> IF cursor # None /\ order = "asc" THEN cursor ELSE at(p.from),
            upper |-> IF cursor # None /\ order = "desc" THEN cursor ELSE at(p.to)]

parse_cursor_page_params(p, decoded) ==
  LET cursor == IF p.cursor = Absent THEN Absent ELSE decoded
  IN  IF CountOf(p) \notin 1..DEFAULT_MAX_ITEMS_PER_PAGE \/ cursor = Malformed THEN bad_request
      ELSE [count |-> CountOf(p), cursor |-> cursor]

-----------------------------------------------------------------------------
(* Scans.                                                                  *)

OneScan(snap, r, order, n) == IF order = "asc" THEN Scan(snap, r, n) ELSE ScanReverse(snap, r, n)

\* (mutant) the range is not read on after an answer that had to be halved
ScanOnce(snap, r, order, wanted, max, size, kvs) ==
  SelectSeq(OneScan(snap, r, order, IF MaxMessage < size THEN size \div 2 ELSE size), LAMBDA k : k \in wanted)

\* The keys of a range that are in wanted, read size at a time, until max are
\* found or the range is exhausted.  An answer that is too large for one
\* message is asked for again in halves.
RECURSIVE ScanOn(_, _, _, _, _, _, _)
ScanOn(snap, r, order, wanted, max, size, kvs) ==
  LET fetched == OneScan(snap, r, order, size)
      found   == kvs \o SelectSeq(fetched, LAMBDA k : k \in wanted)
      rest    == IF order = "asc" THEN [r EXCEPT !.start = Append(Last(fetched), 0)]
                 ELSE [r EXCEPT !.end = Last(fetched)]
  IN  IF Len(fetched) > MaxMessage THEN ScanOn(snap, r, order, wanted, max, size \div 2, kvs)
      ELSE IF fetched = <<>> THEN kvs
      ELSE IF (max # Absent /\ Len(found) >= max) \/ Len(fetched) < size THEN found
      ELSE ScanOn(snap, rest, order, wanted, max, size, found)

\* wanted: the keys a filter keeps, all keys without one
scan_extended(snap, r, order, wanted, filtered, max) ==
  LET size == IF ~filtered /\ max # Absent /\ max < SCAN_SIZE THEN max ELSE SCAN_SIZE
      kvs  == ScanOn(snap, r, order, wanted, max, size, <<>>)
  IN  IF max = Absent THEN kvs ELSE First(kvs, max)

batch_scan_entire_range(snap, r) == ScanOn(snap, r, "asc", DOMAIN snap, Absent, SCAN_SIZE, <<>>)

-----------------------------------------------------------------------------
(* Shared lookups.                                                         *)

\* data by hash; a hash whose bytes were never seen is stored without bytes
fetch_datums(snap, e, hashes) ==
  [h \in {h \in hashes : LET k == encode_datum_by_hash_key(e, h)
                         IN  k \in DOMAIN snap /\ (snap[k] # <<>> \/ h = EmptyBytesHash)} |->
     snap[encode_datum_by_hash_key(e, h)]]

\* the hash alone or with the bytes, from the output or from what was resolved
datum_option(out, resolved) ==
  IF out.datum = NoDatum \/ out.datum.bytes # Absent \/ out.datum.hash \notin DOMAIN resolved
  THEN out.datum
  ELSE [out.datum EXCEPT !.bytes = resolved[out.datum.hash][1]]

DatumHashes(outs) ==
  {o.datum.hash : o \in {x \in outs : x.datum # NoDatum /\ x.datum.bytes = Absent}}

\* outputs shown with their data, resolved when the caller asks for it
Shown(snap, e, outs, resolve) ==
  LET resolved == IF resolve THEN fetch_datums(snap, e, DatumHashes(outs)) ELSE <<>>
  IN  [o \in outs |-> [o EXCEPT !.datum = datum_option(o, resolved)]]

TxAt(snap, e, hash) == snap[encode_tx_by_hash_key(e, hash)][1]
HasTx(snap, e, hash) == encode_tx_by_hash_key(e, hash) \in DOMAIN snap

\* pallas (external): what a transaction really produced, and any output it lists
produces_at(tx, i) ==
  LET made == SelectSeq(produces(tx), LAMBDA x : x.ref[2] = i)
  IN  IF made = <<>> THEN NoOutput ELSE made[1].out
output_at(tx, i) == IF i < Len(tx.outputs) THEN tx.outputs[i + 1] ELSE NoOutput

\* every referenced output, from the transaction that produced it
fetch_txos(snap, e, refs) ==
  IF \E r \in refs : ~HasTx(snap, e, r[1]) \/ produces_at(TxAt(snap, e, r[1]), r[2]) = NoOutput
  THEN internal_server_error
  ELSE [outs |-> [r \in refs |-> produces_at(TxAt(snap, e, r[1]), r[2])]]

fetch_script(snap, e, hash) ==
  LET k == encode_script_by_hash_key(e, hash)
  IN  IF k \in DOMAIN snap THEN [script |-> decode_script_by_hash_value(snap[k])] ELSE not_found

\* what 721 metadata say about an asset; joining a split image is not modelled
try_parse_cip25_metadata(md_721, asset) == IF asset \in md_721.named THEN md_721.bytes ELSE Absent

\* an asset is left out when its metadata do not describe it
fetch_cip25_metadata(snap, e, assets) ==
  LET key(a) == encode_cip25_metadata_by_asset_key(e, a[1], a[2])
      cip25(a) == IF key(a) \in DOMAIN snap THEN try_parse_cip25_metadata(snap[key(a)][1], a) ELSE Absent
  IN  [a \in {x \in assets : cip25(x) # Absent} |-> cip25(a)]

\* the only unspent output with an asset
fetch_single_utxo_containing_asset(snap, e, asset) ==
  LET kvs == Scan(snap, encode_asset_utxos_range(e, asset[1], asset[2], None, None), 2)
      v   == decode_utxos_by_asset_value(snap[kvs[1]])
  IN  IF Len(kvs) = 2 THEN internal_server_error
      ELSE IF kvs = <<>> THEN [utxo |-> Absent]
      ELSE IF "hash" \in DOMAIN v.address THEN internal_server_error
      ELSE [utxo |-> [suffix |-> decode_utxos_by_asset_key(kvs[1]).suffix] @@ v]

get_tx_bytes(snap, e, hash) == IF HasTx(snap, e, hash) THEN [tx |-> TxAt(snap, e, hash)] ELSE not_found

-----------------------------------------------------------------------------
(* CIP-68 metadata: the datum of the output that holds the reference NFT.  *)
(* The output is looked for in one snapshot (of its own, which is not that *)
(* of the answer's stamp) and its transaction fetched in a later one.      *)

Cip68AssetType(name) ==
  IF name # <<>> /\ name[1] \in {ReferenceNft, UserNft, UserFt} THEN name[1] ELSE Absent

reference_nft_name(name) == <<ReferenceNft>> \o Tail(name)

\* The reference of the output among the entries kvs of the policy, or Absent:
\* there has to be exactly one, with one unit.
reference_nft_utxo(snap, kvs, name) ==
  LET own(k)  == SelectSeq(decode_utxos_by_policy_value(snap[k]).assets,
                           LAMBDA a : a.name = reference_nft_name(name))
      utxos   == SelectSeq(kvs, LAMBDA k : own(k) # <<>>)
      place   == decode_utxos_by_policy_key(utxos[1]).suffix
  IN  IF Cip68AssetType(name) = Absent THEN Absent
      ELSE IF Len(utxos) # 1 THEN Absent
      ELSE IF own(utxos[1])[1].amount > 1 THEN Absent ELSE <<place[2], place[3]>>

Complete(purpose, fields) ==
  CASE purpose = ReferenceNft -> TRUE
    [] purpose = UserNft -> {"name", "image"} \subseteq fields
    [] purpose = UserFt -> {"name", "description"} \subseteq fields

\* A datum known by its hash is looked for in the same transaction only.
try_fetch_cip68_metadata(snap, e, ref, purpose) ==
  LET found  == get_tx_bytes(snap, e, ref[1])
      txout  == produces_at(found.tx, ref[2])
      own    == SelectSeq(<<txout.datum>> \o found.tx.data,
                          LAMBDA d : d.hash = txout.datum.hash /\ d.bytes # Absent)
      fields == Cip68Fields(own[1].bytes)
      none   == [cip68_metadata |-> Absent]
  IN  IF IsError(found) THEN found
      ELSE IF txout = NoOutput THEN not_found
      ELSE IF txout.datum = NoDatum THEN none
      ELSE IF own = <<>> THEN none
      ELSE IF fields = Absent THEN none
      ELSE IF ~Complete(purpose, fields) THEN none
      ELSE [cip68_metadata |-> [purpose |-> purpose, metadata |-> own[1].bytes]]

-----------------------------------------------------------------------------
(* Transactions of an address or of payment credentials.                   *)

TxItem(suffix) == [pos |-> suffix, tx_hash |-> suffix[3], slot |-> suffix[1]]

txs_by_address(snap, e, a, p) ==
  PaginatedResponse(snap, e, parse_slot_page_params(p, decode_txs_by_address_cursor(p.cursor)), LAMBDA q :
    PageOf(OneScan(snap, encode_address_txs_range(e, a, q.lower, q.upper), q.order, q.count + 1),
           q.count,
           LAMBDA k : LET s == decode_txs_by_address_key(k).suffix
                      IN  encode_address_txs_cursor(s[1], s[2], s[3]),
           LAMBDA k : TxItem(decode_txs_by_address_key(k).suffix) @@ decode_txs_by_address_value(snap[k])))

txs_by_payment_cred(snap, e, cred, p) ==
  PaginatedResponse(snap, e, parse_slot_page_params(p, decode_txs_by_payment_cred_cursor(p.cursor)), LAMBDA q :
    PageOf(OneScan(snap, encode_txs_by_payment_cred_range(e, cred, q.lower, q.upper), q.order, q.count + 1),
           q.count,
           LAMBDA k : LET s == decode_txs_by_payment_cred_key(k).suffix
                      IN  encode_txs_by_payment_cred_cursor(s[1], s[2], s[3]),
           LAMBDA k : TxItem(decode_txs_by_payment_cred_key(k).suffix)
                      @@ decode_txs_by_payment_cred_value(snap[k])))

\* the first count + 1 of every credential, merged
txs_by_payment_creds(snap, e, creds, p) ==
  PaginatedResponse(snap, e, parse_slot_page_params(p, decode_txs_by_payment_cred_cursor(p.cursor)), LAMBDA q :
    LET own(c)   == ToSet(scan_extended(snap, encode_txs_by_payment_cred_range(e, c, q.lower, q.upper),
                                        q.order, DOMAIN snap, FALSE, q.count + 1))
        combined == Ascending(UNION {{decode_txs_by_payment_cred_key(k).suffix : k \in own(c)} : c \in creds})
    IN  PageOf(IF q.order = "desc" THEN Reverse(combined) ELSE combined, q.count,
               LAMBDA s : encode_txs_by_payment_cred_cursor(s[1], s[2], s[3]), TxItem))

-----------------------------------------------------------------------------
(* Unspent outputs of addresses and payment credentials.                   *)

UtxoCursor(k) ==
  LET s == decode_utxos_by_address_key(k).suffix IN encode_address_utxos_cursor(s[1], s[2], s[3])

UtxoPlace(s) == [pos |-> s, slot |-> s[1], tx_hash |-> s[2], index |-> s[3]]

utxo_refs_at_address(snap, e, a, p) ==
  PaginatedResponse(snap, e, parse_slot_page_params(p, decode_utxos_by_address_cursor(p.cursor)), LAMBDA q :
    PageOf(OneScan(snap, encode_address_utxos_range(e, a, q.lower, q.upper), q.order, q.count + 1),
           q.count, UtxoCursor,
           LAMBDA k : UtxoPlace(decode_utxos_by_address_key(k).suffix)))

address_utxo_contains_asset(out, asset) ==
  \E i \in DOMAIN AssetsOf(out.assets) :
    <<AssetsOf(out.assets)[i].policy, AssetsOf(out.assets)[i].name>> = asset

UtxosContaining(snap, range, asset) ==
  {k \in KeysIn(snap, range) : asset = Absent \/ address_utxo_contains_asset(snap[k][1], asset)}

\* asset is a filter, or Absent
utxos_by_address(snap, e, a, asset, resolve, p) ==
  PaginatedResponse(snap, e, parse_slot_page_params(p, decode_utxos_by_address_cursor(p.cursor)), LAMBDA q :
    LET range == encode_address_utxos_range(e, a, q.lower, q.upper)
        kvs   == scan_extended(snap, range, q.order, UtxosContaining(snap, range, asset), asset # Absent, q.count + 1)
        shown == Shown(snap, e, {snap[kvs[i]][1] : i \in DOMAIN First(kvs, q.count)}, resolve)
    IN  PageOf(kvs, q.count, UtxoCursor,
               LAMBDA k : UtxoPlace(decode_utxos_by_address_key(k).suffix)
                          @@ [address |-> a, out |-> shown[snap[k][1]]]))

\* Keys of several ranges in turn, each read only as far as results are
\* still required.
RECURSIVE ScanInTurn(_, _, _)
ScanInTurn(snap, ranges, required) ==
  IF ranges = <<>> \/ required = 0 THEN <<>>
  ELSE LET kvs == Scan(snap, Head(ranges), required)
       IN  kvs \o ScanInTurn(snap, Tail(ranges), required - Len(kvs))

\* addresses as they are sorted by their text; the first one may have a bound
utxos_by_addresses(snap, e, addresses, resolve, p) ==
  LET q == parse_cursor_page_params(p, decode_utxos_by_addresses_cursor(p.cursor))
      from == IF q.cursor = Absent THEN 0 ELSE q.cursor.index
      bound(i) == IF i = from /\ q.cursor # Absent THEN AtCursor(q.cursor.suffix) ELSE None
      position(a) == (CHOOSE i \in DOMAIN addresses : addresses[i] = a) - 1
      ranges == [i \in 1..(Len(addresses) - from) |->
                   encode_address_utxos_range(e, addresses[from + i], bound(from + i - 1), None)]
      unreadable(k) == "hash" \in DOMAIN decode_utxos_by_address_key(k).owner
      place(k) == decode_utxos_by_address_key(k)
  IN  IF IsError(q) THEN q
      ELSE IF from >= Len(addresses) THEN Stamped(snap, e, bad_request)
      ELSE LET kvs   == ScanInTurn(snap, ranges, q.count + 1)
               shown == Shown(snap, e, {snap[kvs[i]][1] : i \in DOMAIN First(kvs, q.count)}, resolve)
           IN  Stamped(snap, e, PageUnless(unreadable, kvs, q.count,
                 LAMBDA k : encode_addresses_utxos_cursor(position(place(k).owner), place(k).suffix[1],
                                                          place(k).suffix[2], place(k).suffix[3]),
                 LAMBDA k : [UtxoPlace(place(k).suffix) EXCEPT !.pos = <<position(place(k).owner)>> \o @]
                            @@ [address |-> place(k).owner, out |-> shown[snap[k][1]]]))

\* Every output of the credential is read and sorted by slot, transaction and
\* index, whatever its address; then the bounds are applied.
utxos_by_payment_cred(snap, e, cred, asset, resolve, p) ==
  PaginatedResponse(snap, e, parse_slot_page_params(p, decode_utxos_by_payment_cred_cursor(p.cursor)), LAMBDA q :
    LET range    == encode_utxos_by_payment_cred_range(e, NetworkId, cred, None)
        kvs      == scan_extended(snap, range, q.order, UtxosContaining(snap, range, asset), asset # Absent, Absent)
        suffixes == {decode_utxos_by_address_key(k).suffix : k \in ToSet(kvs)}
        key(s)   == CHOOSE k \in ToSet(kvs) : decode_utxos_by_address_key(k).suffix = s
        inside   == {s \in suffixes :
                       /\ CASE q.lower.kind = "none" -> TRUE
                            [] q.lower.kind = "slot" -> s[1] >= q.lower.slot
                            [] q.lower.kind = "cursor" -> KeyLess(q.lower.suffix, s)
                       /\ CASE q.upper.kind = "none" -> TRUE
                            [] q.upper.kind = "slot" -> s[1] <= q.upper.slot
                            [] q.upper.kind = "cursor" -> KeyLess(s, q.upper.suffix)}
        txouts   == IF q.order = "desc" THEN Descending(inside) ELSE Ascending(inside)
        shown    == Shown(snap, e, {snap[k][1] : k \in ToSet(kvs)}, resolve)
        owner(s) == decode_utxos_by_address_key(key(s)).owner
    IN  PageOf(txouts, q.count,
               LAMBDA s : encode_utxos_by_payment_cred_cursor(owner(s), s[1], s[2], s[3]),
               LAMBDA s : UtxoPlace(s) @@ [address |-> owner(s), out |-> shown[snap[key(s)][1]]]))

\* credentials in turn, each in the order of the keys: by address first
utxos_by_payment_creds(snap, e, creds, resolve, p) ==
  LET q == parse_cursor_page_params(p, decode_utxos_by_payment_creds_cursor(p.cursor))
      from == IF q.cursor = Absent THEN 0 ELSE q.cursor.index
      bound(i) == IF i = from /\ q.cursor # Absent THEN q.cursor ELSE None
      position(c) == (CHOOSE i \in DOMAIN creds : creds[i] = c) - 1
      ranges == [i \in 1..(Len(creds) - from) |->
                   encode_utxos_by_payment_cred_range(e, NetworkId, creds[from + i], bound(from + i - 1))]
      place(k) == decode_utxos_by_address_key(k)
  IN  IF IsError(q) THEN q
      ELSE IF from >= Len(creds) THEN Stamped(snap, e, bad_request)
      ELSE LET kvs   == ScanInTurn(snap, ranges, q.count + 1)
               shown == Shown(snap, e, {snap[kvs[i]][1] : i \in DOMAIN First(kvs, q.count)}, resolve)
           IN  Stamped(snap, e, PageOf(kvs, q.count,
                 LAMBDA k : encode_utxos_by_payment_creds_cursor(
                              position(place(k).owner.payment), place(k).owner, place(k).suffix[1],
                              place(k).suffix[2], place(k).suffix[3]),
                 LAMBDA k : [UtxoPlace(place(k).suffix) EXCEPT
                               !.pos = <<position(place(k).owner.payment)>>
                                       \o encode_shelley_address(place(k).owner) \o @]
                            @@ [address |-> place(k).owner, out |-> shown[snap[k][1]]]))

-----------------------------------------------------------------------------
(* Assets and policies.                                                    *)

SlotItem(suffix, hash) == [pos |-> suffix, slot |-> suffix[1], tx_hash |-> hash]

policy_tx_contains_asset(v, name) == Contains(decode_txs_by_policy_value(v).names, name)

PolicyTxs(snap, e, policy, wanted, filtered, p, Item(_)) ==
  PaginatedResponse(snap, e, parse_slot_page_params(p, decode_txs_by_policy_cursor(p.cursor)), LAMBDA q :
    PageOf(scan_extended(snap, encode_txs_by_policy_range(e, policy, q.lower, q.upper), q.order,
                         wanted, filtered, q.count + 1),
           q.count,
           LAMBDA k : LET s == decode_txs_by_policy_key(k).suffix IN encode_txs_by_policy_cursor(s[1], s[2]),
           LAMBDA k : SlotItem(decode_txs_by_policy_key(k).suffix, decode_txs_by_policy_value(snap[k]).tx_hash)
                      @@ Item(snap[k])))

policy_txs(snap, e, policy, p) ==
  PolicyTxs(snap, e, policy, DOMAIN snap, FALSE, p,
            LAMBDA v : [assets |-> ToSet(decode_txs_by_policy_value(v).names)])

asset_txs(snap, e, asset, p) ==
  PolicyTxs(snap, e, asset[1],
            {k \in KeysIn(snap, encode_txs_by_policy_range(e, asset[1], None, None)) :
               policy_tx_contains_asset(snap[k], asset[2])},
            TRUE, p, LAMBDA v : <<>>)

policy_update_contains_asset(v, name) ==
  \E i \in DOMAIN decode_updates_by_policy_value(v).assets :
    decode_updates_by_policy_value(v).assets[i].name = name

UpdatesContaining(snap, e, asset) ==
  {k \in KeysIn(snap, encode_updates_by_policy_range(e, asset[1], None, None)) :
     policy_update_contains_asset(snap[k], asset[2])}

\* the first entry of an update that names the asset
UpdateAmount(v, name) ==
  SelectSeq(decode_updates_by_policy_value(v).assets, LAMBDA a : a.name = name)[1].amount

PolicyUpdates(snap, e, policy, wanted, filtered, p, Item(_)) ==
  PaginatedResponse(snap, e, parse_slot_page_params(p, decode_updates_by_policy_cursor(p.cursor)), LAMBDA q :
    PageOf(scan_extended(snap, encode_updates_by_policy_range(e, policy, q.lower, q.upper), q.order,
                         wanted, filtered, q.count + 1),
           q.count,
           LAMBDA k : LET s == decode_updates_by_policy_key(k).suffix
                      IN  encode_updates_by_policy_cursor(s[1], s[2]),
           LAMBDA k : SlotItem(decode_updates_by_policy_key(k).suffix,
                               decode_updates_by_policy_value(snap[k]).tx_hash)
                      @@ Item(snap[k])))

policy_mints(snap, e, policy, p) ==
  PolicyUpdates(snap, e, policy, DOMAIN snap, FALSE, p,
                LAMBDA v : [assets |-> ToSet(decode_updates_by_policy_value(v).assets)])

asset_mints(snap, e, asset, p) ==
  PolicyUpdates(snap, e, asset[1], UpdatesContaining(snap, e, asset), TRUE,
                p, LAMBDA v : [amount |-> UpdateAmount(v, asset[2])])

\* an address that is stored by its hash only
IsHash(a) == "hash" \in DOMAIN a

asset_utxo_controlled_by_address(v, a) == decode_utxos_by_asset_value(v).address = a

\* address is a filter, or Absent
asset_utxos(snap, e, asset, address, p) ==
  PaginatedResponse(snap, e, parse_slot_page_params(p, decode_utxos_by_address_cursor(p.cursor)), LAMBDA q :
    PageUnless(LAMBDA k : IsHash(decode_utxos_by_asset_value(snap[k]).address),
           scan_extended(snap, encode_asset_utxos_range(e, asset[1], asset[2], q.lower, q.upper), q.order,
                         {k \in KeysIn(snap, encode_asset_utxos_range(e, asset[1], asset[2], None, None)) :
                            address = Absent \/ asset_utxo_controlled_by_address(snap[k], address)},
                         address # Absent, q.count + 1),
           q.count,
           LAMBDA k : LET s == decode_utxos_by_asset_key(k).suffix
                      IN  encode_address_utxos_cursor(s[1], s[2], s[3]),
           LAMBDA k : UtxoPlace(decode_utxos_by_asset_key(k).suffix) @@ decode_utxos_by_asset_value(snap[k])))

\* a long Byron address is shown as an empty string
policy_utxos(snap, e, policy, p) ==
  PaginatedResponse(snap, e, parse_slot_page_params(p, decode_utxos_by_address_cursor(p.cursor)), LAMBDA q :
    PageOf(OneScan(snap, encode_policy_utxos_range(e, policy, q.lower, q.upper), q.order, q.count + 1),
           q.count,
           LAMBDA k : LET s == decode_utxos_by_policy_key(k).suffix
                      IN  encode_address_utxos_cursor(s[1], s[2], s[3]),
           LAMBDA k : LET v == decode_utxos_by_policy_value(snap[k])
                      IN  UtxoPlace(decode_utxos_by_policy_key(k).suffix)
                          @@ [v EXCEPT !.address = IF IsHash(@) THEN Absent ELSE @]))

\* what is read in the first snapshot; the CIP-68 metadata of the page follow
\* in later ones (Pages)
policy_assets(snap, e, policy, p) ==
  LET q == parse_cursor_page_params(p, decode_supply_by_asset_cursor(p.cursor))
  IN  PaginatedResponse(snap, e, q, LAMBDA qq :
        LET lower == IF qq.cursor = Absent THEN None ELSE qq.cursor
            kvs   == scan_extended(snap, encode_supply_by_asset_range(e, policy, lower, None), "asc",
                                   DOMAIN snap, FALSE, qq.count + 1)
            name(k) == decode_supply_by_asset_key(k).asset_name
            cip25 == fetch_cip25_metadata(snap, e, {<<policy, name(k)>> : k \in ToSet(kvs)})
        IN  PageOf(kvs, qq.count, LAMBDA k : encode_supply_by_asset_cursor(name(k)),
                   LAMBDA k : [pos |-> name(k), asset_name |-> name(k), total_supply |-> snap[k],
                               cip25_metadata |-> IF <<policy, name(k)>> \in DOMAIN cip25
                                                  THEN cip25[<<policy, name(k)>>] ELSE Absent]))

-----------------------------------------------------------------------------
(* Holders of an asset or of a policy, by address or by stake account.     *)

\* a stake account, or Absent: not of a Byron address, a pointer or no delegation
AccountOf(a) ==
  IF ~IsShelley(a) \/ a.delegation[1] \notin {0, 1} THEN Absent
  ELSE [network |-> a.network, stake |-> a.delegation]

\* The holders among entries [holder, amounts], sorted by the text of their
\* address, the cursor being the last holder served.
HoldersPage(snap, e, p, entries) ==
  PaginatedResponse(snap, e, parse_cursor_page_params(p, decode_policy_holders_cursor(p.cursor)), LAMBDA q :
    LET after   == {h \in {x.holder : x \in ToSet(entries)} :
                      q.cursor = Absent \/ AddressText(h) > AddressText(q.cursor)}
        sorted  == [i \in 1..Cardinality(after) |->
                      CHOOSE h \in after :
                        Cardinality({x \in after : AddressText(x) < AddressText(h)}) = i - 1]
        own(h)  == FlatMap(LAMBDA x : x.amounts, SelectSeq(entries, LAMBDA x : x.holder = h))
        sums(h) == [n \in {x.name : x \in ToSet(own(h))} |->
                      Total(LAMBDA x : IF x.name = n THEN x.amount ELSE 0, own(h))]
    IN  IF \E x \in ToSet(entries) : IsHash(x.holder) THEN internal_server_error
        ELSE PageOf(sorted, q.count, encode_policy_holders_cursor,
                    LAMBDA h : [pos |-> <<AddressText(h)>>, holder |-> h, amounts |-> sums(h)]))

AssetEntries(snap, e, asset) ==
  Map(LAMBDA k : LET v == decode_utxos_by_asset_value(snap[k])
                 IN  [holder |-> v.address, amounts |-> << [name |-> asset[2], amount |-> v.amount] >>],
      batch_scan_entire_range(snap, encode_asset_utxos_range(e, asset[1], asset[2], None, None)))

PolicyEntries(snap, e, policy) ==
  Map(LAMBDA k : LET v == decode_utxos_by_policy_value(snap[k])
                 IN  [holder |-> v.address, amounts |-> v.assets],
      batch_scan_entire_range(snap, encode_policy_utxos_range(e, policy, None, None)))

\* by account; hashes tells whether a long Byron address counts as an entry
ByAccount(entries, hashes) ==
  Map(LAMBDA x : IF IsHash(x.holder) THEN x ELSE [x EXCEPT !.holder = AccountOf(@)],
      SelectSeq(entries, LAMBDA x : IF IsHash(x.holder) THEN hashes ELSE AccountOf(x.holder) # Absent))

asset_addresses(snap, e, asset, p) == HoldersPage(snap, e, p, AssetEntries(snap, e, asset))
policy_addresses(snap, e, policy, p) == HoldersPage(snap, e, p, PolicyEntries(snap, e, policy))

\* a long Byron address fails the request
asset_accounts(snap, e, asset, p) ==
  HoldersPage(snap, e, p, ByAccount(AssetEntries(snap, e, asset), TRUE))
\* ... and is left out here
policy_accounts(snap, e, policy, p) ==
  HoldersPage(snap, e, p, ByAccount(PolicyEntries(snap, e, policy), FALSE))

-----------------------------------------------------------------------------
(* Single answers.                                                         *)

NumberAt(snap, k) == IF k \in DOMAIN snap THEN snap[k] ELSE 0

\* the stamp is read in one snapshot, the count in a second one
tx_count_by_address(snap, later, e, a) ==
  TimestampedResponse(snap, e, NumberAt(later, encode_tx_count_by_address_key(e, a)))

balance_by_payment_cred(snap, e, cred) ==
  LET kvs == scan_extended(snap, encode_utxos_by_payment_cred_range(e, NetworkId, cred, None), "asc",
                           DOMAIN snap, FALSE, Absent)
      held == FlatMap(LAMBDA k : AssetsOf(snap[k][1].assets), kvs)
  IN  TimestampedResponse(snap, e,
        [lovelace |-> Total(LAMBDA k : snap[k][1].coin, kvs),
         assets |-> [a \in {<<x.policy, x.name>> : x \in ToSet(held)} |->
                       Total(LAMBDA x : IF <<x.policy, x.name>> = a THEN x.amount ELSE 0, held)]])

\* long Byron addresses count by their hash
Holders(entries) ==
  [by_address |-> Cardinality({x.holder : x \in ToSet(entries)}),
   by_account |-> Cardinality({x.holder.delegation :
                                 x \in {y \in ToSet(entries) : AccountOf(y.holder) # Absent}})]

UpdateItem(snap, k) ==
  [slot |-> decode_updates_by_policy_key(k).suffix[1],
   tx_hash |-> decode_updates_by_policy_value(snap[k]).tx_hash]

policy_info(snap, e, policy) ==
  LET script == fetch_script(snap, e, policy)
      assets == batch_scan_entire_range(snap, encode_supply_by_asset_range(e, policy, None, None))
      range  == encode_updates_by_policy_range(e, policy, None, None)
      first  == Scan(snap, range, 1)
      last   == ScanReverse(snap, range, 1)
  IN  Stamped(snap, e,
        IF IsError(script) THEN script
        ELSE IF first = <<>> THEN not_found
        ELSE [data |-> [script |-> script.script, assets_of_policy |-> Len(assets),
                        total_supply |-> Total(LAMBDA k : snap[k], assets),
                        unique_holders |-> Holders(PolicyEntries(snap, e, policy)),
                        first_mint_tx |-> UpdateItem(snap, first[1]),
                        latest_mint_tx |-> UpdateItem(snap, last[1])]])

\* Updates of an asset with a supply are taken to exist (first().unwrap()):
\* without one the handler panics and there is no answer.
Panicked == Failed(0)

\* what is read in the first snapshot, as for policy_assets
asset_info(snap, e, asset) ==
  LET supply  == encode_supply_by_asset_key(e, asset[1], asset[2])
      updates == scan_extended(snap, encode_updates_by_policy_range(e, asset[1], None, None), "asc",
                               UpdatesContaining(snap, e, asset), TRUE, Absent)
      amounts == Map(LAMBDA k : UpdateAmount(snap[k], asset[2]), updates)
      mint(k) == UpdateItem(snap, k) @@ [amount |-> UpdateAmount(snap[k], asset[2])]
      cip25   == fetch_cip25_metadata(snap, e, {asset})
      latest  == ScanReverse(snap, encode_mint_metadata_by_asset_range(e, asset[1], asset[2]), 1)
      token   == encode_token_registry_by_asset_key(e, asset[1], asset[2])
  IN  Stamped(snap, e,
        IF supply \notin DOMAIN snap THEN not_found
        ELSE IF updates = <<>> THEN Panicked
        ELSE [data |-> [total_supply |-> snap[supply],
                        unique_holders |-> Holders(AssetEntries(snap, e, asset)),
                        first_mint_tx |-> mint(updates[1]), latest_mint_tx |-> mint(Last(updates)),
                        mint_tx_count |-> Len(SelectSeq(amounts, LAMBDA x : x > 0)),
                        burn_tx_count |-> Len(SelectSeq(amounts, LAMBDA x : x < 0)),
                        cip25_metadata |-> IF asset \in DOMAIN cip25 THEN cip25[asset] ELSE Absent,
                        latest_mint_tx_metadata |->
                          IF latest = <<>> THEN Absent
                          ELSE decode_mint_metadata_by_asset_value(snap[latest[1]]).metadata,
                        token_registry_metadata |-> IF token \in DOMAIN snap THEN snap[token] ELSE Absent]])

\* a header is <<slot, hash, hash of the previous block>>
BlockInfo(snap, e, height) ==
  LET info == decode_block_by_height_value(snap[encode_block_by_height_key(e, height)])
  IN  [height |-> height, hash |-> info.header[2], absolute_slot |-> info.header[1],
       previous_block |-> info.header[3], tx_hashes |-> info.txs, total_fees |-> info.fees,
       size |-> info.size, script_invocations |-> info.invocations,
       total_output_lovelace |-> info.output]

\* a u64
confirmations(tip, height) == (tip - height) % (U64Max + 1)

\* id is [height] or [hash]
block_info(snap, e, id) ==
  LET byHash == encode_height_by_block_hash_key(e, id.hash)
      height == IF "height" \in DOMAIN id THEN id.height ELSE snap[byHash][1]
      next   == encode_block_by_height_key(e, height + 1)
  IN  Stamped(snap, e,
        IF "hash" \in DOMAIN id /\ byHash \notin DOMAIN snap THEN not_found
        ELSE IF encode_block_by_height_key(e, height) \notin DOMAIN snap THEN not_found
        ELSE [data |-> BlockInfo(snap, e, height)
                       @@ [confirmations |-> confirmations(get_last_updated(snap, e).height, height),
                           next_block |-> IF next \in DOMAIN snap
                                          THEN decode_block_by_height_value(snap[next]).hash ELSE Absent]])

latest_block(snap, e) ==
  LET height == get_last_updated(snap, e).height
  IN  Stamped(snap, e,
        IF encode_block_by_height_key(e, height) \notin DOMAIN snap THEN not_found
        ELSE [data |-> BlockInfo(snap, e, height) @@ [confirmations |-> 0, next_block |-> Absent]])

chain_tip(snap, e) == TimestampedResponse(snap, e, get_last_updated(snap, e))

\* the handle as a CIP-68 name first, then as a plain one
adahandle_resolve(snap, e, policy, name222, name) ==
  LET cip68  == fetch_single_utxo_containing_asset(snap, e, <<policy, name222>>)
      simple == fetch_single_utxo_containing_asset(snap, e, <<policy, name>>)
      found(x) == [data |-> x.utxo.address]
  IN  Stamped(snap, e,
        IF IsError(cip68) THEN cip68
        ELSE IF cip68.utxo # Absent THEN found(cip68)
        ELSE IF IsError(simple) THEN simple
        ELSE IF simple.utxo # Absent THEN found(simple) ELSE not_found)

datum_by_hash(snap, e, hash) ==
  LET k == encode_datum_by_hash_key(e, hash)
  IN  Stamped(snap, e, IF k \notin DOMAIN snap \/ snap[k] = <<>> THEN not_found
                       ELSE [data |-> snap[k][1]])

datums_by_hashes(snap, e, hashes) == TimestampedResponse(snap, e, fetch_datums(snap, e, hashes))

script_by_hash(snap, e, hash) ==
  LET script == fetch_script(snap, e, hash)
  IN  Stamped(snap, e, IF IsError(script) THEN script ELSE [data |-> script.script])

\* the routes by transaction find the transaction before they read the stamp
OfTx(snap, e, hash, Answer(_)) ==
  LET found == get_tx_bytes(snap, e, hash)
  IN  IF IsError(found) THEN found ELSE Stamped(snap, e, Answer(found.tx))

tx_cbor_by_tx_hash(snap, e, hash) == OfTx(snap, e, hash, LAMBDA tx : [data |-> tx])

address_by_txo(snap, e, ref) ==
  OfTx(snap, e, ref[1], LAMBDA tx :
    IF produces_at(tx, ref[2]) = NoOutput THEN not_found
    ELSE [data |-> produces_at(tx, ref[2]).address])

\* an output of the transaction, valid or not, or its collateral return
ListedOutput(tx, i) == IF i = Len(tx.outputs) THEN tx.collret ELSE output_at(tx, i)

txo_by_txo_ref(snap, e, ref) ==
  OfTx(snap, e, ref[1], LAMBDA tx :
    LET txo == ListedOutput(tx, ref[2])
    IN  IF txo = NoOutput THEN not_found
        ELSE [data |-> Shown(snap, e, {txo}, TRUE)[txo]])

\* references as they are sorted by their text; the cursor is a position
encode_cursor(i) == Base64(<<i>>)
decode_cursor(c) == IF Len(c.b64) = 1 THEN [kind |-> "cursor", index |-> c.b64[1]] ELSE Malformed

\* (mutant) there is always a next position
next_position_always(full, last, n) == encode_cursor(last)

\* only after a full page that leaves references over
next_position(full, last, n) == IF full /\ last < n THEN encode_cursor(last) ELSE Absent

txos_by_txo_refs(snap, e, refs, allow_missing, resolve, p) ==
  LET q     == parse_cursor_page_params(p, decode_cursor(p.cursor))
      from  == IF q.cursor = Absent THEN 0 ELSE q.cursor.index
      left  == SubSeq(refs, from + 1, Len(refs))
      found(i) == HasTx(snap, e, left[i][1])
      txo(i)   == ListedOutput(TxAt(snap, e, left[i][1]), left[i][2])
      hits     == SelectSeq([i \in DOMAIN left |-> i], found)
      last     == IF Len(hits) >= q.count THEN hits[q.count] ELSE Len(left)
      visited  == 1..last
      shown    == Shown(snap, e, {txo(i) : i \in {j \in visited : found(j)}}, resolve)
  IN  IF IsError(q) THEN q
      ELSE IF from > Len(refs) THEN bad_request
      ELSE Stamped(snap, e,
        IF \E i \in visited : IF found(i) THEN txo(i) = NoOutput ELSE ~allow_missing THEN not_found
        ELSE [data |-> Map(LAMBDA i : [pos |-> <<from + i>>, ref |-> left[i], out |-> shown[txo(i)]],
                           First(hits, q.count)),
              next_cursor |-> next_position(Len(hits) >= q.count, from + last, Len(refs))])

\* in the order of their references
resolve_inputs(refs, resolver) ==
  LET sorted == Ascending(ToSet(refs)) IN Map(LAMBDA r : [ref |-> r, out |-> resolver[r]], sorted)

\* (mutant) data are shown as they are in the output
to_mapi_txos_unresolved(txos, datum_resolver) == txos

\* with data from the store or from the transaction's own witnesses
to_mapi_txos(txos, datum_resolver) ==
  Map(LAMBDA x : [x EXCEPT !.out = [@ EXCEPT !.datum = datum_option(x.out, datum_resolver)]], txos)

\* the place of a transaction and the header of its block, or Absent
BlockOfTx(snap, e, hash) ==
  LET place  == encode_block_by_tx_key(e, hash)
      at     == decode_block_by_tx_value(snap[place])
      block  == encode_block_by_height_key(e, at.height)
      header == decode_block_by_height_value(snap[block]).header
  IN  IF place \notin DOMAIN snap \/ block \notin DOMAIN snap THEN Absent
      ELSE [block_height |-> at.height, block_tx_index |-> at.index,
            block_hash |-> header[2], block_absolute_slot |-> header[1]]

\* Reference inputs, certificates, redeemers, scripts, the fee and metadata of
\* the transaction itself are not modelled.
tx_info(snap, e, hash) ==
  OfTx(snap, e, hash, LAMBDA tx :
    LET fetched == fetch_txos(snap, e, ToSet(tx.inputs \o tx.collateral))
        outs    == ToSet(tx.outputs) \cup ToSet(Optional(tx.collret, NoOutput))
        own     == [h \in {d.hash : d \in ToSet(tx.data)} |->
                      <<(CHOOSE d \in ToSet(tx.data) : d.hash = h).bytes>>]
        resolver == own @@ fetch_datums(snap, e, DatumHashes(outs \cup Range(fetched.outs)))
        block   == BlockOfTx(snap, e, hash)
        produced(i, o) == [ref |-> <<hash, i>>, out |-> o]
    IN  IF IsError(fetched) THEN fetched
        ELSE IF block = Absent THEN not_found
        ELSE [data |-> block @@ [
          inputs |-> to_mapi_txos(resolve_inputs(tx.inputs, fetched.outs), resolver),
          collateral_inputs |-> to_mapi_txos(resolve_inputs(tx.collateral, fetched.outs), resolver),
          outputs |-> to_mapi_txos([i \in DOMAIN tx.outputs |-> produced(i - 1, tx.outputs[i])], resolver),
          collateral_return |-> to_mapi_txos(Map(LAMBDA o : produced(Len(tx.outputs), o),
                                                 Optional(tx.collret, NoOutput)), resolver),
          mint |-> AssetsOf(tx.mint)]])
=============================================================================
