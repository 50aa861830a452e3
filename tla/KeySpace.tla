------------------------------ MODULE KeySpace ------------------------------
(***************************************************************************)
(* The order of keys, how the keys of a list begin, and the ranges that    *)
(* are scanned and deleted: those of an instance, of a dataplane and of a  *)
(* list (crates/timbre).                                                   *)
(*                                                                         *)
(* A key is a sequence of numbers compared in lexicographic order, which   *)
(* is how TiKV orders keys.  A fixed-width big-endian field (a slot, a     *)
(* hash, an index, an amount) is ONE number: its bytes order as the number *)
(* does.  A field of variable length (an asset name, a Byron address) is   *)
(* spelled out byte by byte behind its length, as in the code, because     *)
(* that is where two keys can fall out of step.                            *)
(***************************************************************************)
EXTENDS Integers, Sequences, FiniteSets

CONSTANTS
  U64Max,                 \* the largest u64
  MAX_BYRON_ADDRESS_LEN,  \* longer Byron addresses are stored by their hash
  Blake2b(_)              \* the hash of a Byron address (external)

Succ(n) == IF n = U64Max THEN 0 ELSE n + 1   \* n + 1 in release builds

PREFIX_CURSOR == 67
PREFIX_DATA == 68
PREFIX_INFO == 73
PREFIX_ROLLBACK == 82
PREFIX_TOKEN_REGISTRY == 84
BREAK == 96
ADDRESS_BYRON == 66
ADDRESS_SHELLEY == 83
ROLLBACK_INVERSE_OPERATION == 79

REDUCER_TX_BY_HASH == 97
REDUCER_TX_COUNT_BY_ADDRESS == 98
REDUCER_UTXOS_BY_POLICY == 100
REDUCER_UTXOS_BY_ASSET == 101
REDUCER_LOVELACE_BY_ADDRESS == 102
REDUCER_DATUM_BY_HASH == 103
REDUCER_BLOCK_BY_HEIGHT == 104
REDUCER_TXS_BY_ADDRESS == 105
REDUCER_TXS_BY_PAY_CRED == 106
REDUCER_SUPPLY_BY_ASSET == 110
REDUCER_SCRIPT_BY_HASH == 111
REDUCER_TXS_BY_POLICY == 112
REDUCER_UPDATES_BY_POLICY == 113
REDUCER_MINT_METADATA_BY_ASSET == 114
REDUCER_CIP25_METADATA_BY_ASSET == 115
REDUCER_BLOCK_BY_TX == 116
REDUCER_UTXOS_BY_SHELLEY_ADDRESS == 121
REDUCER_UTXOS_BY_BYRON_ADDRESS == 122

-----------------------------------------------------------------------------
(* Order, ranges and scans (external: TiKV).                               *)

KeyLess(a, b) ==
  \E i \in 1..Len(b) :
    /\ i > Len(a) \/ a[i] < b[i]
    /\ \A j \in 1..(i - 1) : j <= Len(a) /\ a[j] = b[j]

\* start..end, the end excluded; an empty end is unbounded
InRange(k, r) == ~KeyLess(k, r.start) /\ (r.end = <<>> \/ KeyLess(k, r.end))

KeysIn(db, r) == {k \in DOMAIN db : InRange(k, r)}

\* a set of keys in ascending order
Ascending(ks) ==
  [i \in 1..Cardinality(ks) |->
     CHOOSE k \in ks : Cardinality({x \in ks : KeyLess(x, k)}) = i - 1]

\* a sequence from its end
Backwards(s) == [i \in 1..Len(s) |-> s[Len(s) - i + 1]]

Descending(ks) == Backwards(Ascending(ks))

First(s, n) == SubSeq(s, 1, IF n < Len(s) THEN n ELSE Len(s))

\* Snapshot::scan and scan_reverse
Scan(db, r, limit) == First(Ascending(KeysIn(db, r)), limit)
ScanReverse(db, r, limit) == First(Descending(KeysIn(db, r)), limit)

-----------------------------------------------------------------------------
(* Namespaces: every key of an instance starts with its encoder <<dataplane, instance>>. *)

\* the last byte that is not 0xFF is incremented, what follows it is cut
prefix_key_range(prefix) ==
  LET is == {i \in DOMAIN prefix : prefix[i] # 255}
      i  == CHOOSE i \in is : \A j \in is : j <= i
  IN  [start |-> prefix,
       end |-> IF is = {} THEN <<>> ELSE Append(SubSeq(prefix, 1, i - 1), prefix[i] + 1)]

instance_key_range(e) == prefix_key_range(e)
dataplane_key_range(e) == prefix_key_range(<<e[1]>>)

encode_cursor_key(e) == e \o <<PREFIX_CURSOR>>
encode_info_key(e) == <<PREFIX_INFO, BREAK>> \o e

-----------------------------------------------------------------------------
(* Addresses.  A Shelley address has a network, a payment credential       *)
(* <<0, key>> or <<1, script>> and a delegation part <<0, key>>,           *)
(* <<1, script>>, <<2, slot, tx, cert>> or <<3>>; a Byron address is bytes.*)

IsShelley(a) == "payment" \in DOMAIN a

encode_shelley_payment_cred(payment) == payment

encode_shelley_address(a) == <<a.network>> \o a.payment \o <<BREAK>> \o a.delegation

encode_byron_address(a) ==
  IF Len(a.byron) <= MAX_BYRON_ADDRESS_LEN THEN <<0, Len(a.byron)>> \o a.byron
  ELSE <<1, Blake2b(a.byron)>>

encode_address_with_type(a) ==
  IF IsShelley(a) THEN <<ADDRESS_SHELLEY>> \o encode_shelley_address(a)
  ELSE <<ADDRESS_BYRON>> \o encode_byron_address(a)

DelegationLen(kind) == CASE kind \in {0, 1} -> 2 [] kind = 2 -> 4 [] kind = 3 -> 1

encode_short_bytestring(bytes) == <<Len(bytes)>> \o bytes

-----------------------------------------------------------------------------
(* Lists.  The keys of a list begin alike and end in a suffix that orders  *)
(* the list: the slot first, then <<index in the block, tx>> or            *)
(* <<tx, output index>>.                                                   *)

Data(e, reducer) == e \o <<PREFIX_DATA, reducer>>

UtxosOfPolicy(e, policy) == Data(e, REDUCER_UTXOS_BY_POLICY) \o <<policy>>
UtxosOfAsset(e, policy, name) ==
  Data(e, REDUCER_UTXOS_BY_ASSET) \o <<policy, BREAK>> \o encode_short_bytestring(name)
UtxosOfShelley(e, a) == Data(e, REDUCER_UTXOS_BY_SHELLEY_ADDRESS) \o encode_shelley_address(a)
UtxosOfByron(e, a) == Data(e, REDUCER_UTXOS_BY_BYRON_ADDRESS) \o encode_byron_address(a)
TxsOfAddress(e, a) == Data(e, REDUCER_TXS_BY_ADDRESS) \o encode_address_with_type(a)
TxsOfPayCred(e, c) == Data(e, REDUCER_TXS_BY_PAY_CRED) \o encode_shelley_payment_cred(c)
TxsOfPolicy(e, policy) == Data(e, REDUCER_TXS_BY_POLICY) \o <<policy>>
UpdatesOfPolicy(e, policy) == Data(e, REDUCER_UPDATES_BY_POLICY) \o <<policy>>
MintsOfAsset(e, policy, name) ==
  Data(e, REDUCER_MINT_METADATA_BY_ASSET) \o <<policy>> \o encode_short_bytestring(name)
SuppliesOfPolicy(e, policy) == Data(e, REDUCER_SUPPLY_BY_ASSET) \o <<policy>>

-----------------------------------------------------------------------------
(* Ranges.  A bound of a list is absent, a slot (inclusive at both ends) or *)
(* a page cursor, the suffix of the last key served (exclusive at both).    *)

None == [kind |-> "none"]
AtSlot(s) == [kind |-> "slot", slot |-> s]
AtCursor(suffix) == [kind |-> "cursor", suffix |-> suffix]

\* (mutant) the entry of the cursor itself is read again
LowerKeyInclusive(prefix, lower) ==
  prefix \o CASE lower.kind = "none" -> <<BREAK>>
              [] lower.kind = "slot" -> <<BREAK, lower.slot>>
              [] lower.kind = "cursor" -> <<BREAK>> \o lower.suffix

LowerKey(prefix, lower) ==
  prefix \o CASE lower.kind = "none" -> <<BREAK>>
              [] lower.kind = "slot" -> <<BREAK, lower.slot>>
              [] lower.kind = "cursor" -> <<BREAK>> \o lower.suffix \o <<0>>

UpperKey(prefix, upper) ==
  prefix \o CASE upper.kind = "none" -> <<BREAK + 1>>
              [] upper.kind = "slot" -> <<BREAK, Succ(upper.slot)>>
              [] upper.kind = "cursor" -> <<BREAK>> \o upper.suffix

ListRange(prefix, lower, upper) ==
  [start |-> LowerKey(prefix, lower), end |-> UpperKey(prefix, upper)]
=============================================================================
