-------------------------------- MODULE MCDaw --------------------------------
(* A retired instance at the end of a dataplane, and a retired and a live   *)
(* one in the next.                                                         *)
EXTENDS Daw, Timbre

MCRetired == {<<0, 255>>, <<1, 0>>}
MCLive == {<<1, 1>>}
MCDataKeys(e) ==
  {encode_tx_by_hash_key(e, 7)} \cup
  {encode_rollback_metadata_key(r, 1, 7, 0, encode_tx_by_hash_key(r, 7)) : r \in MCRetired \cap {e}}
MCOther ==
  {[op |-> "range", range |-> [start |-> <<0, 255, PREFIX_DATA>>, end |-> <<1, 0, PREFIX_DATA>>]],
   [op |-> "delete list", keys |-> {CursorKey(<<1, 0>>), encode_info_key(<<1, 0>>)}],
   [op |-> "write list", keys |-> {CursorKey(<<1, 0>>), encode_tx_by_hash_key(<<1, 1>>, 7)}]}
NoHash(bytes) == bytes
=============================================================================
