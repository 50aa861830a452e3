------------------------------- MODULE MCPages -------------------------------
(* The ledger of MCIndex with a longer common past, so that lists have      *)
(* several pages: four blocks of which the last two can be rolled back.     *)
EXTENDS MCIndex, Pages

\* a reference NFT and the user tokens that it describes
Reference == <<96, 98>>
Nft == <<98, 98>>
Ft == <<99, 98>>
With(value, names) ==
  << [value[1] EXCEPT !.assets = @ \o Map(LAMBDA n : [name |-> n, amount |-> 1], names)] >>

\* the datum of T8 has what an NFT needs; the others are no CIP-68 metadata
MCCip68Fields(bytes) == IF bytes = 53 THEN {"name", "image"} ELSE Absent

\* spreads assets over two addresses of one credential and a script address
T7 == [Tx(7) EXCEPT !.inputs = << <<0, 2>> >>,
         !.outputs = << [Out(A1, 1) EXCEPT !.assets = Holding(1, 0)],
                        [Out(A1, 2) EXCEPT !.datum = D1(Absent)],
                        [Out(A2, 1) EXCEPT !.assets = With(Holding(0, 1), <<Reference>>), !.datum = D1(Absent)],
                        [Out(A3, 1) EXCEPT !.assets = With(Holding(0, 1), <<Nft, Ft>>)] >>,
         !.mint = With(Holding(1, 2), <<Reference, Nft, Ft>>), !.signers = <<9>>,
         !.scripts = << [kind |-> 1, hash |-> 30, bytes |-> 31] >>]
\* pays an asset to a long Byron address, with a new datum for the reference NFT
T8 == [Tx(8) EXCEPT !.inputs = << <<7, 2>> >>,
         !.outputs = << [Out(B2, 1) EXCEPT !.assets = With(Holding(0, 1), <<Reference>>),
                                           !.datum = [hash |-> 52, bytes |-> Absent]] >>,
         !.data = << [hash |-> 52, bytes |-> 53] >>]

MCPagesPool == {T1, T2, T3, T4, T5, T6, T7, T8}
MCPagesGenesis == {<<0, 0>>, <<0, 1>>, <<0, 2>>}
MCPrefix == << <<T1, T6>>, <<T2, T7>> >>

\* distinct for the blocks after the prefix
MCPagesHash(parent, slot, ts) ==
  parent * 50 + slot * 10 + (IF ts = <<>> THEN 0 ELSE ts[1].hash)

MCAddressText(a) ==
  IF "stake" \in DOMAIN a THEN 10 + a.stake[1]
  ELSE CASE a = A1 -> 3 [] a = A2 -> 2 [] a = A3 -> 4 [] a = B1 -> 1 [] a = B2 -> 5

PageParams(count, order) == [count |-> count, order |-> order, from |-> Absent, to |-> Absent, cursor |-> Absent]
Ask(route, of, page) == [route |-> route, of |-> of, filter |-> Absent, resolve |-> FALSE, page |-> page]
Asset(name) == <<30, name>>

InOrders(route, of, n) == {Ask(route, of, PageParams(n, "asc")), Ask(route, of, PageParams(n, "desc"))}
BothOrders(route, of) == InOrders(route, of, 1)

MCQueries ==
  BothOrders("txs_by_address", A1) \cup InOrders("txs_by_payment_cred", <<0, 1>>, 2)
  \cup InOrders("txs_by_payment_creds", {<<0, 1>>, <<0, 9>>, <<1, 2>>}, 2)
  \cup BothOrders("utxo_refs_at_address", A3) \cup BothOrders("policy_txs", 30)
  \cup BothOrders("asset_txs", Asset(Long)) \cup BothOrders("policy_mints", 30)
  \cup BothOrders("asset_mints", Asset(Long)) \cup BothOrders("asset_utxos", Asset(Long))
  \cup InOrders("policy_utxos", 30, 2)
  \cup {[x EXCEPT !.resolve = TRUE] :
          x \in BothOrders("utxos_by_address", A1) \cup BothOrders("utxos_by_payment_cred", <<0, 1>>)}
  \cup {[x EXCEPT !.filter = Asset(Short), !.page = PageParams(Absent, Absent)] :
          x \in BothOrders("utxos_by_address", A3) \cup BothOrders("utxos_by_payment_cred", <<1, 2>>)}
  \cup {[x EXCEPT !.filter = A1] : x \in BothOrders("asset_utxos", Asset(Short))}
  \cup {[x EXCEPT !.page = [@ EXCEPT !.from = 2, !.to = 3]] :
          x \in BothOrders("txs_by_address", A3) \cup BothOrders("utxos_by_payment_cred", <<0, 1>>)
                \cup BothOrders("policy_txs", 30)}
  \cup {Ask(route, 30, PageParams(1, Absent)) : route \in {"policy_addresses", "policy_accounts"}}
  \cup {Ask("policy_assets", 30, PageParams(2, Absent))}
  \cup {Ask(route, Asset(Long), PageParams(1, Absent)) : route \in {"asset_addresses", "asset_accounts"}}
  \cup {Ask("utxos_by_addresses", <<A2, A1, A3>>, PageParams(2, Absent)),
        [Ask("utxos_by_addresses", <<A2, B2>>, PageParams(1, Absent)) EXCEPT !.resolve = TRUE],
        [Ask("utxos_by_payment_creds", << <<0, 1>>, <<1, 2>> >>, PageParams(2, Absent)) EXCEPT !.resolve = TRUE],
        [Ask("txos_by_txo_refs", << <<1, 0>>, <<3, 0>>, <<4, 1>>, <<7, 1>> >>, PageParams(1, Absent))
           EXCEPT !.resolve = TRUE]}
=============================================================================
