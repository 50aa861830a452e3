-------------------------------- MODULE Pages --------------------------------
(***************************************************************************)
(* A client of mapi that reads a list page by page, following next_cursor, *)
(* while the instance it reads from (Index) rolls forward and back between *)
(* two pages; and the routes that answer with one value.  Every page and   *)
(* every answer is read in one snapshot and compared with the ledger.      *)
(***************************************************************************)
EXTENDS Index, Routes

CONSTANTS
  Prefix,    \* the transactions of the first blocks, which are never rolled back
  Queries    \* the lists the client may ask for: [route, of, filter, resolve, page]

VARIABLES
  session,   \* [state, query, cursor, last, cip68, then]
  asked      \* changes with every request of a session

allVars == <<chain, db, batch, undo, session, asked>>

-----------------------------------------------------------------------------
(* The answer to a query, with the cursor of the page before.              *)

Answer(q, cursor) ==
  LET p == [q.page EXCEPT !.cursor = cursor]
      e == Encoder
  IN  CASE q.route = "txs_by_address" -> txs_by_address(db, e, q.of, p)
        [] q.route = "txs_by_payment_cred" -> txs_by_payment_cred(db, e, q.of, p)
        [] q.route = "txs_by_payment_creds" -> txs_by_payment_creds(db, e, q.of, p)
        [] q.route = "utxo_refs_at_address" -> utxo_refs_at_address(db, e, q.of, p)
        [] q.route = "utxos_by_address" -> utxos_by_address(db, e, q.of, q.filter, q.resolve, p)
        [] q.route = "utxos_by_addresses" -> utxos_by_addresses(db, e, q.of, q.resolve, p)
        [] q.route = "utxos_by_payment_cred" -> utxos_by_payment_cred(db, e, q.of, q.filter, q.resolve, p)
        [] q.route = "utxos_by_payment_creds" -> utxos_by_payment_creds(db, e, q.of, q.resolve, p)
        [] q.route = "policy_txs" -> policy_txs(db, e, q.of, p)
        [] q.route = "asset_txs" -> asset_txs(db, e, q.of, p)
        [] q.route = "policy_mints" -> policy_mints(db, e, q.of, p)
        [] q.route = "asset_mints" -> asset_mints(db, e, q.of, p)
        [] q.route = "asset_utxos" -> asset_utxos(db, e, q.of, q.filter, p)
        [] q.route = "policy_utxos" -> policy_utxos(db, e, q.of, p)
        [] q.route = "policy_assets" -> policy_assets(db, e, q.of, p)
        [] q.route = "asset_addresses" -> asset_addresses(db, e, q.of, p)
        [] q.route = "policy_addresses" -> policy_addresses(db, e, q.of, p)
        [] q.route = "asset_accounts" -> asset_accounts(db, e, q.of, p)
        [] q.route = "policy_accounts" -> policy_accounts(db, e, q.of, p)
        [] q.route = "txos_by_txo_refs" -> txos_by_txo_refs(db, e, q.of, TRUE, q.resolve, p)

-----------------------------------------------------------------------------
(* What the ledger of a chain says a list holds: a set of items.           *)

\* bytes for a datum hash that some transaction of the chain has shown
SaidData(bs) ==
  {d \in UNION {UNION {ToSet(Optional(o.datum, NoDatum)) :
                         o \in ToSet(tx.outputs \o Optional(tx.collret, NoOutput))}
                \cup ToSet(tx.data) : tx \in ToSet(TxsOf(bs))} : d.bytes # Absent}

WithDatum(bs, out, resolve) ==
  LET said == {d \in SaidData(bs) : out.datum # NoDatum /\ d.hash = out.datum.hash}
  IN  IF resolve /\ said # {} THEN [out EXCEPT !.datum = CHOOSE d \in said : TRUE] ELSE out

SignersOf(h) == {<<0, key>> : key \in ToSet(h.tx.signers)}
HistoryItem(h) == TxItem(<<h.slot, h.index, h.tx.hash>>)
SlotEntry(h) == SlotItem(<<h.slot, h.index>>, h.tx.hash)

TouchingCred(bs, c) ==
  {h \in HistoryOf(bs) : c \in CredsOf(h.spent \cup h.made) \cup SignersOf(h)}

NamesMoved(h, p) ==
  {a[2] : a \in {x \in Assets :
     x[1] = p /\ \/ AmountIn(h.tx.mint, p, x[2]) # 0
                 \/ \E o \in h.spent \cup h.made : AmountIn(o.assets, p, x[2]) # 0}}

ValidTxs(bs) == {h \in HistoryOf(bs) : h.tx.valid}
Minting(bs, a) == {h \in ValidTxs(bs) : AmountIn(h.tx.mint, a[1], a[2]) # 0}
MintsOf(h, p) == UNION {ToSet(m.assets) : m \in {x \in ToSet(h.tx.mint) : x.policy = p}}

Holds(u, a) == AmountIn(u.out.assets, a[1], a[2]) # 0
HoldsPolicy(u, p) == p \in PoliciesOf({u.out})
UtxoItem(bs, u, q) ==
  UtxoPlace(UtxoSuffix(u)) @@ [address |-> Known(u.out.address), out |-> WithDatum(bs, u.out, q.resolve)]

Circulation(bs, a) == MapThenSumSet(LAMBDA u : AmountIn(u.out.assets, a[1], a[2]), LiveOf(bs))

\* What the last 721 metadata minted with an asset say about it: nothing when
\* they do not describe it, also when those of an earlier mint did.
LatestCip25(bs, a) ==
  LET mints == {h \in ValidTxs(bs) : /\ h.tx.metadata # NoMetadata /\ h.tx.metadata.label721 # Absent
                                     /\ AmountIn(h.tx.mint, a[1], a[2]) > 0}
  IN  IF mints = {} THEN Absent
      ELSE LET h == CHOOSE x \in mints : \A g \in mints :
                      g.slot < x.slot \/ (g.slot = x.slot /\ g.index <= x.index)
           IN  IF a \in h.tx.metadata.label721.named THEN h.tx.metadata.label721.bytes ELSE Absent

\* The CIP-68 metadata of an asset: shown, inline or as a witness, by the
\* transaction that made the only unspent output with the one reference NFT.
LedgerCip68(bs, a) ==
  LET nft   == <<a[1], reference_nft_name(a[2])>>
      at    == {u \in LiveOf(bs) : Holds(u, nft)}
      u     == CHOOSE x \in at : TRUE
      tx    == CHOOSE t \in ToSet(TxsOf(bs)) : t.hash = u.ref[1]
      shown == {d \in {u.out.datum} \cup ToSet(tx.data) : d.hash = u.out.datum.hash /\ d.bytes # Absent}
      bytes == (CHOOSE d \in shown : TRUE).bytes
      good  == /\ Cip68AssetType(a[2]) # Absent
               /\ Cardinality(at) = 1 /\ AmountIn(u.out.assets, nft[1], nft[2]) = 1
               /\ u.out.datum # NoDatum /\ shown # {}
               /\ Cip68Fields(bytes) # Absent /\ Complete(a[2][1], Cip68Fields(bytes))
  IN  IF good THEN [purpose |-> a[2][1], metadata |-> bytes] ELSE Absent

\* holders of the assets among unspent outputs, by Name of their address
HolderItems(us, assets, Name(_)) ==
  LET holder(u) == Name(Known(u.out.address))
      own(n)    == {u \in us : holder(u) = n}
  IN  {[pos |-> IF IsHash(n) THEN <<0>> ELSE <<AddressText(n)>>, holder |-> n,
        amounts |-> [x \in {a[2] : a \in {y \in assets : \E u \in own(n) : Holds(u, y)}} |->
                       MapThenSumSet(LAMBDA u : MapThenSumSet(LAMBDA a :
                                       IF a[2] = x THEN AmountIn(u.out.assets, a[1], x) ELSE 0, assets),
                                     own(n))]] :
         n \in {holder(u) : u \in us}}

SameName(a) == a
Stake(a) == IF IsHash(a) THEN a ELSE AccountOf(a)
OfPolicy(p) == {a \in Assets : a[1] = p}

-----------------------------------------------------------------------------
Listed(bs, q) ==
  LET live   == LiveOf(bs)
      held   == {u \in live : Holds(u, q.of)}
      under  == {u \in live : HoldsPolicy(u, q.of)}
      staked(us) == {u \in us : ~IsHash(Known(u.out.address)) /\ AccountOf(u.out.address) # Absent}
      hashed(us) == {u \in us : IsHash(Known(u.out.address))}
      position(x) == (CHOOSE i \in DOMAIN q.of : q.of[i] = x) - 1
      wanted(u) == q.filter = Absent \/ Holds(u, q.filter)
      own(c) == {u \in live : c \in CredsOf({u.out})}
  IN CASE q.route = "txs_by_address" ->
            {HistoryItem(h) @@ [input |-> q.of \in AddressesOf(h.spent), output |-> q.of \in AddressesOf(h.made)] :
               h \in {x \in HistoryOf(bs) : q.of \in AddressesOf(x.spent \cup x.made)}}
       [] q.route = "txs_by_payment_cred" ->
            {HistoryItem(h) @@ [input |-> q.of \in CredsOf(h.spent), output |-> q.of \in CredsOf(h.made),
                                signer |-> q.of \in SignersOf(h)] : h \in TouchingCred(bs, q.of)}
       [] q.route = "txs_by_payment_creds" ->
            {HistoryItem(h) : h \in UNION {TouchingCred(bs, c) : c \in q.of}}
       [] q.route = "utxo_refs_at_address" ->
            {UtxoPlace(UtxoSuffix(u)) : u \in {x \in live : x.out.address = q.of}}
       [] q.route = "utxos_by_address" ->
            {[UtxoItem(bs, u, q) EXCEPT !.address = q.of] :
               u \in {x \in live : x.out.address = q.of /\ wanted(x)}}
       [] q.route = "utxos_by_addresses" ->
            {[UtxoItem(bs, u, q) EXCEPT !.pos = <<position(u.out.address)>> \o @] :
               u \in {x \in live : x.out.address \in ToSet(q.of)}}
       [] q.route = "utxos_by_payment_cred" ->
            {UtxoItem(bs, u, q) : u \in {x \in own(q.of) : wanted(x)}}
       [] q.route = "utxos_by_payment_creds" ->
            UNION {{[UtxoItem(bs, u, q) EXCEPT
                       !.pos = <<position(c)>> \o encode_shelley_address(u.out.address) \o @] :
                      u \in own(c)} : c \in ToSet(q.of)}
       [] q.route = "policy_txs" ->
            {SlotEntry(h) @@ [assets |-> NamesMoved(h, q.of)] :
               h \in {x \in ValidTxs(bs) : NamesMoved(x, q.of) # {}}}
       [] q.route = "asset_txs" ->
            {SlotEntry(h) : h \in {x \in ValidTxs(bs) : q.of[2] \in NamesMoved(x, q.of[1])}}
       [] q.route = "policy_mints" ->
            {SlotEntry(h) @@ [assets |-> MintsOf(h, q.of)] : h \in {x \in ValidTxs(bs) : MintsOf(x, q.of) # {}}}
       [] q.route = "asset_mints" ->
            {SlotEntry(h) @@ [amount |-> AmountIn(h.tx.mint, q.of[1], q.of[2])] : h \in Minting(bs, q.of)}
       [] q.route = "asset_utxos" ->
            {UtxoPlace(UtxoSuffix(u))
             @@ [address |-> Known(u.out.address), amount |-> AmountIn(u.out.assets, q.of[1], q.of[2])] :
               u \in {x \in held : q.filter = Absent \/ x.out.address = q.filter}}
       [] q.route = "policy_utxos" ->
            {UtxoPlace(UtxoSuffix(u))
             @@ [address |-> IF IsHash(Known(u.out.address)) THEN Absent ELSE u.out.address,
                 assets |-> (CHOOSE p \in ToSet(u.out.assets) : p.policy = q.of).assets] : u \in under}
       [] q.route = "policy_assets" ->
            {[pos |-> a[2], asset_name |-> a[2], total_supply |-> Circulation(bs, a),
              cip25_metadata |-> LatestCip25(bs, a)] :
               a \in {x \in OfPolicy(q.of) : Minting(bs, x) # {}}}
       [] q.route = "asset_addresses" -> HolderItems(held, {q.of}, SameName)
       [] q.route = "policy_addresses" -> HolderItems(under, OfPolicy(q.of), SameName)
       [] q.route = "asset_accounts" -> HolderItems(staked(held) \cup hashed(held), {q.of}, Stake)
       [] q.route = "policy_accounts" -> HolderItems(staked(under), OfPolicy(q.of), Stake)
       [] q.route = "txos_by_txo_refs" ->
            {[pos |-> <<i>>, ref |-> q.of[i],
              out |-> LET tx == CHOOSE t \in ToSet(TxsOf(bs)) : t.hash = q.of[i][1]
                      IN  WithDatum(bs, ListedOutput(tx, q.of[i][2]), q.resolve)] :
               i \in {j \in DOMAIN q.of : \E t \in ToSet(TxsOf(bs)) : t.hash = q.of[j][1]}}

HasSlots(q) ==
  q.route \in {"txs_by_address", "txs_by_payment_cred", "txs_by_payment_creds", "utxo_refs_at_address",
               "utxos_by_address", "utxos_by_payment_cred", "policy_txs", "asset_txs", "policy_mints",
               "asset_mints", "asset_utxos", "policy_utxos"}

\* the items within the slots asked for
Wanted(bs, q) ==
  {x \in Listed(bs, q) :
     HasSlots(q) => /\ q.page.from = Absent \/ q.page.from <= x.slot
                    /\ q.page.to = Absent \/ x.slot <= q.page.to}

\* the items after a place (<<>>: all), in the given order
After(items, order, last) ==
  LET later == {x \in {y.pos : y \in items} :
                  last = <<>> \/ IF order = "desc" THEN KeyLess(x, last) ELSE KeyLess(last, x)}
      places == IF order = "desc" THEN Descending(later) ELSE Ascending(later)
  IN  Map(LAMBDA pos : CHOOSE x \in items : x.pos = pos, places)

Rest(bs, q, last) == After(Wanted(bs, q), q.page.order, last)

\* An item of a long Byron address cannot be shown.  The holder routes fail
\* when any holder is one, the others when the page has one.
Hidden(x) == ("address" \in DOMAIN x /\ x.address # Absent /\ IsHash(x.address))
             \/ ("holder" \in DOMAIN x /\ IsHash(x.holder))
FailsOnHidden(q) == q.route \in {"asset_utxos", "utxos_by_addresses"}

Unanswerable(bs, q, rest) ==
  \/ \E x \in Listed(bs, q) : "holder" \in DOMAIN x /\ Hidden(x)
  \/ FailsOnHidden(q) /\ \E x \in ToSet(First(rest, CountOf(q.page))) : Hidden(x)

-----------------------------------------------------------------------------
(* The session.                                                            *)

Idle == [state |-> "idle"]

PagesInit == Init /\ session = Idle /\ asked = FALSE

Session(state, q, cip68, then) ==
  [state |-> state, query |-> q, cursor |-> Absent, last |-> <<>>, cip68 |-> cip68, then |-> then]
Ended(state) == [state |-> state]

\* the session waits for an answer
Reading == session.state \in {"open", "scan", "fetch"}

Open(q) ==
  /\ session = Idle
  /\ Len(chain) >= Len(Prefix)
  /\ session' = Session("open", q, <<>>, "open")
  /\ UNCHANGED <<vars, asked>>

\* a request for asset_info, which reads the CIP-68 metadata of one asset in
\* the same way as policy_assets those of a page
OpenAsset(a) ==
  /\ session = Idle
  /\ Len(chain) >= Len(Prefix)
  /\ Cip68AssetType(a[2]) # Absent
  /\ ~IsError(asset_info(db, Encoder, a))
  /\ session' = Session("scan", [route |-> "asset_info", of |-> a[1]], <<a[2]>>, "done")
  /\ UNCHANGED <<vars, asked>>

\* the session when nothing is left to read for a page
Continue(next) == IF next.then = "done" THEN Ended("done") ELSE [next EXCEPT !.state = "open", !.cip68 = <<>>]

\* The session after a page: on to the next one, or ended by an error.  The
\* CIP-68 metadata of the items of policy_assets are still to be read.
AfterAnswer(page) ==
  LET next == [session EXCEPT
                 !.cursor = page.next_cursor,
                 !.last = IF page.data = <<>> THEN @ ELSE Last(page.data).pos,
                 !.then = IF page.next_cursor = Absent THEN "done" ELSE "open"]
  IN  IF IsError(page) THEN Ended("failed")
      ELSE IF session.query.route = "policy_assets"
      THEN [next EXCEPT !.state = "scan", !.cip68 = Map(LAMBDA x : x.asset_name, page.data)]
      ELSE Continue(next)

\* one request, or its first snapshot
NextPage ==
  /\ session.state = "open"
  /\ asked' = ~asked
  /\ session' = AfterAnswer(Answer(session.query, session.cursor))
  /\ UNCHANGED vars

\* go on with the outputs that are left to fetch
Fetching(todo) ==
  IF todo = <<>> THEN Continue(session) ELSE [session EXCEPT !.state = "fetch", !.cip68 = todo]

\* The second snapshot: all outputs of the policy are read, and those with
\* the reference NFT of an item are to be fetched.  What the ledger says at
\* this moment is kept for the property (said).
ScanPolicyUtxos ==
  /\ session.state = "scan"
  /\ asked' = ~asked
  /\ LET kvs == batch_scan_entire_range(db, encode_policy_utxos_range(Encoder, session.query.of, None, None))
         refs == Map(LAMBDA n : [name |-> n, ref |-> reference_nft_utxo(db, kvs, n),
                                 said |-> LedgerCip68(chain, <<session.query.of, n>>)], session.cip68)
     IN  session' = Fetching(SelectSeq(refs, LAMBDA x : x.ref # Absent))
  /\ UNCHANGED vars

\* a snapshot of its own for every output; without its transaction there is
\* no answer at all
FetchReference ==
  /\ session.state = "fetch"
  /\ asked' = ~asked
  /\ LET x == Head(session.cip68)
     IN  session' = IF IsError(try_fetch_cip68_metadata(db, Encoder, x.ref, x.name[1]))
                    THEN Ended("failed") ELSE Fetching(Tail(session.cip68))
  /\ UNCHANGED vars

\* a scan runs out of time, or TiKV fails: an error whatever the data
RequestFails ==
  /\ Reading
  /\ asked' = ~asked
  /\ session' = Ended("failed")
  /\ UNCHANGED vars

Close ==
  /\ session.state \in {"done", "failed"}
  /\ session' = Idle
  /\ asked' = FALSE
  /\ UNCHANGED vars

Indexing ==
  /\ \/ /\ Len(chain) < Len(Prefix)
        /\ RollForwardMutable(NextBlock(Len(chain) + 1, Prefix[Len(chain) + 1]))
     \/ /\ Len(chain) \in Len(Prefix)..(MaxBlocks - 1)
        /\ \E b \in NewBlocks : RollForwardMutable(b)
     \/ \E n \in 1..(Len(chain) - Len(Prefix)) : RollBack(n)
  /\ UNCHANGED <<session, asked>>

PagesNext ==
  \/ \E q \in Queries : Open(q)
  \/ \E a \in Assets : OpenAsset(a)
  \/ NextPage
  \/ ScanPolicyUtxos
  \/ FetchReference
  \/ RequestFails
  \/ Close
  \/ Indexing

\* The client asks for the next page as long as there is one, and a request
\* goes on.  A step that changes asked in such a session is one of NextPage,
\* ScanPolicyUtxos, FetchReference and RequestFails, and one of them is
\* enabled as long as the session is reading.
Asks == Reading /\ asked' = ~asked

PagesSpec == PagesInit /\ [][PagesNext]_allVars /\ WF_asked(Asks)

-----------------------------------------------------------------------------
(* Properties of lists.                                                    *)

\* a page against the items that are left
PageShows(page, q, rest) ==
  IF Unanswerable(chain, q, rest) THEN page = internal_server_error
  ELSE /\ ~IsError(page)
       /\ page.data = First(rest, CountOf(q.page))
       /\ Len(rest) > CountOf(q.page) => page.next_cursor # Absent
       /\ page.next_cursor # Absent =>
            Len(rest) > CountOf(q.page) \/ q.route = "txos_by_txo_refs"
       /\ page.last_updated = Tip(chain)

\* Whatever happened between two pages, a page is what the ledger says at
\* the moment it is read: exactly the items after the last one served, in
\* order, with the cursor of the same snapshot, and a next_cursor exactly
\* when more follow (txos_by_txo_refs may lead to an empty last page).  The
\* server's own cursor is never refused; a page only fails for a long Byron
\* address (and, in policy_assets, in a later snapshot: see Cip68Answers).  So
\* a client that follows next_cursor to the end has seen everything that was
\* in the list all the time, and nothing twice.
PageIsNext ==
  session.state = "open" =>
    PageShows(Answer(session.query, session.cursor), session.query,
              Rest(chain, session.query, session.last))

\* A client that follows next_cursor gets to the end of the list: no cursor
\* leads back to a page it has seen.
SessionEnds == Reading ~> ~Reading

-----------------------------------------------------------------------------
(* Properties of single answers.  They do not depend on the session.       *)

Indexed == session = Idle /\ chain # <<>>

Sum(us, a) == MapThenSumSet(LAMBDA u : AmountIn(u.out.assets, a[1], a[2]), us)
Credentials == {a.payment : a \in {x \in Addresses : IsShelley(x)}}

\* the transaction of hs that comes first, or last
Earliest(hs) == CHOOSE h \in hs : \A g \in hs : KeyLess(<<h.slot, h.index>>, <<g.slot, g.index>>) \/ g = h
Latest(hs) == CHOOSE h \in hs : \A g \in hs : KeyLess(<<g.slot, g.index>>, <<h.slot, h.index>>) \/ g = h

\* The balance of a payment credential, added up over the outputs of all its
\* addresses with scans that are halved when an answer is too large, is the
\* ledger's, per asset; outputs of other credentials whose keys are next to
\* it are not counted.
BalanceAnswers ==
  Indexed =>
    \A c \in Credentials :
      LET own == {u \in Live : c \in CredsOf({u.out})}
      IN  balance_by_payment_cred(db, Encoder, c)
          = [data |-> [lovelace |-> MapThenSumSet(LAMBDA u : u.out.coin, own),
                       assets |-> [a \in {x \in Assets : \E u \in own : Holds(u, x)} |-> Sum(own, a)]],
             last_updated |-> Tip(chain)]

\* What the ledger says about the holders of assets.
HolderCounts(us) ==
  [by_address |-> Cardinality({Known(u.out.address) : u \in us}),
   by_account |-> Cardinality({u.out.address.delegation :
                                 u \in {x \in us : AccountOf(Known(x.out.address)) # Absent}})]
MintItem(h) == [slot |-> h.slot, tx_hash |-> h.tx.hash]

\* asset_info and policy_info put together four indexes (supply, updates,
\* unspent outputs, metadata): for every asset that was ever minted on the
\* chain they agree with the ledger and the handler does not panic on an
\* asset that has a supply and no update; what was only minted on an
\* abandoned fork, or by a failed transaction, is not found.
AssetAnswers ==
  Indexed =>
    /\ \A a \in Assets :
         LET mints == Minting(chain, a)
             ans   == asset_info(db, Encoder, a)
             amount(h) == AmountIn(h.tx.mint, a[1], a[2])
             item(h) == MintItem(h) @@ [amount |-> amount(h)]
         IN  IF mints = {} THEN ans = not_found
             ELSE /\ ans.last_updated = Tip(chain)
                  /\ ans.data.total_supply = Circulation(chain, a)
                  /\ ans.data.unique_holders = HolderCounts({u \in Live : Holds(u, a)})
                  /\ ans.data.first_mint_tx = item(Earliest(mints))
                  /\ ans.data.latest_mint_tx = item(Latest(mints))
                  /\ ans.data.mint_tx_count = Cardinality({h \in mints : amount(h) > 0})
                  /\ ans.data.burn_tx_count = Cardinality({h \in mints : amount(h) < 0})
                  /\ ans.data.cip25_metadata = LatestCip25(chain, a)
    /\ \A p \in {a[1] : a \in Assets} :
         LET mints == {h \in ValidTxs(chain) : MintsOf(h, p) # {}}
             ans   == policy_info(db, Encoder, p)
         IN  IF mints = {} \/ IsError(script_by_hash(db, Encoder, p)) THEN ans = not_found
             ELSE /\ ans.data.assets_of_policy = Cardinality({a \in OfPolicy(p) : Minting(chain, a) # {}})
                  /\ ans.data.total_supply = MapThenSumSet(LAMBDA a : Circulation(chain, a), OfPolicy(p))
                  /\ ans.data.unique_holders = HolderCounts({u \in Live : HoldsPolicy(u, p)})
                  /\ ans.data.first_mint_tx = MintItem(Earliest(mints))
                  /\ ans.data.latest_mint_tx = MintItem(Latest(mints))

\* A handle resolves to the address of the only unspent output that holds it:
\* never to a former owner, never to one of several, and to none that cannot
\* be shown.
HandleAnswers ==
  Indexed =>
    \A a, b \in Assets :
      LET owners(x) == {u \in Live : Holds(u, x)}
          expected(x) == IF Cardinality(owners(x)) > 1 THEN internal_server_error
                         ELSE LET u == CHOOSE y \in owners(x) : TRUE
                              IN  IF IsHash(Known(u.out.address)) THEN internal_server_error
                                  ELSE [data |-> u.out.address, last_updated |-> Tip(chain)]
      IN  a[1] = b[1] =>
            adahandle_resolve(db, Encoder, a[1], a[2], b[2])
            = IF owners(a) # {} THEN expected(a)
              ELSE IF owners(b) # {} THEN expected(b) ELSE not_found

\* A transaction of the chain is found with its block and place, its inputs
\* are the outputs they refer to, in the order of their references, with the
\* data the chain has shown; it cannot be shown when it spends an output of
\* the genesis, which is not indexed; and a transaction of an abandoned fork
\* is not found.
TransactionAnswers ==
  Indexed =>
  /\ \A tx \in TxPool \ ToSet(TxsOf(chain)) :
       /\ tx_cbor_by_tx_hash(db, Encoder, tx.hash) = not_found
       /\ tx_info(db, Encoder, tx.hash) = not_found
  /\ \A h \in History :
       LET all  == Outputs(chain)
           ans  == tx_info(db, Encoder, h.tx.hash)
           refs == ToSet(h.tx.inputs) \cup ToSet(h.tx.collateral)
           at(b) == {j \in DOMAIN b.txs : b.txs[j] = h.tx}
           b    == CHOOSE x \in ToSet(chain) : at(x) # {}
           resolved(rs) == Map(LAMBDA r : [ref |-> r, out |-> WithDatum(chain, all[r].out, TRUE)],
                               Ascending(ToSet(rs)))
       IN  /\ tx_cbor_by_tx_hash(db, Encoder, h.tx.hash).data = h.tx
           /\ IF ~(refs \subseteq DOMAIN all) THEN ans = internal_server_error
              ELSE /\ ans.data.inputs = resolved(h.tx.inputs)
                   /\ ans.data.collateral_inputs = resolved(h.tx.collateral)
                   /\ ans.data.block_hash = b.hash /\ ans.data.block_absolute_slot = b.slot
                   /\ ans.data.block_height = b.height /\ ans.data.block_tx_index + 1 \in at(b)
           /\ \A i \in 0..(Len(h.tx.outputs) + 1) :
                LET ref == <<h.tx.hash, i>>
                    txo == txo_by_txo_ref(db, Encoder, ref)
                IN  /\ address_by_txo(db, Encoder, ref)
                        = IF ref \in DOMAIN all
                          THEN [data |-> all[ref].out.address, last_updated |-> Tip(chain)] ELSE not_found
                    /\ ref \in DOMAIN all => txo.data = WithDatum(chain, all[ref].out, TRUE)

\* Blocks are found by height and by hash, linked to the blocks before and
\* after them, with confirmations counted to the cursor of the same snapshot
\* without wrapping around; a hash of an abandoned fork is not found.
BlockAnswers ==
  Indexed =>
    /\ chain_tip(db, Encoder).data = Tip(chain)
    /\ latest_block(db, Encoder).data.hash = Tip(chain).hash
    /\ block_info(db, Encoder, [height |-> Len(chain) + 1]) = not_found
    /\ \A b \in NewBlocks : block_info(db, Encoder, [hash |-> b.hash]) = not_found
    /\ \A i \in DOMAIN chain :
         LET ans == block_info(db, Encoder, [height |-> i])
         IN  /\ ans = block_info(db, Encoder, [hash |-> chain[i].hash])
             /\ ans.data.hash = chain[i].hash
             /\ ans.data.tx_hashes = Map(LAMBDA tx : tx.hash, chain[i].txs)
             /\ ans.data.previous_block = Tip(SubSeq(chain, 1, i - 1)).hash
             /\ ans.data.next_block = IF i = Len(chain) THEN Absent ELSE chain[i + 1].hash
             /\ ans.data.confirmations = Len(chain) - i

\* A datum is found by its hash exactly when some transaction of the chain
\* has shown its bytes, by the single and by the batch route.
DatumAnswers ==
  Indexed =>
    LET hashes == UNION {{d.hash : d \in ToSet(tx.data)} : tx \in TxPool}
        said(x) == {d \in SaidData(chain) : d.hash = x}
    IN  \A x \in hashes :
          IF said(x) = {}
          THEN /\ datum_by_hash(db, Encoder, x) = not_found
               /\ datums_by_hashes(db, Encoder, {x}).data = <<>>
          ELSE \E d \in said(x) :
                 /\ datum_by_hash(db, Encoder, x).data = d.bytes
                 /\ datums_by_hashes(db, Encoder, {x}).data[x] = <<d.bytes>>

\* CIP-68 metadata are what the ledger said when the outputs of the policy
\* were read, although the transaction is fetched in a later snapshot: blocks
\* that come between change nothing.  When the transaction was rolled back in
\* between, the whole request for asset_info or for the page of policy_assets
\* is answered with "not found" (utils.rs:574, 758), and only then.
Cip68Answers ==
  /\ session.state = "scan" =>
       LET kvs == batch_scan_entire_range(db, encode_policy_utxos_range(Encoder, session.query.of, None, None))
       IN  \A i \in DOMAIN session.cip68 :
             \/ reference_nft_utxo(db, kvs, session.cip68[i]) # Absent
             \/ LedgerCip68(chain, <<session.query.of, session.cip68[i]>>) = Absent
  /\ session.state = "fetch" =>
       LET x == Head(session.cip68)
       IN  try_fetch_cip68_metadata(db, Encoder, x.ref, x.name[1])
           = IF \E tx \in ToSet(TxsOf(chain)) : tx.hash = x.ref[1]
             THEN [cip68_metadata |-> x.said] ELSE not_found

\* What the routes add up or look up about holdings (balances, assets,
\* policies, handles) is what the ledger says, whatever was rolled back.
HoldingAnswers == BalanceAnswers /\ AssetAnswers /\ HandleAnswers /\ Cip68Answers

\* What the routes say about transactions, blocks and data is what the chain
\* says, and nothing of an abandoned fork is found.
ChainAnswers == TransactionAnswers /\ BlockAnswers /\ DatumAnswers
=============================================================================
