# Verification of the Maestro Cardano indexer

TLA+ modules of the indexing system in this repository, the TLC runs that check
them on small instances, and TLAPS proofs of the results that matter most.
Every definition is translated from the Rust source; `PROJECT.json` maps each
one to the lines it stands for.

## The system

```
cardano-node ──chainsync──> compressor ──gRPC page / stream──> polyphony × N ──> TiKV ──> mapi ──HTTP──> clients
                                                                    └─ cursor entries, registry ─> Redis ─┘
                                                                                                   tikv-gc
```

* **compressor** follows one node. A *pull* stage turns chainsync into events, a
  *roll* stage writes them to a RocksDB store: blocks by slot, unspent outputs,
  resolved inputs per block, and a log of the blocks that can still be rolled
  back. A gRPC service pages over the store and streams the log.
* **polyphony** is one indexer instance: a *source* stage pages from the
  compressor and then streams, a *reducer* stage turns blocks into key-value
  actions, a *storage* stage executes them in TiKV transactions. Blocks near the
  tip are executed with their inverses, kept in a rollback buffer in memory and
  in TiKV. After a commit it publishes a cursor entry and its registry score in
  Redis.
* **tikv-gc** computes the timestamp before which TiKV may forget old versions,
  from the cursor entries of all instances.
* **mapi** answers requests from one TiKV snapshot of one instance, which it
  chooses through the registry; answers of other backends go through a cache.
* **timbre** encodes keys, **daw** deletes retired instances and single ranges.

The interaction that decides correctness most is the storage stage: commit,
work-unit lock, Redis, batch, buffer and source position are updated one after
the other, and a crash, a retry or a restart can come between any two of them.
Around it, the compressor has to feed every instance one chain, the reducers
have to keep some twenty indexes equal to the ledger, the routes have to read
them back, and garbage collection and deletion work on the same store.

### Inventory

| Part | State it keeps | Modelled in |
|---|---|---|
| polyphony storage stage (`storage/tikv.rs`, `storage/mod.rs`) | TiKV keys, rollback rows, cursor, `work_unit_2pc`, batch, buffer, `last_processed`, Redis entry and score | `StorageWorker` |
| what a reader of the store may rely on | the store | `ChainView` (abstract) |
| storage actions, merge, inverse (`model.rs`, `storage/tikv.rs`) | none | `StorageActions` |
| sync batcher (`storage/tikv.rs`) | one merged action per key | `SyncBatcher` |
| rollback buffer (`rollback/buffer.rs`) | points and inverses, newest first | `StorageWorker` |
| source stage (`sources/compressor/`) | mode, position | `StorageWorker`, by the order of its messages only |
| reducers, filters, error policies (`reducers/*.rs`, `crosscut/`) | none | `Reducers` |
| the indexes over a chain | key space, batch, inverses | `Index` |
| timbre (`encoding/*.rs`) | none | `KeySpace`, `Timbre` |
| mapi routes over TiKV (`routes/`, `utils.rs`) | none | `Routes` |
| a client that pages | `next_cursor` | `Pages` |
| mapi cache, ogmios and db-sync queries (`cache.rs`, `ogmios_v6.rs`) | value, error, lock | `TtlCache` |
| mapi instance resolution (`key_resolver.rs`) | registry scores | `Fleet` |
| tikv-gc | entries read, safepoint | `Fleet` |
| daw | running command | `Daw` |
| compressor store (`storage/mod.rs`, `storage/txos`) | blocks, outputs, resolvers, last hash | `ChainDB` |
| compressor log (`storage/mutable`) | log entries, next sequence number | `ChainDB`, `MutableStream` |
| compressor pull and roll stage, start (`sync/`) | breadcrumbs, channel, `mutable` | `ChainSync` |
| compressor gRPC service (`serve/grpc.rs`) | none | its stream: `MutableStream` |
| mapi routes over db-sync, health, metrics, console, emulated source | none the properties are about | not modelled |

`PROJECT.json` lists every component with its files and the hazards at the lines
where they bite; a hazard without a property has a note.

## Modules

| Module | What it is |
|---|---|
| `StorageActions` | `StorageAction`: execution with and without inverse, `merge`, how an inverse is persisted. Operators on one key. |
| `SyncBatcher` | One key in the life of the batcher: push, flush on either path, undo. |
| `StorageWorker` | The storage stage with the source it reads from, crashes, restarts, retries, lost commit answers, Redis failures. |
| `ChainView` | The abstract specification of a store that moves along one chain, forward and back by bounded steps. `StorageWorker` instantiates it (`View`). |
| `KeySpace` | The order of keys, scans, ranges, namespaces and the prefixes of lists: what the proofs are about. |
| `Timbre` | On top of it the keys, values and page cursors of every index, with their decoders. |
| `Reducers` | What each reducer emits for a block, and the storage action every output becomes. |
| `Index` | An instance that reduces blocks into the key space, batched or with inverses, and rolls back; the ledger as reference. |
| `Routes`, `Pages` | The routes as operators on a snapshot; a client that pages while `Index` moves. |
| `TtlCache` | `get_or_refresh` and its refresh, await by await. |
| `Fleet` | Instances, their Redis calls, the garbage collection job, the registry, retirement. |
| `Daw` | The admin tool, call by call, beside a live instance. |
| `ChainDB` | The compressor's store and log. |
| `ChainSync` | `ChainDB` composed with the pull stage, the channel, the roll stage and a node. |
| `MutableStream` | A reader of the log against commits, pruning and the notifier. |
| `MCSyncBatcher`, `MCStorageWorker`, `MCChainState`, `MCIndex`, `MCPages`, `MCFleet`, `MCDaw`, `MCChainSync` | Instances for TLC. |
| `ChainInvariant` | The inductive invariant of `StorageWorker` and the hypothesis `Exact`; checked by a run and proved. |
| `SyncBatcherProofs`, `OrderLemmas`, `ChainStateProofs`, `MutableStreamProofs`, `TtlCacheProofs`, `FleetProofs`, `ChainSyncProofs`, `KeySpaceProofs` | Theorems and proofs. `OrderLemmas` has what the others share: least and greatest elements, ranks, trees of blocks. `ChainStateProofs` is about `StorageWorker`, `KeySpaceProofs` about `KeySpace` and `Daw`. |

### StorageWorker and the code

`store` and `rows` are TiKV (data, and rollback metadata per point); `entry` and
`score` are Redis; `batch`, `buffer`, `lastProcessed`, `registered` and `twoPC`
are the fields of the worker; `pc`, `unit` and `result` say where
`Worker::execute` is; `src` is the source stage's mode and position. A worker
restart (`or_restart`, `or_retry`) keeps the worker's fields; a panic ends the
process and loses them.

| Action | Code |
|---|---|
| `Schedule`, `Reschedule` | `schedule`: the next message, or the unit `work_unit_2pc` holds |
| `PushToBatch` | `execute`, immutable block that does not fill the batch |
| `Commit` | the transaction of the unit (batch flush, mutable block, rollback) commits |
| `CommitFails` | it fails and the unit will be executed again |
| `CommitUndetermined` | the answer is lost: it happened or not, the stage panics |
| `RollBackRefused` | rollback to a point the buffer does not hold: panic |
| `Publish`, `PublishFails` | cursor entry, registry score and the memory updates after the commit; a Redis call fails |
| `Crash`, `Restart` | the process ends; `bootstrap` restores buffer and position |
| `SwitchToStreaming` | the source found its position in the compressor's log |

A block's actions are a constant function from keys to one action each, and
`StateAt` is the store the chain up to a point leads to. A first start is at the origin,
the default; the other two configurations, the compressor's tip and a given point
(`sources/utils.rs:63`, an error if the compressor does not have the point), are left out.
So are key bytes, metrics and paranoid verification: `verify_mutations` (`tikv.rs:2061`)
reads the keys of committed blocks back, puts or deletes again what differs, and writes a
progress key of its own.

`ChainView` has one variable, the store, and one kind of step: from the state of
a point to the state of a descendant at most `MaxForward` blocks on, or of an
ancestor at most `MaxBack` blocks back. The mapping is the identity on `store`; batch,
buffer, rows, source and Redis are hidden. `MaxForward` is a full batch and the
mutable block that is committed with it, `MaxBack` what the buffer can undo.

### KeySpace, Timbre, Reducers, Index and the code

A key is a sequence of numbers in lexicographic order. A field of fixed width is
one number; names and Byron addresses, whose length varies, are spelled out
behind their length as `encode.rs` does, because that is where two keys can get
out of step. Every `encode_*` and `decode_*` operator has the name of its function.

A reducer is an operator from a block and its context (the outputs it consumes,
with the slots that made them) to a sequence of outputs; `reducer_output_to_storage_ops`
turns them into actions. `RollForwardImmutable` merges them into the batch, `Flush`
executes it, `RollForwardMutable` executes a block and keeps its inverses, `RollBack`
undoes. Here every step commits: what can happen between two commits is the
subject of `StorageWorker`, whose constant `Actions` is what `Reducers` computes.

### Routes, Pages and the code

A route is an operator from a snapshot, an encoder and parsed parameters to a page,
a value or an error. `Pages` runs them: a client opens a list (`Queries`), asks for
pages with the cursor it was given, and blocks arrive or are rolled back in
between. A request that runs out of time, or a failing store, ends the session
(`RequestFails`). The routes are taken on one snapshot of one instance, with one exception:
`policy_assets` and `asset_info` look for the output with the reference NFT of a CIP-68
asset in a second snapshot (`ScanPolicyUtxos`) and fetch its transaction in a third
(`FetchReference`), so the chain can move within the request. When it rolls that transaction
back in between, the answer is 404; `Cip68Answers` says that this is the only way to lose the
metadata. The code departs from one snapshot in two more places, which are left out:
`tx_count_by_address` opens two, and several handlers resolve the instance again for each
index, so that a change of the registry within a request can mix two instances.
`tx_info` is modelled without reference inputs, so the failure to fetch one
(`tx_info.rs:506`) is missing. What a 721 metadatum says is the set of assets it
describes; what a datum says of CIP-68 is the set of fields it has.

### TtlCache, Fleet, Daw and the code

In `TtlCache` each `await` of `get_or_refresh` is a step and a place where the caller
can be cancelled; the refresh is the db-sync query, which has no timeout
(`utils.rs:1821`), and the ogmios query with timeouts and retries. In `Fleet` every Redis call after a commit is a step
(`Publish`), and so are the job's reads of the key set and of each instance's entries
(`GcFetch`, each at a moment of its own), the announcement, the pruning of each instance's
entries and the submission. `Timely` bounds delays: an instance publishes a commit
within `PublishTime`, the job reads Redis within `FetchTime`, and its clock is `ClockAhead` of
TiKV's; the safe zone has room for the three together (`FleetConstants`). Retirement is what
`docs/operations.md` describes: the instance is stopped, the operator removes its member of the
registry by hand, daw deletes timestamps and data, in any order, since no tool checks it. In
`Daw` every Redis call and every transaction is a step, `ScanFails` is a scan that is repeated after
an error, `Abort` breaks a command off anywhere, `Index` is a live instance that writes meanwhile.

### ChainDB, ChainSync and the code

`blocks`, `resolvers`, `txos` and `wal` are the four column families, `nextSeq`,
`lastHash` and `mutable` the fields of `ChainDB` and of the roll stage. An output is its
reference; what is stored for it is the slot that produced it. `Apply` is
`apply_block_with_context`, `Rollback` and `RollbackToOrigin` are the two rollbacks,
all with the roll stage's decision to become mutable; `Close` and `Open` are the end
of the process and `open` with `insert_genesis_txos`.
`ChainSync` adds the node (its chain, and the read pointer of the session), the
breadcrumbs of the pull stage and the channel. `PullForward` and `PullBack` take the
node's next response, send the event and keep the breadcrumb; `RollNext` executes
an event, `GiveUp` is the end of a process whose roll stage has used up the retries of a
refused event: in sync mode the process ends by itself, in daemon mode it goes on without a
roll stage until someone ends it. `Reconnect` and `Crash` come at any time. A rollback to the origin leaves the old
breadcrumbs in place, and after a reconnection the node may then intersect at a
point the store has just dropped: the history variable `kept` marks this, the one
case in which an event is refused. The transactions are any that a valid ledger has
(`LedgerAssumption`): a transaction requires what it consumes, what it requires exists and
is unspent on its chain, and what it produces is new there. Slots grow strictly along a chain (a Byron
epoch boundary block that shares a slot with its successor is outside the model).

### MutableStream and the code

The stream compares sequence numbers and nothing else, so numbers are counted
from the last entry sent. This keeps the state finite while the chain grows
forever, which liveness needs. `Apply` and `Rollback` commit entries, `Notify` is
`notify_waiters`, a step of its own after the commit; `Iterate`, `Send`, `Close`
and `Wait` are the steps of `stream_mutable`. That the entries themselves
lead from one to the next is `LogLeadsToTip` of `ChainDB`.

## Runs

| Run | Result | What it shows |
|---|---|---|
| `sync_batcher` | pass | Merging equals executing one by one on every family and path that treats a merged delta of zero like its parts; inverses restore on all of them. |
| `storage_worker` | pass | The store is the state of the chain its cursor names, units extend it, buffer and persisted buffer agree with the chain (but for points a sparse stretch has outrun), Redis names committed states; with crashes, retries, lost answers, rollbacks, restarts on another fork. It implements `ChainView`. |
| `redis_faults` | pass | With Redis failing at will, the score of an instance moves only while it streams mutable blocks: a backfilling instance never announces itself. |
| `index` | pass | After every sequence of blocks, batches and rollbacks the indexes are the ledger: unspent outputs, balances, supplies, counts, histories, data, scripts, metadata, blocks. |
| `pages` | pass | Every page is what follows the last item at the moment it is read, sessions end, and single answers are what the ledger says, CIP-25 and CIP-68 metadata included. |
| `ttl_cache` | pass | One refresh at a time, no answer older than what was stored when the caller came, every request answered unless a db-sync query hangs. |
| `fleet` | pass | No step of the job collects an instance's tip or the common block, readers within the safe zone are never hurt, requests go to instances that hold data (or to one deleted by daw and left registered). |
| `daw` | pass | Only what was forced is changed, success means that nothing is left, the cursor goes first, commands end or fail to scan for ever. |
| `chain_sync` | pass | The compressor's store is one chain with exactly its outputs and resolvers, no event is refused (but in the case above), the log replays to the tip, and the store catches up with the node. |
| `mutable_stream` | pass | No entry is sent after a missed one, streams close only when they missed one, every committed entry is sent or the stream closes. |
| `redis_error_after_commit` | violation | Redis failure after a commit: batch applied twice, block lost. |
| `dry_run_destroys` | violation | `--destroy-mode` without `--force` destroys the range. |

The two violating runs check what a document of the repository says; `PROJECT.json`
quotes it.

### What the passing runs leave out

Each of these is a difference between the code and what one would expect of it.
The instances above exclude it by a constant, an exception in the property, or by
their inputs, as said here.

* A Redis failure after a commit (`RedisMayFail`): run `redis_error_after_commit`.
* A switch to streaming after exactly one paged block (`SwitchAfter`): `last_processed`
  lags behind the batch (`tikv.rs:1852`), the buffer starts at the wrong point, and a
  rollback to it leaves the paged block's writes.
* The log of the compressor no longer has the point an instance resumes from
  (`WalMayMiss`): blocks paged while the restored buffer is not empty are missing from it
  (`tikv.rs:1730`). `find_wal_seq` also misses points of a new fork whose slots
  lie before an entry of the old one (`mutable/mod.rs:115`).
* A mint and an equal burn merged in one batch leave no supply key (`ExactKinds`),
  although the comment at `tikv.rs:715` wants to find such assets.
* The cursor entry written when a batch is flushed names the incoming block, which
  is not in the commit (`EntryIsCommitted` is about the other entries; `tikv.rs:1678`).
* An inverse that restores an empty value is persisted like one that deletes
  (`tikv.rs:332`; no key of the instance holds an empty value).
* Spent genesis outputs are written again at every start (`OutputsAreUnspent`).
* A transaction that spends a genesis output cannot be shown, since those are not
  indexed, and a long Byron address, stored by its hash, fails the request
  (`Unanswerable` in `Pages`); failed transactions are not in the list of a policy.
* `--destroy-mode` without `--force` (`UnforcedDestroy`): run `dry_run_destroys`. The
  deletion of a dataplane leaves the info keys, and no deletion removes the scores.
* In daemon mode the compressor awaits its server before its pipeline
  (`daemon.rs:29`): a roll stage that has ended leaves a store that no longer moves. It takes
  a refused event, so the case above; it is the second half of `CatchesUp`.
* `docs/design.md:243` says that the rollback buffer "survives process restarts". Its metadata
  is kept for twenty slots per block (`tikv.rs:1334`): on a sparser stretch of the chain the
  buffer in memory has points that a restart loses (`Outrun`, in `RunwayIsPersisted`).
* The comment at `cip25_metadata_by_asset.rs:4` says that 721 metadata are stored only when they
  have the "expected fields (policy -> name) for the asset". The reducer does not look: metadata
  that describe another asset replace those of the last mint, and mapi then
  shows none (`MetadataIsLatestMint` and `LatestCip25` follow the code).
* An instance that daw has deleted and the operator has left in the registry can be
  selected (`AnswererHasData`); `docs/operations.md:51` warns of it.
* A db-sync query that never ends holds the refresh lock, and every later caller waits
  behind it (`Answered`).
* daw repeats a scan that fails without limit (`Ends`), and with `--scan-size 0` a forced deletion
  finds nothing, deletes nothing and reports success (`DoneMeansGone` then speaks of the timestamps only).
* The source ignores `Undo` and `Origin` entries (`compressor_worker.rs:125`), so a rollback
  of the whole chain never reaches an instance.

### Bounds, and why they are enough

* `storage_worker`: seven blocks, a fork after the third, two blocks that share a
  slot. `MaxBufferLen` 3 (32 in the code): the buffer fills, drops its oldest
  block, and rollbacks go to every depth and beyond it. Twenty slots per block
  with `GcSlots` = 20 · `MaxBufferLen`, the code's ratio, so that metadata is
  garbage-collected. `BatchLen` 1 is the default of `sync_batch_size`. One counter
  whose deltas differ from block to block, so that a block applied twice or
  skipped is seen, and one bytes key that is set, deleted and inserted.
* `redis_faults`: four blocks and absolute writes, so that repeated blocks do not
  make the state space infinite; buffer of two, metadata kept for two blocks.
* `sync_batcher`: three byte strings, deltas 1 to 3, counters up to 6: ties and both
  orders of larger and smaller occur.
* `index`: three blocks of up to two transactions out of six: mint, burn, transfer
  within a credential, a failed transaction with collateral return, an output
  spent in its own block, a datum by hash and later by bytes; an asset name that is a
  prefix of the other, Byron addresses on both sides of the length limit.
* `pages`: two more blocks in front, pages of one or two items, scans that have to be
  halved, both orders, every list route. Lists have up to four pages. One policy has a CIP-68
  reference NFT, an NFT and a token, with a datum that has the fields of the one and not of the other.
* `ttl_cache`: two callers, three refreshes, a clock up to 4 with lifetimes of 2
  and 1, so that values and errors lapse under a waiting caller. The theorems
  are for any number.
* `fleet`: two instances (symmetric), four blocks with a fork, two runs of the job, one
  event (crash, retirement or fork), a safe zone of three milliseconds with a delay of one for the
  instances and for the job and a clock that is one ahead. One timestamp per
  millisecond; the order within a millisecond was checked with two and smaller
  delays, and the theorems are for any number.
* `daw`: a retired instance at the end of one dataplane (its range crosses a byte), a
  retired and a live one in the next, two commands, scans of 0 and 3 keys with room
  for 2 in a message.
* `chain_sync`: six blocks on two forks that carry the same transactions at
  different slots, two chained transactions in one block, a shared slot, a window
  of three slots so that the log is pruned, three breadcrumbs (20 in the code), a
  channel of two (50), two changes of the node's chain, two outages: enough to
  fork while events are queued, lose the connection, and fork again.
* `mutable_stream`: eight entries behind, rollbacks of up to two blocks. `MinKept` = 2
  says that pruning leaves at least two entries: the window is 129600 slots and
  blocks are far denser.

### Fairness

* `MutableStream`: `WF(Write)`, the chain grows, so the roll stage commits again and
  again; `WF(Notify)`, after a commit the code reaches `notify_waiters` without
  waiting; `WF(Read)`, the gRPC server polls the stream of a connected consumer. The
  first is needed: a wakeup that comes between an iterator's snapshot and
  `notified()` is lost, and the entry stays unsent until the next commit.
* `ChainSync`: `WF(Steps)`, the stages are tasks that run when they can, and the
  process is started again when it ended. `GiveUp` is not fair: nobody has to end a daemon
  whose roll stage is gone. The node's changes, lost
  connections and crashes are not fair and bounded in number: `CatchesUp` says what
  happens once they stop.
* `TtlCache`: each caller is a task the runtime polls; its attempts at ogmios end, since
  they have timeouts. The end of a db-sync query and cancellation are not fair.
* `Daw`: a running command makes its next call, which may fail (`WF(Steps \/ ScanFails)`): that
  a scan succeeds some time is not assumed. Being broken off and the writes of a live
  instance are not fair.
* `Pages`: the client goes on asking while its session is open, and a request goes on to its
  next snapshot or fails. Blocks are not fair.

The other modules state safety only.

## Proofs

| Theorem | Statement |
|---|---|
| `SyncBatcherProofs!TypeCorrect`, `MergingIsExact`, `UndoIsExact` | Types, and the two properties of `sync_batcher`, for every set of values, deltas and bounds; the second for every kind of key. |
| `ChainStateProofs!TypeCorrect` | `TypeOK` for every tree of blocks, keys, actions and every configuration, failures included. |
| `ChainStateProofs!ChainInvariance` | `ChainInv` is inductive, under `Exact`. |
| `ChainStateProofs!StoreFollowsChain`, `UnitsExtendStore`, `CommitsLand`, `BufferFollowsChain` | The four safety properties for every tree of blocks, under `Exact`. |
| `ChainStateProofs!ImplementsChainView` | `StorageWorker` implements `ChainView`, under `Exact` (so for batches of at most one block). |
| `ChainStateProofs!RedisFollowsCommits` | `RedisIsCommitted`, under `Exact` and without `AdvertiseImmediately`. |
| `ChainStateProofs!RunwayPersisted` | `RunwayIsPersisted`, under `Exact`, on any chain. |
| `ChainStateProofs!BackfillUnadvertised` | `AdvertisedAfterMutable` for every configuration without `AdvertiseImmediately`, Redis failures included. |
| `MutableStreamProofs!NeverSkips`, `NeverClosesEarly` | `NothingSkipped` and `ClosedOnlyIfLost` for every lag, rollback depth and pruning. |
| `TtlCacheProofs!RefreshesOnce`, `OneSlot`, `AnswersAreCurrent` | `SingleFlight`; that a value and an error are never in force together; `AnswerIsCurrent`; for every set of callers and all lifetimes. |
| `FleetProofs!ReadersSafe`, `CommonBlock`, `TipsKept` | The three promises of the safepoint (`ReadersAreSafe`, `CommonBlockKept`, `TipKept`) for any number of instances, networks, jobs and events, any tree, and any safe zone with room for the delays and the clocks. |
| `FleetProofs!AnswererHolds` | `AnswererHasData`, for the same. |
| `ChainSyncProofs!SyncInvariance` | The invariant of the events on their way. |
| `ChainSyncProofs!StoreOneChain`, `EventsAreAccepted`, `OutputsUnspent`, `ResolversComplete`, `LogReachesTip` | Every safety property of `chain_sync` for any tree of blocks, any valid ledger, any channel, number of breadcrumbs and pruning window. |
| `KeySpaceProofs!PrefixRange` | The range of an instance or a dataplane, computed by incrementing the last byte that can be, holds exactly the keys that start with its bytes. |
| `KeySpaceProofs!ItemInRange`, `PagesFollow`, `PagesFollowBack` | An item is in the range of a list exactly if it is within the bounds; what a page served and what the range behind its cursor holds are together what the range held, with nothing twice, in both orders; a page that is not full was the last. For every database, list and limit. |
| `KeySpaceProofs!ListsAreApart`, `AssetsAreTold`, `AddressesAreTold` | Two lists whose ranges share a key have the same prefix; the prefix tells instance, policy and asset name, or instance and address, except that long Byron addresses with one hash share a list. |
| `KeySpaceProofs!DawSafe` | The inductive invariant of the deletions. |
| `KeySpaceProofs!DawTypes`, `DeletedIsGone` | `TypeOK` and `DoneMeansGone` for any instances, data, commands, scan sizes and size of answers. |
| `KeySpaceProofs!DeletesOnlyWhatIsForced`, `CursorIsDeletedFirst` | `OnlyWhatIsForced` and `CursorGoesFirst` for the same, without `UnforcedDestroy`. |

Assumptions on the constants are the named `ASSUME`s of the component modules: the
blocks form a tree with slots growing along it, every block sets the cursor key
to itself, `StateAt` executes the blocks in order, the marker values are distinct,
lifetimes are natural numbers, the ledger is valid, `PerTick` is positive, the safe zone has room for
the delays, an instance
has finitely many keys and each of them sorts after its cursor (`DawConstants`; `C` is the
least of the tags). TLC evaluates
all of them on the instances. Bounds such as `MaxTso`, `MaxJobs` or `MaxEvents` are
constants of the specifications, so the theorems hold for all their values.

**The argument.** `StoreIsChainState` is not inductive: what a commit writes
depends on the batch, on the buffer's inverses and on the source's position.
`ChainInv` adds that the persisted rows are the upper end of the cursor's chain
with the inverses computed on it (`RowsInv`); that the batch is empty or holds the
cursor's child (`BatchInv`); that the buffer is an unbroken piece of the chain
from the cursor down (`BufferInv`); that the source is exactly one unit ahead
(`SourceInv`); that the unit extends what storage holds (`UnitInv`); and how
`lastProcessed` follows the pages (`PagedInv`). A rollback is exact because every
inverse is an absolute write of the value before its block, so for each key the
oldest inverse decides, and that is the value at the fork point; the induction
over the length of the rollback is replaced by a least counterexample
(`OrderLemmas`). A restart rebuilds the buffer from the rows in slot order, which
on one chain is the order of the blocks. `storage_worker` checks `ChainInv` with
TLC.

For the stream the invariant is small: an entry is lost exactly when the
iterator does not start right after the last one sent, and then the oldest entry
of the log lies after the next one to send and stays there, so every later
iterator fails the comparison too (`StreamInv`).

For the refinement `ChainInv` gives the points before and after each commit, and what
remains is how far apart they are: a flush moves by the batch, the first mutable
block by one more (`RollForwardIsForward`), and a rollback by the points the buffer
drops, which are fewer than `MaxBufferLen` (`BufferCovers`, `RollBackIsBack`). Every other step
leaves the store alone.

For the cache the invariant `CacheInv` says who holds the lock at which label
(`LockHeld`) and what the holder has seen since it got it (`Seen`): past the second
check neither slot is in force, and nobody else can write one; time only lets
slots lapse. `AnswerInv` adds that a slot in force holds the outcome stored last, and that
what the leader has in hand is at least as new.

For Redis: a registered worker has no page left to execute, since registration, a pending
mutable block and streaming go together (`StreamInv`); and its score is the slot of the
cursor except between a commit and its publication (`RedisInv`). The metadata covers the
buffer because every point of what the buffer is about to become is persisted, the origin or
outrun (`RunwayInv`): what a commit collects is further from the new block than the buffer reaches,
or lies more than `GcSlots` slots before a block that is fewer than `MaxBufferLen` blocks away.

For the safepoint (`SafepointInv`) the point is what the job has *not* seen. Entries are
written one by one while it reads, but an entry it missed was committed at most
`PublishTime` before the job started to read (`Missed`), and one that is still to be published at
most that long ago (`Due`, both from `Timely`). The safepoint stays before either, because the safe zone is counted
back from the end of the reads and has room for both delays and the clocks (`RoomForDelays`); so the
bounds computed from a stale view hold for what is in Redis when it is announced, and stay
true while entries are pruned and until TiKV gets it (`PruneInv`). `TipKept` needs that no
two commits of an instance share a timestamp and that the calls after a commit concern one
entry (`TodoInv`). For the registry, all running instances stay on chains through one
immutable block (`TrunkInv`), so none that was advertised ever rolls back to nothing.

For the compressor (`SyncInv`) the store alone says nothing of the next event, so the
invariant follows the events on their way: the first one in the channel starts at the
stored tip, each next one where the last one leads, and a confirmed session is where the
last one leads (`Follows`, `Tracks`). What makes a reconnection safe is the order
of the breadcrumbs: one that is no longer on the chain comes after one it extends, so the
node never finds it first (`Shadowed`). A rollback to the origin breaks exactly this,
which is what `kept` records. For the tables, applying a block to what the chain to its
parent leaves gives what the chain to the block leaves, transaction by transaction, and
undoing it in reverse with its resolver takes this back; the recursion over
transactions and blocks is unfolded by a least counterexample (`Iterated`, `ApplyLeaves`,
`UndoLeaves`, `UndoAllLeaves`), with ledger validity at each step. TLC checked
`SyncInv` on the instance of `chain_sync` before it was proved.

For the key space everything comes from two facts: keys are in lexicographic order, and
a scan returns the least keys of a range, in order. Any common prefix can be cancelled in a
comparison, so a range between two keys that extend a prefix holds only keys that extend
it. Within a list the break byte and its successor bound the items, and a cursor bounds what is
beyond the item it was made from. Lists are apart because what follows the tag of
a reducer tells its own length (`Owner`): it has fixed width, or carries the length of a name
or a Byron address, or the kind of a delegation part; so when one prefix begins another they
are equal (`OwnersDelimited`).

For daw the properties speak of what was deleted in total, and a step knows only its batch.
`DawInv` adds where the running command is: everything it has scanned lies in its range
(`InItsRange`), a forced command is recorded and touches no live instance (`Lawful`), and below
the key where the next scan starts only the batch of the open transaction is left (`Swept`). The
last one is what makes success mean that nothing is left, and it is kept although live instances
write meanwhile because their keys are outside the range, by `PrefixRange`.
Every step changes a key in one of a few ways (`StepOnKey`), from which the three properties
follow key by key; the cursor is the least key of its instance, so the first scan that returns
a key of the instance has the cursor in its batch. TLC checked `DawInv` on the instance of `daw`
before it was proved.

**Hypotheses (`Exact`)** and what fails without each:

| Hypothesis | Without it |
|---|---|
| batches of at most one block | the buffer starts before the batch, as after one paged block |
| no switch to streaming after exactly one paged block | see above, `SwitchAfter` |
| no Redis failure | `redis_error_after_commit` |
| the log reaches back to the resume point | see above, `WalMayMiss` |
| a mutable block's merged actions leave what the plain path leaves | a counter raised and lowered by the same amount in one mutable block is written as zero instead of left absent |
| no key holds the empty value | a rollback after a restart deletes it |

No hypothesis is about how dense the chain is: the code keeps metadata for 32 · 20 = 640 slots of 32
blocks (`tikv.rs:1334`), the average rate of blocks, and in a sparser stretch a rollback can be possible
before a restart and refused after it. `Outrun` is the set of points this concerns, for the tree at hand. `AdvertiseImmediately` is the option that puts a
backfilling instance into the registry on purpose.

Of the key space, the theorems assume that BLAKE2b returns a number, and of daw:

| Hypothesis | Without it |
|---|---|
| no `--destroy-mode` without `--force` | `dry_run_destroys` |
| no dataplane has the number 73, the tag `I` | the info keys of all instances start with that byte (`encode_info_key`), so deleting the dataplane deletes them too |

**Only model-checked:** the invariants of `Index` (`UtxoIndexesAreTheLedger`, `AggregatesAreSums`,
`HistoriesAreComplete`, `LookupsAreTheChain`, `RecordsAgree`) and `Pages` (`PageIsNext`,
`HoldingAnswers`, `ChainAnswers`): reducers and routes are recursive operators over the
transactions of a block and the keys of a scan, and what such a definition computes needs an
induction over data that the prover does not have. What holds of the key space below them
for every input is in `KeySpaceProofs`: `PageIsNext` rests on `PagesFollow`, `PagesFollowBack` and
`ListsAreApart`, and on the decoding of cursors, which TLC checks. Also `TypeOK` where no theorem
names it, and every liveness property (`SentOrClosed`, `CatchesUp`, `Answered`, `SessionEnds`, `Ends`),
since liveness under fairness is outside what the prover does.

## Not modelled, and why

* mapi's routes over db-sync (accounts, pools, epochs, system start): each is one SQL
  query over tables of another program and the formatting of its rows.
* Paging over a snapshot in the compressor's gRPC service, the page and stream
  loop of the source stage, and `find_wal_seq`: they read, and `StorageWorker` has the
  messages that can come out of them, in the order they can come.
* Paranoid verification, an option for debugging (above); the first start at a tip or at a point.
* Display only: metrics, health, console. The health
  stage is the reader of two bounded channels; that it keeps reading is assumed.
* Formatting and encoding of values: CBOR, protobuf, HTTP responses, addresses as text.
  Of the decoders, those that no route calls are left out.
* RocksDB, TiKV, Redis, tokio, gasket, pallas and the node: modelled by how this
  code uses them (atomic transactions, snapshots, lost answers, retry and restart of
  a stage, the protocol of chainsync).
* The emulated source, a replay for tests, and set-up code.
