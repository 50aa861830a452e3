-------------------------------- MODULE Fleet --------------------------------
(***************************************************************************)
(* Several polyphony instances over one chain, what they publish to redis  *)
(* after a commit (services/polyphony/src/storage/tikv.rs), the garbage    *)
(* collection job that reads it (services/tikv-gc), the instance registry  *)
(* that mapi resolves from (services/mapi/src/key_resolver.rs), and the    *)
(* retirement of an instance (docs/operations.md, services/daw).           *)
(*                                                                         *)
(* Every redis call and every transaction is a step of its own.  What an   *)
(* instance stores is left out: a snapshot is a timestamp, and it is       *)
(* readable as long as TiKV's safepoint has not passed it.  A timestamp is *)
(* a number, PerTick of them to a millisecond.                             *)
(***************************************************************************)
EXTENDS Integers, Sequences, FiniteSets, FiniteSetsExt, Functions

CONSTANTS
  Instances,
  Network,        \* of each instance
  Blocks,         \* the tree of blocks but for its root
  Root, Slot, Parent,
  Ancestors,      \* the chain that ends in a block, or the root alone
  Immutable,      \* the blocks below the mutable window when they are served
  SafeZone,       \* milliseconds that garbage collection must leave alone
  PublishTime,    \* milliseconds in which an instance publishes a commit
  FetchTime,      \* and in which the job reads redis
  ClockAhead,     \* of the job's host before TiKV's clock, in milliseconds
  PerTick,        \* timestamps per millisecond
  MaxTso,         \* bounds the timestamps
  MaxEvents, MaxJobs \* and the steps that could go on for ever

Points == Blocks \cup {Root}

\* The safe zone has room for both delays and for the difference of the clocks.
ASSUME FleetConstants ==
  /\ SafeZone \in Nat /\ PerTick \in Nat \ {0}
  /\ PublishTime \in Nat /\ FetchTime \in Nat /\ ClockAhead \in Int
  /\ PublishTime + FetchTime + ClockAhead <= SafeZone
  /\ MaxTso \in Nat /\ SafeZone * PerTick <= MaxTso
  /\ Root \notin Blocks /\ Immutable \subseteq Blocks
  /\ Slot \in [Blocks -> Nat] /\ Parent \in [Blocks -> Points]
  /\ \A b \in Blocks : Parent[b] \in Blocks => Slot[Parent[b]] < Slot[b]
  /\ Ancestors \in [Points -> SUBSET Points]
  /\ Ancestors[Root] = {Root}
  /\ \A b \in Blocks : Ancestors[b] = Ancestors[Parent[b]] \cup {b}

VARIABLES
  tip,          \* of the chain the compressor serves
  tso,          \* the latest timestamp
  up,           \* is the instance in service: its id is not used again
  recv,         \* the last block in its batch or store
  cursor,       \* the last block in its store
  registered,   \* its flag that it is advertised
  todo,         \* the redis calls that follow its last commit
  keys,         \* tikv-timestamps-keys
  entries,      \* tikv-timestamps:<instance>, [block, ts]
  scores,       \* the registry: a slot per advertised instance
  gc,           \* the job: [pc, at, left, map, sp]
  announced,    \* tikv-gc-safepoint
  safepoint,    \* TiKV's
  known,        \* the instances that the last submitted safepoint took into account
  left          \* what is left of the bounds

instanceVars == <<up, recv, cursor, registered, todo>>
redisVars == <<keys, entries, scores>>
gcVars == <<gc, announced, safepoint, known>>
vars == <<tip, tso, instanceVars, redisVars, gcVars, left>>

physical(ts) == ts \div PerTick
now == physical(tso)

Idle == [pc |-> "idle", at |-> 0, left |-> {}, map |-> <<>>, sp |-> 0]

Init ==
  /\ tip \in {b \in Immutable : \A c \in Immutable : Parent[c] # b} /\ tso = SafeZone * PerTick
  /\ up = [i \in Instances |-> TRUE]
  /\ recv = [i \in Instances |-> Root] /\ cursor = [i \in Instances |-> Root]
  /\ registered = [i \in Instances |-> FALSE]
  /\ todo = [i \in Instances |-> <<>>]
  /\ keys = {} /\ entries = [i \in Instances |-> {}] /\ scores = <<>>
  /\ gc = Idle /\ announced = 0 /\ safepoint = 0 /\ known = {}
  /\ left = [events |-> MaxEvents, jobs |-> MaxJobs]

Spend(what) == left[what] > 0 /\ left' = [left EXCEPT ![what] = @ - 1]

-----------------------------------------------------------------------------
(* The chain and time (external).                                          *)

Extend ==
  /\ \E b \in Blocks : Parent[b] = tip /\ tip' = b
  /\ UNCHANGED <<tso, instanceVars, redisVars, gcVars, left>>

\* the node switches to another fork, which may end at a later or an earlier slot
Fork ==
  /\ \E b \in Blocks \ Immutable :
       /\ tip # b /\ tip \notin Immutable /\ Parent[b] = Parent[tip]
       /\ tip' = b
  /\ Spend("events")
  /\ UNCHANGED <<tso, instanceVars, redisVars, gcVars>>

\* An instance has published what it has committed, and the job has read
\* redis, in time: slower ones are not looked at.
Timely ==
  /\ \A i \in Instances : \A n \in DOMAIN todo[i] : now - physical(todo[i][n].ts) < PublishTime
  /\ gc.pc = "fetch" => now - gc.at < FetchTime

Advance(ts) == ts <= MaxTso /\ (physical(ts) > now => Timely) /\ tso' = ts

Tick ==
  /\ Advance((now + 1) * PerTick)
  /\ UNCHANGED <<tip, instanceVars, redisVars, gcVars, left>>

-----------------------------------------------------------------------------
(* An instance.                                                            *)

Set(f, i, x) == [f EXCEPT ![i] = x]

\* a crash: the batch, the flag and the redis calls not made yet are lost
Restart(i) ==
  /\ up[i] /\ Spend("events")
  /\ recv' = Set(recv, i, cursor[i]) /\ registered' = Set(registered, i, FALSE)
  /\ todo' = Set(todo, i, <<>>)
  /\ UNCHANGED <<tip, tso, up, cursor, redisVars, gcVars>>

Call(op, b, ts) == [op |-> op, block |-> b, ts |-> ts]

\* insert_timestamp_entry: two calls, and a third once registered
Entered(i, b, ts) ==
  IF b = Root THEN <<>>
  ELSE <<Call("key", b, ts), Call("entry", b, ts)>>
       \o (IF registered[i] THEN <<Call("score", b, ts)>> ELSE <<>>)

\* maybe_advertise of a mutable block
Advertised(i, b, ts) == IF registered[i] THEN <<>> ELSE <<Call("advertise", b, ts)>>

\* the next block towards the tip
NextOf(i) == {b \in Ancestors[tip] \ {Root} : Parent[b] = recv[i]}

Commits(i, at, last, calls) ==
  /\ Advance(tso + 1)
  /\ cursor' = Set(cursor, i, at) /\ recv' = Set(recv, i, last)
  /\ todo' = Set(todo, i, calls)
  /\ UNCHANGED <<tip, up, registered, redisVars, gcVars, left>>

Ready(i) == up[i] /\ todo[i] = <<>>

\* (mutant) the instance is advertised while it is still far from the tip
PushAdvertised(i) ==
  /\ Ready(i)
  /\ \E b \in NextOf(i) \cap Immutable :
       recv' = Set(recv, i, b) /\ todo' = Set(todo, i, Advertised(i, b, tso))
  /\ UNCHANGED <<tip, tso, up, cursor, registered, redisVars, gcVars, left>>

\* an immutable block joins the batch
Push(i) ==
  /\ Ready(i)
  /\ \E b \in NextOf(i) \cap Immutable : recv' = Set(recv, i, b)
  /\ UNCHANGED <<tip, tso, up, cursor, registered, todo, redisVars, gcVars, left>>

\* an immutable block for which the batch is flushed first: the entry names
\* the new block
Flush(i) ==
  /\ Ready(i) /\ recv[i] # cursor[i]
  /\ \E b \in NextOf(i) \cap Immutable : Commits(i, recv[i], b, Entered(i, b, tso + 1))

\* a mutable block, with what is left in the batch
RollForward(i) ==
  /\ Ready(i)
  /\ \E b \in NextOf(i) \ Immutable :
       Commits(i, b, b, Entered(i, b, tso + 1) \o Advertised(i, b, tso + 1))

RollBack(i) ==
  /\ Ready(i) /\ recv[i] \notin Ancestors[tip]
  /\ \E b \in Ancestors[recv[i]] \cap Ancestors[tip] :
       /\ Ancestors[recv[i]] \cap Ancestors[tip] \subseteq Ancestors[b]
       /\ Commits(i, b, b, Entered(i, b, tso + 1))

\* the next redis call
Publish(i) ==
  /\ todo[i] # <<>>
  /\ LET call == Head(todo[i])
     IN  /\ keys' = IF call.op = "key" THEN keys \cup {i} ELSE keys
         /\ entries' = IF call.op = "entry"
                       THEN Set(entries, i, entries[i] \cup {[block |-> call.block, ts |-> call.ts]})
                       ELSE entries
         /\ scores' = IF call.op \in {"score", "advertise"}
                      THEN [j \in DOMAIN scores \cup {i} |-> IF j = i THEN Slot[call.block] ELSE scores[j]]
                      ELSE scores
         /\ registered' = Set(registered, i, registered[i] \/ call.op = "advertise")
  /\ todo' = Set(todo, i, Tail(todo[i]))
  /\ UNCHANGED <<tip, tso, up, recv, cursor, gcVars, left>>

-----------------------------------------------------------------------------
(* tikv-gc.  The field an entry calls height holds a slot.                 *)

height(e) == Slot[e.block]

\* by (height, commit_ts)
Above(e, f) == height(e) > height(f) \/ (height(e) = height(f) /\ e.ts > f.ts)
Highest(es) == CHOOSE e \in es : \A f \in es \ {e} : Above(e, f)

\* (mutant) the latest chaintip of the instances
get_latest_chaintip_ts(map) == Max({Highest(map[i]).ts : i \in DOMAIN map})

get_earliest_chaintip_ts(map) == Min({Highest(map[i]).ts : i \in DOMAIN map})

\* (mutant) no time is left to readers
safe_zone_none(at) == at * PerTick

safe_zone_ts(at) == (IF at > SafeZone THEN at - SafeZone ELSE 0) * PerTick

HasBlock(map, i, b) == \E e \in map[i] : e.block = b
LatestFor(map, i, b) == Max({e.ts : e \in {f \in map[i] : f.block = b}})

\* (mutant) the latest timestamp of the instances
SafepointOfLatest(map, insts, b) == Max({LatestFor(map, i, b) : i \in insts})

\* the earliest timestamp of the instances for a block
SafepointOf(map, insts, b) == Min({LatestFor(map, i, b) : i \in insts})

\* The highest common block, walking down the entries of one instance, and
\* then the common block exactly one below it, if there is one.
network_safepoint_block(map, insts, arbitrary) ==
  LET common   == {e \in map[arbitrary] : \A i \in insts : HasBlock(map, i, e.block)}
      best     == Highest(common)
      previous == {e \in common : height(e) = height(best) - 1}
  IN  IF previous = {} THEN best.block ELSE Highest(previous).block

Members(map, net) == {i \in DOMAIN map : Network[i] = net}
HasCommon(map, insts) == \E b \in Blocks : \A i \in insts : HasBlock(map, i, b)

\* one instance per network is the arbitrary one
get_latest_network_intersection_ts(map, arbitrary) ==
  Min({SafepointOf(map, Members(map, net), network_safepoint_block(map, Members(map, net), arbitrary[net])) :
         net \in DOMAIN arbitrary})

GcStart ==
  /\ gc.pc = "idle" /\ Spend("jobs")
  /\ gc' = [Idle EXCEPT !.pc = "fetch", !.at = now, !.left = keys]
  /\ UNCHANGED <<tip, tso, instanceVars, redisVars, announced, safepoint, known>>

\* fetch_entry_map, one key after the other; one without entries is skipped
GcFetch ==
  /\ gc.pc = "fetch"
  /\ \E i \in gc.left :
       gc' = [gc EXCEPT !.left = @ \ {i},
                        !.map = IF entries[i] = {} THEN @
                                ELSE [j \in DOMAIN @ \cup {i} |-> IF j = i THEN entries[i] ELSE @[j]]]
  /\ UNCHANGED <<tip, tso, instanceVars, redisVars, announced, safepoint, known, left>>

\* no entries, or no block that the instances of a network have in common
GcGivesUp ==
  /\ gc.pc = "fetch" /\ gc.left = {}
  /\ gc.map = <<>> \/ \E i \in DOMAIN gc.map : ~HasCommon(gc.map, Members(gc.map, Network[i]))
  /\ gc' = Idle
  /\ UNCHANGED <<tip, tso, instanceVars, redisVars, announced, safepoint, known, left>>

\* the earliest of the three candidates, announced in redis: the time is that
\* of the job's host; of the map only its keys are used from here on
GcAnnounce ==
  /\ gc.pc = "fetch" /\ gc.left = {} /\ gc.map # <<>>
  /\ \A i \in DOMAIN gc.map : HasCommon(gc.map, Members(gc.map, Network[i]))
  /\ LET nets == {Network[i] : i \in DOMAIN gc.map}
     IN  \E arbitrary \in {f \in [nets -> DOMAIN gc.map] : \A net \in nets : Network[f[net]] = net} :
           LET sp == Min({get_earliest_chaintip_ts(gc.map), safe_zone_ts(now + ClockAhead),
                          get_latest_network_intersection_ts(gc.map, arbitrary)})
           IN  /\ announced' = sp
               /\ gc' = [gc EXCEPT !.pc = "prune", !.at = 0, !.left = DOMAIN gc.map, !.sp = sp,
                                   !.map = [i \in DOMAIN @ |-> {}]]
  /\ UNCHANGED <<tip, tso, instanceVars, redisVars, safepoint, known, left>>

\* entries of earlier milliseconds
GcPrune ==
  /\ gc.pc = "prune"
  /\ \E i \in gc.left :
       /\ gc' = [gc EXCEPT !.left = @ \ {i}]
       /\ entries' = Set(entries, i, {e \in entries[i] : physical(e.ts) >= physical(gc.sp)})
  /\ UNCHANGED <<tip, tso, instanceVars, keys, scores, announced, safepoint, known, left>>

\* legacy_gc: an earlier safepoint than the current one is refused
GcSubmit ==
  /\ gc.pc = "prune" /\ gc.left = {}
  /\ safepoint' = IF gc.sp >= safepoint THEN gc.sp ELSE safepoint
  /\ known' = IF gc.sp >= safepoint THEN DOMAIN gc.map ELSE known
  /\ gc' = Idle
  /\ UNCHANGED <<tip, tso, instanceVars, redisVars, announced, left>>

GcCrash ==
  /\ gc.pc # "idle" /\ gc' = Idle
  /\ UNCHANGED <<tip, tso, instanceVars, redisVars, announced, safepoint, known, left>>

-----------------------------------------------------------------------------
(* mapi: the member of the registry with the lowest score answers; redis   *)
(* orders members of one score by their bytes, which is left open here.    *)

resolve_key == {i \in DOMAIN scores : \A j \in DOMAIN scores : scores[i] <= scores[j]}

-----------------------------------------------------------------------------
(* Retirement: the instance is stopped, its member of the registry is      *)
(* removed, and its entries and its data are deleted.  The operator does   *)
(* all three by hand, and no tool checks their order.                      *)

Retire(i) ==
  /\ up[i] /\ i \in keys /\ Spend("events") /\ \E j \in Instances \ {i} : up[j]
  /\ up' = Set(up, i, FALSE) /\ todo' = Set(todo, i, <<>>)
  /\ UNCHANGED <<tip, tso, recv, cursor, registered, redisVars, gcVars>>

Unregister(i) ==
  /\ ~up[i] /\ i \in DOMAIN scores /\ \E j \in DOMAIN scores \ {i} : up[j]
  /\ scores' = [j \in DOMAIN scores \ {i} |-> scores[j]]
  /\ UNCHANGED <<tip, tso, instanceVars, keys, entries, gcVars, left>>

\* daw delete instance --force: the timestamps first, then the data; daw does
\* not look at the registry
DeleteTimestamps(i) ==
  /\ ~up[i] /\ i \in keys
  /\ keys' = keys \ {i} /\ entries' = Set(entries, i, {})
  /\ cursor' = Set(cursor, i, Root)
  /\ UNCHANGED <<tip, tso, up, recv, registered, todo, scores, gcVars, left>>

Next ==
  \/ Extend \/ Fork \/ Tick
  \/ \E i \in Instances : \/ Restart(i) \/ Push(i) \/ Flush(i) \/ RollForward(i) \/ RollBack(i)
                          \/ Publish(i) \/ Retire(i) \/ Unregister(i) \/ DeleteTimestamps(i)
  \/ GcStart \/ GcFetch \/ GcGivesUp \/ GcAnnounce \/ GcPrune \/ GcSubmit \/ GcCrash

Spec == Init /\ [][Next]_vars

-----------------------------------------------------------------------------
\* The variables have the expected types, and no entry or safepoint is later
\* than the timestamps that TiKV has given out.
TypeOK ==
  /\ tip \in Blocks /\ tso \in 0..MaxTso
  /\ recv \in [Instances -> Points] /\ cursor \in [Instances -> Points]
  /\ keys \subseteq Instances /\ DOMAIN scores \subseteq Instances /\ known \subseteq Instances
  /\ \A i \in Instances : \A e \in entries[i] : e.block \in Blocks /\ e.ts \in 0..tso
  /\ gc.left \subseteq Instances /\ {announced, safepoint, gc.sp} \subseteq 0..tso

\* A step keeps the highest entry of every instance whose key it keeps, and
\* leaves the safepoint at or below that entry.
KeepsTips ==
  \A i \in keys' :
    LET tipEntry == Highest(entries[i])
    IN  entries[i] # {} => tipEntry \in entries'[i] /\ tipEntry.ts >= safepoint'

\* "The safepoint never passes the commit timestamp of any instance's chaintip
\* entry, so every instance's own tip-consistent snapshot stays readable"
\* (docs/design.md): no step collects or prunes the highest entry of an
\* instance, be it of a block that was rolled back since, or published while
\* the job was at work.  Only the deletion of the instance removes it.
TipKept == [][KeepsTips]_vars

\* "the highest block present in all instances' entries must remain readable,
\* so a consistent common point across instances always exists in the store":
\* the instances that the job last looked at still have a block in common
\* that redis has entries for and TiKV has not collected.
CommonBlockKept ==
  \A net \in {Network[i] : i \in known} :
    \E b \in Blocks : \A i \in {j \in known \cap keys : Network[j] = net} :
      \E e \in entries[i] : e.block = b /\ e.ts >= safepoint

\* A reader that compares its timestamp with tikv-gc-safepoint ("Readers
\* should assert their read timestamp >= this safepoint") never reads below
\* TiKV's own, to the millisecond: the key in redis does not fall behind,
\* although it is written before TiKV has agreed and although an instance can
\* join whose blocks are older.
AnnouncedCovers == physical(safepoint) <= physical(announced)

\* "Nothing newer than a configurable window is ever collected, covering the
\* lifetime of in-flight transactions and long-running reads": a snapshot
\* taken within the window is readable, whatever was published since the job
\* read redis and however long the job takes.  The window is measured by the
\* clock of the job's host: one that is ahead of TiKV's makes it shorter.
SnapshotIntact == safepoint > 0 => safepoint <= ((now + ClockAhead) - SafeZone) * PerTick

\* A request is answered by an instance whose store holds blocks, although it
\* was advertised earlier and has rolled back or crashed since.  The exception
\* is an instance that daw has deleted: "A dead instance left registered can be
\* selected by the API" (docs/operations.md), and daw deletes it all the same.
AnswererHasData == \A i \in resolve_key : cursor[i] # Root \/ (~up[i] /\ i \notin keys)

\* The two promises of the safepoint to readers, for what they hold and for
\* what they are told; no entry or safepoint is ahead of TiKV's timestamps.
ReadersAreSafe == TypeOK /\ AnnouncedCovers /\ SnapshotIntact
=============================================================================
