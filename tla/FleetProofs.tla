----------------------------- MODULE FleetProofs -----------------------------
(***************************************************************************)
(* What garbage collection keeps and whom the registry resolves to, for    *)
(* any number of instances and networks, any tree of blocks, any safe zone *)
(* that has room for the delays, and any number of jobs and outages.       *)
(***************************************************************************)
EXTENDS Fleet, OrderLemmas

\* the first millisecond of the safe zone, by the clock of the job's host
Zone == IF now + ClockAhead > SafeZone THEN (now + ClockAhead) - SafeZone ELSE 0

\* the first millisecond whose commits may still have to be published, and
\* the first whose entries the job may have missed
Due == now - PublishTime
Missed == gc.at - PublishTime

\* the safepoint is outside of the safe zone
Intact == safepoint <= Zone * PerTick

Entry == [block : Blocks, ts : Nat]
Calls == [op : {"key", "entry", "score", "advertise"}, block : Blocks, ts : Nat]

Tops(e, es) == \A f \in es \ {e} : Above(e, f)

\* every part of es has a highest entry
Sorted(es) == \A s \in SUBSET es : s # {} => \E e \in s : Tops(e, s)

\* what the job may read of an instance: no two commits have one timestamp,
\* none is later than last, and none is of a millisecond before that of sp
EntrySet(es, last, sp) ==
  /\ es \subseteq Entry /\ Sorted(es)
  /\ \A e, f \in es : e.ts = f.ts => e = f
  /\ \A e \in es : e.ts <= last /\ physical(e.ts) >= physical(sp)

\* the instances of ids that belong to a network
Of(ids, net) == {i \in ids : Network[i] = net}

\* the instances of a network have a block in common that ts has not passed
Share(ids, have, ts) ==
  \A net \in {Network[i] : i \in ids} :
    \E b \in Blocks : \A i \in Of(ids, net) :
      \E e \in have[i] : e.block = b /\ e.ts >= ts

\* The calls that follow a commit are about one entry, which is of
\* millisecond due or later and no later than last; the key is written
\* before the entry.
Owed(calls, es, hasKey, last, due) ==
  \A n \in DOMAIN calls :
    /\ calls[n].ts <= last /\ physical(calls[n].ts) >= due
    /\ calls[n].op = "entry" => hasKey \/ calls[1].op = "key"
    /\ \A m \in DOMAIN calls : calls[m].ts = calls[n].ts /\ calls[m].block = calls[n].block
    /\ \A e \in es : e.ts = calls[n].ts => e.block = calls[n].block

Types ==
  /\ tip \in Blocks /\ tso \in 0..MaxTso
  /\ up \in [Instances -> BOOLEAN] /\ registered \in [Instances -> BOOLEAN]
  /\ recv \in [Instances -> Points] /\ cursor \in [Instances -> Points]
  /\ todo \in [Instances -> Seq(Calls)]
  /\ keys \subseteq Instances /\ DOMAIN scores \subseteq Instances /\ known \subseteq Instances
  /\ entries \in [Instances -> SUBSET Entry]
  /\ gc = [pc |-> gc.pc, at |-> gc.at, left |-> gc.left, map |-> gc.map, sp |-> gc.sp]
  /\ gc.pc \in {"idle", "fetch", "prune"} /\ gc.at \in Nat /\ gc.left \subseteq Instances
  /\ DOMAIN gc.map \subseteq Instances /\ gc.map \in [DOMAIN gc.map -> SUBSET Entry]
  /\ {announced, safepoint, gc.sp} \subseteq 0..tso

TodoInv ==
  \A i \in Instances :
    /\ ~up[i] => todo[i] = <<>>
    /\ Owed(todo[i], entries[i], i \in keys, tso, Due)

\* an instance with entries has a key, and one that lost its key is retired
KeysInv ==
  /\ \A i \in Instances : entries[i] # {} => i \in keys
  /\ \A i \in known \cup gc.left \cup DOMAIN gc.map : i \in keys \/ ~up[i]

EntriesInv ==
  \A i \in Instances :
    /\ EntrySet(entries[i], tso, safepoint)
    /\ entries[i] # {} => Highest(entries[i]).ts >= safepoint

\* The job reads redis in time: what it misses of an instance it has read was
\* still to be published when it started.
FetchInv ==
  gc.pc = "fetch" =>
    /\ gc.sp = 0 /\ gc.at <= now /\ now <= gc.at + FetchTime
    /\ known \cap keys \subseteq DOMAIN gc.map \cup gc.left
    /\ \A i \in DOMAIN gc.map :
         /\ EntrySet(gc.map[i], tso, safepoint) /\ gc.map[i] # {}
         /\ i \in keys => gc.map[i] \subseteq entries[i]
    /\ \A i \in Instances \ gc.left : \A e \in entries[i] :
         (i \in DOMAIN gc.map /\ e \in gc.map[i]) \/ physical(e.ts) >= Missed

\* From the announcement on, the safepoint is one that may be submitted but
\* for the entries that are still to be pruned.
PruneInv ==
  gc.pc = "prune" =>
    /\ announced = gc.sp /\ gc.sp <= Zone * PerTick
    /\ known \cap keys \subseteq DOMAIN gc.map
    /\ Share(DOMAIN gc.map \cap keys, entries, gc.sp)
    /\ \A i \in Instances : entries[i] # {} => Highest(entries[i]).ts >= gc.sp
    /\ \A i \in Instances \ gc.left : \A e \in entries[i] : physical(e.ts) >= physical(gc.sp)

\* the inductive invariant of the safepoint
SafepointInv ==
  /\ Types /\ TodoInv /\ KeysInv /\ EntriesInv /\ FetchInv /\ PruneInv
  /\ AnnouncedCovers /\ Intact /\ Share(known \cap keys, entries, safepoint)

OnOneChain(p, q) == p \in Ancestors[q] \/ q \in Ancestors[p]

\* All instances in service are on chains through one immutable block, which
\* no fork removes: the rollback of one that holds it stops there.
TrunkInv ==
  \E c \in Immutable :
    /\ c \in Ancestors[tip]
    /\ \A i \in Instances : up[i] => OnOneChain(recv[i], c) /\ OnOneChain(cursor[i], c)

\* one of the calls puts the instance into the registry
Promises(calls) == \E n \in DOMAIN calls : calls[n].op \in {"score", "advertise"}

\* the instance is retired and daw has deleted it
Deleted(i) == ~up[i] /\ i \notin keys

\* an instance that is or is about to be advertised holds blocks
HoldsBlocks(i) ==
  /\ up[i] => cursor[i] \in Ancestors[recv[i]]
  /\ ~up[i] => todo[i] = <<>>
  /\ i \in DOMAIN scores \/ (up[i] /\ registered[i]) \/ Promises(todo[i])
       => cursor[i] # Root \/ Deleted(i)

AdvertisedInv == \A i \in Instances : HoldsBlocks(i)

-----------------------------------------------------------------------------
(* Timestamps and milliseconds.                                            *)

LEMMA Division ==
  ASSUME NEW ts \in Nat
  PROVE  /\ physical(ts) \in Nat
         /\ PerTick * physical(ts) <= ts /\ ts < PerTick * (physical(ts) + 1)
<1>1. PerTick \in Nat /\ PerTick > 0
  BY FleetConstants
<1> QED BY <1>1 DEF physical

LEMMA ProductGrows ==
  ASSUME NEW a \in Nat, NEW b \in Nat, NEW p \in Nat, a <= b
  PROVE  p * a <= p * b /\ a * p \in Nat /\ a * p = p * a
OBVIOUS

\* time in milliseconds grows with the timestamps
LEMMA PhysicalGrows ==
  ASSUME NEW a \in Nat, NEW b \in Nat, a <= b
  PROVE  physical(a) <= physical(b)
<1>1. SUFFICES ASSUME physical(b) + 1 <= physical(a) PROVE FALSE
  BY Division
<1>2. /\ physical(a) \in Nat /\ physical(b) \in Nat /\ physical(b) + 1 \in Nat
      /\ PerTick * physical(a) <= a /\ b < PerTick * (physical(b) + 1)
  BY Division
<1>3. PerTick * (physical(b) + 1) <= PerTick * physical(a)
  BY <1>1, <1>2, ProductGrows, FleetConstants, Zenon
<1>4. PerTick * (physical(b) + 1) \in Nat /\ PerTick * physical(a) \in Nat
  BY <1>2, FleetConstants
<1> QED BY <1>2, <1>3, <1>4

\* a timestamp of millisecond m or later is no earlier than the first one
LEMMA FirstOfMillisecond ==
  ASSUME NEW ts \in Nat, NEW m \in Nat
  PROVE  /\ m * PerTick \in Nat /\ physical(m * PerTick) = m
         /\ physical(ts) >= m <=> m * PerTick <= ts
<1> DEFINE P == PerTick
<1>0. P \in Nat /\ P >= 1 /\ m * P \in Nat
  BY FleetConstants
<1>1. physical(m * P) = m
  <2> DEFINE q == physical(m * P)
  <2>1. q \in Nat /\ P * q <= m * P /\ m * P < P * (q + 1)
    BY <1>0, Division, Zenon
  <2> HIDE DEF q
  <2>2. m * P = P * m
    BY <1>0
  <2>3. ~(q + 1 <= m)
    <3>1. q + 1 <= m => P * (q + 1) <= P * m
      BY <2>1, <1>0, ProductGrows
    <3>2. P * (q + 1) \in Nat /\ P * m \in Nat
      BY <2>1, <1>0
    <3> QED BY <3>1, <3>2, <2>1, <2>2
  <2>4. ~(m + 1 <= q)
    <3>1. m + 1 <= q => P * (m + 1) <= P * q
      BY <2>1, <1>0, ProductGrows
    <3>2. P * (m + 1) = P * m + P /\ P * q \in Nat /\ P * m \in Nat
      BY <2>1, <1>0
    <3> QED BY <3>1, <3>2, <2>1, <2>2, <1>0
  <2> QED BY <2>1, <2>3, <2>4 DEF q
<1>2. m * P <= ts => physical(ts) >= m
  BY <1>0, <1>1, PhysicalGrows, Division, Zenon
<1>3. physical(ts) >= m => m * P <= ts
  <2>1. physical(ts) \in Nat /\ P * physical(ts) <= ts
    BY Division, Zenon
  <2>2. physical(ts) >= m => P * m <= P * physical(ts)
    BY <2>1, <1>0, ProductGrows, Zenon
  <2>3. P * m = m * P /\ P * physical(ts) \in Nat
    BY <2>1, <1>0
  <2> QED BY <1>0, <2>1, <2>2, <2>3
<1> QED BY <1>0, <1>1, <1>2, <1>3, Zenon

-----------------------------------------------------------------------------
(* The order of the entries.                                               *)

LEMMA AboveIsOrder ==
  ASSUME NEW e \in Entry, NEW f \in Entry
  PROVE  /\ ~(Above(e, f) /\ Above(f, e))
         /\ (e.ts = f.ts => e = f) => e = f \/ Above(e, f) \/ Above(f, e)
         /\ \A g \in Entry : Above(e, f) /\ Above(f, g) => Above(e, g)
<1>1. \A g \in Entry : height(g) \in Nat /\ g.ts \in Nat
  BY FleetConstants, Zenon DEF Entry, height
<1> QED BY <1>1 DEF Above

LEMMA HighestProperties ==
  ASSUME NEW es, Sorted(es), es # {}
  PROVE  Highest(es) \in es /\ Tops(Highest(es), es)
<1>1. \E e \in es : Tops(e, es)
  BY Zenon DEF Sorted
<1> QED BY <1>1, Zenon DEF Highest, Tops

LEMMA HighestIsUnique ==
  ASSUME NEW es \in SUBSET Entry, Sorted(es), NEW e \in es, Tops(e, es)
  PROVE  Highest(es) = e
<1>1. Highest(es) \in es /\ Tops(Highest(es), es)
  BY HighestProperties, Zenon
<1> QED BY <1>1, AboveIsOrder, Zenon DEF Tops

\* a highest entry that stays is still the highest
LEMMA HighestStays ==
  ASSUME NEW es \in SUBSET Entry, Sorted(es), NEW part \in SUBSET es, Highest(es) \in part
  PROVE  Sorted(part) /\ Highest(part) = Highest(es)
<1>1. Sorted(part) /\ Tops(Highest(es), part)
  BY HighestProperties DEF Sorted, Tops
<1> QED BY <1>1, HighestIsUnique, Zenon

LEMMA SortedPart ==
  ASSUME NEW es, Sorted(es), NEW part \in SUBSET es
  PROVE  Sorted(part)
BY Zenon DEF Sorted

LEMMA SortedAdd ==
  ASSUME NEW es \in SUBSET Entry, Sorted(es), NEW x \in Entry,
         \A e \in es : e.ts = x.ts => e = x
  PROVE  Sorted(es \cup {x})
<1> SUFFICES ASSUME NEW s \in SUBSET (es \cup {x}), s # {}
             PROVE  \E e \in s : Tops(e, s)
  BY Zenon DEF Sorted
<1>1. CASE x \notin s
  BY <1>1, Zenon DEF Sorted
<1>2. CASE s = {x}
  BY <1>2, Zenon DEF Tops
<1>3. CASE x \in s /\ s \ {x} # {}
  <2>1. PICK e \in s \ {x} : Tops(e, s \ {x})
    BY <1>3, Zenon DEF Sorted
  <2>2. e \in es /\ e # x /\ s \subseteq Entry
    BY <2>1, Zenon
  <2>3. CASE Above(e, x)
    BY <2>1, <2>3 DEF Tops
  <2>4. CASE Above(x, e)
    <3>1. \A f \in s \ {x} : f = e \/ Above(e, f)
      BY <2>1, Zenon DEF Tops
    <3>2. \A f \in s \ {x} : Above(x, f)
      BY <2>2, <2>4, <3>1, AboveIsOrder, Zenon
    <3> QED BY <1>3, <3>2, Zenon DEF Tops
  <2> QED BY <2>2, <2>3, <2>4, AboveIsOrder, Zenon
<1> QED BY <1>1, <1>2, <1>3, Zenon

\* the highest entry is the highest of a part, or outside of it
LEMMA HighestBound ==
  ASSUME NEW es \in SUBSET Entry, Sorted(es), es # {}, NEW part \in SUBSET es, NEW sp,
         part # {} => Highest(part).ts >= sp,
         \A e \in es \ part : e.ts >= sp
  PROVE  Highest(es).ts >= sp
<1>1. CASE Highest(es) \in part
  BY <1>1, HighestStays, Zenon
<1>2. CASE Highest(es) \notin part
  BY <1>2, HighestProperties, Zenon
<1> QED BY <1>1, <1>2, Zenon

-----------------------------------------------------------------------------
(* What a commit leaves to be published.                                   *)

\* the calls are about the entry of one block, and the key comes first
Announces(calls, b, ts) ==
  /\ calls \in Seq(Calls)
  /\ \A n \in DOMAIN calls :
       /\ calls[n].ts = ts /\ calls[n].block = b
       /\ calls[n].op = "entry" => calls[1].op = "key"

\* lists of one length that agree at every position are the same list
LEMMA SameList ==
  ASSUME NEW S, NEW s \in Seq(S), NEW t \in Seq(S), Len(s) = Len(t),
         \A i \in 1..Len(s) : s[i] = t[i]
  PROVE  s = t
OBVIOUS

LEMMA Triple ==
  ASSUME NEW x, NEW y, NEW z
  PROVE  <<x, y>> \o <<z>> = <<x, y, z>>
<1> DEFINE S == {x, y, z}
<1>1. <<x, y>> \in Seq(S) /\ <<z>> \in Seq(S) /\ <<x, y, z>> \in Seq(S)
  OBVIOUS
<1>2. Len(<<x, y>>) = 2 /\ Len(<<z>>) = 1 /\ Len(<<x, y, z>>) = 3
  BY Zenon
<1>3. <<x, y>> \o <<z>> \in Seq(S) /\ Len(<<x, y>> \o <<z>>) = 3
  BY <1>1, <1>2
<1>4. \A i \in 1..3 : (<<x, y>> \o <<z>>)[i] = <<x, y, z>>[i]
  BY <1>1, <1>2
<1> QED BY <1>1, <1>2, <1>3, <1>4, SameList, Zenon

LEMMA EnteredAnnounces ==
  ASSUME NEW i \in Instances, NEW b \in Points, NEW ts \in Nat
  PROVE  /\ Announces(Entered(i, b, ts), b, ts)
         /\ \A n \in DOMAIN Entered(i, b, ts) :
              Entered(i, b, ts)[n].op \in {"score", "advertise"} => registered[i]
         /\ b \in Blocks => Announces(Entered(i, b, ts) \o Advertised(i, b, ts), b, ts)
<1> DEFINE k == Call("key", b, ts)
           e == Call("entry", b, ts)
           s == Call("score", b, ts)
           a == Call("advertise", b, ts)
<1>1. b \in Blocks => {k, e, s, a} \subseteq Calls
  BY DEF Call, Calls
<1>2. /\ k.op = "key" /\ e.op = "entry" /\ s.op = "score" /\ a.op = "advertise"
      /\ \A c \in {k, e, s, a} : c.ts = ts /\ c.block = b
  BY DEF Call
<1> HIDE DEF k, e, s, a
<1>3. /\ <<k, e>> \o <<s>> = <<k, e, s>> /\ <<k, e>> \o <<a>> = <<k, e, a>>
      /\ <<k, e>> \o <<>> = <<k, e>> /\ <<k, e, s>> \o <<>> = <<k, e, s>>
  BY Triple
<1> DEFINE f == IF registered[i] THEN <<k, e, s>> ELSE <<k, e>>
<1>7. b = Root => Entered(i, b, ts) = <<>>
  BY Zenon DEF Entered
<1>8. b # Root => Entered(i, b, ts) = f
  BY <1>3, Zenon DEF Entered, k, e, s
<1>9. f \o Advertised(i, b, ts) = IF registered[i] THEN <<k, e, s>> ELSE <<k, e, a>>
  BY <1>3, Zenon DEF Advertised, a
<1>4. Announces(<<>>, b, ts)
  BY DEF Announces
<1>5. ASSUME b \in Blocks, NEW c \in {s, a}
      PROVE  Announces(<<k, e, c>>, b, ts)
  BY <1>1, <1>2, <1>5 DEF Announces
<1>6. ASSUME b \in Blocks
      PROVE  Announces(<<k, e>>, b, ts)
  BY <1>1, <1>2, <1>6 DEF Announces
<1>10. \A n \in DOMAIN f : f[n].op \in {"score", "advertise"} => registered[i]
  BY <1>2
<1>11. b \in Blocks => Announces(f, b, ts) /\ Announces(f \o Advertised(i, b, ts), b, ts)
  BY <1>5, <1>6, <1>9, Zenon
<1> HIDE DEF f
<1>12. CASE b = Root
  BY <1>4, <1>7, <1>12, FleetConstants
<1>13. CASE b \in Blocks
  BY <1>8, <1>10, <1>11, <1>13, FleetConstants, Zenon
<1> QED BY <1>12, <1>13, Zenon DEF Points

-----------------------------------------------------------------------------
(* The safepoint: steps that touch neither redis nor the job.              *)

LEMMA ZoneType ==
  ASSUME Types
  PROVE  /\ tso \in Nat /\ now \in Nat /\ Zone \in Nat /\ safepoint \in Nat /\ gc.sp \in Nat
         /\ Zone * PerTick \in Nat /\ Zone * PerTick <= tso
         /\ physical(safepoint) \in Nat /\ physical(gc.sp) \in Nat
<1>1. tso \in Nat /\ now \in Nat /\ safepoint \in Nat /\ gc.sp \in Nat
  BY Division, FleetConstants, SMTT(30) DEF Types, now
<1>2. Zone \in Nat /\ Zone <= now
  BY <1>1, FleetConstants DEF Zone
<1>3. physical(tso) >= Zone
  BY <1>1, <1>2 DEF now
<1>4. Zone * PerTick \in Nat /\ Zone * PerTick <= tso
  BY <1>1, <1>2, <1>3, FirstOfMillisecond, Zenon
<1> QED BY <1>1, <1>2, <1>4, Division, Zenon

\* Both delays and the difference of the clocks are within the safe zone:
\* what is still to be published, and what a job misses, is in it.
LEMMA RoomForDelays ==
  ASSUME Types, NEW m \in Nat, m >= now - PublishTime - FetchTime
  PROVE  m >= Zone
<1>1. now \in Nat
  BY ZoneType, Zenon
<1> QED BY <1>1, FleetConstants DEF Zone

LEMMA DueInZone ==
  ASSUME Types, NEW m \in Nat, m >= Due
  PROVE  m >= Zone
<1>1. now \in Nat /\ m >= now - PublishTime - FetchTime
  BY ZoneType, FleetConstants DEF Due
<1> QED BY <1>1, RoomForDelays, Zenon

LEMMA EmptyIsEntrySet == \A last, sp : EntrySet({}, last, sp)
BY Zenon DEF EntrySet, Sorted

LEMMA SafepointInit == Init => SafepointInv
<1> SUFFICES ASSUME Init PROVE SafepointInv
  BY Zenon
<1>1. tso = SafeZone * PerTick /\ tso \in 0..MaxTso /\ tso \in Nat /\ 0 \in 0..tso
  BY FleetConstants DEF Init
<1>2. physical(0) \in Nat /\ physical(0) <= physical(0)
  BY Division
<1>3. gc.pc = "idle" /\ gc.at = 0 /\ gc.left = {} /\ gc.map = <<>> /\ gc.sp = 0
      /\ gc = [pc |-> gc.pc, at |-> gc.at, left |-> gc.left, map |-> gc.map, sp |-> gc.sp]
  BY Zenon DEF Init, Idle
<1>4. DOMAIN gc.map = {} /\ gc.map \in [DOMAIN gc.map -> SUBSET Entry]
  BY <1>3
<1>5. Types
  <2>1. /\ tip \in Blocks
        /\ up \in [Instances -> BOOLEAN] /\ registered \in [Instances -> BOOLEAN]
        /\ recv \in [Instances -> Points] /\ cursor \in [Instances -> Points]
        /\ todo \in [Instances -> Seq(Calls)]
        /\ keys \subseteq Instances /\ DOMAIN scores \subseteq Instances /\ known \subseteq Instances
        /\ entries \in [Instances -> SUBSET Entry]
    BY FleetConstants DEF Init, Points
  <2>2. gc.at \in Nat
    BY <1>3
  <2>3. {announced, safepoint, gc.sp} \subseteq 0..tso
    BY <1>1, <1>3, Zenon DEF Init
  <2> QED BY <1>1, <1>3, <1>4, <2>1, <2>2, <2>3, Zenon DEF Types
<1>6. /\ \A i \in Instances : entries[i] = {} /\ todo[i] = <<>>
      /\ known = {} /\ announced = 0 /\ safepoint = 0
  BY Zenon DEF Init
<1>7. TodoInv
  BY <1>6 DEF TodoInv, Owed
<1>8. KeysInv
  BY <1>3, <1>4, <1>6, Zenon DEF KeysInv
<1>9. EntriesInv
  BY <1>6, EmptyIsEntrySet, Zenon DEF EntriesInv
<1>10. FetchInv /\ PruneInv
  BY <1>3, Zenon DEF FetchInv, PruneInv
<1>11. AnnouncedCovers /\ Intact
  <2>1. Zone * PerTick \in Nat
    BY <1>5, ZoneType, Zenon
  <2>2. 0 <= Zone * PerTick
    BY <2>1
  <2> QED BY <1>2, <1>6, <2>2, Zenon DEF AnnouncedCovers, Intact
<1>12. Share(known \cap keys, entries, safepoint)
  BY <1>6, Zenon DEF Share
<1> QED BY <1>5, <1>7, <1>8, <1>9, <1>10, <1>11, <1>12, Zenon DEF SafepointInv

\* A step may drop calls that are not made yet, and take instances out of
\* service.
LEMMA SafepointQuiet ==
  ASSUME SafepointInv, Types', UNCHANGED <<tso, keys, entries, gcVars>>,
         \A i \in Instances : /\ up'[i] => up[i]
                              /\ todo'[i] = todo[i] \/ todo'[i] = <<>>
                              /\ ~up'[i] => todo'[i] = <<>>
  PROVE  SafepointInv'
<1>1. now' = now /\ Zone' = Zone /\ Due' = Due /\ gc' = gc /\ announced' = announced /\ safepoint' = safepoint
      /\ known' = known /\ tso' = tso /\ keys' = keys /\ entries' = entries
  BY Zenon DEF now, Zone, Due, gcVars
<1>2. TodoInv'
  <2> SUFFICES ASSUME NEW i \in Instances
               PROVE  Owed(todo'[i], entries[i], i \in keys, tso, Due)
    BY <1>1, Zenon DEF TodoInv
  <2>1. CASE todo'[i] = todo[i]
    BY <2>1, Zenon DEF SafepointInv, TodoInv
  <2>2. CASE todo'[i] = <<>>
    BY <2>2 DEF Owed
  <2> QED BY <2>1, <2>2, Zenon
<1>3. KeysInv'
  <2>1. known \cup gc.left \cup DOMAIN gc.map \subseteq Instances
    BY Zenon DEF SafepointInv, Types
  <2> QED BY <1>1, <2>1, Zenon DEF SafepointInv, KeysInv
<1>4. EntriesInv'
  BY <1>1, Zenon DEF SafepointInv, EntriesInv
<1>5. FetchInv' /\ PruneInv'
  BY <1>1, Zenon DEF SafepointInv, FetchInv, PruneInv, Missed
<1>6. AnnouncedCovers' /\ Intact' /\ Share(known \cap keys, entries, safepoint)'
  BY <1>1, Zenon DEF SafepointInv, AnnouncedCovers, Intact
<1> QED BY <1>2, <1>3, <1>4, <1>5, <1>6, Zenon DEF SafepointInv

-----------------------------------------------------------------------------
(* The safepoint: time passes, and an instance commits.                    *)

\* a step to a timestamp of this millisecond, or of the next if nobody is late
Later ==
  /\ tso' \in 0..MaxTso /\ tso <= tso'
  /\ now' = now \/ (now' = now + 1 /\ Timely)

LEMMA LaterBounds ==
  ASSUME Types, Later
  PROVE  /\ now' \in Nat /\ Zone' \in Nat /\ Zone <= Zone'
         /\ Zone * PerTick <= Zone' * PerTick /\ Zone' * PerTick \in Nat
<1>1. now \in Nat /\ Zone \in Nat /\ PerTick \in Nat
  BY ZoneType, FleetConstants, Zenon
<1>2. now' \in Nat /\ now <= now'
  BY <1>1 DEF Later
<1>3. Zone' \in Nat /\ Zone <= Zone'
  <2> DEFINE zone(n) == IF n + ClockAhead > SafeZone THEN (n + ClockAhead) - SafeZone ELSE 0
  <2>1. \A n, k \in Nat : n <= k => zone(k) \in Nat /\ zone(n) <= zone(k)
    BY FleetConstants
  <2>2. Zone = zone(now) /\ Zone' = zone(now')
    BY Zenon DEF Zone
  <2> HIDE DEF zone
  <2> QED BY <1>1, <1>2, <2>1, <2>2, Zenon
<1>4. Zone * PerTick <= Zone' * PerTick /\ Zone' * PerTick \in Nat
  <2>1. \A a, b \in Nat : a <= b => a * PerTick <= b * PerTick /\ b * PerTick \in Nat
    BY <1>1
  <2> QED BY <1>1, <1>3, <2>1, Zenon
<1> QED BY <1>2, <1>3, <1>4, Zenon

LEMMA AdvanceIsLater ==
  ASSUME Types
  PROVE  /\ Tick => Later
         /\ Advance(tso + 1) => Later /\ tso' = tso + 1
<1>1. tso \in Nat /\ now \in Nat /\ PerTick \in Nat /\ PerTick >= 1 /\ MaxTso \in Nat
  BY ZoneType, FleetConstants
<1>2. ASSUME Tick
      PROVE  Later
  <2>1. tso' = (now + 1) * PerTick /\ tso' <= MaxTso /\ (physical(tso') > now => Timely)
    BY <1>2, Zenon DEF Tick, Advance
  <2>2. physical((now + 1) * PerTick) = now + 1 /\ (now + 1) * PerTick \in Nat
    BY <1>1, FirstOfMillisecond
  <2>3. tso < PerTick * (now + 1) /\ PerTick * (now + 1) = (now + 1) * PerTick
    BY <1>1, Division DEF now
  <2>4. now' = now + 1
    BY <2>1, <2>2, Zenon DEF now
  <2> QED BY <1>1, <2>1, <2>2, <2>3, <2>4 DEF Later
<1>3. ASSUME Advance(tso + 1)
      PROVE  Later /\ tso' = tso + 1
  <2>1. tso' = tso + 1 /\ tso + 1 <= MaxTso /\ (physical(tso + 1) > now => Timely)
    BY <1>3, Zenon DEF Advance
  <2>2. now' = physical(tso + 1) /\ physical(tso + 1) \in Nat
    BY <1>1, <2>1, Division DEF now
  <2>3. now <= physical(tso + 1)
    BY <1>1, PhysicalGrows DEF now
  <2>4. physical(tso + 1) <= now + 1
    <3>1. PerTick * physical(tso + 1) <= tso + 1 /\ tso < PerTick * (now + 1)
      BY <1>1, Division DEF now
    <3>2. PerTick * physical(tso + 1) <= PerTick * (now + 1)
      BY <3>1, <1>1, <2>2
    <3> SUFFICES ASSUME now + 2 <= physical(tso + 1) PROVE FALSE
      BY <1>1, <2>2
    <3>3. PerTick * (now + 2) <= PerTick * physical(tso + 1)
      BY <1>1, <2>2, ProductGrows
    <3>4. PerTick * (now + 2) = PerTick * (now + 1) + PerTick
      BY <1>1
    <3>5. PerTick * (now + 1) \in Nat /\ PerTick * (now + 2) \in Nat /\ PerTick * physical(tso + 1) \in Nat
      BY <1>1, <2>2
    <3> QED BY <1>1, <3>2, <3>3, <3>4, <3>5
  <2> QED BY <1>1, <2>1, <2>2, <2>3, <2>4 DEF Later
<1> QED BY <1>2, <1>3, Zenon

\* what was owed is still in time
LEMMA OwedLater ==
  ASSUME SafepointInv, Later, NEW i \in Instances
  PROVE  Owed(todo[i], entries[i], i \in keys, tso', Due')
<1>0. Types
  BY Zenon DEF SafepointInv
<1>1. Owed(todo[i], entries[i], i \in keys, tso, Due) /\ todo[i] \in Seq(Calls)
  BY Zenon DEF SafepointInv, TodoInv, Types
<1>2. ASSUME NEW n \in DOMAIN todo[i]
      PROVE  todo[i][n].ts <= tso' /\ physical(todo[i][n].ts) >= Due'
  <2>1. todo[i][n].ts \in Nat /\ tso \in Nat /\ tso' \in Nat /\ tso <= tso'
    <3>1. todo[i][n] \in Calls
      BY <1>1
    <3> QED BY <1>0, <3>1, ZoneType DEF Calls, Later
  <2>2. todo[i][n].ts <= tso /\ physical(todo[i][n].ts) >= Due
    BY <1>1, Zenon DEF Owed
  <2>3. now \in Nat /\ physical(todo[i][n].ts) \in Nat /\ PublishTime \in Nat
    BY <1>0, <2>1, ZoneType, Division, FleetConstants, Zenon
  <2>4. physical(todo[i][n].ts) >= Due'
    <3>1. CASE now' = now
      BY <2>2, <3>1, Zenon DEF Due
    <3>2. CASE now' = now + 1 /\ Timely
      <4>1. now - physical(todo[i][n].ts) < PublishTime
        BY <3>2, Zenon DEF Timely
      <4> QED BY <4>1, <3>2, <2>3 DEF Due
    <3> QED BY <3>1, <3>2, Zenon DEF Later
  <2> QED BY <2>1, <2>2, <2>4
<1> QED BY <1>1, <1>2, Zenon DEF Owed

\* a commit owes its entry, at a timestamp of its own
LEMMA OwedByCommit ==
  ASSUME SafepointInv, Later, tso < tso', NEW i \in Instances,
         NEW calls, NEW b, Announces(calls, b, tso')
  PROVE  Owed(calls, entries[i], i \in keys, tso', Due')
<1>1. tso \in Nat /\ tso' \in Nat /\ tso < tso' /\ now' \in Nat /\ now' >= Due'
  BY ZoneType, LaterBounds, FleetConstants DEF SafepointInv, Later, Due
<1>2. \A e \in entries[i] : e.ts # tso'
  <2>1. \A e \in entries[i] : e.ts \in Nat /\ e.ts <= tso
    BY Zenon DEF SafepointInv, EntriesInv, EntrySet, Entry
  <2> QED BY <1>1, <2>1
<1>3. tso' <= tso' /\ physical(tso') >= Due'
  BY <1>1 DEF now
<1> QED BY <1>2, <1>3, Zenon DEF Announces, Owed

LEMMA EntrySetLater ==
  ASSUME NEW es, NEW last \in Nat, NEW later \in Nat, NEW sp, EntrySet(es, last, sp), last <= later
  PROVE  EntrySet(es, later, sp)
BY DEF EntrySet, Entry

LEMMA SafepointLater ==
  ASSUME SafepointInv, Types', Later, UNCHANGED <<up, keys, entries, gcVars>>,
         \A i \in Instances :
           todo'[i] = todo[i] \/ (up[i] /\ tso < tso' /\ \E b : Announces(todo'[i], b, tso'))
  PROVE  SafepointInv'
<1>1. gc' = gc /\ announced' = announced /\ safepoint' = safepoint /\ known' = known
      /\ keys' = keys /\ entries' = entries /\ up' = up
  BY Zenon DEF gcVars
<1>2. TodoInv'
  <2> SUFFICES ASSUME NEW i \in Instances
               PROVE  /\ ~up[i] => todo'[i] = <<>>
                      /\ Owed(todo'[i], entries[i], i \in keys, tso', Due')
    BY <1>1, Zenon DEF TodoInv
  <2>1. CASE todo'[i] = todo[i]
    BY <2>1, OwedLater, Zenon DEF SafepointInv, TodoInv
  <2>2. CASE up[i] /\ tso < tso' /\ \E b : Announces(todo'[i], b, tso')
    BY <2>2, OwedByCommit, Zenon
  <2> QED BY <2>1, <2>2, Zenon
<1>3. KeysInv'
  BY <1>1, Zenon DEF SafepointInv, KeysInv
<1>4. \A es : EntrySet(es, tso, safepoint) => EntrySet(es, tso', safepoint)
  BY ZoneType, EntrySetLater DEF SafepointInv, Later
<1>5. EntriesInv'
  BY <1>1, <1>4, Zenon DEF SafepointInv, EntriesInv
<1>6. FetchInv'
  <2>1. gc.pc = "fetch" => gc.at <= now' /\ now' <= gc.at + FetchTime
    <3>1. now \in Nat /\ gc.at \in Nat /\ FetchTime \in Nat
      BY ZoneType, FleetConstants, Zenon DEF SafepointInv, Types
    <3>2. gc.pc = "fetch" => gc.at <= now /\ now <= gc.at + FetchTime
      BY Zenon DEF SafepointInv, FetchInv
    <3> QED BY <3>1, <3>2 DEF Later, Timely
  <2> QED BY <1>1, <1>4, <2>1, Zenon DEF SafepointInv, FetchInv, Missed
<1>7. /\ Zone \in Nat /\ Zone' \in Nat /\ Zone * PerTick \in Nat /\ Zone' * PerTick \in Nat
      /\ Zone * PerTick <= Zone' * PerTick /\ gc.sp \in Nat /\ safepoint \in Nat
  BY ZoneType, LaterBounds, Zenon DEF SafepointInv
<1>8. PruneInv'
  <2>1. gc.sp <= Zone * PerTick => gc.sp <= Zone' * PerTick
    BY <1>7
  <2> QED BY <1>1, <2>1, Zenon DEF SafepointInv, PruneInv
<1>9. AnnouncedCovers' /\ Intact' /\ Share(known \cap keys, entries, safepoint)'
  <2>1. safepoint <= Zone * PerTick
    BY Zenon DEF SafepointInv, Intact
  <2>2. safepoint <= Zone' * PerTick
    BY <1>7, <2>1
  <2> QED BY <1>1, <2>2, Zenon DEF SafepointInv, AnnouncedCovers, Intact
<1> QED BY <1>2, <1>3, <1>5, <1>6, <1>8, <1>9, Zenon DEF SafepointInv

-----------------------------------------------------------------------------
(* The safepoint: an instance publishes.                                   *)

\* a timestamp in the safe zone is later than any safepoint outside of it
LEMMA InZone ==
  ASSUME Types, NEW ts \in Nat, physical(ts) >= Zone, NEW sp \in Nat, sp <= Zone * PerTick
  PROVE  ts >= sp /\ physical(ts) >= physical(sp)
<1>1. Zone \in Nat /\ Zone * PerTick \in Nat
  BY ZoneType, Zenon
<1>2. Zone * PerTick <= ts
  BY <1>1, FirstOfMillisecond, Zenon
<1> QED BY <1>1, <1>2, PhysicalGrows, Division

\* one more entry, of a timestamp in the safe zone
LEMMA EntryAdded ==
  ASSUME Types, NEW es, EntrySet(es, tso, safepoint), NEW x \in Entry,
         x.ts <= tso, physical(x.ts) >= Zone, Intact,
         \A e \in es : e.ts = x.ts => e = x
  PROVE  /\ EntrySet(es \cup {x}, tso, safepoint)
         /\ \A sp \in Nat : sp <= Zone * PerTick /\ (es # {} => Highest(es).ts >= sp)
                              => Highest(es \cup {x}).ts >= sp
<1>1. es \in SUBSET Entry /\ Sorted(es) /\ x.ts \in Nat
  BY Zenon DEF EntrySet, Entry
<1>2. Sorted(es \cup {x}) /\ es \cup {x} \in SUBSET Entry
  BY <1>1, SortedAdd, Zenon
<1>3. physical(x.ts) >= physical(safepoint)
  BY <1>1, ZoneType, InZone, Zenon DEF Intact
<1>4. EntrySet(es \cup {x}, tso, safepoint)
  BY <1>2, <1>3, Zenon DEF EntrySet
<1>5. ASSUME NEW sp \in Nat, sp <= Zone * PerTick, es # {} => Highest(es).ts >= sp
      PROVE  Highest(es \cup {x}).ts >= sp
  <2>1. x.ts >= sp
    BY <1>1, <1>5, InZone, Zenon
  <2> QED BY <1>2, <1>5, <2>1, HighestBound, Zenon
<1> QED BY <1>4, <1>5, Zenon

LEMMA ShareMore ==
  ASSUME NEW ids, NEW have, NEW more, NEW ts, Share(ids, have, ts),
         \A i \in ids : have[i] \subseteq more[i]
  PROVE  Share(ids, more, ts)
BY Zenon DEF Share, Of

LEMMA SafepointPublish ==
  ASSUME SafepointInv, Types', NEW i \in Instances, Publish(i)
  PROVE  SafepointInv'
<1> DEFINE call == Head(todo[i])
           x == [block |-> call.block, ts |-> call.ts]
           new == IF call.op = "entry" THEN {x} ELSE {}
<1>0. Types /\ Intact
  BY Zenon DEF SafepointInv
<1>1. /\ todo[i] \in Seq(Calls) /\ todo[i] # <<>> /\ call = todo[i][1] /\ 1 \in DOMAIN todo[i]
      /\ Tail(todo[i]) \in Seq(Calls)
      /\ \A n \in DOMAIN Tail(todo[i]) : n + 1 \in DOMAIN todo[i] /\ Tail(todo[i])[n] = todo[i][n + 1]
  BY <1>0, SMTT(30) DEF Publish, Types
<1>2. call \in Calls
  BY <1>1
<1>3. up[i] /\ Owed(todo[i], entries[i], i \in keys, tso, Due)
  BY <1>1, Zenon DEF SafepointInv, TodoInv
<1> HIDE DEF call
<1>4. x \in Entry /\ x.ts = call.ts /\ x.block = call.block
  BY <1>2, Zenon DEF Calls, Entry
<1>5. /\ call.ts \in Nat /\ call.ts <= tso /\ physical(call.ts) >= Due
      /\ \A m \in DOMAIN todo[i] : todo[i][m].ts = call.ts /\ todo[i][m].block = call.block
      /\ \A e \in entries[i] : e.ts = call.ts => e.block = call.block
      /\ call.op = "entry" => i \in keys
  <2>1. call.ts \in Nat
    BY <1>2, Zenon DEF Calls
  <2>2. call.op = "entry" => call.op # "key"
    BY Zenon
  <2> QED BY <1>1, <1>3, <2>1, <2>2, Zenon DEF Owed
<1>22. physical(call.ts) \in Nat /\ physical(call.ts) >= Zone
  BY <1>0, <1>5, Division, DueInZone, Zenon
<1>6. /\ UNCHANGED <<tso, up, gc, announced, safepoint, known>> /\ now' = now /\ Zone' = Zone /\ Due' = Due
      /\ keys' = (IF call.op = "key" THEN keys \cup {i} ELSE keys)
      /\ todo'[i] = Tail(todo[i]) /\ \A j \in Instances : j # i => todo'[j] = todo[j]
  BY <1>0, Zenon DEF Publish, call, gcVars, Set, Types, now, Zone, Due
<1>7. entries'[i] = entries[i] \cup new /\ \A j \in Instances : j # i => entries'[j] = entries[j]
  BY <1>0, Zenon DEF Publish, call, Set, Types
<1>8. \A e \in new : e = x /\ i \in keys
  BY <1>5, Zenon
<1>9. /\ i \in keys => i \in keys'
      /\ call.op = "key" => i \in keys'
      /\ \A j : j # i => (j \in keys') = (j \in keys)
      /\ \A ids : (\A j \in ids : j \in keys \/ ~up[j]) => ids \cap keys' = ids \cap keys
  BY <1>3, <1>6
<1>10. TodoInv'
  <2>1. ASSUME NEW j \in Instances, j # i
        PROVE  (~up[j] => todo'[j] = <<>>) /\ Owed(todo'[j], entries'[j], j \in keys', tso, Due)
    BY <2>1, <1>6, <1>7, <1>9, Zenon DEF SafepointInv, TodoInv
  <2>2. Owed(Tail(todo[i]), entries[i] \cup new, i \in keys', tso, Due)
    <3> SUFFICES ASSUME NEW n \in DOMAIN Tail(todo[i])
                 PROVE  LET c == Tail(todo[i])[n]
                        IN  /\ c.ts <= tso /\ physical(c.ts) >= Due
                            /\ c.op = "entry" => i \in keys'
                            /\ \A m \in DOMAIN Tail(todo[i]) :
                                 Tail(todo[i])[m].ts = c.ts /\ Tail(todo[i])[m].block = c.block
                            /\ \A e \in entries[i] \cup new : e.ts = c.ts => e.block = c.block
      BY Zenon DEF Owed
    <3>1. \A m \in DOMAIN Tail(todo[i]) : Tail(todo[i])[m].ts = call.ts /\ Tail(todo[i])[m].block = call.block
      BY <1>1, <1>5
    <3>2. Tail(todo[i])[n].op = "entry" => i \in keys'
      BY <1>1, <1>3, <1>9 DEF Owed
    <3>3. \A e \in entries[i] \cup new : e.ts = call.ts => e.block = call.block
      BY <1>4, <1>5, <1>8, Zenon
    <3> HIDE DEF new
    <3> QED BY <1>5, <3>1, <3>2, <3>3, Zenon
  <2> QED BY <2>1, <2>2, <1>3, <1>6, <1>7, Zenon DEF TodoInv
<1>11. KeysInv'
  <2>1. \A j \in Instances : entries'[j] # {} => j \in keys'
    BY <1>6, <1>7, <1>8, <1>9, Zenon DEF SafepointInv, KeysInv
  <2> QED BY <2>1, <1>6, Zenon DEF SafepointInv, KeysInv
<1>12. /\ EntrySet(entries[i] \cup new, tso, safepoint)
       /\ \A sp \in Nat : sp <= Zone * PerTick /\ (entries[i] # {} => Highest(entries[i]).ts >= sp)
                            => (entries[i] \cup new # {} => Highest(entries[i] \cup new).ts >= sp)
  <2>1. EntrySet(entries[i], tso, safepoint)
    BY Zenon DEF SafepointInv, EntriesInv
  <2>2. CASE new = {}
    BY <2>1, <2>2, Zenon
  <2>3. CASE new = {x}
    <3>1. \A e \in entries[i] : e.ts = x.ts => e = x
      BY <1>4, <1>5, <2>1 DEF EntrySet, Entry
    <3> HIDE DEF x, new
    <3> QED BY <1>0, <1>4, <1>5, <1>22, <2>1, <2>3, <3>1, EntryAdded, Zenon
  <2> QED BY <2>2, <2>3, Zenon
<1> HIDE DEF new, x
<1>13. safepoint \in Nat /\ safepoint <= Zone * PerTick /\ gc.sp \in Nat
  BY <1>0, ZoneType, Zenon DEF Intact
<1>14. EntriesInv'
  BY <1>6, <1>7, <1>12, <1>13, Zenon DEF SafepointInv, EntriesInv
<1>15. /\ known \cap keys' = known \cap keys
       /\ DOMAIN gc.map \cap keys' = DOMAIN gc.map \cap keys
  BY <1>9, Zenon DEF SafepointInv, KeysInv
<1>16. \A j \in Instances : entries[j] \subseteq entries'[j]
  BY <1>7, Zenon
<1>17. \A j \in Instances : \A e \in entries'[j] : e \in entries[j] \/ e = x
  BY <1>7, <1>8, Zenon
<1>18. FetchInv'
  <2> SUFFICES ASSUME gc.pc = "fetch" PROVE FetchInv'
    BY <1>6, Zenon DEF FetchInv
  <2>1. \A j \in DOMAIN gc.map : j \in keys' => gc.map[j] \subseteq entries'[j]
    BY <1>0, <1>15, <1>16, Zenon DEF SafepointInv, FetchInv, Types
  <2>3. physical(call.ts) >= Missed
    <3>1. now \in Nat /\ gc.at \in Nat /\ gc.at <= now /\ PublishTime \in Nat
      BY <1>0, ZoneType, FleetConstants, Zenon DEF SafepointInv, FetchInv, Types
    <3> QED BY <1>5, <1>22, <3>1 DEF Due, Missed
  <2>2. \A j \in Instances \ gc.left : \A e \in entries'[j] :
          (j \in DOMAIN gc.map /\ e \in gc.map[j]) \/ physical(e.ts) >= Missed
    BY <1>4, <1>17, <2>3, Zenon DEF SafepointInv, FetchInv
  <2> QED BY <1>6, <1>15, <2>1, <2>2, Zenon DEF SafepointInv, FetchInv, Missed
<1>19. PruneInv'
  <2> SUFFICES ASSUME gc.pc = "prune" PROVE PruneInv'
    BY <1>6, Zenon DEF PruneInv
  <2>1. gc.sp <= Zone * PerTick
    BY Zenon DEF SafepointInv, PruneInv
  <2>2. Share(DOMAIN gc.map \cap keys, entries', gc.sp)
    BY <1>0, <1>16, ShareMore, Zenon DEF SafepointInv, PruneInv, Types
  <2>3. \A j \in Instances : entries'[j] # {} => Highest(entries'[j]).ts >= gc.sp
    BY <1>7, <1>12, <1>13, <2>1, Zenon DEF SafepointInv, PruneInv
  <2>4. physical(x.ts) >= physical(gc.sp)
    BY <1>0, <1>4, <1>5, <1>13, <1>22, <2>1, InZone, Zenon
  <2>5. \A j \in Instances \ gc.left : \A e \in entries'[j] : physical(e.ts) >= physical(gc.sp)
    BY <1>17, <2>4, Zenon DEF SafepointInv, PruneInv
  <2> QED BY <1>6, <1>15, <2>2, <2>3, <2>5, Zenon DEF SafepointInv, PruneInv
<1>20. Share(known \cap keys, entries, safepoint)'
  BY <1>0, <1>6, <1>15, <1>16, ShareMore, Zenon DEF SafepointInv, Types
<1>21. AnnouncedCovers' /\ Intact'
  BY <1>6, Zenon DEF SafepointInv, AnnouncedCovers, Intact
<1> QED BY <1>10, <1>11, <1>14, <1>18, <1>19, <1>20, <1>21, Zenon DEF SafepointInv

-----------------------------------------------------------------------------
(* The safepoint: what the job computes from what it has read.             *)

\* the job has read entries of at least one instance, at or before last and
\* none of a millisecond before that of sp
Readable(map, last, sp) ==
  /\ DOMAIN map # {}
  /\ \A i \in DOMAIN map : EntrySet(map[i], last, sp) /\ map[i] # {}

\* the timestamp of an entry that the job has read
ReadTs(map) == {ts \in Nat : \E i \in DOMAIN map : \E e \in map[i] : e.ts = ts}

LEMMA EarliestChaintip ==
  ASSUME NEW map, NEW last, NEW sp, Readable(map, last, sp)
  PROVE  /\ get_earliest_chaintip_ts(map) \in ReadTs(map)
         /\ \A i \in DOMAIN map : get_earliest_chaintip_ts(map) <= Highest(map[i]).ts
<1> DEFINE tips == {Highest(map[i]).ts : i \in DOMAIN map}
<1>1. ASSUME NEW i \in DOMAIN map
      PROVE  Highest(map[i]).ts \in ReadTs(map)
  <2>1. Highest(map[i]) \in map[i] /\ map[i] \subseteq Entry
    BY HighestProperties, Zenon DEF Readable, EntrySet
  <2>2. Highest(map[i]).ts \in Nat
    BY <2>1, Zenon DEF Entry
  <2> QED BY <2>1, <2>2, Zenon DEF ReadTs
<1>2. tips \in SUBSET Nat /\ tips # {}
  BY <1>1 DEF ReadTs, Readable
<1>3. Min(tips) \in tips /\ \A n \in tips : Min(tips) <= n
  BY <1>2, MinProperties, Zenon
<1> QED BY <1>1, <1>3, Zenon DEF get_earliest_chaintip_ts

\* the block the job settles on is one that all instances have entries of
LEMMA SafepointBlock ==
  ASSUME NEW map, NEW last, NEW sp, Readable(map, last, sp),
         NEW insts \in SUBSET DOMAIN map, NEW arbitrary \in insts, HasCommon(map, insts)
  PROVE  LET b == network_safepoint_block(map, insts, arbitrary)
         IN  b \in Blocks /\ \A i \in insts : HasBlock(map, i, b)
<1> DEFINE common   == {e \in map[arbitrary] : \A i \in insts : HasBlock(map, i, e.block)}
           best     == Highest(common)
           previous == {e \in common : height(e) = height(best) - 1}
<1>1. common # {}
  BY Zenon DEF HasCommon, HasBlock
<1>2. common \subseteq Entry /\ Sorted(common) /\ Sorted(previous)
  <2>1. map[arbitrary] \subseteq Entry /\ Sorted(map[arbitrary])
    BY Zenon DEF Readable, EntrySet
  <2>2. common \in SUBSET map[arbitrary] /\ previous \in SUBSET map[arbitrary]
    BY Zenon
  <2> QED BY <2>1, <2>2, SortedPart, Zenon
<1>3. best \in common
  BY <1>1, <1>2, HighestProperties, Zenon
<1>4. previous # {} => Highest(previous) \in common
  BY <1>2, HighestProperties, Zenon
<1>5. \A e \in common : e.block \in Blocks /\ \A i \in insts : HasBlock(map, i, e.block)
  BY <1>2, Zenon DEF Entry
<1>6. network_safepoint_block(map, insts, arbitrary)
        = IF previous = {} THEN best.block ELSE Highest(previous).block
  BY Zenon DEF network_safepoint_block
<1> HIDE DEF common, best, previous
<1> QED BY <1>3, <1>4, <1>5, <1>6, Zenon

LEMMA LatestEntry ==
  ASSUME NEW map, NEW last \in Nat, NEW sp, Readable(map, last, sp),
         NEW i \in DOMAIN map, NEW b, HasBlock(map, i, b)
  PROVE  \E e \in map[i] : e.block = b /\ e.ts = LatestFor(map, i, b) /\ e.ts \in ReadTs(map)
<1> DEFINE of == {f \in map[i] : f.block = b}
           S == {e.ts : e \in of}
<1>1. \A e \in map[i] : e.ts \in 0..last /\ e.ts \in Nat
  BY DEF Readable, EntrySet, Entry
<1>2. S \in SUBSET (0..last) /\ S # {}
  BY <1>1, Zenon DEF HasBlock
<1>3. Max(S) \in S
  BY <1>2, MaxProperties, Zenon
<1>4. PICK e \in of : e.ts = Max(S)
  BY <1>3, Zenon
<1> QED BY <1>1, <1>4, Zenon DEF LatestFor, ReadTs

LEMMA SafepointOfBlock ==
  ASSUME NEW map, NEW last \in Nat, NEW sp, Readable(map, last, sp),
         NEW insts \in SUBSET DOMAIN map, insts # {}, NEW b, \A i \in insts : HasBlock(map, i, b)
  PROVE  /\ SafepointOf(map, insts, b) \in ReadTs(map)
         /\ \A i \in insts : \E e \in map[i] : e.block = b /\ e.ts >= SafepointOf(map, insts, b)
<1> DEFINE S == {LatestFor(map, i, b) : i \in insts}
<1>1. \A i \in insts : LatestFor(map, i, b) \in ReadTs(map)
  BY LatestEntry
<1>2. S \in SUBSET Nat /\ S # {} /\ S \subseteq ReadTs(map)
  BY <1>1, Zenon DEF ReadTs
<1>3. Min(S) \in S /\ \A n \in S : Min(S) <= n
  BY <1>2, MinProperties, Zenon
<1>4. ASSUME NEW i \in insts
      PROVE  \E e \in map[i] : e.block = b /\ e.ts >= Min(S)
  <2>1. PICK e \in map[i] : e.block = b /\ e.ts = LatestFor(map, i, b) /\ e.ts \in ReadTs(map)
    BY LatestEntry, Zenon
  <2>2. LatestFor(map, i, b) \in S /\ Min(S) \in Nat /\ e.ts \in Nat
    BY <1>2, <1>3, <2>1, Zenon DEF ReadTs
  <2> QED BY <2>1, <2>2, <1>3, Zenon
<1> QED BY <1>2, <1>3, <1>4, Zenon DEF SafepointOf

\* one instance of each network of the map
Arbitrary(map) ==
  LET nets == {Network[i] : i \in DOMAIN map}
  IN  {f \in [nets -> DOMAIN map] : \A net \in nets : Network[f[net]] = net}

LEMMA NetworkIntersection ==
  ASSUME NEW map, NEW last \in Nat, NEW sp, Readable(map, last, sp),
         \A i \in DOMAIN map : HasCommon(map, Members(map, Network[i])),
         NEW arbitrary \in Arbitrary(map)
  PROVE  LET m == get_latest_network_intersection_ts(map, arbitrary)
         IN  m \in ReadTs(map) /\ Share(DOMAIN map, map, m)
<1> DEFINE nets == {Network[i] : i \in DOMAIN map}
           block(net) == network_safepoint_block(map, Members(map, net), arbitrary[net])
           of(net) == SafepointOf(map, Members(map, net), block(net))
           S == {of(net) : net \in nets}
<1>1. ASSUME NEW net \in nets
      PROVE  /\ block(net) \in Blocks /\ of(net) \in ReadTs(map)
             /\ \A i \in Of(DOMAIN map, net) : \E e \in map[i] : e.block = block(net) /\ e.ts >= of(net)
  <2>1. /\ arbitrary[net] \in Members(map, net) /\ Members(map, net) \in SUBSET DOMAIN map
        /\ HasCommon(map, Members(map, net)) /\ Members(map, net) # {}
        /\ Of(DOMAIN map, net) = Members(map, net)
    BY DEF Arbitrary, Members, Of
  <2>2. block(net) \in Blocks /\ \A i \in Members(map, net) : HasBlock(map, i, block(net))
    BY <2>1, SafepointBlock, Zenon
  <2> HIDE DEF block
  <2> QED BY <2>1, <2>2, SafepointOfBlock
<1> HIDE DEF block
<1>2. S \in SUBSET Nat /\ S # {} /\ S \subseteq ReadTs(map)
  BY <1>1 DEF ReadTs, Readable
<1>3. Min(S) \in S /\ \A n \in S : Min(S) <= n
  BY <1>2, MinProperties, Zenon
<1>4. DOMAIN arbitrary = nets
  BY Zenon DEF Arbitrary
<1>5. get_latest_network_intersection_ts(map, arbitrary) = Min(S)
  BY <1>4, Zenon DEF get_latest_network_intersection_ts, block
<1>6. ASSUME NEW net \in nets
      PROVE  \E b \in Blocks : \A i \in Of(DOMAIN map, net) :
               \E e \in map[i] : e.block = b /\ e.ts >= Min(S)
  <2>1. of(net) \in S /\ of(net) \in Nat /\ Min(S) \in Nat /\ Min(S) <= of(net)
    BY <1>2, <1>3, Zenon
  <2>2. \A i \in Of(DOMAIN map, net) : map[i] \subseteq Entry
    BY Zenon DEF Of, Readable, EntrySet
  <2>3. \A i \in Of(DOMAIN map, net) : \A e \in map[i] : e.ts >= of(net) => e.ts >= Min(S)
    BY <2>1, <2>2 DEF Entry
  <2> QED BY <1>1, <2>3, Zenon
<1>7. Min(S) \in ReadTs(map)
  BY <1>2, <1>3, Zenon
<1> HIDE DEF S
<1>8. Share(DOMAIN map, map, Min(S))
  BY <1>6, Zenon DEF Share
<1> QED BY <1>5, <1>7, <1>8, Zenon

-----------------------------------------------------------------------------
(* The safepoint: the steps of the job.                                    *)

\* a step of the job that only reads redis
LEMMA SafepointReads ==
  ASSUME SafepointInv, Types', UNCHANGED <<tso, up, todo, keys, entries, safepoint, known>>,
         FetchInv', PruneInv', AnnouncedCovers',
         \A i \in gc'.left \cup DOMAIN gc'.map : i \in keys \/ ~up[i]
  PROVE  SafepointInv'
<1>1. now' = now /\ Zone' = Zone /\ Due' = Due
  BY Zenon DEF now, Zone, Due
<1>2. TodoInv' /\ EntriesInv'
  BY <1>1, Zenon DEF SafepointInv, TodoInv, EntriesInv
<1>3. KeysInv'
  BY Zenon DEF SafepointInv, KeysInv
<1>4. Intact' /\ Share(known \cap keys, entries, safepoint)'
  BY <1>1, Zenon DEF SafepointInv, Intact
<1> QED BY <1>2, <1>3, <1>4, Zenon DEF SafepointInv

\* the job ends
LEMMA SafepointIdle ==
  ASSUME SafepointInv, Types', gc' = Idle,
         UNCHANGED <<tso, up, todo, keys, entries, announced, safepoint, known>>
  PROVE  SafepointInv'
<1>1. gc'.pc = "idle" /\ gc'.left = {} /\ DOMAIN gc'.map = {}
  BY DEF Idle
<1>2. FetchInv' /\ PruneInv' /\ AnnouncedCovers'
  BY <1>1, Zenon DEF SafepointInv, FetchInv, PruneInv, AnnouncedCovers
<1> QED BY <1>1, <1>2, SafepointReads, Zenon

LEMMA SafepointStart ==
  ASSUME SafepointInv, Types', GcStart
  PROVE  SafepointInv'
<1>1. /\ gc'.pc = "fetch" /\ gc'.left = keys /\ DOMAIN gc'.map = {} /\ gc'.sp = 0
      /\ UNCHANGED <<tso, up, todo, keys, entries, announced, safepoint, known>>
  BY DEF GcStart, Idle, instanceVars, redisVars
<1>4. gc'.at = now /\ now' = now
  BY <1>1, Zenon DEF GcStart, Idle, now
<1>5. now <= now /\ now <= now + FetchTime
  BY ZoneType, FleetConstants DEF SafepointInv
<1>2. FetchInv'
  BY <1>1, <1>4, <1>5, Zenon DEF SafepointInv, KeysInv, FetchInv
<1>3. PruneInv' /\ AnnouncedCovers'
  BY <1>1, Zenon DEF SafepointInv, PruneInv, AnnouncedCovers
<1> QED BY <1>1, <1>2, <1>3, SafepointReads, Zenon

LEMMA SafepointFetch ==
  ASSUME SafepointInv, Types', GcFetch
  PROVE  SafepointInv'
<1>1. PICK i \in gc.left :
        gc' = [gc EXCEPT !.left = @ \ {i},
                         !.map = IF entries[i] = {} THEN @
                                 ELSE [j \in DOMAIN @ \cup {i} |-> IF j = i THEN entries[i] ELSE @[j]]]
  BY Zenon DEF GcFetch
<1>2. /\ gc.pc = "fetch" /\ i \in Instances
      /\ UNCHANGED <<tso, up, todo, keys, entries, announced, safepoint, known>>
      /\ now' = now
  BY Zenon DEF GcFetch, instanceVars, redisVars, SafepointInv, Types, now
<1>3. gc'.pc = "fetch" /\ gc'.at = gc.at /\ gc'.left = gc.left \ {i} /\ gc'.sp = gc.sp
  BY <1>1, <1>2, Zenon DEF SafepointInv, Types
<1>4. gc'.map = IF entries[i] = {} THEN gc.map
                ELSE [j \in DOMAIN gc.map \cup {i} |-> IF j = i THEN entries[i] ELSE gc.map[j]]
  BY <1>1, Zenon DEF SafepointInv, Types
<1>5. /\ entries[i] = {} => gc'.map = gc.map
      /\ entries[i] # {} => DOMAIN gc'.map = DOMAIN gc.map \cup {i} /\ gc'.map[i] = entries[i]
      /\ \A j \in DOMAIN gc'.map : j = i \/ (j \in DOMAIN gc.map /\ gc'.map[j] = gc.map[j])
      /\ \A j \in DOMAIN gc.map : j \in DOMAIN gc'.map
  BY <1>4, Zenon
<1>6. \A j \in DOMAIN gc.map : j # i => gc'.map[j] = gc.map[j]
  BY <1>4, Zenon
<1>7. known \cap keys \subseteq DOMAIN gc'.map \cup gc'.left
  <2>1. i \in known \cap keys => entries[i] # {}
    <3> SUFFICES ASSUME i \in known \cap keys PROVE entries[i] # {}
      BY Zenon
    <3>1. Share(known \cap keys, entries, safepoint)
      BY Zenon DEF SafepointInv
    <3>2. i \in Of(known \cap keys, Network[i]) /\ Network[i] \in {Network[j] : j \in known \cap keys}
      BY Zenon DEF Of
    <3> QED BY <3>1, <3>2, Zenon DEF Share
  <2>2. known \cap keys \subseteq DOMAIN gc.map \cup gc.left
    BY <1>2, Zenon DEF SafepointInv, FetchInv
  <2> QED BY <1>3, <1>5, <2>1, <2>2, Zenon
<1>8. ASSUME NEW j \in DOMAIN gc'.map
      PROVE  /\ EntrySet(gc'.map[j], tso, safepoint) /\ gc'.map[j] # {}
             /\ j \in keys => gc'.map[j] \subseteq entries[j]
  <2>1. CASE entries[i] # {} /\ j = i
    BY <1>2, <1>5, <2>1, Zenon DEF SafepointInv, EntriesInv
  <2>2. CASE j \in DOMAIN gc.map /\ gc'.map[j] = gc.map[j]
    BY <1>2, <2>2, Zenon DEF SafepointInv, FetchInv
  <2> QED BY <1>5, <2>1, <2>2, Zenon
<1>9. ASSUME NEW j \in Instances \ gc'.left, NEW e \in entries[j]
      PROVE  (j \in DOMAIN gc'.map /\ e \in gc'.map[j]) \/ physical(e.ts) >= Missed
  <2>1. CASE j = i
    BY <1>5, <2>1, Zenon
  <2>2. CASE j # i
    BY <1>2, <1>3, <1>5, <1>6, <2>2, Zenon DEF SafepointInv, FetchInv
  <2> QED BY <2>1, <2>2, Zenon
<1>10. FetchInv'
  <2>1. gc.sp = 0 /\ gc.at <= now /\ now <= gc.at + FetchTime /\ Missed' = Missed
    BY <1>2, <1>3, Zenon DEF SafepointInv, FetchInv, Missed
  <2> QED BY <1>2, <1>3, <1>7, <1>8, <1>9, <2>1, Zenon DEF FetchInv
<1>11. PruneInv' /\ AnnouncedCovers'
  BY <1>2, <1>3, Zenon DEF SafepointInv, PruneInv, AnnouncedCovers
<1>12. \A j \in gc'.left \cup DOMAIN gc'.map : j \in keys \/ ~up[j]
  BY <1>3, <1>5, Zenon DEF SafepointInv, KeysInv
<1> QED BY <1>2, <1>10, <1>11, <1>12, SafepointReads, Zenon

\* what is announced: a timestamp outside of the safe zone and no earlier, in
\* milliseconds, than the safepoint before; it has passed no tip that was read
LEMMA NewSafepoint ==
  ASSUME Types, Intact, NEW map, Readable(map, tso, safepoint),
         \A i \in DOMAIN map : HasCommon(map, Members(map, Network[i])),
         NEW arbitrary \in Arbitrary(map)
  PROVE  LET sp == Min({get_earliest_chaintip_ts(map), safe_zone_ts(now + ClockAhead),
                        get_latest_network_intersection_ts(map, arbitrary)})
         IN  /\ sp \in Nat /\ sp <= Zone * PerTick /\ physical(sp) >= physical(safepoint)
             /\ \A i \in DOMAIN map : Highest(map[i]).ts >= sp
             /\ Share(DOMAIN map, map, sp)
<1> DEFINE a == get_earliest_chaintip_ts(map)
           z == safe_zone_ts(now + ClockAhead)
           m == get_latest_network_intersection_ts(map, arbitrary)
           sp == Min({a, z, m})
<1>1. tso \in Nat /\ Zone \in Nat /\ Zone * PerTick \in Nat /\ safepoint \in Nat /\ physical(safepoint) \in Nat
  BY ZoneType, Zenon
<1>2. z = Zone * PerTick
  <2>1. CASE now + ClockAhead > SafeZone
    BY <2>1, Zenon DEF safe_zone_ts, Zone
  <2>2. CASE ~(now + ClockAhead > SafeZone)
    BY <2>2, Zenon DEF safe_zone_ts, Zone
  <2> QED BY <2>1, <2>2, Zenon
<1>3. a \in ReadTs(map) /\ \A i \in DOMAIN map : a <= Highest(map[i]).ts
  BY EarliestChaintip, Zenon
<1>4. m \in ReadTs(map) /\ Share(DOMAIN map, map, m)
  BY <1>1, NetworkIntersection, Zenon
<1> HIDE DEF a, z, m
<1>5. \A ts \in ReadTs(map) : ts \in Nat /\ physical(ts) >= physical(safepoint)
  BY Zenon DEF ReadTs, Readable, EntrySet
<1>6. physical(Zone * PerTick) >= physical(safepoint)
  BY <1>1, PhysicalGrows, Division, Zenon DEF Intact
<1>7. {a, z, m} \in SUBSET Nat
  BY <1>1, <1>2, <1>3, <1>4, <1>5, Zenon
<1>8. sp \in {a, z, m} /\ \A n \in {a, z, m} : sp <= n
  BY <1>7, MinProperties, Zenon
<1> HIDE DEF sp
<1>9. sp \in Nat /\ sp <= z /\ sp <= a /\ sp <= m /\ physical(sp) >= physical(safepoint)
  BY <1>2, <1>3, <1>4, <1>5, <1>6, <1>7, <1>8, Zenon
<1>10. \A i \in DOMAIN map : map[i] \subseteq Entry /\ Highest(map[i]) \in map[i]
  BY HighestProperties, Zenon DEF Readable, EntrySet
<1>11. \A i \in DOMAIN map : Highest(map[i]).ts >= sp
  <2>1. \A i \in DOMAIN map : Highest(map[i]).ts \in Nat
    BY <1>10, Zenon DEF Entry
  <2> QED BY <1>3, <1>5, <1>9, <2>1
<1>12. Share(DOMAIN map, map, sp)
  <2>1. \A i \in DOMAIN map : \A e \in map[i] : e.ts >= m => e.ts >= sp
    BY <1>4, <1>5, <1>9, <1>10 DEF Entry
  <2>2. \A net : \A i \in Of(DOMAIN map, net) : i \in DOMAIN map
    BY Zenon DEF Of
  <2> QED BY <1>4, <2>1, <2>2, Zenon DEF Share
<1> QED BY <1>2, <1>9, <1>11, <1>12, Zenon DEF sp, a, z, m

\* the safepoint that a job announces
LEMMA AnnouncedIs ==
  ASSUME SafepointInv, GcAnnounce
  PROVE  \E sp \in Nat :
           /\ announced' = sp
           /\ gc' = [gc EXCEPT !.pc = "prune", !.at = 0, !.left = DOMAIN gc.map, !.sp = sp,
                               !.map = [i \in DOMAIN @ |-> {}]]
           /\ sp <= Zone * PerTick /\ physical(sp) >= physical(safepoint)
           /\ \A i \in DOMAIN gc.map : Highest(gc.map[i]).ts >= sp
           /\ Share(DOMAIN gc.map, gc.map, sp)
<1> DEFINE map == gc.map
<1>0. Types /\ Intact
  BY Zenon DEF SafepointInv
<1>1. /\ gc.pc = "fetch" /\ map # <<>>
      /\ \A i \in DOMAIN map : HasCommon(map, Members(map, Network[i]))
  BY Zenon DEF GcAnnounce
<1>2. PICK arbitrary \in Arbitrary(map) :
        LET sp == Min({get_earliest_chaintip_ts(map), safe_zone_ts(now + ClockAhead),
                       get_latest_network_intersection_ts(map, arbitrary)})
        IN  /\ announced' = sp
            /\ gc' = [gc EXCEPT !.pc = "prune", !.at = 0, !.left = DOMAIN gc.map, !.sp = sp,
                                !.map = [i \in DOMAIN @ |-> {}]]
  BY Zenon DEF GcAnnounce, Arbitrary
<1>3. Readable(map, tso, safepoint)
  <2>1. ASSUME DOMAIN map = {} PROVE FALSE
    <3>1. map \in [1..0 -> SUBSET Entry]
      BY <1>0, <2>1 DEF Types
    <3>2. map \in Seq(SUBSET Entry) /\ Len(map) = 0
      BY <3>1
    <3> HIDE DEF map
    <3>3. map = <<>>
      BY <3>2
    <3> QED BY <1>1, <3>3, Zenon
  <2> QED BY <1>1, <2>1, Zenon DEF SafepointInv, FetchInv, Readable
<1> QED BY <1>0, <1>1, <1>2, <1>3, NewSafepoint, Zenon

LEMMA SafepointAnnounce ==
  ASSUME SafepointInv, Types', GcAnnounce
  PROVE  SafepointInv'
<1> DEFINE map == gc.map
<1>0. Types
  BY Zenon DEF SafepointInv
<1>1. /\ gc.pc = "fetch" /\ gc.left = {}
      /\ UNCHANGED <<tso, up, todo, keys, entries, safepoint, known>> /\ Zone' = Zone
  BY Zenon DEF GcAnnounce, instanceVars, redisVars, now, Zone
<1>2. PICK sp \in Nat :
           /\ announced' = sp
           /\ gc' = [gc EXCEPT !.pc = "prune", !.at = 0, !.left = DOMAIN gc.map, !.sp = sp,
                               !.map = [i \in DOMAIN @ |-> {}]]
           /\ sp <= Zone * PerTick /\ physical(sp) >= physical(safepoint)
           /\ \A i \in DOMAIN map : Highest(map[i]).ts >= sp
           /\ Share(DOMAIN map, map, sp)
  BY AnnouncedIs, Zenon
<1>3. gc'.pc = "prune" /\ gc'.left = DOMAIN map /\ gc'.sp = sp /\ DOMAIN gc'.map = DOMAIN map
  BY <1>0, <1>2, Zenon DEF Types
<1>4. ASSUME NEW i \in Instances
      PROVE  /\ i \in DOMAIN map /\ i \in keys => map[i] \subseteq entries[i]
             /\ \A e \in entries[i] : (i \in DOMAIN map /\ e \in map[i]) \/ physical(e.ts) >= Zone
             /\ \A e \in entries[i] : physical(e.ts) >= Zone =>
                  e.ts >= sp /\ physical(e.ts) >= physical(sp)
  <2>1. \A e \in entries[i] : e.ts \in Nat
    BY <1>0 DEF Types, Entry
  <2>2. \A e \in entries[i] : physical(e.ts) >= Zone => e.ts >= sp /\ physical(e.ts) >= physical(sp)
    BY <1>0, <1>2, <2>1, InZone, Zenon
  <2>3. \A e \in entries[i] : physical(e.ts) >= Missed => physical(e.ts) >= Zone
    <3>1. now \in Nat /\ gc.at \in Nat /\ now <= gc.at + FetchTime
      BY <1>0, <1>1, ZoneType, Zenon DEF SafepointInv, FetchInv, Types
    <3>2. \A m \in Nat : m >= Missed => m >= now - PublishTime - FetchTime
      BY <3>1, FleetConstants DEF Missed
    <3>3. \A m \in Nat : m >= Missed => m >= Zone
      BY <1>0, <3>2, RoomForDelays, Zenon
    <3> QED BY <2>1, <3>3, Division, Zenon
  <2> QED BY <1>1, <2>2, <2>3, Zenon DEF SafepointInv, FetchInv
<1>5. PruneInv'
  <2>1. known \cap keys \subseteq DOMAIN map
    BY <1>1, Zenon DEF SafepointInv, FetchInv
  <2>2. Share(DOMAIN map \cap keys, entries, sp)
    <3>1. Share(DOMAIN map \cap keys, map, sp)
      BY <1>2 DEF Share, Of
    <3>2. \A i \in DOMAIN map \cap keys : map[i] \subseteq entries[i]
      BY <1>0, <1>4, Zenon DEF Types
    <3> QED BY <3>1, <3>2, ShareMore, Zenon
  <2>3. ASSUME NEW i \in Instances, entries[i] # {}
        PROVE  Highest(entries[i]).ts >= sp
    <3> DEFINE part == IF i \in DOMAIN map THEN map[i] ELSE {}
    <3>1. i \in keys
      BY <2>3, Zenon DEF SafepointInv, KeysInv
    <3>2. part \in SUBSET entries[i] /\ (part # {} => Highest(part).ts >= sp)
      BY <1>2, <1>4, <3>1, Zenon
    <3>3. \A e \in entries[i] \ part : e.ts >= sp
      BY <1>4, Zenon
    <3>4. entries[i] \in SUBSET Entry /\ Sorted(entries[i])
      BY Zenon DEF SafepointInv, EntriesInv, EntrySet
    <3> HIDE DEF part
    <3> QED BY <2>3, <3>2, <3>3, <3>4, HighestBound, Zenon
  <2>4. \A i \in Instances \ DOMAIN map : \A e \in entries[i] : physical(e.ts) >= physical(sp)
    BY <1>4, Zenon
  <2> QED BY <1>1, <1>2, <1>3, <2>1, <2>2, <2>3, <2>4, Zenon DEF PruneInv
<1>6. FetchInv'
  BY <1>3, Zenon DEF FetchInv
<1>7. AnnouncedCovers'
  <2>1. physical(sp) \in Nat /\ physical(safepoint) \in Nat
    BY <1>0, <1>2, ZoneType, Division, Zenon
  <2> QED BY <1>1, <1>2, <2>1, Zenon DEF AnnouncedCovers
<1>8. \A i \in gc'.left \cup DOMAIN gc'.map : i \in keys \/ ~up[i]
  BY <1>3, Zenon DEF SafepointInv, KeysInv
<1> QED BY <1>1, <1>5, <1>6, <1>7, <1>8, SafepointReads, Zenon

LEMMA ShareKept ==
  ASSUME NEW ids, NEW have, NEW less, NEW ts, Share(ids, have, ts),
         \A i \in ids : \A e \in have[i] : e.ts >= ts => e \in less[i]
  PROVE  Share(ids, less, ts)
<1>1. \A net : Of(ids, net) \subseteq ids
  BY Zenon DEF Of
<1> QED BY <1>1, Zenon DEF Share

LEMMA ShareLess ==
  ASSUME NEW ids, NEW have, NEW ts \in Nat, Share(ids, have, ts), NEW some \in SUBSET ids,
         \A i \in ids : have[i] \subseteq Entry, NEW lo \in Nat, lo <= ts
  PROVE  Share(some, have, lo)
<1>1. \A i \in ids : \A e \in have[i] : e.ts >= ts => e.ts >= lo
  BY DEF Entry
<1>2. \A net : Of(some, net) \subseteq Of(ids, net) /\ Of(ids, net) \subseteq ids
  BY Zenon DEF Of
<1>3. {Network[i] : i \in some} \subseteq {Network[i] : i \in ids}
  BY Zenon
<1> QED BY <1>1, <1>2, <1>3, Zenon DEF Share

\* pruning leaves what the safepoint has not passed, the highest entry with it
LEMMA Pruned ==
  ASSUME SafepointInv, gc.pc = "prune", NEW i \in Instances
  PROVE  LET part == {e \in entries[i] : physical(e.ts) >= physical(gc.sp)}
         IN  /\ EntrySet(part, tso, safepoint)
             /\ \A e \in entries[i] : e.ts >= gc.sp => e \in part
             /\ entries[i] # {} => Highest(entries[i]) \in part /\ Highest(part) = Highest(entries[i])
<1> DEFINE part == {e \in entries[i] : physical(e.ts) >= physical(gc.sp)}
<1>1. EntrySet(entries[i], tso, safepoint) /\ entries[i] \in SUBSET Entry /\ Sorted(entries[i])
  BY Zenon DEF SafepointInv, EntriesInv, EntrySet
<1>2. gc.sp \in Nat
  BY ZoneType, Zenon DEF SafepointInv
<1>3. ASSUME NEW e \in entries[i], e.ts >= gc.sp
      PROVE  e \in part
  <2>1. e.ts \in Nat
    BY <1>1, Zenon DEF Entry
  <2>2. physical(gc.sp) <= physical(e.ts) /\ physical(e.ts) \in Nat /\ physical(gc.sp) \in Nat
    BY <1>2, <1>3, <2>1, PhysicalGrows, Division, Zenon
  <2> QED BY <2>2, Zenon
<1>4. part \in SUBSET entries[i] /\ Sorted(part)
  BY <1>1, SortedPart, Zenon
<1>5. EntrySet(part, tso, safepoint)
  BY <1>1, <1>4, Zenon DEF EntrySet
<1>6. ASSUME entries[i] # {}
      PROVE  Highest(entries[i]) \in part /\ Highest(part) = Highest(entries[i])
  <2>1. Highest(entries[i]) \in entries[i] /\ Highest(entries[i]).ts >= gc.sp
    BY <1>1, <1>6, HighestProperties, Zenon DEF SafepointInv, PruneInv
  <2>2. Highest(entries[i]) \in part
    BY <1>3, <2>1, Zenon
  <2> QED BY <1>1, <1>4, <2>2, HighestStays, Zenon
<1> QED BY <1>3, <1>5, <1>6, Zenon

LEMMA SafepointPrune ==
  ASSUME SafepointInv, Types', GcPrune
  PROVE  SafepointInv'
<1>0. Types
  BY Zenon DEF SafepointInv
<1>1. PICK i \in gc.left :
        /\ gc' = [gc EXCEPT !.left = @ \ {i}]
        /\ entries' = Set(entries, i, {e \in entries[i] : physical(e.ts) >= physical(gc.sp)})
  BY Zenon DEF GcPrune
<1> DEFINE part == {e \in entries[i] : physical(e.ts) >= physical(gc.sp)}
<1>2. /\ gc.pc = "prune" /\ i \in Instances
      /\ UNCHANGED <<tso, up, todo, keys, announced, safepoint, known>> /\ now' = now /\ Zone' = Zone /\ Due' = Due
      /\ gc'.pc = "prune" /\ gc'.left = gc.left \ {i} /\ gc'.map = gc.map /\ gc'.sp = gc.sp
  BY <1>0, <1>1, Zenon DEF GcPrune, instanceVars, Types, now, Zone, Due
<1>3. entries'[i] = part /\ \A j \in Instances : j # i => entries'[j] = entries[j]
  BY <1>0, <1>1, <1>2, Zenon DEF Set, Types
<1>4. /\ EntrySet(part, tso, safepoint)
      /\ \A e \in entries[i] : e.ts >= gc.sp => e \in part
      /\ entries[i] # {} => Highest(entries[i]) \in part /\ Highest(part) = Highest(entries[i])
      /\ part \subseteq entries[i] /\ \A e \in part : physical(e.ts) >= physical(gc.sp)
  BY <1>2, Pruned, Zenon
<1> HIDE DEF part
<1>5. \A j \in Instances : entries'[j] \subseteq entries[j]
  BY <1>3, <1>4, Zenon
<1>6. TodoInv'
  <2> SUFFICES ASSUME NEW j \in Instances
               PROVE  Owed(todo[j], entries'[j], j \in keys, tso, Due)
    BY <1>2, Zenon DEF SafepointInv, TodoInv
  <2>1. Owed(todo[j], entries[j], j \in keys, tso, Due)
    BY Zenon DEF SafepointInv, TodoInv
  <2> QED BY <1>5, <2>1, Zenon DEF Owed
<1>7. KeysInv'
  BY <1>2, <1>5, Zenon DEF SafepointInv, KeysInv
<1>8. EntriesInv'
  BY <1>2, <1>3, <1>4, Zenon DEF SafepointInv, EntriesInv
<1>9. FetchInv'
  BY <1>2, Zenon DEF FetchInv
<1>10. /\ gc.sp \in Nat /\ safepoint \in Nat
       /\ \A j \in Instances : entries[j] \subseteq Entry /\ entries'[j] \subseteq Entry
       /\ \A j \in Instances : \A e \in entries[j] : e.ts >= gc.sp => e \in entries'[j]
  BY <1>0, <1>3, <1>4, <1>5, ZoneType, Zenon DEF Types
<1>11. DOMAIN gc.map \subseteq Instances /\ known \subseteq Instances /\ known \cap keys \subseteq DOMAIN gc.map \cap keys
  BY <1>0, <1>2, Zenon DEF Types, SafepointInv, PruneInv
<1>12. Share(DOMAIN gc.map \cap keys, entries', gc.sp)
  BY <1>2, <1>10, <1>11, ShareKept, Zenon DEF SafepointInv, PruneInv
<1>13. PruneInv'
  <2>1. \A j \in Instances : entries'[j] # {} => Highest(entries'[j]).ts >= gc.sp
    BY <1>2, <1>3, <1>4, Zenon DEF SafepointInv, PruneInv
  <2>2. \A j \in Instances \ (gc.left \ {i}) : \A e \in entries'[j] : physical(e.ts) >= physical(gc.sp)
    BY <1>2, <1>3, <1>4, Zenon DEF SafepointInv, PruneInv
  <2> QED BY <1>2, <1>12, <2>1, <2>2, Zenon DEF SafepointInv, PruneInv
<1>14. Share(known \cap keys, entries', safepoint)
  <2>1. CASE safepoint <= gc.sp
    BY <1>10, <1>11, <1>12, <2>1, ShareLess
  <2>2. CASE gc.sp <= safepoint
    <3>1. \A j \in Instances : \A e \in entries[j] : e.ts >= safepoint => e.ts >= gc.sp
      BY <1>10, <2>2 DEF Entry
    <3>2. \A j \in known \cap keys : \A e \in entries[j] : e.ts >= safepoint => e \in entries'[j]
      BY <1>10, <1>11, <3>1, Zenon
    <3> QED BY <3>2, ShareKept, Zenon DEF SafepointInv
  <2> QED BY <1>10, <2>1, <2>2
<1>15. AnnouncedCovers' /\ Intact'
  BY <1>2, Zenon DEF SafepointInv, AnnouncedCovers, Intact
<1> QED BY <1>2, <1>6, <1>7, <1>8, <1>9, <1>13, <1>14, <1>15 DEF SafepointInv

LEMMA SafepointSubmit ==
  ASSUME SafepointInv, Types', GcSubmit
  PROVE  SafepointInv'
<1>0. Types
  BY Zenon DEF SafepointInv
<1>1. /\ gc.pc = "prune" /\ gc.left = {} /\ gc' = Idle
      /\ UNCHANGED <<tso, up, todo, keys, entries, announced>> /\ now' = now /\ Zone' = Zone /\ Due' = Due
  BY Zenon DEF GcSubmit, instanceVars, redisVars, now, Zone, Due
<1>2. CASE ~(gc.sp >= safepoint)
  <2>1. safepoint' = safepoint /\ known' = known
    BY <1>2, Zenon DEF GcSubmit
  <2> QED BY <1>1, <2>1, SafepointIdle, Zenon
<1>3. CASE gc.sp >= safepoint
  <2>1. safepoint' = gc.sp /\ known' = DOMAIN gc.map
    BY <1>3, Zenon DEF GcSubmit
  <2>2. gc'.pc = "idle" /\ gc'.left = {} /\ DOMAIN gc'.map = {}
    BY <1>1 DEF Idle
  <2>3. TodoInv'
    BY <1>1, Zenon DEF SafepointInv, TodoInv
  <2>4. KeysInv'
    BY <1>1, <2>1, <2>2, Zenon DEF SafepointInv, KeysInv
  <2>5. EntriesInv'
    <3>1. ASSUME NEW i \in Instances
          PROVE  /\ EntrySet(entries[i], tso, gc.sp)
                 /\ entries[i] # {} => Highest(entries[i]).ts >= gc.sp
      <4>1. EntrySet(entries[i], tso, safepoint)
        BY Zenon DEF SafepointInv, EntriesInv
      <4> QED BY <1>1, <4>1, Zenon DEF SafepointInv, PruneInv, EntrySet
    <3> QED BY <1>1, <2>1, <3>1, Zenon DEF EntriesInv
  <2>6. FetchInv' /\ PruneInv'
    BY <2>2, Zenon DEF FetchInv, PruneInv
  <2>7. Intact'
    BY <1>1, <2>1, Zenon DEF SafepointInv, PruneInv, Intact
  <2>8. AnnouncedCovers'
    <3>1. announced = gc.sp /\ physical(gc.sp) \in Nat
      BY <1>0, <1>1, ZoneType, Zenon DEF SafepointInv, PruneInv
    <3> QED BY <1>1, <2>1, <3>1 DEF AnnouncedCovers
  <2>9. Share(known \cap keys, entries, safepoint)'
    BY <1>1, <2>1, Zenon DEF SafepointInv, PruneInv
  <2> QED BY <2>3, <2>4, <2>5, <2>6, <2>7, <2>8, <2>9, Zenon DEF SafepointInv
<1> QED BY <1>2, <1>3, Zenon

\* a retired instance is deleted
LEMMA SafepointDelete ==
  ASSUME SafepointInv, Types', NEW i \in Instances, DeleteTimestamps(i)
  PROVE  SafepointInv'
<1>0. Types
  BY Zenon DEF SafepointInv
<1>1. /\ ~up[i] /\ keys' = keys \ {i}
      /\ UNCHANGED <<tso, up, todo, gc, announced, safepoint, known>> /\ now' = now /\ Zone' = Zone /\ Due' = Due
      /\ entries'[i] = {} /\ \A j \in Instances : j # i => entries'[j] = entries[j]
  BY <1>0, Zenon DEF DeleteTimestamps, gcVars, Set, Types, now, Zone, Due
<1>2. \A j \in Instances \ {i} : (j \in keys') = (j \in keys) /\ entries'[j] = entries[j]
  BY <1>1
<1>3. TodoInv'
  <2>1. ASSUME NEW j \in Instances, j # i
        PROVE  (~up[j] => todo[j] = <<>>) /\ Owed(todo[j], entries'[j], j \in keys', tso, Due)
    BY <1>2, <2>1, Zenon DEF SafepointInv, TodoInv
  <2>2. todo[i] = <<>>
    BY <1>1, Zenon DEF SafepointInv, TodoInv
  <2>3. Owed(todo[i], entries'[i], i \in keys', tso, Due)
    BY <2>2 DEF Owed
  <2> QED BY <1>1, <2>1, <2>2, <2>3, Zenon DEF TodoInv
<1>4. KeysInv'
  BY <1>1, <1>2, Zenon DEF SafepointInv, KeysInv
<1>5. EntriesInv'
  BY <1>1, EmptyIsEntrySet, Zenon DEF SafepointInv, EntriesInv
<1>6. FetchInv'
  <2> SUFFICES ASSUME gc.pc = "fetch" PROVE FetchInv'
    BY <1>1, Zenon DEF FetchInv
  <2>1. \A j \in DOMAIN gc.map : j \in keys' => gc.map[j] \subseteq entries'[j]
    BY <1>0, <1>1, Zenon DEF SafepointInv, FetchInv, Types
  <2>2. \A j \in Instances \ gc.left : \A e \in entries'[j] :
          (j \in DOMAIN gc.map /\ e \in gc.map[j]) \/ physical(e.ts) >= Missed
    BY <1>1, Zenon DEF SafepointInv, FetchInv
  <2> QED BY <1>1, <2>1, <2>2, Zenon DEF SafepointInv, FetchInv, Missed
<1>7. ASSUME NEW ids \in SUBSET Instances, NEW ts, Share(ids \cap keys, entries, ts)
      PROVE  Share(ids \cap keys', entries', ts)
  <2>1. ids \cap keys' \subseteq ids \cap keys /\ \A j \in ids \cap keys' : entries'[j] = entries[j]
    BY <1>1, Zenon
  <2>2. \A net : Of(ids \cap keys', net) \subseteq Of(ids \cap keys, net)
                 /\ \A j \in Of(ids \cap keys', net) : entries'[j] = entries[j]
    BY <2>1, Zenon DEF Of
  <2> SUFFICES ASSUME NEW net \in {Network[j] : j \in ids \cap keys'}
               PROVE  \E b \in Blocks : \A j \in Of(ids \cap keys', net) :
                        \E e \in entries'[j] : e.block = b /\ e.ts >= ts
    BY Zenon DEF Share
  <2>3. net \in {Network[j] : j \in ids \cap keys}
    BY <2>1, Zenon
  <2>4. PICK b \in Blocks : \A j \in Of(ids \cap keys, net) :
               \E e \in entries[j] : e.block = b /\ e.ts >= ts
    BY <1>7, <2>3, Zenon DEF Share
  <2> QED BY <2>2, <2>4, Zenon
<1>8. DOMAIN gc.map \subseteq Instances /\ known \subseteq Instances
  BY <1>0, Zenon DEF Types
<1>9. PruneInv'
  BY <1>1, <1>7, <1>8, Zenon DEF SafepointInv, PruneInv
<1>10. Share(known \cap keys, entries, safepoint)'
  BY <1>1, <1>7, <1>8, Zenon DEF SafepointInv
<1>11. AnnouncedCovers' /\ Intact'
  BY <1>1, Zenon DEF SafepointInv, AnnouncedCovers, Intact
<1> QED BY <1>3, <1>4, <1>5, <1>6, <1>9, <1>10, <1>11, Zenon DEF SafepointInv

-----------------------------------------------------------------------------
(* Types.                                                                  *)

\* a step of the chain, of an instance or of the operator
LEMMA TypesOutside ==
  ASSUME Types, UNCHANGED gcVars, UNCHANGED tso \/ Later,
         tip' \in Blocks, keys' \subseteq Instances, DOMAIN scores' \subseteq Instances,
         up' \in [Instances -> BOOLEAN], registered' \in [Instances -> BOOLEAN],
         recv' \in [Instances -> Points], cursor' \in [Instances -> Points],
         todo' \in [Instances -> Seq(Calls)], entries' \in [Instances -> SUBSET Entry]
  PROVE  Types'
<1>1. tso' \in 0..MaxTso /\ {announced', safepoint', gc'.sp} \subseteq 0..tso'
  <2>1. CASE UNCHANGED tso
    BY <2>1, Zenon DEF Types, gcVars
  <2>2. CASE Later
    <3>1. tso' \in 0..MaxTso /\ tso <= tso' /\ tso \in Nat
      BY <2>2, ZoneType, Zenon DEF Later
    <3>2. 0..tso \subseteq 0..tso'
      BY <3>1, FleetConstants
    <3> QED BY <3>1, <3>2, Zenon DEF Types, gcVars
  <2> QED BY <2>1, <2>2, Zenon
<1> QED BY <1>1, Zenon DEF Types, gcVars

\* a step of the job
LEMMA TypesJob ==
  ASSUME Types, UNCHANGED <<tip, tso, instanceVars, keys, scores>>,
         entries' \in [Instances -> SUBSET Entry], known' \subseteq Instances,
         gc' = [pc |-> gc'.pc, at |-> gc'.at, left |-> gc'.left, map |-> gc'.map, sp |-> gc'.sp],
         gc'.pc \in {"idle", "fetch", "prune"}, gc'.at \in Nat, gc'.left \subseteq Instances,
         DOMAIN gc'.map \subseteq Instances, gc'.map \in [DOMAIN gc'.map -> SUBSET Entry],
         {announced', safepoint', gc'.sp} \subseteq 0..tso
  PROVE  Types'
BY Zenon DEF Types, instanceVars

LEMMA TypesChain ==
  ASSUME Types, Extend \/ Fork \/ Tick
  PROVE  Types'
<1>1. /\ UNCHANGED <<instanceVars, redisVars, gcVars>>
      /\ tip' \in Blocks
  BY Zenon DEF Extend, Fork, Tick, Types
<1>2. UNCHANGED tso \/ Later
  BY AdvanceIsLater, Zenon DEF Extend, Fork
<1> QED BY <1>1, <1>2, TypesOutside, Zenon DEF Types, instanceVars, redisVars

OneCommit(i, at, last, calls, b) ==
  /\ at \in Points /\ last \in Points
  /\ Ready(i) /\ Commits(i, at, last, calls) /\ Announces(calls, b, tso + 1)

\* the calls of a commit, and where it leaves the instance
LEMMA CommitIs ==
  ASSUME Types, NEW i \in Instances, Flush(i) \/ RollForward(i) \/ RollBack(i)
  PROVE  \E at, last, calls, b : OneCommit(i, at, last, calls, b)
<1>0. tso + 1 \in Nat /\ recv[i] \in Points /\ tip \in Points
  BY ZoneType DEF Types, Points
<1>1. \A b \in NextOf(i) : b \in Points /\ b \in Blocks
  BY <1>0, FleetConstants, Zenon DEF NextOf, Points
<1>2. ASSUME Flush(i)
      PROVE  \E at, last, calls, b : OneCommit(i, at, last, calls, b)
  <2>1. PICK b \in NextOf(i) : Ready(i) /\ Commits(i, recv[i], b, Entered(i, b, tso + 1))
    BY <1>2, Zenon DEF Flush
  <2> QED BY <1>0, <1>1, <2>1, EnteredAnnounces, Zenon DEF OneCommit
<1>3. ASSUME RollForward(i)
      PROVE  \E at, last, calls, b : OneCommit(i, at, last, calls, b)
  <2>1. PICK b \in NextOf(i) :
          Ready(i) /\ Commits(i, b, b, Entered(i, b, tso + 1) \o Advertised(i, b, tso + 1))
    BY <1>3, Zenon DEF RollForward
  <2> QED BY <1>0, <1>1, <2>1, EnteredAnnounces, Zenon DEF OneCommit
<1>4. ASSUME RollBack(i)
      PROVE  \E at, last, calls, b : OneCommit(i, at, last, calls, b)
  <2>1. PICK b \in Ancestors[tip] : Ready(i) /\ Commits(i, b, b, Entered(i, b, tso + 1))
    BY <1>4, Zenon DEF RollBack
  <2>2. b \in Points
    BY <1>0, FleetConstants, Zenon
  <2> QED BY <1>0, <2>1, <2>2, EnteredAnnounces, Zenon DEF OneCommit
<1> QED BY <1>2, <1>3, <1>4, Zenon

LEMMA TypesCommits ==
  ASSUME Types, NEW i \in Instances, NEW at \in Points, NEW last \in Points, NEW calls, NEW b,
         Commits(i, at, last, calls), Announces(calls, b, tso + 1)
  PROVE  Types'
<1>1. Later /\ calls \in Seq(Calls)
  BY AdvanceIsLater, Zenon DEF Commits, Announces
<1>2. /\ UNCHANGED <<tip, up, registered, keys, entries, scores>> /\ UNCHANGED gcVars
      /\ recv' \in [Instances -> Points] /\ cursor' \in [Instances -> Points]
      /\ todo' \in [Instances -> Seq(Calls)]
  BY <1>1, Zenon DEF Commits, Types, Set, redisVars
<1> QED BY <1>1, <1>2, TypesOutside, Zenon DEF Types

LEMMA TypesInstance ==
  ASSUME Types, NEW i \in Instances,
         Restart(i) \/ Push(i) \/ Retire(i) \/ Unregister(i) \/ DeleteTimestamps(i)
  PROVE  Types'
<1>0. recv[i] \in Points /\ cursor[i] \in Points /\ tip \in Points /\ <<>> \in Seq(Calls) /\ Root \in Points
  BY DEF Types, Points
<1>1. CASE Restart(i)
  BY <1>0, <1>1, TypesOutside, Zenon DEF Restart, Set, Types, redisVars
<1>2. CASE Push(i)
  <2>1. PICK b \in NextOf(i) : recv' = Set(recv, i, b)
    BY <1>2, Zenon DEF Push
  <2>2. b \in Points
    BY <1>0, <2>1, FleetConstants, Zenon DEF NextOf
  <2> QED BY <1>0, <1>2, <2>1, <2>2, TypesOutside, Zenon DEF Push, Set, Types, redisVars
<1>3. CASE Retire(i)
  BY <1>0, <1>3, TypesOutside, Zenon DEF Retire, Set, Types, redisVars
<1>4. CASE Unregister(i)
  <2>1. DOMAIN scores' \subseteq Instances
    BY <1>4, Zenon DEF Unregister, Types
  <2> QED BY <1>4, <2>1, TypesOutside, Zenon DEF Unregister, Types, instanceVars
<1>5. CASE DeleteTimestamps(i)
  BY <1>0, <1>5, TypesOutside, Zenon DEF DeleteTimestamps, Set, Types
<1> QED BY <1>1, <1>2, <1>3, <1>4, <1>5, Zenon

LEMMA TypesPublish ==
  ASSUME Types, NEW i \in Instances, Publish(i)
  PROVE  Types'
<1> DEFINE call == Head(todo[i])
           x == [block |-> call.block, ts |-> call.ts]
<1>1. todo[i] \in Seq(Calls) /\ todo[i] # <<>> /\ call \in Calls /\ Tail(todo[i]) \in Seq(Calls)
  BY DEF Types, Publish
<1>2. x \in Entry
  BY <1>1, Zenon DEF Calls, Entry
<1>3. UNCHANGED <<tip, tso, up, recv, cursor>> /\ UNCHANGED gcVars
  BY Zenon DEF Publish
<1>4. keys' \subseteq Instances /\ DOMAIN scores' \subseteq Instances
  <2>1. keys' = IF call.op = "key" THEN keys \cup {i} ELSE keys
    BY Zenon DEF Publish
  <2>2. scores' = IF call.op \in {"score", "advertise"}
                  THEN [j \in DOMAIN scores \cup {i} |-> IF j = i THEN Slot[call.block] ELSE scores[j]]
                  ELSE scores
    BY Zenon DEF Publish
  <2>3. DOMAIN scores' \subseteq DOMAIN scores \cup {i}
    BY <2>2, Zenon
  <2> QED BY <2>1, <2>3, Zenon DEF Types
<1>5. registered' \in [Instances -> BOOLEAN]
  BY Zenon DEF Publish, Set, Types
<1>6. todo' \in [Instances -> Seq(Calls)]
  BY <1>1, Zenon DEF Publish, Set, Types
<1> HIDE DEF x
<1>7. entries' = (IF call.op = "entry" THEN Set(entries, i, entries[i] \cup {x}) ELSE entries)
  BY Zenon DEF Publish, x
<1>8. entries' \in [Instances -> SUBSET Entry]
  BY <1>2, <1>7, Zenon DEF Set, Types
<1> QED BY <1>3, <1>4, <1>5, <1>6, <1>8, TypesOutside, Zenon DEF Types

LEMMA TypesGc ==
  ASSUME SafepointInv, GcStart \/ GcFetch \/ GcGivesUp \/ GcAnnounce \/ GcPrune \/ GcSubmit \/ GcCrash
  PROVE  Types'
<1>0. Types /\ {announced, safepoint, gc.sp} \subseteq 0..tso /\ 0 \in 0..tso
  BY ZoneType, SMTT(30) DEF SafepointInv, Types
<1>1. /\ Idle = [pc |-> Idle.pc, at |-> Idle.at, left |-> Idle.left, map |-> Idle.map, sp |-> Idle.sp]
      /\ Idle.pc = "idle" /\ Idle.at = 0 /\ Idle.at \in Nat /\ Idle.left = {} /\ Idle.sp = 0 /\ Idle.map = <<>>
      /\ DOMAIN Idle.map = {} /\ Idle.map \in [DOMAIN Idle.map -> SUBSET Entry]
  <2>1. Idle.pc = "idle" /\ Idle.at = 0 /\ Idle.left = {} /\ Idle.sp = 0 /\ Idle.map = <<>>
    BY Zenon DEF Idle
  <2>2. Idle = [pc |-> Idle.pc, at |-> Idle.at, left |-> Idle.left, map |-> Idle.map, sp |-> Idle.sp]
    BY <2>1, Zenon DEF Idle
  <2>4. Idle.at \in Nat
    BY <2>1
  <2>3. DOMAIN <<>> = {} /\ <<>> \in [DOMAIN <<>> -> SUBSET Entry]
    OBVIOUS
  <2> QED BY <2>1, <2>2, <2>3, <2>4, Zenon
<1>2. CASE GcStart
  <2>2. now \in Nat
    BY <1>0, ZoneType, Zenon
  <2>1. /\ gc' = [pc |-> "fetch", at |-> now, left |-> keys, map |-> Idle.map, sp |-> Idle.sp]
        /\ UNCHANGED <<tip, tso, instanceVars, redisVars, announced, safepoint, known>>
    BY <1>1, <1>2, Zenon DEF GcStart, Idle
  <2> QED BY <1>0, <1>1, <2>1, <2>2, TypesJob DEF Types, redisVars
<1>3. CASE GcFetch
  <2>1. PICK i \in gc.left :
          gc' = [gc EXCEPT !.left = @ \ {i},
                           !.map = IF entries[i] = {} THEN @
                                   ELSE [j \in DOMAIN @ \cup {i} |-> IF j = i THEN entries[i] ELSE @[j]]]
    BY <1>3, Zenon DEF GcFetch
  <2> DEFINE map == IF entries[i] = {} THEN gc.map
                    ELSE [j \in DOMAIN gc.map \cup {i} |-> IF j = i THEN entries[i] ELSE gc.map[j]]
  <2>2. gc' = [pc |-> gc.pc, at |-> gc.at, left |-> gc.left \ {i}, map |-> map, sp |-> gc.sp]
    BY <1>0, <2>1, Zenon DEF Types
  <2>3. DOMAIN map \subseteq Instances /\ map \in [DOMAIN map -> SUBSET Entry]
    BY <1>0, Zenon DEF Types
  <2> HIDE DEF map
  <2>4. UNCHANGED <<tip, tso, instanceVars, redisVars, announced, safepoint, known>>
    BY <1>3, Zenon DEF GcFetch
  <2> QED BY <1>0, <2>2, <2>3, <2>4, TypesJob, Zenon DEF Types, redisVars
<1>4. CASE GcGivesUp \/ GcCrash
  <2>1. gc' = Idle /\ UNCHANGED <<tip, tso, instanceVars, redisVars, announced, safepoint, known>>
    BY <1>4, Zenon DEF GcGivesUp, GcCrash
  <2> QED BY <1>0, <1>1, <2>1, TypesJob, Zenon DEF Types, redisVars
<1>5. CASE GcAnnounce
  <2>1. PICK sp :
          /\ announced' = sp /\ sp \in Nat /\ sp <= Zone * PerTick
          /\ gc' = [gc EXCEPT !.pc = "prune", !.at = 0, !.left = DOMAIN gc.map, !.sp = sp,
                              !.map = [i \in DOMAIN @ |-> {}]]
    BY <1>5, AnnouncedIs, Zenon
  <2> DEFINE map == [i \in DOMAIN gc.map |-> {}]
  <2>6. 0 \in Nat
    OBVIOUS
  <2>2. gc' = [pc |-> "prune", at |-> 0, left |-> DOMAIN gc.map, map |-> map, sp |-> sp]
    BY <1>0, <2>1, Zenon DEF Types
  <2>3. DOMAIN map \subseteq Instances /\ map \in [DOMAIN map -> SUBSET Entry] /\ DOMAIN gc.map \subseteq Instances
    BY <1>0, Zenon DEF Types
  <2> HIDE DEF map
  <2>4. UNCHANGED <<tip, tso, instanceVars, redisVars, safepoint, known>>
    BY <1>5, Zenon DEF GcAnnounce
  <2>5. sp \in 0..tso
    BY <1>0, <2>1, ZoneType
  <2> QED BY <1>0, <2>1, <2>2, <2>3, <2>4, <2>5, <2>6, TypesJob, Zenon DEF Types, redisVars
<1>6. CASE GcPrune
  <2>1. PICK i \in gc.left :
          /\ gc' = [gc EXCEPT !.left = @ \ {i}]
          /\ entries' = Set(entries, i, {e \in entries[i] : physical(e.ts) >= physical(gc.sp)})
    BY <1>6, Zenon DEF GcPrune
  <2>2. gc' = [pc |-> gc.pc, at |-> gc.at, left |-> gc.left \ {i}, map |-> gc.map, sp |-> gc.sp]
    BY <1>0, <2>1, Zenon DEF Types
  <2>3. entries' \in [Instances -> SUBSET Entry]
    BY <1>0, <2>1, Zenon DEF Types, Set
  <2>4. UNCHANGED <<tip, tso, instanceVars, keys, scores, announced, safepoint, known>>
    BY <1>6, Zenon DEF GcPrune
  <2> QED BY <1>0, <2>2, <2>3, <2>4, TypesJob, SMTT(30) DEF Types
<1>7. CASE GcSubmit
  <2>1. /\ gc' = Idle /\ UNCHANGED <<tip, tso, instanceVars, redisVars, announced>>
        /\ safepoint' \in {gc.sp, safepoint} /\ known' \in {DOMAIN gc.map, known}
    BY <1>7, Zenon DEF GcSubmit
  <2> QED BY <1>0, <1>1, <2>1, TypesJob, Zenon DEF Types, redisVars
<1> QED BY <1>2, <1>3, <1>4, <1>5, <1>6, <1>7, Zenon

-----------------------------------------------------------------------------
(* The safepoint: the invariant and what it implies.                       *)

LEMMA SafepointNext == SafepointInv /\ [Next]_vars => SafepointInv'
<1> SUFFICES ASSUME SafepointInv, [Next]_vars PROVE SafepointInv'
  BY Zenon
<1>0. Types /\ \A i \in Instances : ~up[i] => todo[i] = <<>>
  BY Zenon DEF SafepointInv, TodoInv
<1>1. CASE Extend \/ Fork \/ Tick
  <2>1. Types'
    BY <1>0, <1>1, TypesChain, Zenon
  <2>2. UNCHANGED <<up, todo, keys, entries>> /\ UNCHANGED gcVars
    BY <1>1, Zenon DEF Extend, Fork, Tick, instanceVars, redisVars
  <2>3. CASE UNCHANGED tso
    BY <1>0, <2>1, <2>2, <2>3, SafepointQuiet, Zenon
  <2>4. CASE Tick
    BY <1>0, <2>1, <2>2, <2>4, AdvanceIsLater, SafepointLater, Zenon
  <2> QED BY <1>1, <2>3, <2>4, Zenon DEF Extend, Fork
<1>2. ASSUME NEW i \in Instances, Restart(i) \/ Push(i) \/ Retire(i) \/ Unregister(i)
      PROVE  SafepointInv'
  <2>1. Types'
    BY <1>0, <1>2, TypesInstance, Zenon
  <2>2. UNCHANGED <<tso, keys, entries>> /\ UNCHANGED gcVars
    BY <1>2, Zenon DEF Restart, Push, Retire, Unregister, redisVars
  <2>3. \A j \in Instances : /\ up'[j] => up[j]
                             /\ todo'[j] = todo[j] \/ todo'[j] = <<>>
                             /\ ~up'[j] => todo'[j] = <<>>
    <3>1. CASE Restart(i)
      BY <1>0, <3>1, Zenon DEF Restart, Set, Types
    <3>2. CASE Retire(i)
      BY <1>0, <3>2, Zenon DEF Retire, Set, Types
    <3>3. CASE Push(i) \/ Unregister(i)
      BY <1>0, <3>3, Zenon DEF Push, Unregister, instanceVars
    <3> QED BY <1>2, <3>1, <3>2, <3>3, Zenon
  <2> QED BY <2>1, <2>2, <2>3, SafepointQuiet, Zenon
<1>3. ASSUME NEW i \in Instances, Flush(i) \/ RollForward(i) \/ RollBack(i)
      PROVE  SafepointInv'
  <2>1. PICK at, last, calls, b : OneCommit(i, at, last, calls, b)
    BY <1>0, <1>3, CommitIs, Zenon
  <2>a. /\ at \in Points /\ last \in Points
        /\ Ready(i) /\ Commits(i, at, last, calls) /\ Announces(calls, b, tso + 1)
    BY <2>1, Zenon DEF OneCommit
  <2>2. Types'
    BY <1>0, <2>a, TypesCommits, ZenonT(30)
  <2>3. Later /\ tso' = tso + 1 /\ tso < tso'
    BY <1>0, <2>a, AdvanceIsLater, ZoneType, SMTT(30) DEF Commits
  <2>4. UNCHANGED <<up, keys, entries>> /\ UNCHANGED gcVars
    BY <2>a, Zenon DEF Commits, redisVars
  <2>5. up[i] /\ todo'[i] = calls /\ \A j \in Instances : j # i => todo'[j] = todo[j]
    BY <1>0, <2>a, Zenon DEF Commits, Ready, Set, Types
  <2> QED BY <2>a, <2>2, <2>3, <2>4, <2>5, SafepointLater, Zenon
<1>4. ASSUME NEW i \in Instances, Publish(i)
      PROVE  SafepointInv'
  BY <1>0, <1>4, TypesPublish, SafepointPublish, Zenon
<1>5. ASSUME NEW i \in Instances, DeleteTimestamps(i)
      PROVE  SafepointInv'
  BY <1>0, <1>5, TypesInstance, SafepointDelete, Zenon
<1>6. ASSUME GcStart \/ GcFetch \/ GcGivesUp \/ GcAnnounce \/ GcPrune \/ GcSubmit \/ GcCrash
      PROVE  SafepointInv'
  <2>1. Types'
    BY <1>6, TypesGc, Zenon
  <2>2. CASE GcGivesUp \/ GcCrash
    <3>1. gc' = Idle /\ UNCHANGED <<tso, up, todo, keys, entries, announced, safepoint, known>>
      BY <2>2, Zenon DEF GcGivesUp, GcCrash, instanceVars, redisVars
    <3> QED BY <2>1, <3>1, SafepointIdle, Zenon
  <2> QED BY <1>6, <2>1, <2>2, SafepointStart, SafepointFetch, SafepointAnnounce, SafepointPrune, SafepointSubmit, Zenon
<1>7. CASE UNCHANGED vars
  <2>1. /\ UNCHANGED <<tip, tso, keys, entries, scores, up, registered, recv, cursor, todo>>
        /\ UNCHANGED gcVars
    BY <1>7, Zenon DEF vars, instanceVars, redisVars
  <2>2. Types'
    BY <1>0, <2>1, TypesOutside, Zenon DEF Types
  <2> QED BY <1>0, <2>1, <2>2, SafepointQuiet, Zenon
<1> QED BY <1>1, <1>2, <1>3, <1>4, <1>5, <1>6, <1>7, Zenon DEF Next

THEOREM SafepointInvariance == Spec => []SafepointInv
BY SafepointInit, SafepointNext, PTL DEF Spec

\* Whatever is read while instances publish, and however late the safepoint is
\* submitted: nothing in the safe zone is collected, and the announced
\* safepoint is not behind TiKV's.
THEOREM ReadersSafe == Spec => []ReadersAreSafe
<1>1. SafepointInv => ReadersAreSafe
  <2> SUFFICES ASSUME SafepointInv PROVE ReadersAreSafe
    BY Zenon
  <2>1. Types /\ AnnouncedCovers /\ Intact
    BY Zenon DEF SafepointInv
  <2>3. SnapshotIntact
    <3>1. now \in Nat /\ Zone \in Nat /\ safepoint \in Nat
      BY <2>1, ZoneType, Zenon
    <3>2. Zone = 0 => Zone * PerTick = 0
      BY FleetConstants
    <3>3. safepoint > 0 => Zone # 0
      BY <2>1, <3>1, <3>2 DEF Intact
    <3>4. Zone # 0 => Zone = (now + ClockAhead) - SafeZone
      BY Zenon DEF Zone
    <3> QED BY <2>1, <3>3, <3>4, Zenon DEF SnapshotIntact, Intact
  <2>2. \A i \in Instances : \A e \in entries[i] : e.block \in Blocks /\ e.ts \in 0..tso
    <3> SUFFICES ASSUME NEW i \in Instances, NEW e \in entries[i] PROVE e.block \in Blocks /\ e.ts \in 0..tso
      BY Zenon
    <3>1. e \in Entry /\ e.ts <= tso
      BY Zenon DEF SafepointInv, EntriesInv, EntrySet
    <3>2. tso \in Nat
      BY <2>1, ZoneType, Zenon
    <3> QED BY <3>1, <3>2 DEF Entry
  <2> QED BY <2>1, <2>2, <2>3, Zenon DEF ReadersAreSafe, TypeOK, Types
<1> QED BY <1>1, SafepointInvariance, PTL

\* The instances that the last safepoint took into account have a block in
\* common that can still be read.
THEOREM CommonBlock == Spec => []CommonBlockKept
<1>1. SafepointInv => CommonBlockKept
  <2> SUFFICES ASSUME SafepointInv, NEW net
               PROVE  \E b \in Blocks : \A i \in {j \in known \cap keys : Network[j] = net} :
                        \E e \in entries[i] : e.block = b /\ e.ts >= safepoint
    BY Zenon DEF CommonBlockKept
  <2>1. tip \in Blocks /\ Share(known \cap keys, entries, safepoint)
    BY Zenon DEF SafepointInv, Types
  <2>2. CASE net \in {Network[i] : i \in known \cap keys}
    BY <2>1, <2>2, Zenon DEF Share, Of
  <2>3. CASE net \notin {Network[i] : i \in known \cap keys}
    BY <2>1, <2>3, Zenon
  <2> QED BY <2>2, <2>3, Zenon
<1> QED BY <1>1, SafepointInvariance, PTL

\* No step collects or prunes the highest entry of an instance.
THEOREM TipsKept == Spec => TipKept
<1>1. SafepointInv /\ [Next]_vars => [KeepsTips]_vars
  <2> SUFFICES ASSUME SafepointInv, Next, NEW i \in keys', entries[i] # {}
               PROVE  Highest(entries[i]) \in entries'[i] /\ Highest(entries[i]).ts >= safepoint'
    BY Zenon DEF KeepsTips
  <2>0. Types /\ Types'
    BY SafepointNext, Zenon DEF SafepointInv
  <2>1. /\ i \in Instances /\ EntrySet(entries[i], tso, safepoint)
        /\ Highest(entries[i]) \in entries[i] /\ Highest(entries[i]).ts >= safepoint
    BY <2>0, HighestProperties, Zenon DEF Types, SafepointInv, EntriesInv, EntrySet
  <2>2. CASE GcPrune
    <3>1. PICK j \in gc.left :
            entries' = Set(entries, j, {e \in entries[j] : physical(e.ts) >= physical(gc.sp)})
      BY <2>2, Zenon DEF GcPrune
    <3>2. Highest(entries[i]) \in {e \in entries[i] : physical(e.ts) >= physical(gc.sp)}
      BY <2>1, <2>2, Pruned, Zenon DEF GcPrune
    <3>3. entries'[i] = IF i = j THEN {e \in entries[i] : physical(e.ts) >= physical(gc.sp)} ELSE entries[i]
      BY <2>0, <2>1, <3>1, Zenon DEF Set, Types
    <3>4. safepoint' = safepoint
      BY <2>2, Zenon DEF GcPrune
    <3> QED BY <2>1, <3>2, <3>3, <3>4, Zenon
  <2>3. CASE GcSubmit
    <3>1. entries' = entries /\ safepoint' \in {gc.sp, safepoint} /\ Highest(entries[i]).ts >= gc.sp
      BY <2>1, <2>3, Zenon DEF GcSubmit, redisVars, SafepointInv, PruneInv
    <3> QED BY <2>1, <3>1, Zenon
  <2>4. ASSUME NEW j \in Instances, Publish(j)
        PROVE  entries[i] \subseteq entries'[i] /\ safepoint' = safepoint
    BY <2>0, <2>1, <2>4, Zenon DEF Publish, Set, Types, gcVars
  <2>5. ASSUME NEW j \in Instances, DeleteTimestamps(j)
        PROVE  entries[i] = entries'[i] /\ safepoint' = safepoint
    BY <2>0, <2>1, <2>5, Zenon DEF DeleteTimestamps, Set, Types, gcVars
  <2>6. ASSUME NEW j \in Instances, Restart(j) \/ Push(j) \/ Retire(j) \/ Unregister(j)
        PROVE  entries[i] = entries'[i] /\ safepoint' = safepoint
    BY <2>6, Zenon DEF Restart, Push, Retire, Unregister, redisVars, gcVars
  <2>7. ASSUME NEW j \in Instances, Flush(j) \/ RollForward(j) \/ RollBack(j)
        PROVE  entries[i] = entries'[i] /\ safepoint' = safepoint
    BY <2>7, Zenon DEF Flush, RollForward, RollBack, Commits, redisVars, gcVars
  <2>8. CASE Extend \/ Fork \/ Tick
    BY <2>1, <2>8, Zenon DEF Extend, Fork, Tick, redisVars, gcVars
  <2>9. CASE GcStart \/ GcFetch \/ GcGivesUp \/ GcAnnounce \/ GcCrash
    BY <2>1, <2>9, Zenon DEF GcStart, GcFetch, GcGivesUp, GcAnnounce, GcCrash, redisVars
  <2> QED BY <2>1, <2>2, <2>3, <2>4, <2>5, <2>6, <2>7, <2>8, <2>9, Zenon DEF Next
<1> QED BY <1>1, SafepointInvariance, PTL DEF Spec, TipKept

-----------------------------------------------------------------------------
(* The registry: the tree of blocks.                                       *)

\* a chain starts at the root, and any two of its points are on one chain
Chain(c) ==
  /\ Root \in Ancestors[c] /\ c \in Ancestors[c]
  /\ \A p \in Ancestors[c] : Ancestors[p] \subseteq Ancestors[c]
  /\ \A p, q \in Ancestors[c] : OnOneChain(p, q)

LEMMA ChainsAreChains == \A c \in Points : Chain(c)
<1>0. Chain(Root)
  BY FleetConstants, Zenon DEF Chain, OnOneChain
<1> DEFINE Bad == {Slot[c] : c \in {c \in Blocks : ~Chain(c)}}
<1> SUFFICES ASSUME Bad # {} PROVE FALSE
  BY <1>0, Zenon DEF Points
<1>1. Bad \in SUBSET Nat
  BY FleetConstants
<1>2. PICK s \in Bad : \A t \in Bad : s <= t
  BY <1>1, Least, Zenon
<1>3. PICK c \in Blocks : ~Chain(c) /\ Slot[c] = s
  BY <1>2, Zenon
<1> DEFINE P == Parent[c]
<1>4. P \in Points /\ Ancestors[c] = Ancestors[P] \cup {c} /\ Slot[c] \in Nat
  BY FleetConstants, Zenon
<1>5. Chain(P)
  <2>1. CASE P = Root
    BY <1>0, <2>1, Zenon
  <2>2. CASE P \in Blocks
    <3>1. Slot[P] < Slot[c] /\ Slot[P] \in Nat
      BY <2>2, FleetConstants, Zenon
    <3>2. Slot[P] \notin Bad
      BY <1>2, <1>3, <1>4, <3>1
    <3> QED BY <2>2, <3>2, Zenon
  <2> QED BY <1>4, <2>1, <2>2, Zenon DEF Points
<1> HIDE DEF P
<1>6. Chain(c)
  BY <1>4, <1>5, Zenon DEF Chain, OnOneChain
<1> QED BY <1>3, <1>6, Zenon

\* where an instance may go from recv: along the chain of the tip
LEMMA NextIsOnChain ==
  ASSUME Types, NEW i \in Instances, NEW b \in NextOf(i)
  PROVE  /\ b \in Ancestors[tip] /\ b \in Blocks /\ b \in Points
         /\ Parent[b] = recv[i] /\ Ancestors[b] = Ancestors[recv[i]] \cup {b}
<1>1. tip \in Points
  BY Zenon DEF Types, Points
<1> QED BY <1>1, FleetConstants, Zenon DEF NextOf, Points

\* An instance that is not on the chain of the tip does not roll back to the
\* root.
LEMMA RollsBackToBlock ==
  ASSUME Types, TrunkInv, NEW i \in Instances, up[i], recv[i] \notin Ancestors[tip],
         NEW b \in Ancestors[recv[i]] \cap Ancestors[tip],
         Ancestors[recv[i]] \cap Ancestors[tip] \subseteq Ancestors[b]
  PROVE  b \in Blocks
<1>1. PICK c \in Immutable : c \in Ancestors[tip] /\ OnOneChain(recv[i], c)
  BY Zenon DEF TrunkInv
<1>2. tip \in Points /\ recv[i] \in Points /\ c \in Points /\ c # Root
  BY FleetConstants, SMTT(30) DEF Types, Points
<1>3. recv[i] \notin Ancestors[c]
  BY <1>1, <1>2, ChainsAreChains, Zenon DEF Chain
<1>4. c \in Ancestors[b]
  BY <1>1, <1>3, Zenon DEF OnOneChain
<1> QED BY <1>2, <1>4, FleetConstants, Zenon DEF Points

-----------------------------------------------------------------------------
(* The registry: the invariant and what it implies.                        *)

LEMMA TrunkInit == Init => TrunkInv
<1> SUFFICES ASSUME Init PROVE TrunkInv
  BY Zenon
<1>1. tip \in Immutable /\ tip \in Points /\ tip \in Ancestors[tip] /\ Root \in Ancestors[tip]
  BY ChainsAreChains, FleetConstants, Zenon DEF Init, Points, Chain
<1>2. \A i \in Instances : OnOneChain(recv[i], tip) /\ OnOneChain(cursor[i], tip)
  BY <1>1, Zenon DEF Init, OnOneChain
<1> QED BY <1>1, <1>2, Zenon DEF TrunkInv

\* an instance moves to points of the tip's chain, or to where it has been
LEMMA TrunkMoves ==
  ASSUME Types, TrunkInv, UNCHANGED tip,
         \A i \in Instances : up'[i] =>
           /\ up[i]
           /\ recv'[i] \in Ancestors[tip] \cup {recv[i], cursor[i]}
           /\ cursor'[i] \in Ancestors[tip] \cup {recv[i], cursor[i]}
  PROVE  TrunkInv'
<1>1. PICK c \in Immutable :
        /\ c \in Ancestors[tip]
        /\ \A i \in Instances : up[i] => OnOneChain(recv[i], c) /\ OnOneChain(cursor[i], c)
  BY Zenon DEF TrunkInv
<1>2. \A p \in Ancestors[tip] : OnOneChain(p, c)
  BY <1>1, ChainsAreChains, Zenon DEF Types, Chain, Points
<1>3. \A i \in Instances : up'[i] => OnOneChain(recv'[i], c) /\ OnOneChain(cursor'[i], c)
  BY <1>1, <1>2, Zenon
<1> QED BY <1>1, <1>3, Zenon DEF TrunkInv

\* the trunk is below every fork
LEMMA TrunkGrows ==
  ASSUME Types, TrunkInv, Extend \/ Fork
  PROVE  TrunkInv'
<1>1. PICK c \in Immutable :
        /\ c \in Ancestors[tip]
        /\ \A i \in Instances : up[i] => OnOneChain(recv[i], c) /\ OnOneChain(cursor[i], c)
  BY Zenon DEF TrunkInv
<1>2. UNCHANGED <<up, recv, cursor>> /\ tip \in Blocks
  BY Zenon DEF Extend, Fork, instanceVars, Types
<1>3. c \in Ancestors[tip']
  <2>1. CASE Extend
    BY <1>1, <2>1, FleetConstants, Zenon DEF Extend
  <2>2. CASE Fork
    <3>1. PICK b \in Blocks : tip \notin Immutable /\ Parent[b] = Parent[tip] /\ tip' = b
      BY <2>2, Zenon DEF Fork
    <3>2. c \in Ancestors[Parent[tip]]
      BY <1>1, <1>2, <3>1, FleetConstants
    <3> QED BY <3>1, <3>2, FleetConstants, Zenon
  <2> QED BY <2>1, <2>2, Zenon
<1> QED BY <1>1, <1>2, <1>3, Zenon DEF TrunkInv

LEMMA NoPromises == ~Promises(<<>>)
BY DEF Promises

\* a step of one instance
LEMMA AdvertisedOne ==
  ASSUME AdvertisedInv, NEW i \in Instances, HoldsBlocks(i)',
         \A j \in Instances : j # i =>
           /\ up'[j] = up[j] /\ cursor'[j] = cursor[j] /\ recv'[j] = recv[j]
           /\ registered'[j] = registered[j] /\ todo'[j] = todo[j]
           /\ j \in DOMAIN scores' => j \in DOMAIN scores
           /\ up[j] \/ (j \in keys' => j \in keys)
  PROVE  AdvertisedInv'
<1> SUFFICES ASSUME NEW j \in Instances, j # i
             PROVE  HoldsBlocks(j)'
  BY Zenon DEF AdvertisedInv
<1>1. HoldsBlocks(j)
  BY Zenon DEF AdvertisedInv
<1> QED BY <1>1, Zenon DEF HoldsBlocks, Deleted

\* a commit keeps what is advertised when it does not end at the root
LEMMA AdvertisedCommit ==
  ASSUME Types, AdvertisedInv, NEW i \in Instances, Ready(i),
         NEW at \in Points, NEW last \in Points, NEW calls, Commits(i, at, last, calls),
         at \in Ancestors[last], cursor[i] # Root \/ Promises(calls) => at # Root
  PROVE  AdvertisedInv'
<1>1. HoldsBlocks(i) /\ up[i]
  BY Zenon DEF AdvertisedInv, Ready
<1>2. /\ up' = up /\ registered' = registered /\ scores' = scores /\ keys' = keys
      /\ cursor'[i] = at /\ recv'[i] = last /\ todo'[i] = calls
      /\ \A j \in Instances : j # i => cursor'[j] = cursor[j] /\ recv'[j] = recv[j] /\ todo'[j] = todo[j]
  BY Zenon DEF Commits, Set, Types, redisVars
<1>3. HoldsBlocks(i)'
  BY <1>1, <1>2, Zenon DEF HoldsBlocks, Deleted
<1> QED BY <1>2, <1>3, AdvertisedOne, Zenon

LEMMA RegistryCommits ==
  ASSUME Types, TrunkInv, AdvertisedInv, NEW i \in Instances, Flush(i) \/ RollForward(i) \/ RollBack(i)
  PROVE  TrunkInv' /\ AdvertisedInv'
<1>0. /\ tso + 1 \in Nat /\ recv[i] \in Points /\ cursor[i] \in Points /\ tip \in Points
      /\ Ready(i) /\ up[i] /\ \A p \in Points : p \in Ancestors[p]
  BY ZoneType, ChainsAreChains, SMTT(30) DEF Types, Points, Flush, RollForward, RollBack, Ready, Chain
<1>1. HoldsBlocks(i)
  BY Zenon DEF AdvertisedInv
<1>2. ASSUME NEW at, NEW last, NEW calls, Commits(i, at, last, calls),
             at \in Ancestors[tip] \cup {recv[i]}, last \in Ancestors[tip]
      PROVE  TrunkInv'
  <2>1. /\ UNCHANGED tip /\ up' = up /\ cursor'[i] = at /\ recv'[i] = last
        /\ \A j \in Instances : j # i => cursor'[j] = cursor[j] /\ recv'[j] = recv[j]
    BY <1>2, Zenon DEF Commits, Set, Types
  <2> QED BY <1>2, <2>1, TrunkMoves, Zenon
<1>3. CASE Flush(i)
  <2>1. PICK b \in NextOf(i) : Commits(i, recv[i], b, Entered(i, b, tso + 1))
    BY <1>3, Zenon DEF Flush
  <2>2. b \in Ancestors[tip] /\ b \in Points /\ recv[i] \in Ancestors[b]
    <3>1. b \in Ancestors[tip] /\ b \in Points /\ Ancestors[b] = Ancestors[recv[i]] \cup {b}
      BY NextIsOnChain, Zenon
    <3>2. recv[i] \in Ancestors[recv[i]]
      BY <1>0, Zenon
    <3> QED BY <3>1, <3>2, Zenon
  <2>3. recv[i] # Root
    <3>1. recv[i] # cursor[i]
      BY <1>3, Zenon DEF Flush
    <3>2. cursor[i] \in Ancestors[recv[i]]
      BY <1>0, <1>1, Zenon DEF HoldsBlocks
    <3>3. Ancestors[Root] = {Root}
      BY FleetConstants, Zenon
    <3> QED BY <3>1, <3>2, <3>3, Zenon
  <2> QED BY <1>0, <1>2, <2>1, <2>2, <2>3, AdvertisedCommit, Zenon
<1>4. CASE RollForward(i)
  <2>1. PICK b \in NextOf(i) : Commits(i, b, b, Entered(i, b, tso + 1) \o Advertised(i, b, tso + 1))
    BY <1>4, Zenon DEF RollForward
  <2>2. b \in Ancestors[tip] /\ b \in Points /\ b # Root
    BY <2>1, NextIsOnChain, FleetConstants, Zenon
  <2> QED BY <1>0, <1>2, <2>1, <2>2, AdvertisedCommit, Zenon
<1>5. CASE RollBack(i)
  <2>1. PICK b \in Ancestors[recv[i]] \cap Ancestors[tip] :
          /\ Ancestors[recv[i]] \cap Ancestors[tip] \subseteq Ancestors[b]
          /\ Commits(i, b, b, Entered(i, b, tso + 1))
    BY <1>5, Zenon DEF RollBack
  <2>2. b \in Blocks
    BY <1>0, <1>5, <2>1, RollsBackToBlock, Zenon DEF RollBack
  <2>3. b \in Points /\ b # Root
    BY <2>2, FleetConstants, Zenon DEF Points
  <2> QED BY <1>0, <1>2, <2>1, <2>3, AdvertisedCommit, Zenon
<1> QED BY <1>3, <1>4, <1>5, Zenon

LEMMA RegistryInstance ==
  ASSUME Types, TrunkInv, AdvertisedInv, NEW i \in Instances,
         Restart(i) \/ Push(i) \/ Retire(i) \/ Unregister(i) \/ DeleteTimestamps(i)
  PROVE  TrunkInv' /\ AdvertisedInv'
<1>0. /\ recv[i] \in Points /\ cursor[i] \in Points /\ tip \in Points
      /\ cursor[i] \in Ancestors[cursor[i]]
  BY ChainsAreChains, Zenon DEF Types, Points, Chain
<1>1. HoldsBlocks(i)
  BY Zenon DEF AdvertisedInv
<1>2. CASE Restart(i)
  <2>1. /\ UNCHANGED <<tip, up, cursor, keys, scores>> /\ up[i]
        /\ recv'[i] = cursor[i] /\ registered'[i] = FALSE /\ todo'[i] = <<>>
        /\ \A j \in Instances : j # i =>
             recv'[j] = recv[j] /\ registered'[j] = registered[j] /\ todo'[j] = todo[j]
    BY <1>2, Zenon DEF Restart, Set, Types, redisVars
  <2>2. HoldsBlocks(i)'
    BY <1>0, <1>1, <2>1, NoPromises, Zenon DEF HoldsBlocks, Deleted
  <2> QED BY <2>1, <2>2, AdvertisedOne, TrunkMoves, Zenon
<1>3. CASE Push(i)
  <2>1. PICK b \in NextOf(i) : recv' = Set(recv, i, b)
    BY <1>3, Zenon DEF Push
  <2>2. /\ UNCHANGED <<tip, up, cursor, registered, todo, keys, scores>>
        /\ recv'[i] = b /\ \A j \in Instances : j # i => recv'[j] = recv[j]
    BY <1>3, <2>1, Zenon DEF Push, Set, Types, redisVars
  <2>3. b \in Ancestors[tip] /\ Ancestors[b] = Ancestors[recv[i]] \cup {b}
    BY NextIsOnChain, Zenon
  <2>4. HoldsBlocks(i)'
    BY <1>1, <2>2, <2>3, Zenon DEF HoldsBlocks, Deleted
  <2> QED BY <2>2, <2>3, <2>4, AdvertisedOne, TrunkMoves, Zenon
<1>4. CASE Retire(i)
  <2>1. /\ UNCHANGED <<tip, recv, cursor, registered, keys, scores>>
        /\ up'[i] = FALSE /\ todo'[i] = <<>>
        /\ \A j \in Instances : j # i => up'[j] = up[j] /\ todo'[j] = todo[j]
    BY <1>4, Zenon DEF Retire, Set, Types, redisVars
  <2>2. HoldsBlocks(i)'
    BY <1>1, <2>1, NoPromises, Zenon DEF HoldsBlocks, Deleted
  <2> QED BY <2>1, <2>2, AdvertisedOne, TrunkMoves, Zenon
<1>5. CASE Unregister(i)
  <2>1. UNCHANGED <<tip, up, recv, cursor, registered, todo, keys>> /\ DOMAIN scores' = DOMAIN scores \ {i}
    BY <1>5, Zenon DEF Unregister, instanceVars
  <2>2. HoldsBlocks(i)'
    BY <1>1, <2>1, Zenon DEF HoldsBlocks, Deleted
  <2> QED BY <2>1, <2>2, AdvertisedOne, TrunkMoves, Zenon
<1>6. CASE DeleteTimestamps(i)
  <2>1. /\ UNCHANGED <<tip, up, recv, registered, todo, scores>> /\ ~up[i] /\ keys' = keys \ {i}
        /\ \A j \in Instances : j # i => cursor'[j] = cursor[j]
    BY <1>6, Zenon DEF DeleteTimestamps, Set, Types
  <2>2. HoldsBlocks(i)'
    BY <1>1, <2>1, NoPromises, Zenon DEF HoldsBlocks, Deleted
  <2> QED BY <2>1, <2>2, AdvertisedOne, TrunkMoves, Zenon
<1> QED BY <1>2, <1>3, <1>4, <1>5, <1>6, Zenon

LEMMA RegistryPublish ==
  ASSUME Types, TrunkInv, AdvertisedInv, NEW i \in Instances, Publish(i)
  PROVE  TrunkInv' /\ AdvertisedInv'
<1> DEFINE call == Head(todo[i])
<1>1. /\ todo[i] \in Seq(Calls) /\ todo[i] # <<>> /\ call = todo[i][1] /\ 1 \in DOMAIN todo[i]
      /\ \A n \in DOMAIN Tail(todo[i]) : n + 1 \in DOMAIN todo[i] /\ Tail(todo[i])[n] = todo[i][n + 1]
  BY SMTT(30) DEF Publish, Types
<1>2. /\ UNCHANGED <<tip, up, recv, cursor>>
      /\ registered'[i] = (registered[i] \/ call.op = "advertise")
      /\ todo'[i] = Tail(todo[i])
      /\ \A j \in Instances : j # i => registered'[j] = registered[j] /\ todo'[j] = todo[j]
  BY Zenon DEF Publish, Set, Types
<1>3. /\ \A j \in Instances : j # i /\ j \in DOMAIN scores' => j \in DOMAIN scores
      /\ i \in DOMAIN scores' => i \in DOMAIN scores \/ call.op \in {"score", "advertise"}
      /\ \A j \in Instances : j # i /\ j \in keys' => j \in keys
  BY Zenon DEF Publish
<1>4. /\ call.op \in {"score", "advertise"} => Promises(todo[i])
      /\ Promises(Tail(todo[i])) => Promises(todo[i])
  BY <1>1, Zenon DEF Promises
<1>5. HoldsBlocks(i) /\ up[i]
  BY <1>1, Zenon DEF AdvertisedInv, HoldsBlocks
<1> HIDE DEF call
<1>6. HoldsBlocks(i)'
  BY <1>2, <1>3, <1>4, <1>5, Zenon DEF HoldsBlocks, Deleted
<1> QED BY <1>2, <1>3, <1>6, AdvertisedOne, TrunkMoves, Zenon

LEMMA RegistryNext == Types /\ TrunkInv /\ AdvertisedInv /\ [Next]_vars => TrunkInv' /\ AdvertisedInv'
<1> SUFFICES ASSUME Types, TrunkInv, AdvertisedInv, [Next]_vars
             PROVE  TrunkInv' /\ AdvertisedInv'
  BY Zenon
<1>1. ASSUME UNCHANGED <<up, recv, cursor, registered, todo, keys, scores>>
      PROVE  AdvertisedInv'
  BY <1>1, Zenon DEF AdvertisedInv, HoldsBlocks, Deleted
<1>2. CASE Extend \/ Fork
  <2>1. UNCHANGED <<up, recv, cursor, registered, todo, keys, scores>>
    BY <1>2, Zenon DEF Extend, Fork, instanceVars, redisVars
  <2> QED BY <1>1, <1>2, <2>1, TrunkGrows, Zenon
<1>3. CASE Tick \/ GcStart \/ GcFetch \/ GcGivesUp \/ GcAnnounce \/ GcPrune \/ GcSubmit \/ GcCrash
  <2>1. UNCHANGED <<tip, up, recv, cursor, registered, todo, keys, scores>>
    BY <1>3, Zenon
    DEF Tick, GcStart, GcFetch, GcGivesUp, GcAnnounce, GcPrune, GcSubmit, GcCrash, instanceVars, redisVars
  <2> QED BY <1>1, <2>1, TrunkMoves, Zenon
<1>4. CASE UNCHANGED vars
  <2>1. UNCHANGED <<tip, up, recv, cursor, registered, todo, keys, scores>>
    BY <1>4, Zenon DEF vars, instanceVars, redisVars
  <2> QED BY <1>1, <2>1, TrunkMoves, Zenon
<1> QED BY <1>2, <1>3, <1>4, RegistryCommits, RegistryInstance, RegistryPublish, Zenon DEF Next

\* mapi is sent to an instance without blocks only when daw has deleted one
\* that the operator left in the registry: what is advertised rolls back to an
\* immutable block at most.
THEOREM AnswererHolds == Spec => []AnswererHasData
<1>1. Init => TrunkInv /\ AdvertisedInv
  <2> SUFFICES ASSUME Init PROVE AdvertisedInv
    BY TrunkInit, Zenon
  <2>1. \A i \in Instances : HoldsBlocks(i)
    BY NoPromises, FleetConstants DEF Init, HoldsBlocks
  <2> QED BY <2>1, Zenon DEF AdvertisedInv
<1>2. SafepointInv => Types
  BY Zenon DEF SafepointInv
<1>3. Types /\ AdvertisedInv => AnswererHasData
  BY Zenon DEF Types, AdvertisedInv, HoldsBlocks, Deleted, AnswererHasData, resolve_key
<1> QED BY <1>1, <1>2, <1>3, RegistryNext, SafepointInvariance, PTL DEF Spec
=============================================================================
