--------------------------- MODULE ChainSyncProofs ---------------------------
(***************************************************************************)
(* The store of the compressor follows the node, for any tree of blocks,   *)
(* any valid transactions, any capacity of the channel, and any number of  *)
(* forks, crashes and lost connections: the stored blocks are one chain,   *)
(* the outputs, the resolvers and the log are those of that chain, and no  *)
(* event is refused.                                                       *)
(*                                                                         *)
(* The invariant follows the events on their way: the first one starts at  *)
(* the stored tip, each next one where the last one leads, and the read    *)
(* pointer of the session and the breadcrumbs are where the last one leads *)
(* or before it.                                                           *)
(***************************************************************************)
EXTENDS ChainSync, OrderLemmas

\* a table of blocks holds the chain to t
Holds(bl, t) ==
  /\ t \in Points
  /\ bl \in [{Slot[b] : b \in Chain(t)} -> Blocks]
  /\ \A b \in Chain(t) : bl[Slot[b]] = b

\* a table of outputs is what the chain to t leaves unspent
Unspent(u, t, seeded) ==
  /\ u \in [Outputs -> Txo]
  /\ \A o \in Outputs :
       IF o \in Genesis THEN seeded /\ UnspentAt(o, t) # None => u[o] = 0
       ELSE u[o] = UnspentAt(o, t)

\* a table of resolvers has those of the blocks of the chain to t
Resolves(rs, t) ==
  /\ DOMAIN rs = {Slot[b] : b \in Chain(t)}
  /\ \A b \in Chain(t) :
       /\ rs[Slot[b]].block = b
       /\ \A o \in Required(b) : rs[Slot[b]].txos[o] = CreatedAt(o, b)

\* a log whose next number is seq leads to t
Leads(w, seq, t) ==
  /\ seq \in Nat /\ DOMAIN w \subseteq Nat
  /\ \A n \in DOMAIN w :
       /\ n < seq /\ w[n] \in Logs
       /\ IF n + 1 \in DOMAIN w THEN To(w[n]) = From(w[n + 1])
          ELSE n + 1 = seq /\ To(w[n]) = t

StoreInv ==
  /\ Holds(blocks, Tip)
  /\ Resolves(resolvers, Tip)
  /\ Unspent(txos, Tip, up)
  /\ Leads(wal, nextSeq, Tip)
  /\ mutable \in BOOLEAN /\ up \in BOOLEAN
  /\ ~mutable => DOMAIN wal = {}
  /\ lastHash = IF up THEN HashAfter(Tip) ELSE None

\* where event n of a queue starts when the store is at t, and where the
\* whole queue leads
Before(q, t, n) == IF n = 1 THEN t ELSE q[n - 1].point
End(q, t) == IF q = <<>> THEN t ELSE q[Len(q)].point

\* The events follow each other; rollbacks do so too unless breadcrumbs were
\* kept.
Follows(q, t, k) ==
  \A n \in DOMAIN q :
    /\ q[n].type = "RollForward" => q[n].point \in Blocks /\ Parent[q[n].point] = Before(q, t, n)
    /\ q[n].type = "RollBackOrigin" => q[n].point = Origin
    /\ q[n].type = "RollBack" =>
         q[n].point \in Blocks /\ (~k => q[n].point \in Ancestors[Before(q, t, n)])

\* A breadcrumb that is no longer on the chain to e comes after one it
\* extends: the node never finds it first.
Shadowed(cr, e) ==
  \A j \in DOMAIN cr :
    cr[j] \in Ancestors[e] \/ \E i \in 1..(j - 1) : cr[i] \in Ancestors[cr[j]]

\* the session and the breadcrumbs when the queue leads to e
Tracks(se, cr, e, k) ==
  /\ se.confirmed => se.at = e
  /\ ~k => se.at \in Ancestors[e] /\ Shadowed(cr, e)

PullInv ==
  /\ chain \in Points
  /\ session \in [at : Points, confirmed : BOOLEAN] /\ kept \in BOOLEAN
  /\ crumbs \in Seq(Blocks) /\ Len(crumbs) <= Max({MaxCrumbs, Len(Offered)})
  /\ queue \in Seq(Events) /\ Len(queue) <= QueueLen
  /\ Follows(queue, Tip, kept)
  /\ Tracks(session, crumbs, End(queue, Tip), kept)
  /\ ~up => queue = <<>> /\ crumbs = <<>>

SyncInv == StoreInv /\ PullInv

-----------------------------------------------------------------------------
(* The tree of blocks.                                                     *)

LEMMA BlocksAreATree == IsTree(Blocks, Origin, Parent, Ancestors, Slot)
BY ChainAssumption, Zenon DEF IsTree, Points

LEMMA PointTypes ==
  /\ Blocks \subseteq Points /\ Origin \in Points /\ Origin \notin Blocks
  /\ None \notin Points /\ None \notin Nat
  /\ \A p \in Points : Slot[p] \in Nat /\ Ancestors[p] \subseteq Points /\ Chain(p) \subseteq Blocks
  /\ \A b \in Blocks : Parent[b] \in Points /\ Slot[Parent[b]] < Slot[b]
BY ChainAssumption, LedgerAssumption, Zenon DEF Points, Chain

\* a chain is ordered by slot, and contains the chains of its points
LEMMA ChainsAreOrdered ==
  ASSUME NEW c \in Points
  PROVE  /\ c \in Ancestors[c]
         /\ \A p \in Ancestors[c] :
              /\ Slot[p] <= Slot[c]
              /\ Ancestors[p] \subseteq Ancestors[c]
              /\ \A q \in Ancestors[c] : Slot[q] <= Slot[p] => q \in Ancestors[p]
BY BlocksAreATree, TreeOrder DEF ChainOrder, Points

LEMMA SlotsDiffer ==
  ASSUME NEW c \in Points, NEW p \in Ancestors[c], NEW q \in Ancestors[c], Slot[p] = Slot[q]
  PROVE  p = q
BY BlocksAreATree, TreeSlotsDiffer DEF Points

\* every chain starts at the origin
LEMMA OriginIsFirst == \A c \in Points : Origin \in Ancestors[c]
<1> DEFINE Bad == {Slot[x] : x \in {x \in Points : Origin \notin Ancestors[x]}}
<1> SUFFICES ASSUME Bad # {} PROVE FALSE
  BY Zenon
<1>0. Bad \in SUBSET Nat
  BY PointTypes, Zenon
<1>1. PICK s \in Bad : \A t \in Bad : s <= t
  BY <1>0, Least, Zenon
<1>2. PICK x \in Points : Origin \notin Ancestors[x] /\ Slot[x] = s
  BY <1>1, Zenon
<1>3. x \in Blocks
  BY <1>2, ChainAssumption, Zenon DEF Points
<1>4. Parent[x] \in Points /\ Origin \notin Ancestors[Parent[x]] /\ ~(Slot[x] <= Slot[Parent[x]])
  BY <1>2, <1>3, ChainAssumption, PointTypes
<1>5. Slot[Parent[x]] \in Bad
  BY <1>4, Zenon
<1> QED BY <1>1, <1>2, <1>4, <1>5, Zenon

\* two points of a chain are on one line
LEMMA OneLine ==
  ASSUME NEW c \in Points, NEW p \in Ancestors[c], NEW q \in Ancestors[c]
  PROVE  p \in Ancestors[q] \/ q \in Ancestors[p]
<1>1. Slot[p] \in Nat /\ Slot[q] \in Nat
  BY PointTypes, Zenon
<1>2. Slot[p] <= Slot[q] \/ Slot[q] <= Slot[p]
  BY <1>1
<1> QED BY <1>2, ChainsAreOrdered, Zenon

\* a block extends the chain of its parent, at a later slot
LEMMA ChainOfBlock ==
  ASSUME NEW b \in Blocks
  PROVE  /\ Ancestors[b] = Ancestors[Parent[b]] \cup {b} /\ Chain(b) = Chain(Parent[b]) \cup {b}
         /\ b \notin Ancestors[Parent[b]]
         /\ \A c \in Ancestors[Parent[b]] : Slot[c] < Slot[b]
<1>1. Ancestors[b] = Ancestors[Parent[b]] \cup {b} /\ b # Origin
  BY ChainAssumption, Zenon
<1>2. \A c \in Ancestors[Parent[b]] : Slot[c] <= Slot[Parent[b]] /\ Slot[c] \in Nat
  BY PointTypes, ChainsAreOrdered, Zenon
<1>3. Slot[Parent[b]] < Slot[b] /\ Slot[b] \in Nat /\ Slot[Parent[b]] \in Nat
  BY PointTypes, Zenon
<1>4. \A c \in Ancestors[Parent[b]] : Slot[c] < Slot[b]
  BY <1>2, <1>3
<1>5. b \notin Ancestors[Parent[b]]
  BY <1>3, <1>4
<1> QED BY <1>1, <1>4, <1>5, Zenon DEF Chain

\* what comes after a point of a chain is what has a later slot
LEMMA AfterPoint ==
  ASSUME NEW c \in Points, NEW p \in Ancestors[c]
  PROVE  /\ p \in Points /\ Chain(p) \subseteq Chain(c)
         /\ \A b \in Chain(c) : b \in Chain(p) <=> ~(Slot[b] > Slot[p])
<1>1. p \in Points /\ Slot[p] \in Nat
  BY PointTypes, Zenon
<1>2. \A b \in Chain(c) : Slot[b] \in Nat
  BY PointTypes, Zenon
<1>3. \A b \in Chain(c) : b \in Chain(p) <=> Slot[b] <= Slot[p]
  BY <1>1, ChainsAreOrdered, Zenon DEF Chain
<1>4. Chain(p) \subseteq Chain(c)
  BY <1>1, ChainsAreOrdered, Zenon DEF Chain
<1> QED BY <1>1, <1>2, <1>3, <1>4

\* the newest block of a table, as Tip reads it
TipOf(bl) == IF DOMAIN bl = {} THEN Origin ELSE bl[Max(DOMAIN bl)]

LEMMA TipOfChain ==
  ASSUME NEW bl, NEW t, Holds(bl, t)
  PROVE  TipOf(bl) = t
<1>1. t \in Points /\ t \in Ancestors[t] /\ Slot[t] \in Nat
  BY PointTypes, ChainsAreOrdered, Zenon DEF Holds
<1>2. DOMAIN bl = {Slot[b] : b \in Chain(t)}
  BY Zenon DEF Holds
<1>3. CASE t = Origin
  <2>1. Chain(t) = {}
    BY <1>3, ChainAssumption, Zenon DEF Chain
  <2> QED BY <1>2, <1>3, <2>1, Zenon DEF TipOf
<1>4. CASE t # Origin
  <2>1. t \in Chain(t)
    BY <1>1, <1>4, Zenon DEF Chain
  <2>2. Slot[t] \in DOMAIN bl
    BY <1>2, <2>1, Zenon
  <2>3. \A b \in Chain(t) : Slot[b] <= Slot[t] /\ Slot[b] \in Nat
    BY <1>1, PointTypes, ChainsAreOrdered, Zenon DEF Chain
  <2>4. \A s \in DOMAIN bl : s \in Nat /\ s <= Slot[t]
    BY <1>2, <2>3, Zenon
  <2>5. DOMAIN bl \in SUBSET (0..Slot[t])
    BY <1>1, <2>4
  <2>6. Max(DOMAIN bl) \in DOMAIN bl /\ Slot[t] <= Max(DOMAIN bl)
    BY <1>1, <2>2, <2>5, MaxProperties, Zenon
  <2>7. Max(DOMAIN bl) = Slot[t]
    BY <1>1, <2>4, <2>6
  <2> QED BY <2>1, <2>2, <2>7, Zenon DEF TipOf, Holds
<1> QED BY <1>3, <1>4, Zenon

-----------------------------------------------------------------------------
(* What ledger validity says of a block.                                   *)

\* outputs of the transactions of a block, and of the chain it extends
LEMMA TxFacts ==
  ASSUME NEW b \in Blocks
  PROVE  /\ Len(Txs[b]) \in Nat /\ DOMAIN Txs[b] = 1..Len(Txs[b])
         /\ Produced(b) \subseteq Outputs /\ Consumed(b) \subseteq Required(b)
         /\ Required(b) \subseteq Outputs
         /\ \A i \in DOMAIN Txs[b] : Txs[b][i] \in Transactions
<1>1. Txs[b] \in Seq(Transactions)
  BY LedgerAssumption, Zenon
<1>2. /\ Len(Txs[b]) \in Nat /\ DOMAIN Txs[b] = 1..Len(Txs[b])
      /\ \A i \in DOMAIN Txs[b] : Txs[b][i] \in Transactions
  BY <1>1
<1>3. \A i \in DOMAIN Txs[b] : Txs[b][i].produces \subseteq Outputs /\ Txs[b][i].requires \subseteq Outputs
  BY <1>2, Zenon DEF Transactions
<1>4. Produced(b) \subseteq Outputs
  BY <1>3, Zenon DEF Produced
<1>5. Required(b) \subseteq Outputs
  BY <1>3, Zenon DEF Required
<1>6. Consumed(b) \subseteq Required(b)
  BY LedgerAssumption DEF Consumed, Required
<1> QED BY <1>2, <1>4, <1>5, <1>6, Zenon

\* whatever a chain consumes, it has produced or is genesis
LEMMA ConsumedIsProduced ==
  ASSUME NEW p \in Points, NEW o, ConsumedAt(o, p) # {}
  PROVE  o \in Genesis \/ ProducedAt(o, p) # {}
<1>1. PICK c \in Chain(p) : o \in Consumed(c)
  BY Zenon DEF ConsumedAt
<1>2. c \in Blocks /\ c \in Ancestors[p]
  BY PointTypes, Zenon DEF Chain
<1>3. PICK i \in DOMAIN Txs[c] : o \in Txs[c][i].consumes
  BY <1>1, Zenon DEF Consumed
<1>4. o \in ProducedBefore(c, i)
  BY <1>2, <1>3, LedgerAssumption, Zenon
<1>5. Chain(Parent[c]) \subseteq Chain(p) /\ c \in Chain(p)
  <2>1. Chain(c) \subseteq Chain(p) /\ Chain(Parent[c]) \subseteq Chain(c)
    BY <1>2, AfterPoint, ChainOfBlock
  <2> QED BY <2>1, <1>1, Zenon
<1>6. CASE o \in Genesis
  BY <1>6, Zenon
<1>7. CASE \E d \in Chain(Parent[c]) : o \in Produced(d)
  BY <1>5, <1>7, Zenon DEF ProducedAt
<1>8. CASE \E j \in 1..(i - 1) : o \in Txs[c][j].produces
  <2>1. PICK j \in 1..(i - 1) : o \in Txs[c][j].produces
    BY <1>8, Zenon
  <2>2. j \in DOMAIN Txs[c]
    BY <1>2, <1>3, TxFacts
  <2>3. o \in Produced(c)
    BY <2>1, <2>2, Zenon DEF Produced
  <2> QED BY <1>5, <2>3, Zenon DEF ProducedAt
<1> QED BY <1>4, <1>6, <1>7, <1>8, Zenon DEF ProducedBefore

\* what a block produces is new
LEMMA ProducedIsNew ==
  ASSUME NEW b \in Blocks, NEW o \in Produced(b)
  PROVE  o \notin Genesis /\ ProducedAt(o, Parent[b]) = {} /\ ConsumedAt(o, Parent[b]) = {}
<1>1. PICK i \in DOMAIN Txs[b] : o \in Txs[b][i].produces
  BY Zenon DEF Produced
<1>2. o \notin ProducedBefore(b, i)
  BY <1>1, LedgerAssumption, Zenon
<1>3. o \notin Genesis /\ \A c \in Chain(Parent[b]) : o \notin Produced(c)
  BY <1>2, Zenon DEF ProducedBefore
<1>4. ProducedAt(o, Parent[b]) = {}
  BY <1>3, Zenon DEF ProducedAt
<1> QED BY <1>3, <1>4, ConsumedIsProduced, PointTypes, Zenon

\* what a block requires is unspent, and exists or is its own
LEMMA RequiredIsUnspent ==
  ASSUME NEW b \in Blocks, NEW o \in Required(b)
  PROVE  /\ ConsumedAt(o, Parent[b]) = {}
         /\ o \in Genesis \/ ProducedAt(o, Parent[b]) # {} \/ o \in Produced(b)
<1>1. PICK i \in DOMAIN Txs[b] : o \in Txs[b][i].requires
  BY Zenon DEF Required
<1>2. o \in ProducedBefore(b, i) /\ o \notin ConsumedBefore(b, i)
  BY <1>1, LedgerAssumption, Zenon
<1>3. ConsumedAt(o, Parent[b]) = {}
  BY <1>2, Zenon DEF ConsumedBefore, ConsumedAt
<1>4. ASSUME NEW j \in 1..(i - 1), o \in Txs[b][j].produces
      PROVE  o \in Produced(b)
  <2>1. j \in DOMAIN Txs[b]
    BY <1>1, <1>4, TxFacts
  <2> QED BY <1>4, <2>1, Zenon DEF Produced
<1> QED BY <1>2, <1>3, <1>4, Zenon DEF ProducedBefore, ProducedAt

\* inside a block an output is produced before it is consumed
LEMMA ProducedFirst ==
  ASSUME NEW b \in Blocks, NEW o, NEW i \in DOMAIN Txs[b], NEW j \in DOMAIN Txs[b],
         o \in Txs[b][i].produces, o \in Txs[b][j].consumes
  PROVE  i < j
<1>1. o \notin ProducedBefore(b, i) /\ o \in ProducedBefore(b, j)
  BY LedgerAssumption, Zenon
<1>2. PICK k \in 1..(j - 1) : o \in Txs[b][k].produces
  BY <1>1, Zenon DEF ProducedBefore
<1>3. k \notin 1..(i - 1)
  BY <1>1, <1>2, Zenon DEF ProducedBefore
<1>4. i \in Nat /\ j \in Nat /\ 1 <= i
  BY TxFacts
<1> QED BY <1>2, <1>3, <1>4

\* when a block is added, what it produces is created in it
LEMMA CreatedInBlock ==
  ASSUME NEW b \in Blocks, NEW o
  PROVE  CreatedAt(o, b) = IF o \in Produced(b) THEN Slot[b] ELSE CreatedAt(o, Parent[b])
<1>1. Chain(b) = Chain(Parent[b]) \cup {b}
  BY ChainOfBlock, Zenon
<1>2. CASE o \in Produced(b)
  <2>1. o \notin Genesis /\ ProducedAt(o, Parent[b]) = {}
    BY <1>2, ProducedIsNew, Zenon
  <2>2. ProducedAt(o, b) = {b}
    BY <1>1, <1>2, <2>1, Zenon DEF ProducedAt
  <2> QED BY <1>2, <2>1, <2>2 DEF CreatedAt
<1>3. CASE o \notin Produced(b)
  <2>1. ProducedAt(o, b) = ProducedAt(o, Parent[b])
    BY <1>1, <1>3, Zenon DEF ProducedAt
  <2> QED BY <1>3, <2>1 DEF CreatedAt
<1> QED BY <1>2, <1>3, Zenon

\* and what it leaves unspent
LEMMA UnspentInBlock ==
  ASSUME NEW b \in Blocks, NEW o
  PROVE  UnspentAt(o, b) = IF o \in Consumed(b) THEN None
                           ELSE IF o \in Produced(b) THEN Slot[b] ELSE UnspentAt(o, Parent[b])
<1>1. Chain(b) = Chain(Parent[b]) \cup {b}
  BY ChainOfBlock, Zenon
<1>2. CASE o \in Consumed(b)
  <2>1. ConsumedAt(o, b) # {}
    BY <1>1, <1>2, Zenon DEF ConsumedAt
  <2> QED BY <1>2, <2>1, Zenon DEF UnspentAt
<1>3. CASE o \notin Consumed(b)
  <2>1. ConsumedAt(o, b) = ConsumedAt(o, Parent[b])
    BY <1>1, <1>3, Zenon DEF ConsumedAt
  <2> QED BY <1>3, <2>1, CreatedInBlock, ProducedIsNew, Zenon DEF UnspentAt
<1> QED BY <1>2, <1>3, Zenon

\* what exists was created at a slot
LEMMA CreatedType ==
  ASSUME NEW p \in Points, NEW o
  PROVE  /\ CreatedAt(o, p) \in Txo
         /\ o \in Genesis \/ ProducedAt(o, p) # {} => CreatedAt(o, p) # None
<1>1. ASSUME NEW b \in ProducedAt(o, p) PROVE Slot[b] \in Nat
  BY PointTypes, Zenon DEF ProducedAt
<1>2. ProducedAt(o, p) # {} => (CHOOSE b \in ProducedAt(o, p) : TRUE) \in ProducedAt(o, p)
  BY Zenon
<1> QED BY <1>1, <1>2, PointTypes DEF CreatedAt, Txo

-----------------------------------------------------------------------------
(* The transactions of a block, one by one.                                *)

\* f is what the first n steps make of x, one after the other
Trail(f, n, X, x, step) ==
  f \in [0..n -> X] /\ f[0] = x /\ \A i \in 1..n : f[i] = step[i][f[i - 1]]

\* a list of steps can be taken from any start
LEMMA Iterated ==
  ASSUME NEW X, NEW x \in X, NEW n \in Nat, NEW step \in [1..n -> [X -> X]]
  PROVE  \E f : Trail(f, n, X, x, step)
<1> DEFINE Path(m, f) == f \in [0..m -> X] /\ f[0] = x /\ \A i \in 1..m : f[i] = step[i][f[i - 1]]
           Bad == {m \in 0..n : ~\E f : Path(m, f)}
<1>1. Bad = {}
  <2> SUFFICES ASSUME Bad # {} PROVE FALSE
    BY Zenon
  <2>1. Bad \in SUBSET Nat
    OBVIOUS
  <2>2. PICK m \in Bad : \A k \in Bad : m <= k
    BY <2>1, Least, Zenon
  <2>3. m \in 0..n /\ ~\E f : Path(m, f)
    BY <2>2, Zenon
  <2>4. m # 0
    <3>1. Path(0, [i \in 0..0 |-> x])
      OBVIOUS
    <3> QED BY <2>3, <3>1, Zenon
  <2>5. m - 1 \in 0..n /\ ~(m <= m - 1) /\ m \in 1..n
    BY <2>3, <2>4
  <2>6. PICK f : Path(m - 1, f)
    BY <2>2, <2>5, Zenon
  <2> DEFINE g == [i \in 0..m |-> IF i = m THEN step[m][f[m - 1]] ELSE f[i]]
  <2>7. f[m - 1] \in X
    BY <2>5, <2>6
  <2>8. step[m][f[m - 1]] \in X
    BY <2>5, <2>7, Zenon
  <2>9. g \in [0..m -> X]
    <3>1. ASSUME NEW i \in 0..m PROVE g[i] \in X
      <4>1. i = m \/ i \in 0..(m - 1)
        BY <2>5
      <4> QED BY <4>1, <2>6, <2>8, Zenon
    <3> QED BY <3>1, Zenon
  <2>10. g[0] = x
    BY <2>5, <2>6
  <2>11. ASSUME NEW i \in 1..m PROVE g[i] = step[i][g[i - 1]]
    <3>1. i - 1 \in 0..(m - 1) /\ i - 1 # m /\ i - 1 \in 0..m /\ i \in 0..m
      BY <2>5
    <3>2. CASE i = m
      BY <3>1, <3>2, Zenon
    <3>3. CASE i # m
      <4>1. i \in 1..(m - 1)
        BY <3>3, <2>5
      <4> QED BY <2>6, <3>1, <3>3, <4>1, Zenon
    <3> QED BY <3>2, <3>3, Zenon
  <2>12. Path(m, g)
    BY <2>9, <2>10, <2>11, Zenon
  <2> QED BY <2>3, <2>12, Zenon
<1>2. n \in 0..n
  OBVIOUS
<1>3. \E f : Path(n, f)
  BY <1>1, <1>2, Zenon
<1> QED BY <1>3, Zenon DEF Trail

\* an unspent table after the transactions of a block
LEMMA ApplyLeaves ==
  ASSUME NEW b \in Blocks, NEW u \in [Outputs -> Txo]
  PROVE  /\ ApplyTxs(b, u) \in [Outputs -> Txo]
         /\ \A o \in Outputs :
              ApplyTxs(b, u)[o] = IF o \in Consumed(b) THEN None
                                  ELSE IF o \in Produced(b) THEN Slot[b] ELSE u[o]
<1> DEFINE n == Len(Txs[b])
           X == [Outputs -> Txo]
           step == [i \in 1..n |-> [v \in X |-> ApplyTx(v, Txs[b][i], Slot[b])]]
<1>1. n \in Nat /\ DOMAIN Txs[b] = 1..n /\ Slot[b] \in Txo /\ None \in Txo
  BY TxFacts, PointTypes, Zenon DEF Txo
<1>2. ASSUME NEW i \in 1..n, NEW v \in X PROVE ApplyTx(v, Txs[b][i], Slot[b]) \in X
  BY <1>1, Zenon DEF ApplyTx
<1>3. step \in [1..n -> [X -> X]]
  BY <1>2, Zenon
<1> HIDE DEF step
<1>4. PICK g \in [0..n -> X] : g[0] = u /\ \A i \in 1..n : g[i] = step[i][g[i - 1]]
  <2>1. u \in X /\ n \in Nat
    BY <1>1, Zenon
  <2> HIDE DEF X, n
  <2>2. \E g : Trail(g, n, X, u, step)
    BY <1>3, <2>1, Iterated, Zenon
  <2> QED BY <2>2, Zenon DEF Trail
<1>5. g = [i \in 0..n |-> IF i = 0 THEN u ELSE ApplyTx(g[i - 1], Txs[b][i], Slot[b])]
  <2>1. ASSUME NEW i \in 1..n
        PROVE  g[i] = ApplyTx(g[i - 1], Txs[b][i], Slot[b])
    <3>1. i - 1 \in 0..n
      BY <1>1
    <3> QED BY <1>4, <3>1, Zenon DEF step
  <2>2. \A i \in 0..n : i = 0 \/ i \in 1..n
    BY <1>1
  <2> QED BY <1>4, <2>1, <2>2, Zenon
<1> DEFINE f == CHOOSE h : h = [i \in 0..n |-> IF i = 0 THEN u ELSE ApplyTx(h[i - 1], Txs[b][i], Slot[b])]
<1>6. f = [i \in 0..n |-> IF i = 0 THEN u ELSE ApplyTx(f[i - 1], Txs[b][i], Slot[b])]
  BY <1>5, Zenon
<1>7. ApplyTxs(b, u) = f[n]
  BY Zenon DEF ApplyTxs
<1> HIDE DEF f
<1>8. f[0] = u /\ \A i \in 1..n : f[i] = ApplyTx(f[i - 1], Txs[b][i], Slot[b])
  <2>1. \A i \in 1..n : i \in 0..n /\ i # 0
    OBVIOUS
  <2>2. 0 \in 0..n
    BY <1>1
  <2> QED BY <1>6, <2>1, <2>2, Zenon
<1> DEFINE uses(o, m) == \E j \in 1..m : o \in Txs[b][j].consumes
           makes(o, m) == \E j \in 1..m : o \in Txs[b][j].produces
           good(m) == /\ f[m] \in X
                      /\ \A o \in Outputs :
                           f[m][o] = IF uses(o, m) THEN None ELSE IF makes(o, m) THEN Slot[b] ELSE u[o]
           Bad == {m \in 0..n : ~good(m)}
<1>9. good(0)
  BY <1>8
<1>10. ASSUME NEW m \in 1..n, good(m - 1) PROVE good(m)
  <2>0. m - 1 \in Nat /\ m \in 1..m /\ \A j \in 1..m : j \in 1..n /\ (j = m \/ j \in 1..(m - 1))
    BY <1>1
  <2>00. \A j \in 1..(m - 1) : j \in 1..m /\ ~(m < j)
    BY <1>1
  <2>1. f[m] = ApplyTx(f[m - 1], Txs[b][m], Slot[b])
    BY <1>8, Zenon
  <2>2. f[m] \in X
    BY <1>10, <1>2, <2>1
  <2>3. ASSUME NEW o \in Outputs
        PROVE  f[m][o] = IF uses(o, m) THEN None ELSE IF makes(o, m) THEN Slot[b] ELSE u[o]
    <3>1. f[m][o] = IF o \in Txs[b][m].consumes THEN None
                    ELSE IF o \in Txs[b][m].produces THEN Slot[b] ELSE f[m - 1][o]
      BY <2>1, Zenon DEF ApplyTx
    <3>2. uses(o, m) <=> uses(o, m - 1) \/ o \in Txs[b][m].consumes
      BY <2>0, <2>00, Zenon
    <3>3. makes(o, m) <=> makes(o, m - 1) \/ o \in Txs[b][m].produces
      BY <2>0, <2>00, Zenon
    <3>4. o \in Txs[b][m].produces => ~uses(o, m - 1)
      BY <1>1, <2>0, <2>00, ProducedFirst, Zenon
    <3>5. f[m - 1][o] = IF uses(o, m - 1) THEN None ELSE IF makes(o, m - 1) THEN Slot[b] ELSE u[o]
      BY <1>10, Zenon
    <3> HIDE DEF uses, makes
    <3> QED BY <3>1, <3>2, <3>3, <3>4, <3>5, Zenon
  <2> QED BY <2>2, <2>3, Zenon
<1> HIDE DEF good
<1>11. Bad = {}
  <2> SUFFICES ASSUME Bad # {} PROVE FALSE
    BY Zenon
  <2>1. Bad \in SUBSET Nat
    BY <1>1
  <2>2. PICK m \in Bad : \A k \in Bad : m <= k
    BY <2>1, Least, Zenon
  <2>3. m \in 1..n /\ m - 1 \in 0..n /\ ~(m <= m - 1)
    BY <1>1, <1>9, <2>2
  <2> QED BY <1>10, <2>2, <2>3, Zenon
<1>12. good(n)
  BY <1>1, <1>11
<1>13. \A o : (uses(o, n) <=> o \in Consumed(b)) /\ (makes(o, n) <=> o \in Produced(b))
  BY <1>1, Zenon DEF Consumed, Produced
<1> HIDE DEF uses, makes
<1> QED BY <1>7, <1>12, <1>13, Zenon DEF good

\* and after they are undone, newest first
LEMMA UndoLeaves ==
  ASSUME NEW b \in Blocks, NEW u \in [Outputs -> Txo],
         NEW r, \A o \in Required(b) : r[o] \in Txo
  PROVE  /\ UndoTxs(b, u, r) \in [Outputs -> Txo]
         /\ \A o \in Outputs :
              UndoTxs(b, u, r)[o] = IF o \in Produced(b) THEN None
                                   ELSE IF o \in Consumed(b) THEN r[o] ELSE u[o]
<1> DEFINE n == Len(Txs[b])
           X == [Outputs -> Txo]
           step == [i \in 1..n |-> [v \in X |-> UndoTx(v, Txs[b][n + 1 - i], r)]]
<1>1. n \in Nat /\ DOMAIN Txs[b] = 1..n /\ None \in Txo
  BY TxFacts, Zenon DEF Txo
<1>2. ASSUME NEW i \in 1..n, NEW v \in X PROVE UndoTx(v, Txs[b][n + 1 - i], r) \in X
  <2>1. n + 1 - i \in DOMAIN Txs[b]
    BY <1>1
  <2>2. Txs[b][n + 1 - i].consumes \subseteq Required(b)
    BY <2>1, TxFacts, Zenon DEF Consumed
  <2> QED BY <1>1, <2>2, Zenon DEF UndoTx
<1>3. step \in [1..n -> [X -> X]]
  BY <1>2, Zenon
<1> HIDE DEF step
<1>4. PICK g \in [0..n -> X] : g[0] = u /\ \A i \in 1..n : g[i] = step[i][g[i - 1]]
  <2>1. u \in X /\ n \in Nat
    BY <1>1, Zenon
  <2> HIDE DEF X, n
  <2>2. \E g : Trail(g, n, X, u, step)
    BY <1>3, <2>1, Iterated, Zenon
  <2> QED BY <2>2, Zenon DEF Trail
<1>5. g = [i \in 0..n |-> IF i = 0 THEN u ELSE UndoTx(g[i - 1], Txs[b][n + 1 - i], r)]
  <2>1. ASSUME NEW i \in 1..n
        PROVE  g[i] = UndoTx(g[i - 1], Txs[b][n + 1 - i], r)
    <3>1. i - 1 \in 0..n
      BY <1>1
    <3> QED BY <1>4, <3>1, Zenon DEF step
  <2>2. \A i \in 0..n : i = 0 \/ i \in 1..n
    BY <1>1
  <2> QED BY <1>4, <2>1, <2>2, Zenon
<1> DEFINE f == CHOOSE h : h = [i \in 0..n |-> IF i = 0 THEN u ELSE UndoTx(h[i - 1], Txs[b][n + 1 - i], r)]
<1>6. f = [i \in 0..n |-> IF i = 0 THEN u ELSE UndoTx(f[i - 1], Txs[b][n + 1 - i], r)]
  BY <1>5, Zenon
<1>7. UndoTxs(b, u, r) = f[n]
  BY Zenon DEF UndoTxs
<1> HIDE DEF f
<1>8. f[0] = u /\ \A i \in 1..n : f[i] = UndoTx(f[i - 1], Txs[b][n + 1 - i], r)
  <2>1. \A i \in 1..n : i \in 0..n /\ i # 0
    OBVIOUS
  <2>2. 0 \in 0..n
    BY <1>1
  <2> QED BY <1>6, <2>1, <2>2, Zenon
<1> DEFINE uses(o, m) == \E j \in (n + 1 - m)..n : o \in Txs[b][j].consumes
           makes(o, m) == \E j \in (n + 1 - m)..n : o \in Txs[b][j].produces
           good(m) == /\ f[m] \in X
                      /\ \A o \in Outputs :
                           f[m][o] = IF makes(o, m) THEN None ELSE IF uses(o, m) THEN r[o] ELSE u[o]
           Bad == {m \in 0..n : ~good(m)}
<1>9. good(0)
  BY <1>8
<1>10. ASSUME NEW m \in 1..n, good(m - 1) PROVE good(m)
  <2> DEFINE k == n + 1 - m
  <2>0. /\ k \in 1..n /\ k \in k..n /\ \A j \in k..n : j \in 1..n /\ (j = k \/ j \in (k + 1)..n)
        /\ n + 1 - (m - 1) = k + 1 /\ m - 1 \in 0..n
    BY <1>1
  <2>00. \A j \in (k + 1)..n : j \in k..n /\ ~(j < k)
    BY <1>1
  <2>1. f[m] = UndoTx(f[m - 1], Txs[b][n + 1 - m], r)
    BY <1>8, Zenon
  <2>2. f[m] \in X
    BY <1>10, <1>2, <2>1, <2>0
  <2>3. ASSUME NEW o \in Outputs
        PROVE  f[m][o] = IF makes(o, m) THEN None ELSE IF uses(o, m) THEN r[o] ELSE u[o]
    <3>1. f[m][o] = IF o \in Txs[b][k].produces THEN None
                    ELSE IF o \in Txs[b][k].consumes THEN r[o] ELSE f[m - 1][o]
      BY <2>1, Zenon DEF UndoTx
    <3>2. uses(o, m) <=> uses(o, m - 1) \/ o \in Txs[b][k].consumes
      BY <2>0, <2>00, Zenon
    <3>3. makes(o, m) <=> makes(o, m - 1) \/ o \in Txs[b][k].produces
      BY <2>0, <2>00, Zenon
    <3>4. o \in Txs[b][k].consumes => ~makes(o, m - 1)
      BY <1>1, <2>0, <2>00, ProducedFirst, Zenon
    <3>5. f[m - 1][o] = IF makes(o, m - 1) THEN None ELSE IF uses(o, m - 1) THEN r[o] ELSE u[o]
      BY <1>10, Zenon
    <3> HIDE DEF uses, makes
    <3> QED BY <3>1, <3>2, <3>3, <3>4, <3>5, Zenon
  <2> QED BY <2>2, <2>3, Zenon
<1> HIDE DEF good
<1>11. Bad = {}
  <2> SUFFICES ASSUME Bad # {} PROVE FALSE
    BY Zenon
  <2>1. Bad \in SUBSET Nat
    BY <1>1
  <2>2. PICK m \in Bad : \A k \in Bad : m <= k
    BY <2>1, Least, Zenon
  <2>3. m \in 1..n /\ m - 1 \in 0..n /\ ~(m <= m - 1)
    BY <1>1, <1>9, <2>2
  <2> QED BY <1>10, <2>2, <2>3, Zenon
<1>12. good(n)
  BY <1>1, <1>11
<1>13. n + 1 - n = 1
  BY <1>1
<1>14. \A o : (uses(o, n) <=> o \in Consumed(b)) /\ (makes(o, n) <=> o \in Produced(b))
  BY <1>1, <1>13, Zenon DEF Consumed, Produced
<1> HIDE DEF uses, makes
<1> QED BY <1>7, <1>12, <1>14, Zenon DEF good

-----------------------------------------------------------------------------
(* The unspent outputs and the resolvers, block by block.                  *)

\* an output has one body: unspent means created and not consumed
LEMMA UnspentIsCreated ==
  ASSUME NEW p \in Points, NEW o, ConsumedAt(o, p) = {}
  PROVE  UnspentAt(o, p) = CreatedAt(o, p)
BY Zenon DEF UnspentAt

LEMMA GenesisIsZero ==
  ASSUME NEW p \in Points, NEW o \in Genesis
  PROVE  CreatedAt(o, p) = 0
BY Zenon DEF CreatedAt

\* an applied block finds all it requires, as the chain created it
LEMMA ResolvedIsCreated ==
  ASSUME NEW b \in Blocks, NEW u, Unspent(u, Parent[b], TRUE), NEW o \in Required(b)
  PROVE  Resolved(b, u)[o] = CreatedAt(o, b) /\ CreatedAt(o, b) # None
<1>1. /\ ConsumedAt(o, Parent[b]) = {} /\ Parent[b] \in Points /\ o \in Outputs
      /\ o \in Genesis \/ ProducedAt(o, Parent[b]) # {} \/ o \in Produced(b)
  BY RequiredIsUnspent, PointTypes, TxFacts, Zenon
<1>2. UnspentAt(o, Parent[b]) = CreatedAt(o, Parent[b])
  BY <1>1, UnspentIsCreated, Zenon
<1>3. CreatedAt(o, b) = IF o \in Produced(b) THEN Slot[b] ELSE CreatedAt(o, Parent[b])
  BY CreatedInBlock, Zenon
<1>4. Resolved(b, u)[o] = IF u[o] # None THEN u[o] ELSE IF o \in Produced(b) THEN Slot[b] ELSE None
  BY Zenon DEF Resolved
<1>5. Slot[b] # None /\ 0 # None
  BY PointTypes
<1>6. CASE o \in Genesis
  <2>1. CreatedAt(o, Parent[b]) = 0 /\ o \notin Produced(b)
    BY <1>1, <1>6, GenesisIsZero, ProducedIsNew, Zenon
  <2>2. u[o] = 0
    BY <1>1, <1>2, <1>5, <1>6, <2>1, Zenon DEF Unspent
  <2> QED BY <1>3, <1>4, <1>5, <2>1, <2>2, Zenon
<1>7. CASE o \notin Genesis
  <2>1. u[o] = CreatedAt(o, Parent[b])
    BY <1>1, <1>2, <1>7, Zenon DEF Unspent
  <2>2. CASE o \in Produced(b)
    <3>1. CreatedAt(o, Parent[b]) = None
      BY <1>7, <2>2, ProducedIsNew, Zenon DEF CreatedAt
    <3> QED BY <1>3, <1>4, <1>5, <2>1, <2>2, <3>1, Zenon
  <2>3. CASE o \notin Produced(b)
    <3>1. CreatedAt(o, Parent[b]) # None
      BY <1>1, <1>7, <2>3, CreatedType, Zenon
    <3> QED BY <1>3, <1>4, <2>1, <2>3, <3>1, Zenon
  <2> QED BY <2>2, <2>3, Zenon
<1> QED BY <1>6, <1>7, Zenon

\* applying a block leaves what its chain leaves unspent
LEMMA UnspentApplied ==
  ASSUME NEW b \in Blocks, NEW u, Unspent(u, Parent[b], TRUE)
  PROVE  Unspent(ApplyTxs(b, u), b, TRUE)
<1> DEFINE v == ApplyTxs(b, u)
<1>1. u \in [Outputs -> Txo]
  BY Zenon DEF Unspent
<1>2. /\ v \in [Outputs -> Txo]
      /\ \A o \in Outputs : v[o] = IF o \in Consumed(b) THEN None
                                   ELSE IF o \in Produced(b) THEN Slot[b] ELSE u[o]
  BY <1>1, ApplyLeaves, Zenon
<1> HIDE DEF v
<1>3. ASSUME NEW o \in Outputs
      PROVE  IF o \in Genesis THEN UnspentAt(o, b) # None => v[o] = 0 ELSE v[o] = UnspentAt(o, b)
  <2>1. UnspentAt(o, b) = IF o \in Consumed(b) THEN None
                          ELSE IF o \in Produced(b) THEN Slot[b] ELSE UnspentAt(o, Parent[b])
    BY UnspentInBlock, Zenon
  <2>2. o \in Genesis => o \notin Produced(b)
    BY ProducedIsNew, Zenon
  <2>3. IF o \in Genesis THEN UnspentAt(o, Parent[b]) # None => u[o] = 0
        ELSE u[o] = UnspentAt(o, Parent[b])
    BY Zenon DEF Unspent
  <2> QED BY <1>2, <2>1, <2>2, <2>3, Zenon
<1>4. Unspent(v, b, TRUE)
  BY <1>2, <1>3, Zenon DEF Unspent
<1> QED BY <1>4, Zenon DEF v

\* undoing it with its resolver leaves what the chain before it left
LEMMA UnspentUndone ==
  ASSUME NEW b \in Blocks, NEW u, Unspent(u, b, TRUE),
         NEW r, \A o \in Required(b) : r[o] = CreatedAt(o, b)
  PROVE  Unspent(UndoTxs(b, u, r), Parent[b], TRUE)
<1> DEFINE v == UndoTxs(b, u, r)
<1>1. u \in [Outputs -> Txo] /\ \A o \in Required(b) : r[o] \in Txo
  BY PointTypes, CreatedType, Zenon DEF Unspent
<1>2. /\ v \in [Outputs -> Txo]
      /\ \A o \in Outputs : v[o] = IF o \in Produced(b) THEN None
                                   ELSE IF o \in Consumed(b) THEN r[o] ELSE u[o]
  BY <1>1, UndoLeaves
<1> HIDE DEF v
<1>3. ASSUME NEW o \in Outputs
      PROVE  IF o \in Genesis THEN UnspentAt(o, Parent[b]) # None => v[o] = 0
             ELSE v[o] = UnspentAt(o, Parent[b])
  <2>1. UnspentAt(o, b) = IF o \in Consumed(b) THEN None
                          ELSE IF o \in Produced(b) THEN Slot[b] ELSE UnspentAt(o, Parent[b])
    BY UnspentInBlock, Zenon
  <2>2. o \in Produced(b) => o \notin Genesis /\ UnspentAt(o, Parent[b]) = None
    BY ProducedIsNew, Zenon DEF UnspentAt, CreatedAt
  <2>3. IF o \in Genesis THEN UnspentAt(o, b) # None => u[o] = 0 ELSE u[o] = UnspentAt(o, b)
    BY Zenon DEF Unspent
  <2>4. ASSUME o \in Consumed(b), o \notin Produced(b)
        PROVE  r[o] = UnspentAt(o, Parent[b])
    <3>1. o \in Required(b)
      BY <2>4, TxFacts, Zenon
    <3>2. r[o] = CreatedAt(o, Parent[b])
      BY <2>4, <3>1, CreatedInBlock, Zenon
    <3> QED BY <3>1, <3>2, RequiredIsUnspent, UnspentIsCreated, PointTypes, Zenon
  <2>5. o \in Genesis /\ UnspentAt(o, Parent[b]) # None => UnspentAt(o, Parent[b]) = 0
    BY Zenon DEF UnspentAt, CreatedAt
  <2> QED BY <1>2, <2>1, <2>2, <2>3, <2>4, <2>5, Zenon
<1>4. Unspent(v, Parent[b], TRUE)
  BY <1>2, <1>3, Zenon DEF Unspent
<1> QED BY <1>4, Zenon DEF v

-----------------------------------------------------------------------------
(* The blocks a rollback removes.                                          *)

\* where the first i blocks of a list lead to when they are undone from t
Left(un, t, i) == IF i = 0 THEN t ELSE Parent[un[i]]

\* un lists the blocks from t down to p, newest first
Listed(un, t, p) ==
  /\ un \in Seq(Blocks)
  /\ {un[i] : i \in DOMAIN un} = Chain(t) \ Chain(p)
  /\ \A i \in DOMAIN un : un[i] = Left(un, t, i - 1)
  /\ Left(un, t, Len(un)) = p

\* the parent of a block after p is after p, or p itself
LEMMA NextBelow ==
  ASSUME NEW t \in Points, NEW p \in Ancestors[t], NEW b \in Chain(t) \ Chain(p)
  PROVE  /\ Parent[b] = p \/ Parent[b] \in Chain(t) \ Chain(p)
         /\ \A c \in Chain(t) \ Chain(p) : Slot[c] < Slot[b] => Slot[c] <= Slot[Parent[b]]
         /\ Parent[b] = p => \A c \in Chain(t) \ Chain(p) : Slot[b] <= Slot[c]
<1>1. b \in Blocks /\ b \in Ancestors[t] /\ p \in Points /\ Slot[b] \in Nat /\ Slot[p] \in Nat
  BY PointTypes, Zenon DEF Chain
<1>2. /\ Parent[b] \in Ancestors[t]
      /\ \A q \in Ancestors[t] : Slot[q] < Slot[b] => Slot[q] <= Slot[Parent[b]] /\ q \in Ancestors[Parent[b]]
  BY <1>1, BlocksAreATree, TreeParent, Zenon DEF Points
<1>3. Slot[p] < Slot[b]
  BY <1>1, AfterPoint, Zenon
<1>4. p \in Ancestors[Parent[b]] /\ Parent[b] \in Points
  BY <1>1, <1>2, <1>3, PointTypes, Zenon
<1>5. CASE Parent[b] \in Ancestors[p]
  <2>1. Slot[Parent[b]] <= Slot[p] /\ Slot[p] <= Slot[Parent[b]] /\ Slot[Parent[b]] \in Nat
    BY <1>1, <1>4, <1>5, ChainsAreOrdered, PointTypes, Zenon
  <2>0. Slot[Parent[b]] = Slot[p]
    BY <1>1, <2>1
  <2>2. Parent[b] = p
    BY <1>2, <2>0, SlotsDiffer, Zenon
  <2>3. ASSUME NEW c \in Chain(t) \ Chain(p) PROVE Slot[b] <= Slot[c]
    <3>1. c \in Ancestors[t] /\ c # Origin /\ Slot[c] \in Nat
      BY PointTypes, Zenon DEF Chain
    <3>2. ~(Slot[c] < Slot[b])
      BY <1>2, <2>2, <3>1, Zenon DEF Chain
    <3> QED BY <1>1, <3>1, <3>2
  <2> QED BY <1>2, <2>2, <2>3, Zenon DEF Chain
<1>6. CASE Parent[b] \notin Ancestors[p]
  <2>1. Parent[b] # Origin /\ Parent[b] # p
    BY <1>1, <1>6, OriginIsFirst, ChainsAreOrdered, Zenon
  <2> QED BY <1>2, <1>6, <2>1, Zenon DEF Chain
<1> QED BY <1>5, <1>6, Zenon

LEMMA StoredList ==
  ASSUME NEW t, Holds(blocks, t), NEW p \in Ancestors[t], NEW slot \in Int,
         \A b \in Chain(t) : Slot[b] > slot <=> b \notin Chain(p)
  PROVE  Listed(StoredAfter(slot), t, p)
<1> DEFINE D == Chain(t) \ Chain(p)
           after == {s \in DOMAIN blocks : s > slot}
           k == Cardinality(after)
           un == StoredAfter(slot)
<1>1. t \in Points /\ p \in Points /\ Slot[t] \in Nat /\ t \in Ancestors[t]
  BY PointTypes, ChainsAreOrdered, Zenon DEF Holds
<1>2. D \subseteq Blocks /\ \A b \in D : Slot[b] \in Nat /\ Slot[b] <= Slot[t] /\ b \in Ancestors[t]
  BY <1>1, PointTypes, ChainsAreOrdered, Zenon DEF Chain
<1>3. after = {Slot[b] : b \in D}
  BY Zenon DEF Holds
<1>4. after \in SUBSET Nat /\ IsFiniteSet(after) /\ k \in Nat
  <2>1. \A s \in after : s \in 0..Slot[t]
    BY <1>1, <1>2, <1>3
  <2>2. IsFiniteSet(0..Slot[t])
    BY <1>1, FS_Interval
  <2>3. after \subseteq 0..Slot[t]
    BY <2>1, Zenon
  <2>4. IsFiniteSet(after)
    BY <2>2, <2>3, FS_Subset, Zenon
  <2> QED BY <1>1, <2>3, <2>4, FS_CardinalityType
<1>5. \A b \in D : blocks[Slot[b]] = b /\ Slot[b] \in after
  BY <1>3, Zenon DEF Holds
<1> DEFINE pick(i) == CHOOSE s \in after : Cardinality({x \in after : x > s}) = i - 1
<1>6. un = [i \in 1..k |-> blocks[pick(i)]]
  BY Zenon DEF StoredAfter
<1> HIDE DEF after, k, un
<1>7. ASSUME NEW i \in 1..k
      PROVE  pick(i) \in after /\ RankIn(after, pick(i)) = i - 1
  <2>1. \E s \in after : Cardinality({x \in after : x > s}) = i - 1
    BY <1>4, <1>7, Ranked, Zenon DEF k
  <2> QED BY <2>1, Zenon DEF RankIn
<1> HIDE DEF pick
<1>8. ASSUME NEW i \in 1..k
      PROVE  un[i] \in D /\ RankIn(after, Slot[un[i]]) = i - 1
  <2>1. PICK b \in D : pick(i) = Slot[b]
    BY <1>3, <1>7, Zenon
  <2>2. un[i] = b
    BY <1>5, <1>6, <2>1, Zenon
  <2> QED BY <1>7, <2>1, <2>2, Zenon
<1>9. ASSUME NEW b \in D, NEW i \in 1..k, RankIn(after, Slot[b]) = i - 1
      PROVE  un[i] = b
  <2>1. un[i] \in D /\ Slot[un[i]] \in after /\ Slot[b] \in after
    BY <1>5, <1>8, Zenon
  <2>0. RankIn(after, Slot[un[i]]) = RankIn(after, Slot[b])
    BY <1>8, <1>9, Zenon
  <2>00. \A x, y \in after : RankIn(after, x) = RankIn(after, y) => x = y
    BY <1>4, RanksDiffer, Zenon
  <2>2. Slot[un[i]] = Slot[b]
    BY <2>0, <2>00, <2>1, Zenon
  <2> QED BY <1>5, <2>1, <2>2, Zenon
<1>10. un \in Seq(Blocks) /\ Len(un) = k /\ DOMAIN un = 1..k
  BY <1>2, <1>4, <1>6, <1>8
<1>11. {un[i] : i \in DOMAIN un} = D
  <2>1. ASSUME NEW b \in D PROVE \E i \in 1..k : un[i] = b
    <3>0. RankIn(after, Slot[b]) \in Nat /\ RankIn(after, Slot[b]) < k
      BY <1>4, <1>5, RankType, Zenon DEF k
    <3>1. RankIn(after, Slot[b]) + 1 \in 1..k /\ (RankIn(after, Slot[b]) + 1) - 1 = RankIn(after, Slot[b])
      BY <1>4, <3>0
    <3> QED BY <1>9, <3>1, Zenon
  <2> QED BY <1>8, <1>10, <2>1
<1>12. ASSUME NEW b \in D, Parent[b] # p
       PROVE  /\ Parent[b] \in D
              /\ RankIn(after, Slot[Parent[b]]) = RankIn(after, Slot[b]) + 1
  <2>1. Parent[b] \in D
    BY <1>1, <1>12, NextBelow, Zenon
  <2>2. Slot[Parent[b]] < Slot[b]
    BY <1>2, PointTypes, Zenon
  <2>3. ASSUME NEW x \in after PROVE ~(Slot[Parent[b]] < x /\ x < Slot[b])
    <3>1. PICK c \in D : x = Slot[c]
      BY <1>3, Zenon
    <3>2. Slot[c] < Slot[b] => Slot[c] <= Slot[Parent[b]]
      BY <1>1, NextBelow, Zenon
    <3> QED BY <1>2, <2>1, <3>1, <3>2
  <2> QED BY <1>4, <1>5, <2>1, <2>2, <2>3, RankBelow, Zenon
<1>13. ASSUME NEW b \in D, Parent[b] = p
       PROVE  RankIn(after, Slot[b]) = k - 1
  <2>1. \A c \in D : Slot[b] <= Slot[c]
    BY <1>1, <1>13, NextBelow, Zenon
  <2>2. \A x \in after : Slot[b] <= x
    BY <1>3, <2>1, Zenon
  <2> QED BY <1>4, <1>5, <2>2, RankOfEnds, Zenon DEF k
<1>14. ASSUME k # 0 PROVE t \in D /\ RankIn(after, Slot[t]) = 0
  <2>1. PICK b : b \in D
    <3>1. 1 \in 1..k
      BY <1>4, <1>14
    <3> QED BY <1>8, <3>1, Zenon
  <2>2. t # Origin
    BY <2>1, ChainAssumption, Zenon DEF Chain
  <2>3. t \in Chain(t)
    BY <1>1, <2>2, Zenon DEF Chain
  <2>4. Slot[b] > Slot[p] /\ Slot[b] <= Slot[t] /\ Slot[p] \in Nat /\ Slot[b] \in Nat
    BY <1>1, <1>2, <2>1, AfterPoint, PointTypes, Zenon
  <2>5. Slot[t] > Slot[p]
    BY <1>1, <2>4
  <2>6. t \in D
    BY <1>1, <2>3, <2>5, AfterPoint, Zenon
  <2>7. \A x \in after : x <= Slot[t]
    BY <1>2, <1>3, Zenon
  <2> QED BY <1>4, <1>5, <2>6, <2>7, RankOfEnds, Zenon
<1>15. ASSUME k = 0 PROVE t = p
  <2>1. D = {}
    BY <1>10, <1>11, <1>15
  <2>2. CASE t = Origin
    BY <2>2, ChainAssumption, Zenon
  <2>3. CASE t # Origin
    <3>1. t \in Ancestors[p]
      BY <1>1, <2>1, <2>3, Zenon DEF Chain
    <3>2. Slot[t] <= Slot[p] /\ Slot[p] <= Slot[t] /\ Slot[p] \in Nat
      BY <1>1, <3>1, ChainsAreOrdered, PointTypes, Zenon
    <3>3. Slot[t] = Slot[p]
      BY <1>1, <3>2
    <3> QED BY <1>1, <3>3, SlotsDiffer, Zenon
  <2> QED BY <2>2, <2>3, Zenon
<1>16. ASSUME NEW i \in 1..k PROVE un[i] = Left(un, t, i - 1)
  <2>1. CASE i = 1
    <3>1. RankIn(after, Slot[t]) = i - 1 /\ t \in D /\ i - 1 = 0
      BY <1>4, <1>14, <2>1
    <3>2. un[i] = t
      BY <1>9, <3>1, Zenon
    <3> QED BY <3>1, <3>2, Zenon DEF Left
  <2>2. CASE i # 1
    <3>1. i - 1 \in 1..k /\ i - 1 # 0 /\ ~((i - 1) - 1 = k - 1) /\ ((i - 1) - 1) + 1 = i - 1
      BY <1>4, <2>2
    <3>2. un[i - 1] \in D /\ RankIn(after, Slot[un[i - 1]]) = (i - 1) - 1
      BY <1>8, <3>1, Zenon
    <3>3. Parent[un[i - 1]] # p
      BY <1>13, <3>1, <3>2, Zenon
    <3>4. Parent[un[i - 1]] \in D /\ RankIn(after, Slot[Parent[un[i - 1]]]) = i - 1
      BY <1>12, <3>1, <3>2, <3>3, Zenon
    <3> QED BY <1>9, <3>1, <3>4, Zenon DEF Left
  <2> QED BY <2>1, <2>2, Zenon
<1>17. Left(un, t, k) = p
  <2>1. CASE k = 0
    BY <1>15, <2>1, Zenon DEF Left
  <2>2. CASE k # 0
    <3>1. k \in 1..k /\ (k - 1) + 1 = k
      BY <1>4, <2>2
    <3>2. un[k] \in D /\ RankIn(after, Slot[un[k]]) = k - 1
      BY <1>8, <3>1, Zenon
    <3>3. ASSUME Parent[un[k]] # p PROVE FALSE
      <4>1. Parent[un[k]] \in D /\ RankIn(after, Slot[Parent[un[k]]]) = k
        BY <1>12, <3>1, <3>2, <3>3, Zenon
      <4>2. RankIn(after, Slot[Parent[un[k]]]) < k
        BY <1>4, <1>5, <4>1, RankType, Zenon DEF k
      <4> QED BY <1>4, <4>1, <4>2
    <3> QED BY <2>2, <3>3, Zenon DEF Left
  <2> QED BY <2>1, <2>2, Zenon
<1>18. Listed(un, t, p)
  BY <1>10, <1>11, <1>16, <1>17, Zenon DEF Listed
<1> QED BY <1>18, Zenon DEF un

LEMMA UndoesList ==
  ASSUME NEW t, Holds(blocks, t), NEW p \in Ancestors[t]
  PROVE  Listed(Undoes(p), t, p)
<1>1. t \in Points
  BY Zenon DEF Holds
<1>2. CASE p = Origin
  <2>1. Chain(p) = {} /\ \A b \in Chain(t) : Slot[b] > -1
    BY <1>1, <1>2, PointTypes, ChainAssumption DEF Chain
  <2>2. Listed(StoredAfter(-1), t, p)
    BY <2>1, StoredList
  <2> QED BY <1>2, <2>2, Zenon DEF Undoes
<1>3. CASE p # Origin
  <2>1. Slot[p] \in Int /\ \A b \in Chain(t) : Slot[b] > Slot[p] <=> b \notin Chain(p)
    BY <1>1, PointTypes, AfterPoint
  <2>2. Listed(StoredAfter(Slot[p]), t, p)
    BY <2>1, StoredList, Zenon
  <2> QED BY <1>3, <2>2, Zenon DEF Undoes
<1> QED BY <1>2, <1>3, Zenon

\* the outputs after a rollback are those of the point it leads to
LEMMA UndoAllLeaves ==
  ASSUME NEW t \in Points, NEW p, NEW un, Listed(un, t, p),
         Resolves(resolvers, t), Unspent(txos, t, TRUE)
  PROVE  Unspent(UndoAll(un), p, TRUE)
<1> DEFINE n == Len(un)
           X == [Outputs -> Txo]
           r(i) == resolvers[Slot[un[i]]].txos
           step == [i \in 1..n |-> [v \in X |-> UndoTxs(un[i], v, r(i))]]
<1>1. n \in Nat /\ DOMAIN un = 1..n /\ txos \in X
  BY DEF Listed, Unspent
<1>2. ASSUME NEW i \in 1..n
      PROVE  /\ un[i] \in Blocks /\ un[i] = Left(un, t, i - 1) /\ Parent[un[i]] = Left(un, t, i)
             /\ \A o \in Required(un[i]) : r(i)[o] = CreatedAt(o, un[i]) /\ r(i)[o] \in Txo
  <2>1. un[i] \in Blocks /\ un[i] = Left(un, t, i - 1) /\ un[i] \in Chain(t)
    BY <1>1 DEF Listed
  <2>2. Parent[un[i]] = Left(un, t, i)
    BY DEF Left
  <2>3. \A o \in Required(un[i]) : r(i)[o] = CreatedAt(o, un[i])
    BY <2>1, Zenon DEF Resolves
  <2> QED BY <2>1, <2>2, <2>3, CreatedType, PointTypes, Zenon
<1> HIDE DEF r
<1>3. step \in [1..n -> [X -> X]]
  BY <1>2, UndoLeaves, Zenon
<1> HIDE DEF step
<1>4. PICK g \in [0..n -> X] : g[0] = txos /\ \A i \in 1..n : g[i] = step[i][g[i - 1]]
  <2>1. txos \in X /\ n \in Nat
    BY <1>1, Zenon
  <2> HIDE DEF X, n
  <2>2. \E g : Trail(g, n, X, txos, step)
    BY <1>3, <2>1, Iterated, Zenon
  <2> QED BY <2>2, Zenon DEF Trail
<1>5. g = [i \in 0..n |-> IF i = 0 THEN txos ELSE UndoTxs(un[i], g[i - 1], r(i))]
  <2>1. ASSUME NEW i \in 1..n
        PROVE  g[i] = UndoTxs(un[i], g[i - 1], r(i))
    <3>1. i - 1 \in 0..n
      BY <1>1
    <3> QED BY <1>4, <3>1, Zenon DEF step
  <2>2. \A i \in 0..n : i = 0 \/ i \in 1..n
    BY <1>1
  <2> QED BY <1>4, <2>1, <2>2, Zenon
<1> DEFINE f == CHOOSE h : h = [i \in 0..n |-> IF i = 0 THEN txos ELSE UndoTxs(un[i], h[i - 1], r(i))]
<1>6. f = [i \in 0..n |-> IF i = 0 THEN txos ELSE UndoTxs(un[i], f[i - 1], r(i))]
  BY <1>5, Zenon
<1>7. UndoAll(un) = f[n]
  BY Zenon DEF UndoAll, r
<1> HIDE DEF f
<1>8. f[0] = txos /\ \A i \in 1..n : f[i] = UndoTxs(un[i], f[i - 1], r(i))
  <2>1. \A i \in 1..n : i \in 0..n /\ i # 0
    OBVIOUS
  <2>2. 0 \in 0..n
    BY <1>1
  <2> QED BY <1>6, <2>1, <2>2, Zenon
<1> DEFINE good(m) == Unspent(f[m], Left(un, t, m), TRUE)
           Bad == {m \in 0..n : ~good(m)}
<1>9. good(0)
  BY <1>8, Zenon DEF Left
<1>10. ASSUME NEW m \in 1..n, good(m - 1) PROVE good(m)
  <2>1. Unspent(f[m - 1], un[m], TRUE)
    BY <1>2, <1>10, Zenon
  <2>2. Unspent(UndoTxs(un[m], f[m - 1], r(m)), Parent[un[m]], TRUE)
    BY <1>2, <2>1, UnspentUndone, Zenon
  <2> QED BY <1>2, <1>8, <2>2, Zenon
<1> HIDE DEF good
<1>11. Bad = {}
  <2> SUFFICES ASSUME Bad # {} PROVE FALSE
    BY Zenon
  <2>1. Bad \in SUBSET Nat
    BY <1>1
  <2>2. PICK m \in Bad : \A k \in Bad : m <= k
    BY <2>1, Least, Zenon
  <2>3. m \in 1..n /\ m - 1 \in 0..n /\ ~(m <= m - 1)
    BY <1>1, <1>9, <2>2
  <2> QED BY <1>10, <2>2, <2>3, Zenon
<1>12. good(n)
  BY <1>1, <1>11
<1> QED BY <1>7, <1>12, Zenon DEF good, Listed

-----------------------------------------------------------------------------
(* The log.                                                                *)

\* an applied block is the next entry
LEMMA LeadsApplied ==
  ASSUME NEW b \in Blocks, NEW w, NEW seq, Leads(w, seq, Parent[b])
  PROVE  Leads(Written(w, seq, <<Log("Apply", b)>>), seq + 1, b)
<1> DEFINE l == Log("Apply", b)
           v == Written(w, seq, <<l>>)
<1>1. seq \in Nat /\ DOMAIN w \subseteq Nat /\ \A n \in DOMAIN w : n < seq
  BY Zenon DEF Leads
<1>2. seq..(seq + Len(<<l>>) - 1) = {seq} /\ seq - seq + 1 = 1 /\ seq \notin DOMAIN w
  BY <1>1
<1>3. DOMAIN v = DOMAIN w \cup {seq} /\ v[seq] = l /\ \A n \in DOMAIN w : v[n] = w[n]
  BY <1>2 DEF Written
<1>4. l \in Logs /\ From(l) = Parent[b] /\ To(l) = b
  BY PointTypes, Zenon DEF Log, Logs, LogTypes, From, To
<1> HIDE DEF v, l
<1>5. ASSUME NEW n \in DOMAIN v
      PROVE  /\ n < seq + 1 /\ v[n] \in Logs /\ n \in Nat
             /\ IF n + 1 \in DOMAIN v THEN To(v[n]) = From(v[n + 1])
                ELSE n + 1 = seq + 1 /\ To(v[n]) = b
  <2>1. CASE n = seq
    <3>1. seq + 1 \notin DOMAIN v
      BY <1>1, <1>3
    <3> QED BY <1>1, <1>3, <1>4, <2>1, <3>1
  <2>2. CASE n \in DOMAIN w
    <3>1. n < seq /\ w[n] \in Logs /\ n \in Nat
      BY <2>2, Zenon DEF Leads
    <3>2. CASE n + 1 \in DOMAIN w
      BY <1>1, <1>3, <2>2, <3>1, <3>2 DEF Leads
    <3>3. CASE n + 1 \notin DOMAIN w
      <4>1. n + 1 = seq /\ To(w[n]) = Parent[b]
        BY <2>2, <3>3, Zenon DEF Leads
      <4> QED BY <1>1, <1>3, <1>4, <2>2, <3>1, <4>1
    <3> QED BY <3>2, <3>3, Zenon
  <2> QED BY <1>3, <2>1, <2>2, Zenon
<1>6. Leads(v, seq + 1, b)
  BY <1>1, <1>5 DEF Leads
<1> QED BY <1>6, Zenon DEF v, l

\* pruning keeps the end of the log
LEMMA LeadsPruned ==
  ASSUME NEW w, NEW seq, NEW t, Leads(w, seq, t), NEW before
  PROVE  Leads(Pruned(w, before), seq, t)
<1> DEFINE v == Pruned(w, before)
<1>1. DOMAIN v \subseteq DOMAIN w /\ \A n \in DOMAIN v : v[n] = w[n]
  BY Zenon DEF Pruned, Restrict
<1>2. ASSUME NEW n \in DOMAIN v, n + 1 \in DOMAIN w PROVE n + 1 \in DOMAIN v
  <2>1. PICK m \in DOMAIN w : m <= n /\ LogSlot(w[m]) >= before
    BY Zenon DEF Pruned, Restrict
  <2>2. m <= n + 1
    BY <1>1, <2>1 DEF Leads
  <2> QED BY <1>2, <2>1, <2>2, Zenon DEF Pruned, Restrict
<1> HIDE DEF v
<1>3. Leads(v, seq, t)
  BY <1>1, <1>2, Zenon DEF Leads
<1> QED BY <1>3, Zenon DEF v

\* a rollback walks down to its point, and marks it
LEMMA LeadsUndone ==
  ASSUME NEW w, NEW seq, NEW t, NEW p, NEW un, NEW mark \in Logs,
         Leads(w, seq, t), Listed(un, t, p), From(mark) = p, To(mark) = p
  PROVE  LET logs == Append([i \in DOMAIN un |-> Log("Undo", un[i])], mark)
         IN  Leads(Written(w, seq, logs), seq + Len(logs), p)
<1> DEFINE k == Len(un)
           undos == [i \in DOMAIN un |-> Log("Undo", un[i])]
           logs == Append(undos, mark)
           v == Written(w, seq, logs)
<1>1. seq \in Nat /\ DOMAIN w \subseteq Nat /\ \A n \in DOMAIN w : n < seq
  BY Zenon DEF Leads
<1>2. k \in Nat /\ DOMAIN un = 1..k /\ un \in Seq(Blocks)
  BY DEF Listed
<1>3. ASSUME NEW i \in 1..k
      PROVE  /\ Log("Undo", un[i]) \in Logs
             /\ From(Log("Undo", un[i])) = Left(un, t, i - 1) /\ To(Log("Undo", un[i])) = Left(un, t, i)
  <2>1. un[i] \in Blocks /\ un[i] = Left(un, t, i - 1)
    BY <1>2 DEF Listed
  <2>2. Left(un, t, i) = Parent[un[i]]
    BY DEF Left
  <2> QED BY <2>1, <2>2, PointTypes, Zenon DEF Log, Logs, LogTypes, From, To
<1>4. undos \in Seq(Logs) /\ Len(undos) = k
  BY <1>2, <1>3
<1>5. /\ Len(logs) = k + 1 /\ logs[k + 1] = mark
      /\ \A i \in 1..k : logs[i] = Log("Undo", un[i])
  BY <1>2, <1>4
<1> HIDE DEF logs
<1>6. /\ \A i \in 1..(k + 1) : logs[i] \in Logs /\ From(logs[i]) = Left(un, t, i - 1)
      /\ \A i \in 1..k : To(logs[i]) = Left(un, t, i)
      /\ To(logs[k + 1]) = p
  <2>1. Left(un, t, (k + 1) - 1) = p
    <3>1. (k + 1) - 1 = k
      BY <1>2
    <3> QED BY <3>1, Zenon DEF Listed
  <2>2. \A i \in 1..(k + 1) : i = k + 1 \/ i \in 1..k
    BY <1>2
  <2> QED BY <1>3, <1>5, <2>1, <2>2, Zenon
<1>7. /\ DOMAIN v = DOMAIN w \cup (seq..(seq + k))
      /\ \A n \in DOMAIN w : v[n] = w[n]
      /\ \A n \in seq..(seq + k) : v[n] = logs[n - seq + 1] /\ n - seq + 1 \in 1..(k + 1)
  <2>1. seq + Len(logs) - 1 = seq + k
    BY <1>1, <1>2, <1>5
  <2>2. \A n \in seq..(seq + k) : n \notin DOMAIN w /\ n - seq + 1 \in 1..(k + 1)
    BY <1>1, <1>2
  <2> QED BY <2>1, <2>2, Zenon DEF Written
<1> HIDE DEF v
<1>8. ASSUME NEW n \in DOMAIN v
      PROVE  /\ n < seq + (k + 1) /\ v[n] \in Logs /\ n \in Nat
             /\ IF n + 1 \in DOMAIN v THEN To(v[n]) = From(v[n + 1])
                ELSE n + 1 = seq + (k + 1) /\ To(v[n]) = p
  <2>1. CASE n \in DOMAIN w
    <3>1. n < seq /\ w[n] \in Logs /\ n \in Nat
      BY <2>1, Zenon DEF Leads
    <3>2. CASE n + 1 \in DOMAIN w
      BY <1>1, <1>2, <1>7, <2>1, <3>1, <3>2 DEF Leads
    <3>3. CASE n + 1 \notin DOMAIN w
      <4>1. n + 1 = seq /\ To(w[n]) = t
        BY <2>1, <3>3, Zenon DEF Leads
      <4>2. seq \in seq..(seq + k) /\ seq - seq + 1 = 1 /\ 1 \in 1..(k + 1) /\ 1 - 1 = 0
        BY <1>1, <1>2
      <4>3. From(v[seq]) = t
        BY <1>6, <1>7, <4>2 DEF Left
      <4> QED BY <1>1, <1>2, <1>7, <2>1, <3>1, <4>1, <4>2, <4>3
    <3> QED BY <3>2, <3>3, Zenon
  <2>2. CASE n \in seq..(seq + k)
    <3> DEFINE i == n - seq + 1
    <3>1. n \in Nat /\ n < seq + (k + 1) /\ i \in 1..(k + 1) /\ v[n] = logs[i] /\ (i + 1) - 1 = i
      BY <1>1, <1>2, <1>7, <2>2
    <3>2. CASE n = seq + k
      <4>1. i = k + 1 /\ n + 1 \notin DOMAIN v /\ n + 1 = seq + (k + 1)
        BY <1>1, <1>2, <1>7, <3>2
      <4> QED BY <1>6, <3>1, <4>1, Zenon
    <3>3. CASE n # seq + k
      <4>1. n + 1 \in seq..(seq + k) /\ (n + 1) - seq + 1 = i + 1 /\ i \in 1..k /\ i + 1 \in 1..(k + 1)
        BY <1>1, <1>2, <2>2, <3>3
      <4>2. v[n + 1] = logs[i + 1] /\ n + 1 \in DOMAIN v
        BY <1>7, <4>1
      <4>3. From(logs[i + 1]) = Left(un, t, i) /\ To(logs[i]) = Left(un, t, i)
        BY <1>6, <3>1, <4>1, Zenon
      <4> QED BY <1>6, <3>1, <4>2, <4>3, Zenon
    <3> QED BY <3>2, <3>3, Zenon
  <2> QED BY <1>7, <2>1, <2>2, Zenon
<1>9. Leads(v, seq + (k + 1), p)
  BY <1>1, <1>2, <1>8 DEF Leads
<1> QED BY <1>5, <1>9, Zenon DEF v, logs

-----------------------------------------------------------------------------
(* The roll stage.                                                         *)

LEMMA HeldTip ==
  ASSUME NEW t
  PROVE  /\ Holds(blocks, t) => Tip = t
         /\ Holds(blocks', t) => Tip' = t
<1>1. Tip = TipOf(blocks) /\ Tip' = TipOf(blocks')
  BY Zenon DEF Tip, TipOf
<1> QED BY <1>1, TipOfChain, Zenon

\* the rest of a table is the chain to p when what comes after p is removed
SlotsOf(bs) == {Slot[b] : b \in bs}

LEMMA RemainingSlots ==
  ASSUME NEW t \in Points, NEW p \in Ancestors[t], NEW un, Listed(un, t, p),
         NEW slots, slots = {Slot[un[i]] : i \in DOMAIN un}
  PROVE  SlotsOf(Chain(t)) \ slots = SlotsOf(Chain(p))
<1>1. slots = {Slot[b] : b \in Chain(t) \ Chain(p)}
  BY DEF Listed
<1>2. Chain(p) \subseteq Chain(t)
  BY AfterPoint, Zenon
<1>3. ASSUME NEW b \in Chain(p) PROVE Slot[b] \notin slots
  BY <1>1, <1>2, SlotsDiffer, Zenon DEF Chain
<1> QED BY <1>1, <1>2, <1>3, Zenon DEF SlotsOf

\* apply_block_with_context adds a block to the stored chain
LEMMA ApplyStore ==
  ASSUME StoreInv, NEW b \in Blocks, NEW tip \in Points, Parent[b] = Tip, Apply(b, tip)
  PROVE  StoreInv' /\ Tip' = b
<1> DEFINE P == Parent[b]
           m == Mutable(b, tip)
<1>1. /\ P \in Points /\ Chain(b) = Chain(P) \cup {b} /\ b \notin Chain(P) /\ Slot[b] \in Nat
      /\ \A c \in Chain(P) : Slot[c] # Slot[b] /\ c \in Blocks
  <2>1. \A c \in Chain(P) : Slot[c] < Slot[b] /\ c \in Blocks /\ Slot[c] \in Nat
    BY PointTypes, ChainOfBlock, Zenon DEF Chain
  <2> QED BY <2>1, PointTypes, ChainOfBlock
<1>2. /\ Holds(blocks, P) /\ Resolves(resolvers, P) /\ Unspent(txos, P, TRUE) /\ Leads(wal, nextSeq, P)
      /\ up = TRUE /\ up' = TRUE
  BY Zenon DEF StoreInv, Apply
<1>a. {Slot[c] : c \in Chain(b)} = {Slot[c] : c \in Chain(P)} \cup {Slot[b]}
  BY <1>1, Zenon
<1>3. Holds(blocks', b)
  <2>1. blocks' = [s \in DOMAIN blocks \cup {Slot[b]} |-> IF s = Slot[b] THEN b ELSE blocks[s]]
    BY Zenon DEF Apply
  <2>2. DOMAIN blocks' = {Slot[c] : c \in Chain(b)}
    <3>1. DOMAIN blocks' = DOMAIN blocks \cup {Slot[b]}
      BY <2>1, Zenon
    <3>2. DOMAIN blocks = {Slot[c] : c \in Chain(P)}
      BY <1>2, Zenon DEF Holds
    <3> QED BY <1>a, <3>1, <3>2, Zenon
  <2>3. ASSUME NEW c \in Chain(b) PROVE blocks'[Slot[c]] = c
    BY <1>1, <1>2, <2>1, Zenon DEF Holds
  <2>4. blocks' \in [{Slot[c] : c \in Chain(b)} -> Blocks]
    <3>1. \A s \in DOMAIN blocks' : blocks'[s] \in Blocks
      BY <1>1, <2>2, <2>3
    <3> QED BY <2>1, <2>2, <3>1, Zenon
  <2> QED BY <2>3, <2>4, PointTypes, Zenon DEF Holds
<1>4. Tip' = b
  BY <1>3, HeldTip, Zenon
<1>5. Resolves(resolvers', b)
  <2>1. resolvers' = [s \in DOMAIN resolvers \cup {Slot[b]} |->
                        IF s = Slot[b] THEN [block |-> b, txos |-> Resolved(b, txos)] ELSE resolvers[s]]
    BY Zenon DEF Apply
  <2>2. DOMAIN resolvers' = {Slot[c] : c \in Chain(b)}
    <3>1. DOMAIN resolvers' = DOMAIN resolvers \cup {Slot[b]}
      BY <2>1, Zenon
    <3>2. DOMAIN resolvers = {Slot[c] : c \in Chain(P)}
      BY <1>2, Zenon DEF Resolves
    <3> QED BY <1>a, <3>1, <3>2, Zenon
  <2>3. resolvers'[Slot[b]].block = b /\ resolvers'[Slot[b]].txos = Resolved(b, txos)
    BY <2>1, Zenon
  <2>4. \A o \in Required(b) : resolvers'[Slot[b]].txos[o] = CreatedAt(o, b)
    BY <1>2, <2>3, ResolvedIsCreated, Zenon
  <2>5. ASSUME NEW c \in Chain(P) PROVE resolvers'[Slot[c]] = resolvers[Slot[c]]
    BY <1>1, <1>2, <2>1, Zenon DEF Resolves
  <2> QED BY <1>1, <1>2, <2>2, <2>3, <2>4, <2>5, Zenon DEF Resolves
<1>6. Unspent(txos', b, TRUE)
  BY <1>2, UnspentApplied, Zenon DEF Apply
<1>7. m \in BOOLEAN /\ (mutable => m) /\ mutable' = m
  BY Zenon DEF Apply, Mutable, StoreInv
<1>8. Leads(wal', nextSeq', b) /\ (~m => DOMAIN wal' = {})
  <2>1. nextSeq' = nextSeq + 1 /\ nextSeq \in Nat
    BY <1>2, Zenon DEF Apply, Leads
  <2>2. CASE ~m
    <3>1. wal' = wal /\ DOMAIN wal = {}
      BY <1>7, <2>2, Zenon DEF Apply, StoreInv
    <3> QED BY <2>1, <3>1 DEF Leads
  <2>3. CASE m
    <3>1. Leads(Written(wal, nextSeq, <<Log("Apply", b)>>), nextSeq + 1, b)
      BY <1>2, LeadsApplied, Zenon
    <3>2. \/ wal' = Written(wal, nextSeq, <<Log("Apply", b)>>)
          \/ wal' = Pruned(Written(wal, nextSeq, <<Log("Apply", b)>>), Slot[b] - ImmutableAfter)
      BY <2>3, Zenon DEF Apply
    <3> QED BY <2>1, <2>3, <3>1, <3>2, LeadsPruned, Zenon
  <2> QED BY <1>7, <2>2, <2>3, Zenon
<1>9. lastHash' = HashAfter(b)
  BY ChainAssumption, Zenon DEF Apply, HashAfter
<1> HIDE DEF m
<1>10. HashAfter(Tip)' = HashAfter(Tip')
  BY Zenon DEF HashAfter
<1> QED BY <1>2, <1>3, <1>4, <1>5, <1>6, <1>7, <1>8, <1>9, <1>10, Zenon DEF StoreInv

\* rollback and rollback_to_origin leave the chain to their point
LEMMA UndoStore ==
  ASSUME StoreInv, NEW p \in Ancestors[Tip], NEW m \in BOOLEAN, mutable => m,
         NEW mark \in Logs, From(mark) = p, To(mark) = p, Undo(p, m, mark)
  PROVE  StoreInv' /\ Tip' = p
<1> DEFINE un == Undoes(p)
           slots == {Slot[un[i]] : i \in DOMAIN un}
           logs == Append([i \in DOMAIN un |-> Log("Undo", un[i])], mark)
<1>1. /\ blocks' = Restrict(blocks, DOMAIN blocks \ slots)
      /\ resolvers' = Restrict(resolvers, DOMAIN resolvers \ slots)
      /\ txos' = UndoAll(un)
      /\ wal' = IF m THEN Written(wal, nextSeq, logs) ELSE wal
      /\ nextSeq' = IF m THEN nextSeq + Len(logs) ELSE nextSeq
      /\ lastHash' = HashAfter(p) /\ mutable' = m /\ up' = up /\ up
  BY Zenon DEF Undo
<1> DEFINE t == Tip
<1>2. /\ Holds(blocks, t) /\ Resolves(resolvers, t) /\ Unspent(txos, t, TRUE)
      /\ Leads(wal, nextSeq, t) /\ t \in Points /\ up = TRUE
  BY <1>1, Zenon DEF StoreInv, Holds
<1>3. p \in Points /\ Chain(p) \subseteq Chain(t)
  BY <1>2, AfterPoint, Zenon
<1>4. Listed(un, t, p)
  BY <1>2, UndoesList, Zenon
<1> HIDE DEF un, t
<1>5. SlotsOf(Chain(t)) \ slots = SlotsOf(Chain(p))
  <2>1. slots = {Slot[un[i]] : i \in DOMAIN un} /\ p \in Ancestors[t]
    BY Zenon DEF t
  <2> HIDE DEF slots
  <2> QED BY <1>2, <1>4, <2>1, RemainingSlots
<1> HIDE DEF slots
<1>6. Holds(blocks', p)
  <2>1. blocks' = [s \in {Slot[b] : b \in Chain(p)} |-> blocks[s]]
    BY <1>1, <1>2, <1>5, Zenon DEF Holds, Restrict, SlotsOf
  <2> QED BY <1>2, <1>3, <2>1 DEF Holds
<1>7. Tip' = p
  BY <1>6, HeldTip, Zenon
<1>8. Resolves(resolvers', p)
  <2>1. resolvers' = [s \in {Slot[b] : b \in Chain(p)} |-> resolvers[s]]
    BY <1>1, <1>2, <1>5, Zenon DEF Resolves, Restrict, SlotsOf
  <2>2. DOMAIN resolvers' = {Slot[b] : b \in Chain(p)}
    BY <2>1, Zenon
  <2>3. \A b \in Chain(p) : resolvers'[Slot[b]] = resolvers[Slot[b]]
    BY <2>1, Zenon
  <2> QED BY <1>2, <1>3, <2>2, <2>3, Zenon DEF Resolves
<1>9. Unspent(txos', p, TRUE)
  BY <1>1, <1>2, <1>4, UndoAllLeaves, Zenon
<1>10. Leads(wal', nextSeq', p) /\ (~m => DOMAIN wal' = {})
  <2>1. CASE m
    <3>1. Leads(Written(wal, nextSeq, logs), nextSeq + Len(logs), p)
      BY <1>2, <1>4, LeadsUndone, Zenon
    <3> HIDE DEF logs
    <3> QED BY <1>1, <2>1, <3>1, Zenon
  <2>2. CASE ~m
    <3>1. wal' = wal /\ nextSeq' = nextSeq /\ DOMAIN wal = {}
      BY <1>1, <2>2, Zenon DEF StoreInv
    <3> QED BY <1>2, <2>2, <3>1, Zenon DEF Leads
  <2> QED BY <2>1, <2>2, Zenon
<1>11. HashAfter(Tip)' = HashAfter(Tip')
  BY Zenon DEF HashAfter
<1> HIDE DEF logs
<1>12. mutable' = m /\ up' = TRUE /\ lastHash' = HashAfter(p)
  BY <1>1, <1>2, Zenon
<1> QED BY <1>6, <1>7, <1>8, <1>9, <1>10, <1>11, <1>12, Zenon DEF StoreInv

\* the stored block at the slot of a rollback is its point
LEMMA AcceptedIsStored ==
  ASSUME StoreInv, NEW p \in Points, AcceptsRollback(p)
  PROVE  p \in Ancestors[Tip]
<1>1. CASE p = Origin
  BY <1>1, OriginIsFirst, Zenon DEF StoreInv, Holds
<1>2. CASE p # Origin
  <2>1. Slot[p] \in DOMAIN blocks /\ blocks[Slot[p]] = p
    BY <1>2, Zenon DEF AcceptsRollback
  <2>2. PICK b \in Chain(Tip) : Slot[b] = Slot[p]
    BY <2>1 DEF StoreInv, Holds
  <2>3. b = p
    BY <2>1, <2>2, Zenon DEF StoreInv, Holds
  <2> QED BY <2>2, <2>3, Zenon DEF Chain
<1> QED BY <1>1, <1>2, Zenon

LEMMA MutableType ==
  ASSUME StoreInv, NEW p, NEW tip
  PROVE  Mutable(p, tip) \in BOOLEAN /\ (mutable => Mutable(p, tip))
BY Zenon DEF StoreInv, Mutable

\* an event the roll stage takes leaves the store at its point
LEMMA RollStore ==
  ASSUME StoreInv, NEW e \in Events, Roll(e),
         e.type = "RollForward" => e.point \in Blocks /\ Parent[e.point] = Tip,
         e.type = "RollBackOrigin" => e.point = Origin
  PROVE  StoreInv' /\ Tip' = e.point
<1>1. e.type \in {"RollForward", "RollBack", "RollBackOrigin"} /\ e.point \in Points /\ e.tip \in Points
  BY Zenon DEF Events
<1>2. CASE e.type = "RollForward"
  BY <1>1, <1>2, ApplyStore, Zenon DEF Roll
<1>3. CASE e.type = "RollBack"
  <2> DEFINE p == e.point
  <2>1. Undo(p, Mutable(p, e.tip), Log("Mark", p))
    BY <1>3, Zenon DEF Roll, Rollback
  <2>2. AcceptsRollback(p)
    BY <2>1, Zenon DEF Undo
  <2>3. p \in Ancestors[Tip]
    BY <1>1, <2>2, AcceptedIsStored, Zenon
  <2>4. Log("Mark", p) \in Logs /\ From(Log("Mark", p)) = p /\ To(Log("Mark", p)) = p
    BY <1>1, Zenon DEF Log, Logs, LogTypes, From, To
  <2> QED BY <2>1, <2>3, <2>4, MutableType, UndoStore, Zenon
<1>4. CASE e.type = "RollBackOrigin"
  <2>1. Undo(Origin, Mutable(Origin, e.tip), Log("Origin", Origin)) /\ e.point = Origin
    BY <1>4, Zenon DEF Roll, RollbackToOrigin
  <2>2. Origin \in Ancestors[Tip]
    BY OriginIsFirst, Zenon DEF StoreInv, Holds
  <2>3. /\ Log("Origin", Origin) \in Logs
        /\ From(Log("Origin", Origin)) = Origin /\ To(Log("Origin", Origin)) = Origin
    BY PointTypes, Zenon DEF Log, Logs, LogTypes, From, To
  <2> QED BY <2>1, <2>2, <2>3, MutableType, UndoStore, Zenon
<1> QED BY <1>1, <1>2, <1>3, <1>4, Zenon

-----------------------------------------------------------------------------
(* The events on their way.                                                *)

\* when the first event is done, the others go on from where it led
LEMMA TailFollows ==
  ASSUME NEW q \in Seq(Events), q # <<>>, NEW t, NEW k, Follows(q, t, k)
  PROVE  /\ Tail(q) \in Seq(Events) /\ Len(Tail(q)) <= Len(q)
         /\ Follows(Tail(q), q[1].point, k) /\ End(Tail(q), q[1].point) = End(q, t)
<1> DEFINE r == Tail(q)
           n == Len(q)
<1>1. n \in Nat \ {0} /\ DOMAIN q = 1..n
  OBVIOUS
<1>2. r \in Seq(Events) /\ Len(r) = n - 1 /\ DOMAIN r = 1..(n - 1)
  BY <1>1
<1>3. \A i \in 1..(n - 1) : r[i] = q[i + 1] /\ i + 1 \in 1..n
  BY <1>1
<1> HIDE DEF r
<1>4. ASSUME NEW i \in 1..(n - 1)
      PROVE  Before(r, q[1].point, i) = Before(q, t, i + 1)
  <2>1. CASE i = 1
    BY <1>1, <2>1 DEF Before
  <2>2. CASE i # 1
    <3>1. i - 1 \in 1..(n - 1) /\ (i - 1) + 1 = i /\ (i + 1) - 1 = i /\ i + 1 # 1
      BY <1>1, <2>2
    <3> QED BY <1>3, <2>2, <3>1, Zenon DEF Before
  <2> QED BY <2>1, <2>2, Zenon
<1>5. Follows(r, q[1].point, k)
  <2> SUFFICES ASSUME NEW i \in DOMAIN r
               PROVE  /\ r[i].type = "RollForward" =>
                           r[i].point \in Blocks /\ Parent[r[i].point] = Before(r, q[1].point, i)
                      /\ r[i].type = "RollBackOrigin" => r[i].point = Origin
                      /\ r[i].type = "RollBack" =>
                           r[i].point \in Blocks /\ (~k => r[i].point \in Ancestors[Before(r, q[1].point, i)])
    BY Zenon DEF Follows
  <2>1. r[i] = q[i + 1] /\ i + 1 \in DOMAIN q /\ Before(r, q[1].point, i) = Before(q, t, i + 1)
    BY <1>1, <1>2, <1>3, <1>4, Zenon
  <2> QED BY <2>1, Zenon DEF Follows
<1>6. End(r, q[1].point) = End(q, t)
  <2>1. CASE n = 1
    <3>1. r = <<>>
      BY <1>2, <2>1
    <3> QED BY <1>1, <2>1, <3>1, Zenon DEF End
  <2>2. CASE n # 1
    <3>1. n - 1 \in 1..(n - 1) /\ (n - 1) + 1 = n /\ r # <<>>
      BY <1>1, <1>2, <2>2
    <3> QED BY <1>2, <1>3, <3>1, Zenon DEF End
  <2> QED BY <2>1, <2>2, Zenon
<1>7. Len(r) <= Len(q)
  BY <1>1, <1>2
<1> QED BY <1>2, <1>5, <1>6, <1>7, Zenon DEF r

\* an event that starts where the queue leads may be added to it
LEMMA AppendFollows ==
  ASSUME NEW q \in Seq(Events), NEW t, NEW k \in BOOLEAN, NEW j \in BOOLEAN, k => j, Follows(q, t, k),
         NEW e \in Events,
         e.type = "RollForward" => e.point \in Blocks /\ Parent[e.point] = End(q, t),
         e.type = "RollBackOrigin" => e.point = Origin,
         e.type = "RollBack" => e.point \in Blocks /\ (~j => e.point \in Ancestors[End(q, t)])
  PROVE  /\ Append(q, e) \in Seq(Events) /\ Len(Append(q, e)) = Len(q) + 1
         /\ Follows(Append(q, e), t, j) /\ End(Append(q, e), t) = e.point
<1> DEFINE r == Append(q, e)
           n == Len(q)
<1>1. n \in Nat /\ DOMAIN q = 1..n
  OBVIOUS
<1>2. r \in Seq(Events) /\ Len(r) = n + 1 /\ DOMAIN r = 1..(n + 1) /\ r[n + 1] = e
  BY <1>1
<1>3. \A i \in 1..n : r[i] = q[i]
  BY <1>1
<1>4. r # <<>>
  BY <1>1, <1>2
<1> HIDE DEF r
<1>5. \A i \in 1..n : Before(r, t, i) = Before(q, t, i)
  <2>1. \A i \in 1..n : i = 1 \/ i - 1 \in 1..n
    BY <1>1
  <2> QED BY <1>3, <2>1, Zenon DEF Before
<1>6. Before(r, t, n + 1) = End(q, t)
  <2>1. CASE n = 0
    <3>1. q = <<>> /\ n + 1 = 1
      BY <2>1
    <3> QED BY <3>1, Zenon DEF Before, End
  <2>2. CASE n # 0
    <3>1. n \in 1..n /\ (n + 1) - 1 = n /\ n + 1 # 1 /\ q # <<>>
      BY <1>1, <2>2
    <3> QED BY <1>3, <3>1, Zenon DEF Before, End
  <2> QED BY <2>1, <2>2, Zenon
<1>7. Follows(r, t, j)
  <2> SUFFICES ASSUME NEW i \in DOMAIN r
               PROVE  /\ r[i].type = "RollForward" =>
                           r[i].point \in Blocks /\ Parent[r[i].point] = Before(r, t, i)
                      /\ r[i].type = "RollBackOrigin" => r[i].point = Origin
                      /\ r[i].type = "RollBack" =>
                           r[i].point \in Blocks /\ (~j => r[i].point \in Ancestors[Before(r, t, i)])
    BY Zenon DEF Follows
  <2>1. i \in 1..n \/ i = n + 1
    BY <1>1, <1>2
  <2>2. CASE i \in 1..n
    BY <1>1, <1>3, <1>5, <2>2, Zenon DEF Follows
  <2>3. CASE i = n + 1
    BY <1>2, <1>6, <2>3, Zenon
  <2> QED BY <2>1, <2>2, <2>3, Zenon
<1>8. End(r, t) = e.point
  BY <1>2, <1>4, Zenon DEF End
<1> QED BY <1>2, <1>7, <1>8, Zenon DEF r

\* the queue leads to a point
LEMMA EndType ==
  ASSUME NEW q \in Seq(Events), NEW t \in Points
  PROVE  End(q, t) \in Points
<1>1. CASE q = <<>>
  BY <1>1, Zenon DEF End
<1>2. CASE q # <<>>
  <2>1. Len(q) \in DOMAIN q
    BY <1>2
  <2>2. q[Len(q)] \in Events
    BY <2>1
  <2> QED BY <1>2, <2>2, Zenon DEF End, Events
<1> QED BY <1>1, <1>2, Zenon

-----------------------------------------------------------------------------
(* The node, and the breadcrumbs.                                          *)

\* the node has a next block for a pointer that is on its chain
LEMMA NextBlock ==
  ASSUME NEW c \in Points, NEW p \in Ancestors[c], p # c
  PROVE  \E b \in Ancestors[c] \ {Origin} : Parent[b] = p
<1> DEFINE D == Chain(c) \ Chain(p)
           S == {Slot[b] : b \in D}
<1>1. c \in Ancestors[c] /\ p \in Points /\ Slot[p] <= Slot[c] /\ Slot[p] \in Nat /\ Slot[c] \in Nat
  BY PointTypes, ChainsAreOrdered, Zenon
<1>2. Slot[p] # Slot[c]
  BY <1>1, SlotsDiffer, Zenon
<1>3. c # Origin
  BY ChainAssumption, Zenon
<1>4. c \in D
  <2>1. Slot[c] > Slot[p] /\ c \in Chain(c)
    BY <1>1, <1>2, <1>3 DEF Chain
  <2> QED BY <2>1, AfterPoint, Zenon
<1>5. S \in SUBSET Nat /\ S # {}
  BY <1>4, PointTypes, Zenon
<1>6. PICK s \in S : \A x \in S : s <= x
  BY <1>5, Least, Zenon
<1>7. PICK b \in D : Slot[b] = s
  BY <1>6, Zenon
<1>8. b \in Blocks /\ Slot[Parent[b]] < Slot[b] /\ Slot[b] \in Nat /\ Slot[Parent[b]] \in Nat
  BY PointTypes, Zenon
<1>9. Parent[b] \notin D
  <2>1. ~(Slot[b] <= Slot[Parent[b]])
    BY <1>8
  <2> QED BY <1>6, <1>7, <2>1, Zenon
<1>10. Parent[b] = p
  BY <1>7, <1>9, NextBelow, Zenon
<1> QED BY <1>7, <1>10, Zenon DEF Chain

\* two chains part at a point of both
LEMMA ForkType ==
  ASSUME NEW p \in Points, NEW q \in Points
  PROVE  Fork(p, q) \in Ancestors[p] /\ Fork(p, q) \in Ancestors[q]
<1> DEFINE D == Ancestors[p] \cap Ancestors[q]
           S == {Slot[x] : x \in D}
<1>1. Origin \in D
  BY OriginIsFirst, Zenon
<1>2. \A x \in D : Slot[x] \in Nat /\ Slot[x] <= Slot[p]
  BY PointTypes, ChainsAreOrdered, Zenon
<1>3. Slot[p] \in Nat
  BY PointTypes, Zenon
<1>4. S \in SUBSET (0..Slot[p]) /\ S # {}
  BY <1>1, <1>2, <1>3
<1>5. PICK s \in S : \A x \in S : x <= s
  BY <1>3, <1>4, Greatest, Zenon
<1>6. \E x \in D : \A y \in D : Slot[y] <= Slot[x]
  BY <1>5, Zenon
<1>7. Fork(p, q) \in D
  BY <1>6, Zenon DEF Fork
<1> QED BY <1>7, Zenon

\* find_intersect ends at a point the queue leads to or passes
LEMMA IntersectTracks ==
  ASSUME chain \in Points, NEW cr \in Seq(Blocks), NEW e \in Points
  PROVE  /\ Intersect(cr) \in [at : Points, confirmed : BOOLEAN] /\ ~Intersect(cr).confirmed
         /\ Shadowed(cr, e) => Intersect(cr).at \in Ancestors[e]
<1> DEFINE found == {i \in DOMAIN cr : cr[i] \in Ancestors[chain]}
           at == IF found = {} THEN Origin ELSE cr[Min(found)]
<1>1. Intersect(cr) = [at |-> at, confirmed |-> FALSE]
  BY Zenon DEF Intersect
<1>2. found \in SUBSET Nat
  OBVIOUS
<1>3. CASE found = {}
  <2>1. at = Origin
    BY <1>3, Zenon
  <2> HIDE DEF at
  <2> QED BY <1>1, <2>1, OriginIsFirst, PointTypes
<1>4. CASE found # {}
  <2> DEFINE j == Min(found)
  <2>1. j \in found /\ \A i \in found : j <= i
    BY <1>2, <1>4, MinProperties, Zenon
  <2> HIDE DEF j
  <2>2. at = cr[j] /\ j \in DOMAIN cr /\ cr[j] \in Ancestors[chain] /\ cr[j] \in Points
    BY <1>4, <2>1, PointTypes, Zenon DEF j
  <2>3. ASSUME Shadowed(cr, e) PROVE cr[j] \in Ancestors[e]
    <3> SUFFICES ASSUME NEW i \in 1..(j - 1), cr[i] \in Ancestors[cr[j]] PROVE FALSE
      BY <2>2, <2>3, Zenon DEF Shadowed
    <3>1. i \in DOMAIN cr /\ ~(j <= i)
      BY <2>2
    <3>2. cr[i] \in Ancestors[chain]
      BY <2>2, ChainsAreOrdered, Zenon
    <3> QED BY <2>1, <3>1, <3>2, Zenon
  <2> HIDE DEF at
  <2> QED BY <1>1, <2>2, <2>3
<1> QED BY <1>3, <1>4, Zenon

\* a breadcrumb for the next point keeps the others behind it
LEMMA ShadowedAdded ==
  ASSUME NEW cr \in Seq(Blocks), NEW e \in Points, Shadowed(cr, e), NEW p \in Blocks,
         p \in Ancestors[e] \/ e \in Ancestors[p],
         NEW all \in Seq(Blocks), all[1] = p,
         \A j \in DOMAIN all : j # 1 => j - 1 \in DOMAIN cr /\ all[j] = cr[j - 1]
  PROVE  Shadowed(all, p)
<1> SUFFICES ASSUME NEW j \in DOMAIN all
             PROVE  all[j] \in Ancestors[p] \/ \E i \in 1..(j - 1) : all[i] \in Ancestors[all[j]]
  BY Zenon DEF Shadowed
<1>0. p \in Points /\ p \in Ancestors[p]
  BY PointTypes, ChainsAreOrdered, Zenon
<1>1. CASE j = 1
  BY <1>0, <1>1, Zenon
<1>2. CASE j # 1
  <2>1. j - 1 \in DOMAIN cr /\ all[j] = cr[j - 1] /\ 1 \in 1..(j - 1) /\ j \in Nat
    BY <1>2
  <2>2. CASE cr[j - 1] \in Ancestors[e]
    <3>1. CASE e \in Ancestors[p]
      BY <1>0, <2>1, <2>2, <3>1, ChainsAreOrdered, Zenon
    <3>2. CASE p \in Ancestors[e]
      BY <2>1, <2>2, <3>2, OneLine, Zenon
    <3> QED BY <3>1, <3>2, Zenon
  <2>3. CASE \E i \in 1..((j - 1) - 1) : cr[i] \in Ancestors[cr[j - 1]]
    <3>1. PICK i \in 1..((j - 1) - 1) : cr[i] \in Ancestors[cr[j - 1]]
      BY <2>3, Zenon
    <3>2. i + 1 \in 1..(j - 1) /\ i + 1 \in DOMAIN all /\ i + 1 # 1 /\ (i + 1) - 1 = i
      BY <2>1
    <3>3. all[i + 1] = cr[i]
      BY <3>2, Zenon
    <3> QED BY <2>1, <3>1, <3>2, <3>3, Zenon
  <2> QED BY <2>1, <2>2, <2>3, Zenon DEF Shadowed
<1> QED BY <1>1, <1>2, Zenon

LEMMA CrumbBound ==
  /\ Max({MaxCrumbs, Len(Offered)}) \in Nat /\ MaxCrumbs <= Max({MaxCrumbs, Len(Offered)})
  /\ 5 <= Max({MaxCrumbs, Len(Offered)})
<1> DEFINE S == {MaxCrumbs, 5}
<1>1. Len(Offered) = 5
  BY Zenon DEF Offered
<1>2. MaxCrumbs + 5 \in Nat /\ MaxCrumbs \in Nat /\ S \in SUBSET (0..(MaxCrumbs + 5)) /\ S # {}
  BY SyncConstants
<1>3. Max(S) \in S /\ \A x \in S : x <= Max(S)
  BY <1>2, MaxProperties, Zenon
<1> HIDE DEF S
<1>4. MaxCrumbs \in S /\ 5 \in S /\ S \subseteq Nat
  BY <1>2 DEF S
<1>5. Max(S) \in Nat /\ MaxCrumbs <= Max(S) /\ 5 <= Max(S)
  BY <1>3, <1>4, Zenon
<1> QED BY <1>1, <1>5, Zenon DEF S

\* add_breadcrumb adds in front and drops at the end
LEMMA CrumbAdded ==
  ASSUME crumbs \in Seq(Blocks), Len(crumbs) <= Max({MaxCrumbs, Len(Offered)}), NEW p \in Points
  PROVE  /\ add_breadcrumb(p) \in Seq(Blocks)
         /\ Len(add_breadcrumb(p)) <= Max({MaxCrumbs, Len(Offered)})
         /\ p = Origin => add_breadcrumb(p) = crumbs
         /\ \A e \in Points : /\ p \in Blocks /\ Shadowed(crumbs, e)
                              /\ p \in Ancestors[e] \/ e \in Ancestors[p]
                              => Shadowed(add_breadcrumb(p), p)
<1>1. CASE p = Origin
  BY <1>1, ChainAssumption, Zenon DEF add_breadcrumb
<1>2. CASE p \in Blocks
  <2> DEFINE all == <<p>> \o crumbs
             cr == add_breadcrumb(p)
             n == Len(crumbs)
             B == Max({MaxCrumbs, Len(Offered)})
  <2>1. p # Origin /\ n \in Nat /\ n <= B /\ B \in Nat /\ MaxCrumbs <= B /\ MaxCrumbs \in Nat
    BY <1>2, ChainAssumption, CrumbBound, SyncConstants
  <2>2. /\ all \in Seq(Blocks) /\ Len(all) = n + 1 /\ all[1] = p
        /\ \A j \in 1..(n + 1) : j # 1 => j - 1 \in DOMAIN crumbs /\ all[j] = crumbs[j - 1]
    BY <1>2, <2>1
  <2> HIDE DEF all, B
  <2>3. cr = IF Len(all) > MaxCrumbs THEN SubSeq(all, 1, Len(all) - 1) ELSE all
    BY <2>1, Zenon DEF add_breadcrumb, all
  <2>4. /\ cr \in Seq(Blocks) /\ Len(cr) <= B /\ Len(cr) <= n + 1
        /\ \A j \in 1..Len(cr) : cr[j] = all[j]
        /\ Len(cr) # 0
    <3>1. CASE Len(all) > MaxCrumbs
      <4>1. cr = SubSeq(all, 1, n)
        BY <2>1, <2>2, <2>3, <3>1
      <4>2. n # 0
        BY <2>1, <2>2, <3>1, SyncConstants
      <4>3. Len(cr) = n /\ cr \in Seq(Blocks) /\ \A j \in 1..n : cr[j] = all[j]
        BY <2>1, <2>2, <4>1
      <4> QED BY <2>1, <4>2, <4>3
    <3>2. CASE ~(Len(all) > MaxCrumbs)
      <4>1. cr = all
        BY <2>3, <3>2, Zenon
      <4>2. Len(all) <= B
        BY <2>1, <2>2, <3>2
      <4> QED BY <2>1, <2>2, <4>1, <4>2
    <3> QED BY <3>1, <3>2, Zenon
  <2> HIDE DEF cr
  <2>5. /\ cr[1] = p
        /\ \A j \in DOMAIN cr : j # 1 => j - 1 \in DOMAIN crumbs /\ cr[j] = crumbs[j - 1]
    <3>1. DOMAIN cr = 1..Len(cr) /\ Len(cr) \in Nat
      BY <2>4
    <3>2. 1 \in 1..Len(cr) /\ \A j \in 1..Len(cr) : j \in 1..(n + 1)
      BY <2>1, <2>4, <3>1
    <3> QED BY <2>2, <2>4, <3>1, <3>2, Zenon
  <2>6. ASSUME NEW e \in Points, Shadowed(crumbs, e), p \in Ancestors[e] \/ e \in Ancestors[p]
        PROVE  Shadowed(cr, p)
    BY <1>2, <2>4, <2>5, <2>6, ShadowedAdded, Zenon
  <2> QED BY <2>1, <2>4, <2>6, Zenon DEF cr, B
<1> QED BY <1>1, <1>2, Zenon DEF Points

-----------------------------------------------------------------------------
(* The steps.                                                              *)

LEMMA EmptyLists == <<>> \in Seq(Blocks) /\ <<>> \in Seq(Events)
OBVIOUS

LEMMA StoreUnchanged ==
  ASSUME StoreInv, UNCHANGED roll
  PROVE  StoreInv' /\ Tip' = Tip /\ up' = up
<1>1. /\ blocks' = blocks /\ resolvers' = resolvers /\ txos' = txos /\ wal' = wal
      /\ nextSeq' = nextSeq /\ lastHash' = lastHash /\ mutable' = mutable /\ up' = up
  BY Zenon DEF roll, db
<1>2. Tip' = Tip
  BY <1>1, Zenon DEF Tip
<1>3. HashAfter(Tip)' = HashAfter(Tip')
  BY Zenon DEF HashAfter
<1> QED BY <1>1, <1>2, <1>3, Zenon DEF StoreInv

\* nothing is stored at the start
LEMMA InitSync == Init => SyncInv
<1> SUFFICES ASSUME Init PROVE SyncInv
  BY Zenon
<1>1. Chain(Origin) = {} /\ Origin \in Ancestors[Origin]
  BY ChainAssumption, Zenon DEF Chain
<1>2. Holds(blocks, Origin)
  BY <1>1, PointTypes DEF Init, OpenInit, Holds
<1>3. Tip = Origin
  BY <1>2, HeldTip, Zenon
<1>4. Resolves(resolvers, Origin)
  <2>1. DOMAIN resolvers = {}
    BY DEF Init, OpenInit
  <2> QED BY <1>1, <2>1, Zenon DEF Resolves
<1>5. Unspent(txos, Origin, FALSE)
  <2>1. \A o : ConsumedAt(o, Origin) = {} /\ ProducedAt(o, Origin) = {}
    BY <1>1, Zenon DEF ConsumedAt, ProducedAt
  <2> QED BY <2>1, Zenon DEF Init, OpenInit, Unspent, UnspentAt, CreatedAt, Txo
<1>6. Leads(wal, nextSeq, Origin) /\ DOMAIN wal = {}
  BY DEF Init, OpenInit, Leads
<1>7. StoreInv
  BY <1>2, <1>3, <1>4, <1>5, <1>6, Zenon DEF Init, OpenInit, StoreInv
<1>8. /\ session = [at |-> Origin, confirmed |-> FALSE] /\ crumbs = <<>> /\ queue = <<>>
      /\ kept = FALSE /\ chain \in Points
  BY Zenon DEF Init
<1>9. Follows(queue, Origin, kept) /\ End(queue, Origin) = Origin
  BY <1>8 DEF Follows, End
<1>10. Tracks(session, crumbs, Origin, kept)
  BY <1>1, <1>8 DEF Tracks, Shadowed
<1>11. Len(crumbs) <= Max({MaxCrumbs, Len(Offered)}) /\ Len(queue) <= QueueLen
  BY <1>8, CrumbBound, SyncConstants
<1>12. PullInv
  <2>1. session \in [at : Points, confirmed : BOOLEAN] /\ kept \in BOOLEAN
    BY <1>8, PointTypes, Zenon
  <2> QED BY <1>3, <1>8, <1>9, <1>10, <1>11, <2>1, EmptyLists, Zenon DEF PullInv
<1> QED BY <1>7, <1>12, Zenon DEF SyncInv

\* whatever ends the process leaves the store as it is
LEMMA HaltSync ==
  ASSUME SyncInv, Halt
  PROVE  SyncInv'
<1>1. /\ up' = FALSE /\ wal' = <<>> /\ nextSeq' = 1 /\ lastHash' = None /\ mutable' = FALSE
      /\ blocks' = blocks /\ resolvers' = resolvers /\ txos' = txos
      /\ session' = [at |-> Origin, confirmed |-> FALSE] /\ crumbs' = <<>> /\ queue' = <<>>
      /\ kept' = FALSE /\ chain' = chain
  BY Zenon DEF Halt, Close, db
<1>2. Tip' = Tip
  BY <1>1, Zenon DEF Tip
<1>3. Leads(wal', nextSeq', Tip) /\ DOMAIN wal' = {}
  BY <1>1 DEF Leads
<1>4. Unspent(txos, Tip, FALSE)
  BY Zenon DEF SyncInv, StoreInv, Unspent
<1>5. StoreInv'
  <2>1. Holds(blocks, Tip) /\ Resolves(resolvers, Tip)
    BY Zenon DEF SyncInv, StoreInv
  <2> QED BY <1>1, <1>2, <1>3, <1>4, <2>1, Zenon DEF StoreInv
<1>6. Follows(queue', Tip, kept') /\ End(queue', Tip) = Tip
  BY <1>1 DEF Follows, End
<1>7. Tracks(session', crumbs', Tip, kept')
  BY <1>1, OriginIsFirst DEF Tracks, Shadowed, SyncInv, StoreInv, Holds
<1>8. Len(crumbs') <= Max({MaxCrumbs, Len(Offered)}) /\ Len(queue') <= QueueLen
  BY <1>1, CrumbBound, SyncConstants
<1>9. PullInv'
  <2>1. chain' \in Points
    BY <1>1, Zenon DEF SyncInv, PullInv
  <2>2. session' \in [at : Points, confirmed : BOOLEAN] /\ kept' \in BOOLEAN
    BY <1>1, PointTypes, Zenon
  <2> QED BY <1>1, <1>2, <1>6, <1>7, <1>8, <2>1, <2>2, EmptyLists, Zenon DEF PullInv
<1> QED BY <1>5, <1>9, Zenon DEF SyncInv

\* what the pull stage offers after a start is on the stored chain
LEMMA OptionsAreStored ==
  ASSUME NEW t, Holds(blocks, t)
  PROVE  /\ IntersectOptions \in Seq(Blocks) /\ Len(IntersectOptions) <= 5
         /\ Shadowed(IntersectOptions, t)
<1> DEFINE stored == StoredAfter(-1)
           L == Len(stored)
           reached == {i \in DOMAIN Offered : Offered[i] <= L}
<1>1. Listed(stored, t, Origin)
  <2>1. Origin \in Ancestors[t]
    BY OriginIsFirst, Zenon DEF Holds
  <2> QED BY <2>1, UndoesList, Zenon DEF Undoes
<1>2. stored \in Seq(Blocks) /\ \A i \in DOMAIN stored : stored[i] \in Ancestors[t]
  BY <1>1, Zenon DEF Listed, Chain
<1>3. IntersectOptions = [i \in reached |-> stored[Offered[i]]]
  BY Zenon DEF IntersectOptions
<1> HIDE DEF stored
<1>4. L \in Nat /\ DOMAIN stored = 1..L
  BY <1>2
<1>5. /\ DOMAIN Offered = 1..5 /\ Offered[1] = 1 /\ Offered[2] = 3 /\ Offered[3] = 7
      /\ Offered[4] = 15 /\ Offered[5] = 31
  BY DEF Offered
<1>6. \E k \in 0..5 : reached = 1..k
  <2>1. \A i, j \in 1..5 : i <= j => Offered[i] <= Offered[j] /\ Offered[i] \in Nat /\ Offered[j] \in Nat
    BY <1>5
  <2>2. \A j \in reached : \A i \in 1..j : i \in reached /\ j \in 1..5
    <3> SUFFICES ASSUME NEW j \in reached, NEW i \in 1..j PROVE i \in reached /\ j \in 1..5
      BY Zenon
    <3>1. j \in 1..5 /\ i \in 1..5 /\ i <= j /\ Offered[j] <= L
      BY <1>5
    <3>2. Offered[i] <= L
      BY <1>4, <2>1, <3>1
    <3> QED BY <1>5, <3>1, <3>2, Zenon
  <2>3. reached \subseteq 1..5
    BY <1>5, Zenon
  <2> HIDE DEF reached
  <2>4. CASE reached = {}
    <3>1. reached = 1..0 /\ 0 \in 0..5
      BY <2>4
    <3> QED BY <3>1, Zenon
  <2>5. CASE reached # {}
    <3>1. reached \in SUBSET (0..5) /\ 5 \in Nat
      BY <2>3
    <3>2. PICK k \in reached : \A i \in reached : i <= k
      BY <2>5, <3>1, Greatest, Zenon
    <3>3. k \in 1..5 /\ k \in 0..5
      BY <2>3, <3>2
    <3>4. 1..k \subseteq reached
      BY <2>2, <3>2, Zenon
    <3>5. \A i \in reached : i \in Int /\ 1 <= i
      BY <2>3
    <3>6. reached \subseteq 1..k
      BY <3>2, <3>3, <3>5
    <3>7. reached = 1..k
      BY <3>4, <3>6, Zenon
    <3> QED BY <3>3, <3>7, Zenon
  <2> QED BY <2>4, <2>5, Zenon
<1>7. \A i \in reached : Offered[i] \in DOMAIN stored
  <2>1. \A i \in 1..5 : Offered[i] \in Nat \ {0}
    BY DEF Offered
  <2> QED BY <1>4, <1>5, <2>1
<1>8. PICK k \in 0..5 : reached = 1..k
  BY <1>6, Zenon
<1> HIDE DEF reached
<1>9. \A i \in 1..k : IntersectOptions[i] \in Blocks /\ IntersectOptions[i] \in Ancestors[t]
  BY <1>2, <1>3, <1>7, <1>8
<1>10. IntersectOptions = [i \in 1..k |-> IntersectOptions[i]]
  BY <1>3, <1>8, Zenon
<1>11. IntersectOptions \in Seq(Blocks) /\ Len(IntersectOptions) = k /\ DOMAIN IntersectOptions = 1..k
  <2>1. [i \in 1..k |-> IntersectOptions[i]] \in Seq(Blocks)
    BY <1>9
  <2> QED BY <1>10, <2>1
<1> QED BY <1>9, <1>11 DEF Shadowed

\* a start
LEMMA StartSync ==
  ASSUME SyncInv, Start
  PROVE  SyncInv'
<1>1. /\ up' = TRUE /\ txos' = Seeded(txos) /\ lastHash' = HashAfter(Tip)
      /\ blocks' = blocks /\ resolvers' = resolvers /\ wal' = wal /\ nextSeq' = nextSeq
      /\ mutable' = mutable /\ chain' = chain
      /\ crumbs' = IntersectOptions /\ session' = Intersect(crumbs')
      /\ queue' = <<>> /\ kept' = FALSE
  BY Zenon DEF Start, Open, HashAfter
<1>2. Tip' = Tip
  BY <1>1, Zenon DEF Tip
<1>3. Unspent(txos', Tip, TRUE)
  BY <1>1, Zenon DEF SyncInv, StoreInv, Unspent, Seeded, Txo
<1>4. HashAfter(Tip)' = HashAfter(Tip')
  BY Zenon DEF HashAfter
<1>5. StoreInv'
  <2>1. /\ Holds(blocks, Tip) /\ Resolves(resolvers, Tip) /\ Leads(wal, nextSeq, Tip)
        /\ mutable \in BOOLEAN /\ (~mutable => DOMAIN wal = {})
    BY Zenon DEF SyncInv, StoreInv
  <2> QED BY <1>1, <1>2, <1>3, <1>4, <2>1, Zenon DEF StoreInv
<1>6. crumbs' \in Seq(Blocks) /\ Len(crumbs') <= 5 /\ Shadowed(crumbs', Tip) /\ Tip \in Points
  BY <1>1, OptionsAreStored, Zenon DEF SyncInv, StoreInv, Holds
<1>7. /\ session' \in [at : Points, confirmed : BOOLEAN] /\ ~session'.confirmed
      /\ session'.at \in Ancestors[Tip]
  <2>1. chain \in Points
    BY Zenon DEF SyncInv, PullInv
  <2> QED BY <1>1, <1>6, <2>1, IntersectTracks, Zenon
<1>8. Follows(queue', Tip, kept') /\ End(queue', Tip) = Tip
  BY <1>1 DEF Follows, End
<1>9. Tracks(session', crumbs', Tip, kept')
  BY <1>6, <1>7, Zenon DEF Tracks
<1>10. Len(crumbs') <= Max({MaxCrumbs, Len(Offered)}) /\ Len(queue') <= QueueLen
  BY <1>1, <1>6, CrumbBound, SyncConstants
<1>11. PullInv'
  <2>1. chain' \in Points /\ queue' \in Seq(Events) /\ kept' \in BOOLEAN
    BY <1>1, EmptyLists, Zenon DEF SyncInv, PullInv
  <2> QED BY <1>1, <1>2, <1>6, <1>7, <1>8, <1>9, <1>10, <2>1, Zenon DEF PullInv
<1> QED BY <1>5, <1>11, Zenon DEF SyncInv

\* The pull stage sends what starts where the queue leads.
LEMMA SendSync ==
  ASSUME SyncInv, NEW type \in {"RollForward", "RollBack", "RollBackOrigin"}, NEW p \in Points,
         Send(type, p),
         type = "RollForward" => p \in Blocks /\ Parent[p] = End(queue, Tip),
         type = "RollBackOrigin" => p = Origin,
         type = "RollBack" => p \in Blocks,
         type # "RollForward" /\ ~kept => p \in Ancestors[End(queue, Tip)]
  PROVE  SyncInv'
<1> DEFINE E == End(queue, Tip)
           e == Event(type, p)
<1>1. /\ up /\ Len(queue) < QueueLen /\ queue' = Append(queue, e)
      /\ session' = [at |-> p, confirmed |-> TRUE] /\ crumbs' = add_breadcrumb(p)
      /\ kept' = (kept \/ (p = Origin /\ crumbs # <<>>))
      /\ chain' = chain /\ UNCHANGED roll
  BY Zenon DEF Send
<1>2. StoreInv' /\ Tip' = Tip /\ up' = up
  BY <1>1, StoreUnchanged, Zenon DEF SyncInv
<1>3. /\ chain \in Points /\ kept \in BOOLEAN /\ crumbs \in Seq(Blocks)
      /\ Len(crumbs) <= Max({MaxCrumbs, Len(Offered)}) /\ queue \in Seq(Events)
      /\ Follows(queue, Tip, kept) /\ Tracks(session, crumbs, E, kept) /\ Tip \in Points
  BY Zenon DEF SyncInv, PullInv, StoreInv, Holds
<1>4. E \in Points
  BY <1>3, EndType, Zenon
<1> HIDE DEF E
<1>5. e \in Events /\ e.type = type /\ e.point = p
  BY <1>3, Zenon DEF Event, Events
<1>6. kept' \in BOOLEAN /\ (kept => kept')
  BY <1>1, <1>3, Zenon
<1> HIDE DEF e
<1>7. /\ queue' \in Seq(Events) /\ Len(queue') = Len(queue) + 1
      /\ Follows(queue', Tip, kept') /\ End(queue', Tip) = p
  BY <1>1, <1>3, <1>5, <1>6, AppendFollows, ZenonT(30) DEF E
<1>8. Len(queue') <= QueueLen
  BY <1>1, <1>3, <1>7, SyncConstants
<1>9. crumbs' \in Seq(Blocks) /\ Len(crumbs') <= Max({MaxCrumbs, Len(Offered)})
  BY <1>1, <1>3, CrumbAdded, Zenon
<1>10. Tracks(session', crumbs', p, kept')
  <2>1. p \in Ancestors[p]
    BY ChainsAreOrdered, Zenon
  <2>2. ASSUME ~kept' PROVE Shadowed(crumbs', p)
    <3>1. ~kept /\ (p # Origin \/ crumbs = <<>>)
      BY <1>1, <2>2, Zenon
    <3>2. CASE p = Origin
      <4>1. crumbs' = <<>>
        BY <1>1, <1>3, <3>1, <3>2, CrumbAdded, Zenon
      <4> QED BY <4>1 DEF Shadowed
    <3>3. CASE p # Origin
      <4>1. p \in Blocks
        BY <3>3, Zenon DEF Points
      <4>2. Shadowed(crumbs, E)
        BY <1>3, <3>1, Zenon DEF Tracks
      <4>3. p \in Ancestors[E] \/ E \in Ancestors[p]
        <5>1. CASE type = "RollForward"
          BY <4>1, <5>1, <1>4, ChainOfBlock, ChainsAreOrdered DEF E
        <5>2. CASE type # "RollForward"
          BY <3>1, <5>2, Zenon DEF E
        <5> QED BY <5>1, <5>2, Zenon
      <4> QED BY <1>1, <1>3, <1>4, <4>1, <4>2, <4>3, CrumbAdded, Zenon
    <3> QED BY <3>2, <3>3, Zenon
  <2>3. session'.at = p
    BY <1>1, Zenon
  <2> QED BY <2>1, <2>2, <2>3, Zenon DEF Tracks
<1>11. PullInv'
  <2>1. session' \in [at : Points, confirmed : BOOLEAN] /\ chain' \in Points
    BY <1>1, <1>3, Zenon
  <2> QED BY <1>1, <1>2, <1>6, <1>7, <1>8, <1>9, <1>10, <2>1, Zenon DEF PullInv
<1> QED BY <1>2, <1>11, Zenon DEF SyncInv

LEMMA PullSync ==
  ASSUME SyncInv, PullForward \/ PullBack
  PROVE  SyncInv'
<1> DEFINE E == End(queue, Tip)
<1>1. /\ chain \in Points /\ session.at \in Points /\ (session.confirmed => session.at = E)
      /\ ~kept => session.at \in Ancestors[E]
      /\ E \in Points
  <2>1. Tip \in Points /\ queue \in Seq(Events)
    BY Zenon DEF SyncInv, PullInv, StoreInv, Holds
  <2> QED BY <2>1, EndType, Zenon DEF SyncInv, PullInv, Tracks
<1>2. CASE PullForward
  <2> DEFINE b == CHOOSE b \in Ancestors[chain] \ {Origin} : Parent[b] = session.at
  <2>1. /\ session.confirmed /\ session.at \in Ancestors[chain] /\ session.at # chain
        /\ Send("RollForward", b)
    BY <1>2, Zenon DEF PullForward
  <2>2. b \in Ancestors[chain] \ {Origin} /\ Parent[b] = session.at
    BY <1>1, <2>1, NextBlock
  <2> HIDE DEF b
  <2>3. b \in Blocks /\ b \in Points /\ Parent[b] = E
    BY <1>1, <2>1, <2>2, PointTypes, Zenon DEF Points
  <2> QED BY <2>1, <2>3, SendSync, Zenon
<1>3. CASE PullBack
  <2> DEFINE p == Fork(session.at, chain)
             type == IF p = Origin THEN "RollBackOrigin" ELSE "RollBack"
  <2>1. Send(type, p)
    BY <1>3, Zenon DEF PullBack
  <2>2. p \in Ancestors[session.at]
    BY <1>1, ForkType, Zenon
  <2> HIDE DEF p
  <2>3. p \in Points /\ (p # Origin => p \in Blocks)
    BY <1>1, <2>2, PointTypes, Zenon DEF Points
  <2>4. ~kept => p \in Ancestors[E]
    BY <1>1, <2>2, ChainsAreOrdered, Zenon
  <2>5. /\ type \in {"RollForward", "RollBack", "RollBackOrigin"} /\ type # "RollForward"
        /\ (type = "RollBackOrigin" => p = Origin) /\ (type = "RollBack" => p \in Blocks)
    BY <2>3, Zenon
  <2> HIDE DEF type
  <2> QED BY <2>1, <2>3, <2>4, <2>5, SendSync, Zenon
<1> QED BY <1>2, <1>3, Zenon

\* The roll stage takes the first event.
LEMMA RollSync ==
  ASSUME SyncInv, RollNext
  PROVE  SyncInv'
<1> DEFINE e == Head(queue)
<1>1. /\ queue # <<>> /\ Roll(e) /\ queue' = Tail(queue)
      /\ chain' = chain /\ session' = session /\ crumbs' = crumbs /\ kept' = kept
  BY Zenon DEF RollNext, Roll
<1>2. /\ queue \in Seq(Events) /\ Follows(queue, Tip, kept) /\ Len(queue) <= QueueLen
      /\ Tracks(session, crumbs, End(queue, Tip), kept)
  BY Zenon DEF SyncInv, PullInv
<1>3. e \in Events /\ 1 \in DOMAIN queue /\ e = queue[1]
  BY <1>1, <1>2
<1> HIDE DEF e
<1>4. /\ e.type = "RollForward" => e.point \in Blocks /\ Parent[e.point] = Tip
      /\ e.type = "RollBackOrigin" => e.point = Origin
  BY <1>2, <1>3, Zenon DEF Follows, Before
<1>5. StoreInv' /\ Tip' = e.point
  BY <1>1, <1>3, <1>4, RollStore, Zenon DEF SyncInv
<1>6. /\ queue' \in Seq(Events) /\ Len(queue') <= Len(queue)
      /\ Follows(queue', e.point, kept) /\ End(queue', e.point) = End(queue, Tip)
  BY <1>1, <1>2, <1>3, TailFollows, Zenon
<1>7. up'
  <2>1. e.type \in {"RollForward", "RollBack", "RollBackOrigin"}
    BY <1>3, Zenon DEF Events
  <2>2. up /\ up' = up
    <3>1. CASE e.type = "RollForward"
      BY <1>1, <3>1, Zenon DEF Roll, Apply
    <3>2. CASE e.type = "RollBack"
      BY <1>1, <3>2, Zenon DEF Roll, Rollback, Undo
    <3>3. CASE e.type = "RollBackOrigin"
      BY <1>1, <3>3, Zenon DEF Roll, RollbackToOrigin, Undo
    <3> QED BY <2>1, <3>1, <3>2, <3>3, Zenon
  <2> QED BY <2>2, Zenon
<1>8. Len(queue') <= QueueLen
  BY <1>2, <1>6, SyncConstants
<1>9. PullInv'
  BY <1>1, <1>2, <1>5, <1>6, <1>7, <1>8, Zenon DEF SyncInv, PullInv
<1> QED BY <1>5, <1>9, Zenon DEF SyncInv

\* The connection is lost.
LEMMA ReconnectSync ==
  ASSUME SyncInv, Reconnect
  PROVE  SyncInv'
<1>1. /\ session' = Intersect(crumbs) /\ chain' = chain /\ crumbs' = crumbs /\ queue' = queue
      /\ kept' = kept /\ UNCHANGED roll
  BY Zenon DEF Reconnect
<1>2. StoreInv' /\ Tip' = Tip /\ up' = up
  BY <1>1, StoreUnchanged, Zenon DEF SyncInv
<1>3. /\ chain \in Points /\ crumbs \in Seq(Blocks) /\ queue \in Seq(Events) /\ Tip \in Points
      /\ Tracks(session, crumbs, End(queue, Tip), kept)
  BY Zenon DEF SyncInv, PullInv, StoreInv, Holds
<1>4. End(queue, Tip) \in Points
  BY <1>3, EndType, Zenon
<1>5. /\ session' \in [at : Points, confirmed : BOOLEAN] /\ ~session'.confirmed
      /\ Shadowed(crumbs, End(queue, Tip)) => session'.at \in Ancestors[End(queue, Tip)]
  BY <1>1, <1>3, <1>4, IntersectTracks, Zenon
<1>6. Tracks(session', crumbs, End(queue, Tip), kept)
  BY <1>3, <1>5, Zenon DEF Tracks
<1>7. PullInv'
  BY <1>1, <1>2, <1>5, <1>6, Zenon DEF SyncInv, PullInv
<1> QED BY <1>2, <1>7, Zenon DEF SyncInv

LEMMA NextSync ==
  ASSUME SyncInv, [Next]_vars
  PROVE  SyncInv'
<1>1. CASE \E tip \in Points : Adopt(tip)
  <2>1. PICK tip \in Points : Adopt(tip)
    BY <1>1, Zenon
  <2>2. UNCHANGED roll /\ UNCHANGED <<session, crumbs, queue, kept>> /\ chain' \in Points
    BY <2>1, Zenon DEF Adopt, pull
  <2>3. StoreInv' /\ Tip' = Tip /\ up' = up
    BY <2>2, StoreUnchanged, Zenon DEF SyncInv
  <2> QED BY <2>2, <2>3, Zenon DEF SyncInv, PullInv
<1>2. CASE Crash \/ GiveUp
  BY <1>2, HaltSync, Zenon DEF Crash, GiveUp
<1>3. CASE Reconnect
  BY <1>3, ReconnectSync, Zenon
<1>4. CASE Start
  BY <1>4, StartSync, Zenon
<1>5. CASE PullForward \/ PullBack
  BY <1>5, PullSync, Zenon
<1>6. CASE RollNext
  BY <1>6, RollSync, Zenon
<1>7. CASE UNCHANGED vars
  <2>1. UNCHANGED roll /\ UNCHANGED <<chain, session, crumbs, queue, kept>>
    BY <1>7, Zenon DEF vars, pull
  <2>2. StoreInv' /\ Tip' = Tip /\ up' = up
    BY <2>1, StoreUnchanged, Zenon DEF SyncInv
  <2> QED BY <2>1, <2>2, Zenon DEF SyncInv, PullInv
<1> QED BY <1>1, <1>2, <1>3, <1>4, <1>5, <1>6, <1>7, Zenon DEF Next, Steps

-----------------------------------------------------------------------------
(* The theorems.                                                           *)

\* The events on their way lead from the stored tip to where the session and
\* the breadcrumbs are.
THEOREM SyncInvariance == Spec => []SyncInv
<1>1. Init => SyncInv
  BY InitSync, Zenon
<1>2. SyncInv /\ [Next]_vars => SyncInv'
  BY NextSync, Zenon
<1> QED BY <1>1, <1>2, PTL DEF Spec

LEMMA TypesHold ==
  ASSUME SyncInv
  PROVE  TypeOK
<1>1. /\ Holds(blocks, Tip) /\ Tip \in Points /\ DOMAIN Slot = Points /\ Chain(Tip) \subseteq Blocks
      /\ Blocks \subseteq Points
  BY PointTypes, ChainAssumption, Zenon DEF SyncInv, StoreInv, Holds
<1>2. {Slot[b] : b \in Chain(Tip)} \subseteq Range(Slot)
  BY <1>1, Zenon DEF Range
<1>3. DOMAIN blocks \subseteq Range(Slot) /\ DOMAIN resolvers \subseteq Range(Slot)
  BY <1>1, <1>2, Zenon DEF Holds, SyncInv, StoreInv, Resolves
<1>4. Range(blocks) \subseteq Blocks
  BY <1>1, Zenon DEF Holds, Range
<1>5. txos \in [Outputs -> Txo] /\ mutable \in BOOLEAN /\ up \in BOOLEAN
  BY Zenon DEF SyncInv, StoreInv, Unspent
<1>6. Range(wal) \subseteq Logs /\ \A n \in DOMAIN wal : n < nextSeq
  BY Zenon DEF SyncInv, StoreInv, Leads, Range
<1>7. lastHash \in Blocks \cup {None}
  BY <1>1, Zenon DEF SyncInv, StoreInv, HashAfter, Points
<1>8. Range(crumbs) \subseteq Blocks /\ Range(queue) \subseteq Events
  BY DEF SyncInv, PullInv, Range
<1> QED BY <1>3, <1>4, <1>5, <1>6, <1>7, <1>8, Zenon DEF TypeOK, DbTypes, SyncInv, PullInv

LEMMA ChainHolds ==
  ASSUME SyncInv
  PROVE  StoreIsChain
<1>1. Holds(blocks, Tip)
  BY Zenon DEF SyncInv, StoreInv
<1>2. ASSUME NEW s \in DOMAIN blocks PROVE blocks[s] \in Chain(Tip) /\ Slot[blocks[s]] = s
  <2>1. PICK b \in Chain(Tip) : s = Slot[b]
    BY <1>1, Zenon DEF Holds
  <2> QED BY <1>1, <2>1, Zenon DEF Holds
<1>3. ASSUME NEW b \in Chain(Tip) PROVE b \in Range(blocks)
  <2>1. Slot[b] \in DOMAIN blocks /\ blocks[Slot[b]] = b
    BY <1>1, Zenon DEF Holds
  <2> QED BY <2>1, Zenon DEF Range
<1>4. Range(blocks) \subseteq Chain(Tip)
  BY <1>2, Zenon DEF Range
<1> QED BY <1>2, <1>3, <1>4, Zenon DEF StoreIsChain

\* Whatever the node rolls back and whenever the connection or the process
\* is lost, the tables of apply_block_with_context and rollback keep their
\* types and the stored blocks are one whole chain.
THEOREM StoreOneChain == Spec => []StoreIsOneChain
<1>1. SyncInv => StoreIsOneChain
  BY TypesHold, ChainHolds, Zenon DEF StoreIsOneChain
<1> QED BY <1>1, SyncInvariance, PTL

LEMMA AcceptedHolds ==
  ASSUME SyncInv
  PROVE  EventsAccepted
<1> SUFFICES ASSUME queue # <<>>, ~kept PROVE Accepts(Head(queue))
  BY Zenon DEF EventsAccepted
<1> DEFINE e == Head(queue)
<1>1. /\ queue \in Seq(Events) /\ Follows(queue, Tip, kept) /\ up
      /\ Holds(blocks, Tip) /\ Resolves(resolvers, Tip) /\ Tip \in Points
  BY Zenon DEF SyncInv, PullInv, StoreInv, Holds
<1>2. e \in Events /\ 1 \in DOMAIN queue /\ e = queue[1]
  BY <1>1
<1> HIDE DEF e
<1>3. /\ e.type = "RollForward" => e.point \in Blocks /\ Parent[e.point] = Tip
      /\ e.type = "RollBackOrigin" => e.point = Origin
      /\ e.type = "RollBack" => e.point \in Ancestors[Tip]
  BY <1>1, <1>2, Zenon DEF Follows, Before
<1>4. CASE e.type = "RollForward"
  <2> DEFINE b == e.point
  <2>1. b \in Blocks /\ Parent[b] = Tip
    BY <1>3, <1>4, Zenon
  <2> HIDE DEF b
  <2>2. lastHash \in {None, Parent[b]}
    BY <1>1, <2>1, Zenon DEF SyncInv, StoreInv, HashAfter
  <2>3. Unspent(txos, Parent[b], TRUE)
    BY <1>1, <2>1, Zenon DEF SyncInv, StoreInv, Unspent
  <2>4. \A o \in Required(b) : Resolved(b, txos)[o] # None
    BY <2>1, <2>3, ResolvedIsCreated, Zenon
  <2>5. AcceptsBlock(b)
    BY <2>2, <2>4, Zenon DEF AcceptsBlock
  <2> QED BY <1>4, <2>5, Zenon DEF Accepts, e, b
<1>5. CASE e.type # "RollForward"
  <2> DEFINE p == e.point
  <2>1. p \in Ancestors[Tip]
    BY <1>1, <1>2, <1>3, <1>5, OriginIsFirst, Zenon DEF Events
  <2> HIDE DEF p
  <2>2. p # Origin => Slot[p] \in DOMAIN blocks /\ blocks[Slot[p]] = p
    BY <1>1, <2>1, Zenon DEF Holds, Chain
  <2>3. Listed(Undoes(p), Tip, p)
    BY <1>1, <2>1, UndoesList, Zenon
  <2>4. Range(Undoes(p)) \subseteq Chain(Tip)
    BY <2>3, Zenon DEF Listed, Range
  <2>5. \A b \in Chain(Tip) : Slot[b] \in DOMAIN resolvers /\ resolvers[Slot[b]].block = b
    BY <1>1, Zenon DEF Resolves
  <2>6. AcceptsRollback(p)
    BY <2>2, <2>4, <2>5, Zenon DEF AcceptsRollback
  <2> QED BY <1>5, <2>6, Zenon DEF Accepts, e, p
<1> QED BY <1>4, <1>5, Zenon

\* Unless a rollback to the origin left breadcrumbs of the abandoned chain,
\* the roll stage never gets an event the store refuses: no
\* PreviousHashMismatch, MissingTxo, InvalidRollbackPoint or MissingResolver.
THEOREM EventsAreAccepted == Spec => []EventsAccepted
<1>1. SyncInv => EventsAccepted
  BY AcceptedHolds, Zenon
<1> QED BY <1>1, SyncInvariance, PTL

\* Applying and undoing blocks leaves exactly the outputs the stored chain
\* leaves unspent, each with the slot that produced it on this fork.
THEOREM OutputsUnspent == Spec => []OutputsAreUnspent
<1>1. SyncInv => OutputsAreUnspent
  BY Zenon DEF SyncInv, StoreInv, Unspent, OutputsAreUnspent
<1> QED BY <1>1, SyncInvariance, PTL

LEMMA CompleteHolds ==
  ASSUME SyncInv
  PROVE  ResolversAreComplete
<1>1. Holds(blocks, Tip) /\ Resolves(resolvers, Tip)
  BY Zenon DEF SyncInv, StoreInv
<1>2. DOMAIN resolvers = DOMAIN blocks
  BY <1>1, Zenon DEF Holds, Resolves
<1>3. ASSUME NEW s \in DOMAIN blocks
      PROVE  /\ resolvers[s].block = blocks[s]
             /\ \A o \in Required(blocks[s]) : resolvers[s].txos[o] = CreatedAt(o, blocks[s])
  <2>1. PICK b \in Chain(Tip) : s = Slot[b]
    BY <1>1, Zenon DEF Holds
  <2>2. blocks[s] = b
    BY <1>1, <2>1, Zenon DEF Holds
  <2> QED BY <1>1, <2>1, <2>2 DEF Resolves
<1> QED BY <1>2, <1>3, Zenon DEF ResolversAreComplete

\* Every stored block has its own resolver, with every output the block
\* needs as the stored chain created it, so it can be undone and served.
THEOREM ResolversComplete == Spec => []ResolversAreComplete
<1>1. SyncInv => ResolversAreComplete
  BY CompleteHolds, Zenon
<1> QED BY <1>1, SyncInvariance, PTL

\* Replaying the log from any of its entries walks the tree block by block
\* to the stored tip: pruning, rollbacks and restarts leave no gap.
THEOREM LogReachesTip == Spec => []LogLeadsToTip
<1>1. SyncInv => LogLeadsToTip
  BY Zenon DEF SyncInv, StoreInv, Leads, LogLeadsToTip
<1> QED BY <1>1, SyncInvariance, PTL
=============================================================================
