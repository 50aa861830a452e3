----------------------------- MODULE ChainSync -----------------------------
(***************************************************************************)
(* The synchronisation of the compressor (services/compressor/src/sync):   *)
(* the pull stage with its breadcrumbs, the channel, and the roll stage    *)
(* with the store of ChainDB, against a node that extends and switches its *)
(* chain.  The process may end and the connection may be lost anywhere.    *)
(*                                                                         *)
(* The node is a chainsync server.  It keeps the read pointer of a session,*)
(* at the intersection (the origin when none is found) and first confirms  *)
(* it with a rollback; a switch of chains moves the pointer back.          *)
(***************************************************************************)
EXTENDS ChainDB

CONSTANTS
  MaxCrumbs,      \* HARDCODED_BREADCRUMBS
  QueueLen,       \* the capacity of the channel to the roll stage
  MaxAdopts,      \* bounds the changes of the node's chain
  MaxOutages      \* bounds the crashes and lost connections

ASSUME SyncConstants == MaxCrumbs \in Nat \ {0} /\ QueueLen \in Nat \ {0}

VARIABLES
  chain,          \* the tip of the node's chain
  session,        \* the read pointer: where it is, and whether it was confirmed
  crumbs,         \* Stage::intersection: the points to intersect at, <<>> for Origin
  queue,          \* the events on their way to the roll stage
  kept,           \* (history) breadcrumbs were kept across a rollback to the origin
  left            \* what is left of the bounds

pull == <<session, crumbs, queue, kept>>
vars == <<roll, chain, pull, left>>

Event(type, p) == [type |-> type, point |-> p, tip |-> chain]

Events == [type : {"RollForward", "RollBack", "RollBackOrigin"}, point : Points, tip : Points]

-----------------------------------------------------------------------------
(* The node.                                                               *)

Adopt(tip) ==
  /\ left.adopts > 0 /\ tip # chain
  /\ chain' = tip /\ left' = [left EXCEPT !.adopts = @ - 1]
  /\ UNCHANGED <<roll, pull>>

\* where the chains to two points part
Fork(p, q) ==
  CHOOSE x \in Ancestors[p] \cap Ancestors[q] :
    \A y \in Ancestors[p] \cap Ancestors[q] : Slot[y] <= Slot[x]

\* the read pointer after find_intersect: the first point on the chain, and
\* where it was at the start of the session when there is none
Intersect(points) ==
  LET found == {i \in DOMAIN points : points[i] \in Ancestors[chain]}
  IN  [at |-> IF found = {} THEN Origin ELSE points[Min(found)], confirmed |-> FALSE]

-----------------------------------------------------------------------------
(* The process and the pull stage.                                         *)

\* pipeline, and the first bootstrap of the pull stage
Start ==
  /\ Open
  /\ crumbs' = IntersectOptions /\ session' = Intersect(crumbs')
  /\ queue' = <<>> /\ kept' = FALSE
  /\ UNCHANGED <<chain, left>>

Halt ==
  /\ Close
  /\ session' = [at |-> Origin, confirmed |-> FALSE] /\ crumbs' = <<>> /\ queue' = <<>>
  /\ kept' = FALSE
  /\ UNCHANGED chain

Outage == left.outages > 0 /\ left' = [left EXCEPT !.outages = @ - 1]

Crash == Outage /\ Halt

\* the connection is lost: the stage restarts and intersects again
Reconnect ==
  /\ up /\ Outage
  /\ session' = Intersect(crumbs)
  /\ UNCHANGED <<roll, chain, crumbs, queue, kept>>

\* (mutant) the oldest breadcrumb is in front
add_breadcrumb_back(p) ==
  IF p = Origin THEN crumbs
  ELSE LET all == Append(crumbs, p) IN IF Len(all) > MaxCrumbs THEN Tail(all) ELSE all

add_breadcrumb(p) ==
  IF p = Origin THEN crumbs
  ELSE LET all == <<p>> \o crumbs
       IN  IF Len(all) > MaxCrumbs THEN SubSeq(all, 1, Len(all) - 1) ELSE all

Send(type, p) ==
  /\ up /\ Len(queue) < QueueLen
  /\ queue' = Append(queue, Event(type, p))
  /\ session' = [at |-> p, confirmed |-> TRUE]
  /\ crumbs' = add_breadcrumb(p)
  /\ kept' = (kept \/ (p = Origin /\ crumbs # <<>>))
  /\ UNCHANGED <<roll, chain, left>>

PullForward ==
  /\ session.confirmed /\ session.at \in Ancestors[chain] /\ session.at # chain
  /\ Send("RollForward", CHOOSE b \in Ancestors[chain] \ {Origin} : Parent[b] = session.at)

PullBack ==
  \E p \in {Fork(session.at, chain)} :
    /\ ~session.confirmed \/ p # session.at
    /\ Send(IF p = Origin THEN "RollBackOrigin" ELSE "RollBack", p)

-----------------------------------------------------------------------------
(* The roll stage.                                                         *)

Accepts(e) ==
  IF e.type = "RollForward" THEN AcceptsBlock(e.point) ELSE AcceptsRollback(e.point)

\* (mutant) a rollback is not taken from the channel
RollAgain(e) ==
  /\ CASE e.type = "RollForward" -> Apply(e.point, e.tip)
       [] e.type = "RollBack" -> Rollback(e.point, e.tip)
       [] e.type = "RollBackOrigin" -> RollbackToOrigin(e.tip)
  /\ queue' = IF e.type = "RollBack" THEN queue ELSE Tail(queue)
  /\ UNCHANGED <<chain, session, crumbs, kept, left>>

Roll(e) ==
  /\ CASE e.type = "RollForward" -> Apply(e.point, e.tip)
       [] e.type = "RollBack" -> Rollback(e.point, e.tip)
       [] e.type = "RollBackOrigin" -> RollbackToOrigin(e.tip)
  /\ queue' = Tail(queue)
  /\ UNCHANGED <<chain, session, crumbs, kept, left>>

RollNext == queue # <<>> /\ Roll(Head(queue))

\* the roll stage has an event in hand that the store refuses
Refused == up /\ queue # <<>> /\ ~Accepts(Head(queue))

\* An event that is refused is retried until the stage ends.  In sync mode the
\* process ends with it.  In daemon mode the server is awaited first: the
\* process goes on, the roll stage never takes another event, and only who
\* watches the process ends it.  That nobody may do so is why no fairness is
\* assumed of this action.
GiveUp == Refused /\ Halt /\ UNCHANGED left

-----------------------------------------------------------------------------
Init ==
  /\ OpenInit
  /\ chain \in Points
  /\ session = [at |-> Origin, confirmed |-> FALSE] /\ crumbs = <<>> /\ queue = <<>>
  /\ kept = FALSE
  /\ left = [adopts |-> MaxAdopts, outages |-> MaxOutages]

Steps == Start \/ PullForward \/ PullBack \/ RollNext

Next == (\E tip \in Points : Adopt(tip)) \/ Crash \/ Reconnect \/ GiveUp \/ Steps

Spec == Init /\ [][Next]_vars

\* The stages are tasks that run whenever they can, and the process is
\* started again once it has ended.
FairSpec == Spec /\ WF_vars(Steps)

-----------------------------------------------------------------------------
(* Properties.                                                             *)

\* The variables have the expected types, and the lists keep their bounds.
TypeOK ==
  /\ DbTypes
  /\ chain \in Points
  /\ session \in [at : Points, confirmed : BOOLEAN]
  /\ Range(crumbs) \subseteq Blocks /\ Len(crumbs) <= Max({MaxCrumbs, Len(Offered)})
  /\ Range(queue) \subseteq Events /\ Len(queue) <= QueueLen
  /\ kept \in BOOLEAN

\* The roll stage never gets an event the store refuses, whatever was on its
\* way when the connection was lost: a block extends the stored tip and finds
\* its inputs, a rollback names a stored block.  The one way out is a rollback
\* to the origin, which leaves the breadcrumbs of the abandoned chain.
EventsAccepted == queue # <<>> /\ ~kept => Accepts(Head(queue))

\* Whatever was rolled back and whenever the process ended, the tables keep
\* their types and the stored blocks are one whole chain.
StoreIsOneChain == TypeOK /\ StoreIsChain

\* Once the node keeps its chain and nothing fails any more, the store gets
\* to the node's tip and stays there.  The one thing that can keep it away is
\* a daemon whose roll stage has met an event the store refuses, which takes
\* a rollback to the origin that left breadcrumbs behind.
CatchesUp == <>[](up /\ Tip = chain) \/ <>[](kept /\ Refused)
=============================================================================
