---------------------------- MODULE MutableStream ----------------------------
(***************************************************************************)
(* A consumer of the compressor's log: stream_mutable                      *)
(* (storage/mutable/mod.rs) against the roll stage that appends to the     *)
(* log, prunes it and calls notify_waiters (storage/mod.rs).               *)
(*                                                                         *)
(* The stream only compares sequence numbers, so the entries are left out  *)
(* (ChainDB has them) and every number is counted from last_seq, the last  *)
(* entry the consumer was sent: the next one it must get is 1.  The log    *)
(* holds the numbers first..top; first = 0 means that nothing after        *)
(* last_seq was pruned.                                                    *)
(*                                                                         *)
(* An iterator reads the log as it was when it was created.  notified()    *)
(* is woken only by a notify_waiters that comes while it waits.            *)
(***************************************************************************)
EXTENDS Integers

CONSTANTS
  MaxLag,    \* entries the consumer may be behind (for model checking)
  MaxUndo,   \* blocks undone by a rollback (for model checking)
  MinKept    \* entries in the window pruning keeps, a chain is never sparser

ASSUME BoundsAssumption ==
  /\ MaxLag \in Nat /\ MaxUndo \in Nat
  /\ MinKept \in Nat \ {0, 1}

VARIABLES
  first,     \* the oldest entry of the log, 0 if that is at or before last_seq
  top,       \* the newest entry of the log
  writer,    \* the roll stage: "idle", or "committed" and about to notify
  pc,        \* the stream
  next,      \* the entry the iterator returns next
  end,       \* the last entry of the iterator's snapshot
  lost,      \* an entry after last_seq was pruned or skipped unsent
  watched    \* an entry followed until it is sent, 0 for none

log == <<first, top>>
iterator == <<next, end>>
vars == <<first, top, writer, pc, next, end, lost, watched>>

Larger(m, n) == IF m >= n THEN m ELSE n

\* a consumer that found its point in the log, at any distance from the end
Attached(f, t, p, n, e, l, w) ==
  /\ f = 0 /\ t \in 0..MaxLag
  /\ p = "attached" /\ n = 0 /\ e = 0
  /\ l = FALSE /\ w = 0

Init == writer = "idle" /\ Attached(first, top, pc, next, end, lost, watched)

-----------------------------------------------------------------------------
(* The roll stage.                                                         *)

\* n entries are committed; the last of them may be watched.  While the
\* stream does not wait the consumer falls behind at most MaxLag entries.
Commits(n) ==
  /\ writer = "idle" /\ writer' = "committed"
  /\ top + n <= IF pc = "waiting" THEN MaxLag + MaxUndo + 1 ELSE MaxLag
  /\ top' = top + n
  /\ watched' \in {watched} \cup IF watched = 0 /\ pc # "closed" THEN {top'} ELSE {}

\* apply_block_with_context: one entry, and the oldest ones are pruned
Apply ==
  /\ Commits(1)
  /\ first' \in first..Larger(first, top' - MinKept + 1)
  /\ UNCHANGED <<pc, iterator, lost>>

\* rollback: an Undo for every block, then a Mark or Origin
Rollback ==
  /\ \E n \in 1..(MaxUndo + 1) : Commits(n)
  /\ UNCHANGED <<first, pc, iterator, lost>>

\* (mutant) the stream that waits is not woken
NotifyNobody ==
  /\ writer = "committed" /\ writer' = "idle"
  /\ UNCHANGED <<log, pc, iterator, lost, watched>>

\* notify_waiters
Notify ==
  /\ writer = "committed" /\ writer' = "idle"
  /\ pc' = IF pc = "waiting" THEN "woken" ELSE pc
  /\ UNCHANGED <<log, iterator, lost, watched>>

-----------------------------------------------------------------------------
(* The stream.                                                             *)

\* (mutant) the entry the iterator starts at is not skipped
IterateUnskipped ==
  /\ pc \in {"attached", "woken"} /\ pc' = "iterating"
  /\ next' = first /\ end' = top
  /\ lost' = (lost \/ first > 0)
  /\ UNCHANGED <<log, writer, watched>>

\* an iterator from last_seq: it starts at the oldest entry not before it,
\* and that one is skipped
Iterate ==
  /\ pc \in {"attached", "woken"} /\ pc' = "iterating"
  /\ next' = first + 1 /\ end' = top
  /\ lost' = (lost \/ first > 0)
  /\ UNCHANGED <<log, writer, watched>>

\* (mutant) the numbers are not compared
SendUnchecked ==
  /\ pc = "iterating" /\ next <= end
  /\ first' = Larger(first - next, 0) /\ top' = top - next
  /\ end' = end - next /\ next' = 1
  /\ watched' = Larger(watched - next, 0)
  /\ UNCHANGED <<writer, pc, lost>>

\* the next entry follows last_seq: it is sent and becomes last_seq
Send ==
  /\ pc = "iterating" /\ next <= end
  /\ next = 1
  /\ first' = Larger(first - 1, 0) /\ top' = top - 1
  /\ end' = end - 1 /\ UNCHANGED next
  /\ watched' = Larger(watched - 1, 0)
  /\ UNCHANGED <<writer, pc, lost>>

\* it does not: the stream ends with an error
Close ==
  /\ pc = "iterating" /\ next <= end
  /\ next # 1
  /\ pc' = "closed" /\ watched' = 0
  /\ UNCHANGED <<log, writer, iterator, lost>>

\* the iterator is exhausted: notified().await
Wait ==
  /\ pc = "iterating" /\ next > end
  /\ pc' = "waiting"
  /\ UNCHANGED <<log, writer, iterator, lost, watched>>

\* the consumer goes away
Disconnect ==
  /\ pc # "closed" /\ pc' = "closed"
  /\ watched' = 0
  /\ UNCHANGED <<log, writer, iterator, lost>>

\* it connects again and finds a point
Reattach ==
  /\ pc = "closed"
  /\ Attached(first', top', pc', next', end', lost', watched')
  /\ UNCHANGED writer

Write == Apply \/ Rollback
Read == Iterate \/ Send \/ Close \/ Wait

Next == Write \/ Notify \/ Read \/ Disconnect \/ Reattach

\* Blocks keep coming, the roll stage finishes what it began, and the
\* consumer polls its stream.
Spec == Init /\ [][Next]_vars /\ WF_vars(Write) /\ WF_vars(Notify) /\ WF_vars(Read)

-----------------------------------------------------------------------------
(* Properties.                                                             *)

TypeOK ==
  /\ top \in 0..(MaxLag + MaxUndo + 1) /\ first \in 0..top
  /\ writer \in {"idle", "committed"}
  /\ pc \in {"attached", "iterating", "waiting", "woken", "closed"}
  /\ next \in 0..(top + 1) /\ end \in 0..top
  /\ lost \in BOOLEAN /\ watched \in 0..top

\* The consumer is never sent an entry after one it was not sent, whatever
\* is pruned while it iterates, while it waits, or before its iterator
\* exists: a rollback or a block can be missing only at the end.
NothingSkipped == [][Send => ~lost]_vars

\* A stream is closed only when an entry is really gone: commits and
\* pruning behind an iterator never end the stream of a consumer that keeps up.
ClosedOnlyIfLost == [][Close => lost]_vars

\* Every committed entry is sent in the end, or the stream is closed so that
\* the consumer connects again: a wakeup that comes while the stream
\* iterates is lost, but the next commit makes up for it.
SentOrClosed == (watched > 0) ~> (watched = 0)
=============================================================================
