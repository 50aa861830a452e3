------------------------------ MODULE TtlCache ------------------------------
(***************************************************************************)
(* The cache in front of ogmios (services/mapi/src/cache.rs) with the      *)
(* refresh its users give it: a db-sync query and then an ogmios query     *)
(* with retries (ogmios_v6.rs, routes/protocol_parameters.rs).             *)
(*                                                                         *)
(* A caller can be suspended, or cancelled for good when its client        *)
(* disconnects, at every await.  An outcome is numbered by the refresh it  *)
(* comes from; what a value says is left out.                              *)
(***************************************************************************)
EXTENDS Naturals, Sequences, SequencesExt

CONSTANTS
  Callers,
  Nobody,        \* not a caller
  Ttl,           \* how long a value is served
  FailureTtl,    \* how long an error is served
  MaxRetries,
  MaxNow,        \* bounds the clock
  MaxCalls       \* bounds the number of refreshes

ASSUME CacheConstants ==
  /\ Nobody \notin Callers
  /\ Ttl \in Nat /\ FailureTtl \in Nat /\ MaxRetries \in Nat

VARIABLES
  now,
  state, last_error,   \* [outcome, expires_at]
  waiting, holder,     \* the refresh lock: tokio's Mutex queues its waiters
  pc,                  \* where each caller is
  held,                \* the outcome each caller has got
  attempt,             \* of the ogmios query, one per holder of the lock
  calls,               \* refreshes begun
  stored,              \* the last outcome that was stored, whatever the slot
  since                \* the value of stored when each caller arrived

slots == <<state, last_error>>
lock == <<waiting, holder>>
vars == <<now, slots, lock, pc, held, attempt, calls, stored, since>>

\* an outcome: the refresh it is from, and the HTTP status it leads to
Outcome(n, status) == [call |-> n, status |-> status]
NoOutcome == Outcome(0, 0)
Entry(outcome, at) == [outcome |-> outcome, expires_at |-> at]

\* error classes of an ogmios query, by the status of map_ogmios_error
map_ogmios_error(e) ==
  CASE e = "Timeout" -> 504 [] e = "Transient" -> 503 [] e = "JsonRpc" -> 503 [] e = "Decode" -> 500

InForce(entry) == entry.expires_at > now

Init ==
  /\ now = 0
  /\ state = Entry(NoOutcome, 0) /\ last_error = Entry(NoOutcome, 0)
  /\ waiting = <<>> /\ holder = Nobody
  /\ pc = [c \in Callers |-> "idle"]
  /\ held = [c \in Callers |-> NoOutcome]
  /\ attempt = 0 /\ calls = 0 /\ stored = 0
  /\ since = [c \in Callers |-> 0]

Goto(c, label) == pc' = [pc EXCEPT ![c] = label]

\* a request arrives (again)
Arrive(c) ==
  /\ pc[c] = "idle"
  /\ Goto(c, "fresh")
  /\ since' = [since EXCEPT ![c] = stored]
  /\ held' = [held EXCEPT ![c] = NoOutcome]
  /\ UNCHANGED <<now, slots, lock, attempt, calls, stored>>

\* the answer; a caller that holds the lock releases it
Return(c, outcome) ==
  /\ Goto(c, "idle")
  /\ held' = [held EXCEPT ![c] = outcome]
  /\ holder' = IF holder = c THEN Nobody ELSE holder

\* a value that is in force, before and after the lock is taken
Fresh(c) ==
  /\ pc[c] \in {"fresh", "fresh again"}
  /\ IF InForce(state) THEN Return(c, state.outcome)
     ELSE /\ Goto(c, IF pc[c] = "fresh" THEN "recent" ELSE "recent again")
          /\ UNCHANGED <<holder, held>>
  /\ UNCHANGED <<now, slots, waiting, attempt, calls, stored, since>>

\* (mutant) an error is served although it has lapsed
RecentErrorKept(c) ==
  /\ pc[c] = "recent"
  /\ IF last_error.outcome # NoOutcome
     THEN Return(c, last_error.outcome) /\ UNCHANGED waiting
     ELSE Goto(c, "queued") /\ waiting' = Append(waiting, c) /\ UNCHANGED <<held, holder>>
  /\ UNCHANGED <<now, slots, attempt, calls, stored, since>>

\* an error that is in force; otherwise the caller queues for the lock
RecentError(c) ==
  /\ pc[c] = "recent"
  /\ IF InForce(last_error)
     THEN Return(c, last_error.outcome) /\ UNCHANGED waiting
     ELSE Goto(c, "queued") /\ waiting' = Append(waiting, c) /\ UNCHANGED <<held, holder>>
  /\ UNCHANGED <<now, slots, attempt, calls, stored, since>>

Acquire(c) ==
  /\ pc[c] = "queued" /\ holder = Nobody /\ waiting # <<>> /\ Head(waiting) = c
  /\ waiting' = Tail(waiting) /\ holder' = c
  /\ Goto(c, "fresh again")
  /\ UNCHANGED <<now, slots, held, attempt, calls, stored, since>>

\* (mutant) the error is not looked at again under the lock
RefreshAtOnce(c) ==
  /\ pc[c] = "recent again"
  /\ Goto(c, "dbsync") /\ calls' = calls + 1
  /\ UNCHANGED <<now, slots, lock, held, attempt, stored, since>>

\* the error again, under the lock; otherwise refresh() is called
RecentErrorAgain(c) ==
  /\ pc[c] = "recent again"
  /\ IF InForce(last_error)
     THEN Return(c, last_error.outcome) /\ UNCHANGED calls
     ELSE Goto(c, "dbsync") /\ calls' = calls + 1 /\ UNCHANGED <<held, holder>>
  /\ UNCHANGED <<now, slots, waiting, attempt, stored, since>>

-----------------------------------------------------------------------------
(* The refresh.  An attempt at ogmios is bounded by a timeout; a timeout   *)
(* and a lost connection are tried again.                                  *)

Finish(c, status) ==
  /\ held' = [held EXCEPT ![c] = Outcome(calls, status)]
  /\ Goto(c, IF status = 200 THEN "store" ELSE "store error")

Refreshing(c, label) == pc[c] = label /\ UNCHANGED <<now, slots, lock, calls, stored, since>>

get_last_updated_dbsync(c) ==
  /\ Refreshing(c, "dbsync")
  /\ attempt' = 0
  /\ Goto(c, "ogmios") /\ UNCHANGED held

DbsyncFails(c) ==
  /\ Refreshing(c, "dbsync")
  /\ Finish(c, 500) /\ UNCHANGED attempt

Succeeds(c) ==
  /\ Refreshing(c, "ogmios")
  /\ Finish(c, 200) /\ UNCHANGED attempt

FailsForGood(c, e) ==
  /\ Refreshing(c, "ogmios") /\ e \in {"JsonRpc", "Decode"}
  /\ Finish(c, map_ogmios_error(e)) /\ UNCHANGED attempt

Retries(c, e) ==
  /\ Refreshing(c, "ogmios") /\ e \in {"Transient", "Timeout"}
  /\ IF attempt < MaxRetries THEN attempt' = attempt + 1 /\ UNCHANGED <<pc, held>>
     ELSE Finish(c, map_ogmios_error(e)) /\ UNCHANGED attempt

-----------------------------------------------------------------------------
(* The outcome is stored.  The two slots have locks of their own.          *)

Store(c) ==
  /\ pc[c] = "store"
  /\ state' = Entry(held[c], now + Ttl) /\ stored' = held[c].call
  /\ Goto(c, "clear")
  /\ UNCHANGED <<now, last_error, lock, held, attempt, calls, since>>

Clear(c) ==
  /\ pc[c] = "clear"
  /\ last_error' = Entry(NoOutcome, 0)
  /\ Return(c, held[c])
  /\ UNCHANGED <<now, state, waiting, attempt, calls, stored, since>>

StoreError(c) ==
  /\ pc[c] = "store error"
  /\ last_error' = Entry(held[c], now + FailureTtl) /\ stored' = held[c].call
  /\ Return(c, held[c])
  /\ UNCHANGED <<now, state, waiting, attempt, calls, since>>

\* (mutant) the lock is not given back
CancelHolding(c) ==
  /\ pc[c] # "idle"
  /\ Goto(c, "idle")
  /\ waiting' = SelectSeq(waiting, LAMBDA x : x # c)
  /\ held' = [held EXCEPT ![c] = NoOutcome]
  /\ UNCHANGED <<now, slots, holder, attempt, calls, stored, since>>

\* the client disconnects: the caller's future is dropped, with its guard or
\* its place in the queue
Cancel(c) ==
  /\ pc[c] # "idle"
  /\ Return(c, NoOutcome)
  /\ waiting' = SelectSeq(waiting, LAMBDA x : x # c)
  /\ UNCHANGED <<now, slots, attempt, calls, stored, since>>

Tick ==
  /\ now < MaxNow /\ now' = now + 1
  /\ UNCHANGED <<slots, lock, pc, held, attempt, calls, stored, since>>

Steps(c) ==
  \/ Fresh(c) \/ RecentError(c) \/ Acquire(c) \/ RecentErrorAgain(c)
  \/ Succeeds(c) \/ \E e \in {"Timeout", "Transient", "JsonRpc", "Decode"} : FailsForGood(c, e) \/ Retries(c, e)
  \/ Store(c) \/ Clear(c) \/ StoreError(c)

Next ==
  \/ Tick
  \/ \E c \in Callers : \/ (calls < MaxCalls /\ Arrive(c)) \/ Steps(c) \/ Cancel(c)
                        \/ get_last_updated_dbsync(c) \/ DbsyncFails(c)

Spec == Init /\ [][Next]_vars

\* A caller that is not cancelled goes on: its awaits on ogmios are bounded
\* by the timeout of an attempt, and the other locks are held for one
\* assignment.  The db-sync query has no timeout: it may never end.
FairSpec == Spec /\ \A c \in Callers : WF_vars(Steps(c))

-----------------------------------------------------------------------------
Labels == {"idle", "fresh", "recent", "queued", "fresh again", "recent again",
           "dbsync", "ogmios", "store", "clear", "store error"}

Outcomes == [call : Nat, status : {0, 200, 500, 503, 504}]

\* The variables have the expected types; a caller is queued once, exactly
\* while it waits for the lock.
TypeOK ==
  /\ now \in Nat /\ calls \in Nat /\ stored \in 0..calls /\ attempt \in 0..MaxRetries
  /\ {state.outcome, last_error.outcome} \subseteq Outcomes
  /\ state.expires_at \in Nat /\ last_error.expires_at \in Nat
  /\ pc \in [Callers -> Labels] /\ held \in [Callers -> Outcomes] /\ since \in [Callers -> Nat]
  /\ holder \in Callers \cup {Nobody}
  /\ IsInjective(waiting) /\ Range(waiting) = {c \in Callers : pc[c] = "queued"}

\* An error that is still served and a value that is still served never
\* exist together, although the value is stored and the error cleared in two
\* steps between which the caller can be cancelled: what every caller is
\* told at a time does not depend on which slot it happens to read first.
OneSlotInForce == ~(InForce(state) /\ InForce(last_error))

\* "only one runs refresh at a time; the rest then read the freshly stored
\* value, or [...] the leader's actual error, without issuing their own
\* backend call": a refresh begins only when no other is running and no
\* outcome stored before, value or error, is in force.
SingleFlight ==
  [][calls' > calls =>
       /\ ~InForce(state) /\ ~InForce(last_error)
       /\ \A c \in Callers : pc[c] \notin {"dbsync", "ogmios", "store", "clear", "store error"}]_vars

\* No caller is told something older than what was the last outcome when it
\* arrived: an error that a later success has made obsolete does not come
\* back when the value lapses.
AnswerIsCurrent ==
  \A c \in Callers : pc[c] = "idle" /\ held[c] # NoOutcome => held[c].call >= since[c]

\* a db-sync query that never ends, under the refresh lock
HangsInDbsync == \E c \in Callers : <>[](pc[c] = "dbsync")

\* Every request is answered, or was cancelled: the lock is released by a
\* leader that is cancelled in mid-refresh, and "the next waiter simply
\* becomes the new leader".  One thing alone can keep a request waiting for
\* ever: a leader whose client stays while its db-sync query hangs.
Answered == (\A c \in Callers : pc[c] = "fresh" ~> pc[c] = "idle") \/ HangsInDbsync
=============================================================================
