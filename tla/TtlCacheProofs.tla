--------------------------- MODULE TtlCacheProofs ---------------------------
(***************************************************************************)
(* The cache never has two outcomes in force, never asks the backend twice *)
(* at a time and never answers with one older than the last stored, for    *)
(* any number of callers, any times to live, and with callers cancelled    *)
(* anywhere.                                                               *)
(***************************************************************************)
EXTENDS TtlCache, TLAPS

\* where a caller has the refresh lock
Holding == {"fresh again", "recent again", "dbsync", "ogmios", "store", "clear", "store error"}

\* where a refresh is under way, with nothing stored yet
Underway == {"dbsync", "ogmios", "store", "store error"}

Types ==
  /\ now \in Nat /\ calls \in Nat
  /\ state.expires_at \in Nat /\ last_error.expires_at \in Nat
  /\ pc \in [Callers -> Labels]

LockHeld == \A c \in Callers : pc[c] \in Holding => holder = c

\* What a caller has seen under the lock still holds: the slots are written
\* under the lock only, and what has lapsed stays so.
Seen ==
  \A c \in Callers :
    /\ pc[c] = "recent again" => ~InForce(state)
    /\ pc[c] \in Underway => ~InForce(state) /\ ~InForce(last_error)
    /\ pc[c] = "clear" => ~InForce(last_error)

\* the inductive invariant
CacheInv == Types /\ LockHeld /\ Seen /\ OneSlotInForce

-----------------------------------------------------------------------------
\* no other caller has the lock
LEMMA Alone ==
  ASSUME LockHeld, NEW c \in Callers, pc[c] \in Holding, NEW d \in Callers, d # c
  PROVE  pc[d] \notin Holding
BY Zenon DEF LockHeld

\* a caller whose label is not one of those that have the lock
LEMMA Outside ==
  ASSUME NEW label, label \notin Holding
  PROVE  label # "recent again" /\ label \notin Underway /\ label # "clear"
BY Zenon DEF Holding, Underway

\* A step that moves one caller, and touches neither slots nor clock, keeps
\* the invariant when it does so for the lock and for what is seen.
LEMMA MovesOne ==
  ASSUME CacheInv, NEW c \in Callers, NEW label \in Labels, Goto(c, label),
         UNCHANGED <<now, state, last_error>>, calls' \in Nat,
         label \in Holding => holder' = c,
         \A d \in Callers : d # c /\ pc[d] \in Holding => holder' = d,
         label = "recent again" => ~InForce(state),
         label \in Underway => ~InForce(state) /\ ~InForce(last_error),
         label = "clear" => ~InForce(last_error)
  PROVE  CacheInv'
<1>1. /\ pc \in [Callers -> Labels] /\ pc' = [pc EXCEPT ![c] = label]
      /\ pc'[c] = label /\ \A d \in Callers : d # c => pc'[d] = pc[d]
  BY Zenon DEF CacheInv, Types, Goto
<1>2. InForce(state)' = InForce(state) /\ InForce(last_error)' = InForce(last_error)
  BY Zenon DEF InForce
<1>3. Types'
  BY <1>1, Zenon DEF CacheInv, Types
<1>4. LockHeld'
  BY <1>1, Zenon DEF LockHeld
<1>5. Seen'
  BY <1>1, <1>2, Zenon DEF CacheInv, Seen
<1>6. OneSlotInForce'
  BY <1>2, Zenon DEF CacheInv, OneSlotInForce
<1> QED BY <1>3, <1>4, <1>5, <1>6, Zenon DEF CacheInv

\* the caller returns, with or without the lock
LEMMA Leaves ==
  ASSUME CacheInv, NEW c \in Callers, NEW o, Return(c, o),
         UNCHANGED <<now, state, last_error, calls>>
  PROVE  CacheInv'
<1>1. "idle" \in Labels /\ "idle" \notin Holding
  BY Zenon DEF Labels, Holding
<1>2. \A d \in Callers : d # c /\ pc[d] \in Holding => holder' = d
  BY Zenon DEF CacheInv, LockHeld, Return
<1>3. calls' \in Nat /\ Goto(c, "idle")
  BY Zenon DEF CacheInv, Types, Return
<1>4. "idle" # "recent again" /\ "idle" \notin Underway /\ "idle" # "clear"
  BY Zenon DEF Underway
<1> QED BY <1>1, <1>2, <1>3, <1>4, MovesOne, Zenon

\* the caller goes on, and keeps the lock if it has it
LEMMA GoesOn ==
  ASSUME CacheInv, NEW c \in Callers, NEW label \in Labels, Goto(c, label),
         UNCHANGED <<now, state, last_error, holder>>, calls' \in Nat,
         label \in Holding => pc[c] \in Holding,
         label = "recent again" => ~InForce(state),
         label \in Underway => ~InForce(state) /\ ~InForce(last_error),
         label = "clear" => ~InForce(last_error)
  PROVE  CacheInv'
<1>1. label \in Holding => holder' = c
  BY Zenon DEF CacheInv, LockHeld
<1>2. \A d \in Callers : d # c /\ pc[d] \in Holding => holder' = d
  BY Zenon DEF CacheInv, LockHeld
<1> QED BY <1>1, <1>2, MovesOne, Zenon

-----------------------------------------------------------------------------
LEMMA FreshKeeps ==
  ASSUME CacheInv, NEW c \in Callers, Fresh(c)
  PROVE  CacheInv'
<1>1. UNCHANGED <<now, state, last_error, calls>> /\ calls' \in Nat
  BY Zenon DEF Fresh, slots, CacheInv, Types
<1>2. CASE InForce(state)
  BY <1>1, <1>2, Leaves, Zenon DEF Fresh
<1>3. CASE ~InForce(state) /\ pc[c] = "fresh"
  <2>1. Goto(c, "recent") /\ UNCHANGED holder
    BY <1>3, Zenon DEF Fresh
  <2>2. /\ "recent" \in Labels /\ "recent" \notin Holding
        /\ "recent" # "recent again" /\ "recent" \notin Underway /\ "recent" # "clear"
    BY Zenon DEF Labels, Holding, Underway
  <2> QED BY <1>1, <2>1, <2>2, GoesOn, Zenon
<1>4. CASE ~InForce(state) /\ pc[c] = "fresh again"
  <2>1. Goto(c, "recent again") /\ UNCHANGED holder
    BY <1>4, Zenon DEF Fresh
  <2>2. /\ "recent again" \in Labels /\ pc[c] \in Holding
        /\ "recent again" \notin Underway /\ "recent again" # "clear"
    BY <1>4, Zenon DEF Labels, Holding, Underway
  <2> QED BY <1>1, <1>4, <2>1, <2>2, GoesOn, Zenon
<1> QED BY <1>2, <1>3, <1>4, Zenon DEF Fresh

LEMMA RecentErrorKeeps ==
  ASSUME CacheInv, NEW c \in Callers, RecentError(c)
  PROVE  CacheInv'
<1>1. UNCHANGED <<now, state, last_error, calls>> /\ calls' \in Nat
  BY Zenon DEF RecentError, slots, CacheInv, Types
<1>2. CASE InForce(last_error)
  BY <1>1, <1>2, Leaves, Zenon DEF RecentError
<1>3. CASE ~InForce(last_error)
  <2>1. Goto(c, "queued") /\ UNCHANGED holder
    BY <1>3, Zenon DEF RecentError
  <2>2. /\ "queued" \in Labels /\ "queued" \notin Holding
        /\ "queued" # "recent again" /\ "queued" \notin Underway /\ "queued" # "clear"
    BY Zenon DEF Labels, Holding, Underway
  <2> QED BY <1>1, <2>1, <2>2, GoesOn, Zenon
<1> QED BY <1>2, <1>3, Zenon

\* the lock is free, so no caller relies on it
LEMMA AcquireKeeps ==
  ASSUME CacheInv, NEW c \in Callers, Acquire(c)
  PROVE  CacheInv'
<1>1. /\ UNCHANGED <<now, state, last_error, calls>> /\ calls' \in Nat
      /\ holder = Nobody /\ holder' = c /\ Goto(c, "fresh again")
  BY Zenon DEF Acquire, slots, CacheInv, Types
<1>2. \A d \in Callers : pc[d] \notin Holding
  BY <1>1, CacheConstants, Zenon DEF CacheInv, LockHeld
<1>3. /\ "fresh again" \in Labels /\ "fresh again" # "recent again"
      /\ "fresh again" \notin Underway /\ "fresh again" # "clear"
  BY Zenon DEF Labels, Underway
<1> QED BY <1>1, <1>2, <1>3, MovesOne, Zenon

LEMMA RecentErrorAgainKeeps ==
  ASSUME CacheInv, NEW c \in Callers, RecentErrorAgain(c)
  PROVE  CacheInv'
<1>1. /\ UNCHANGED <<now, state, last_error>> /\ pc[c] = "recent again"
      /\ ~InForce(state) /\ calls \in Nat
  BY Zenon DEF RecentErrorAgain, slots, CacheInv, Types, Seen
<1>2. CASE InForce(last_error)
  BY <1>1, <1>2, Leaves, Zenon DEF RecentErrorAgain
<1>3. CASE ~InForce(last_error)
  <2>1. Goto(c, "dbsync") /\ UNCHANGED holder
    BY <1>3, Zenon DEF RecentErrorAgain
  <2>2. calls' = calls + 1
    BY <1>3, Zenon DEF RecentErrorAgain
  <2>3. calls' \in Nat
    <3>1. calls \in Nat
      BY Zenon DEF CacheInv, Types
    <3> QED BY ONLY <3>1, <2>2
  <2>4. /\ "dbsync" \in Labels /\ pc[c] \in Holding
        /\ "dbsync" # "recent again" /\ "dbsync" # "clear"
    BY <1>1, Zenon DEF Labels, Holding
  <2> QED BY <1>1, <1>3, <2>1, <2>3, <2>4, GoesOn, Zenon
<1> QED BY <1>2, <1>3, Zenon

\* the steps of a refresh stay under way
LEMMA RefreshKeeps ==
  ASSUME CacheInv, NEW c \in Callers, pc[c] \in Underway, NEW label \in Underway,
         Goto(c, label) \/ UNCHANGED pc, UNCHANGED <<now, slots, lock, calls>>
  PROVE  CacheInv'
<1>1. /\ ~InForce(state) /\ ~InForce(last_error) /\ calls' \in Nat
      /\ UNCHANGED <<now, state, last_error, holder>>
  BY Zenon DEF CacheInv, Seen, Types, slots, lock
<1>2. pc[c] \in Holding /\ label \in Labels /\ label # "recent again" /\ label # "clear"
  BY Zenon DEF Underway, Holding, Labels
<1>3. CASE Goto(c, label)
  BY <1>1, <1>2, <1>3, GoesOn, Zenon
<1>4. CASE UNCHANGED pc
  BY <1>1, <1>4, Zenon
  DEF CacheInv, Types, LockHeld, Seen, OneSlotInForce, InForce
<1> QED BY <1>3, <1>4, Zenon

LEMMA RefreshStepKeeps ==
  ASSUME CacheInv, NEW c \in Callers,
         \/ get_last_updated_dbsync(c) \/ DbsyncFails(c) \/ Succeeds(c)
         \/ \E e \in {"Timeout", "Transient", "JsonRpc", "Decode"} : FailsForGood(c, e) \/ Retries(c, e)
  PROVE  CacheInv'
<1>1. UNCHANGED <<now, slots, lock, calls>> /\ pc[c] \in {"dbsync", "ogmios"}
  BY Zenon DEF get_last_updated_dbsync, DbsyncFails, Succeeds, FailsForGood, Retries, Refreshing
<1>2. \/ Goto(c, "ogmios") \/ Goto(c, "store") \/ Goto(c, "store error") \/ UNCHANGED pc
  <2>1. ASSUME NEW status, Finish(c, status) PROVE Goto(c, "store") \/ Goto(c, "store error")
    <3>1. CASE status = 200
      BY <2>1, <3>1, Zenon DEF Finish
    <3>2. CASE status # 200
      BY <2>1, <3>2, Zenon DEF Finish
    <3> QED BY <3>1, <3>2, Zenon
  <2>2. CASE get_last_updated_dbsync(c)
    BY <2>2, Zenon DEF get_last_updated_dbsync
  <2>3. CASE DbsyncFails(c) \/ Succeeds(c)
    BY <2>1, <2>3, Zenon DEF DbsyncFails, Succeeds
  <2>4. ASSUME NEW e, FailsForGood(c, e) \/ Retries(c, e)
        PROVE  Goto(c, "store") \/ Goto(c, "store error") \/ UNCHANGED pc
    <3>1. CASE FailsForGood(c, e)
      BY <2>1, <3>1, Zenon DEF FailsForGood
    <3>2. CASE Retries(c, e) /\ attempt < MaxRetries
      BY <3>2, Zenon DEF Retries
    <3>3. CASE Retries(c, e) /\ ~(attempt < MaxRetries)
      BY <2>1, <3>3, Zenon DEF Retries
    <3> QED BY <2>4, <3>1, <3>2, <3>3, Zenon
  <2> QED BY <2>2, <2>3, <2>4, Zenon
<1>3. /\ pc[c] \in Underway
      /\ "ogmios" \in Underway /\ "store" \in Underway /\ "store error" \in Underway
  BY <1>1, Zenon DEF Underway
<1> QED BY <1>1, <1>2, <1>3, RefreshKeeps, Zenon

\* A value is stored while no error is in force, and the caller that stores
\* it is the only one that relies on the lock.
LEMMA StoreKeeps ==
  ASSUME CacheInv, NEW c \in Callers, Store(c)
  PROVE  CacheInv'
<1>1. /\ pc[c] = "store" /\ pc' = [pc EXCEPT ![c] = "clear"]
      /\ state' = Entry(held[c], now + Ttl)
      /\ UNCHANGED <<now, last_error, holder, calls>>
  BY Zenon DEF Store, Goto, lock
<1>2. pc[c] \in Holding /\ pc[c] \in Underway /\ "clear" \in Labels
  BY <1>1, Zenon DEF Holding, Underway, Labels
<1>3. ~InForce(last_error)' /\ holder = c
  BY <1>1, <1>2, Zenon DEF CacheInv, Seen, LockHeld, InForce
<1>4. /\ pc'[c] = "clear"
      /\ \A d \in Callers : d # c => pc'[d] = pc[d] /\ pc[d] \notin Holding
  BY <1>1, <1>2, Alone, Zenon DEF CacheInv, Types
<1>5. Types'
  <2>1. state'.expires_at = now + Ttl /\ now + Ttl \in Nat
    BY <1>1, CacheConstants DEF Entry, CacheInv, Types
  <2> QED BY <1>1, <1>2, <2>1, Zenon DEF CacheInv, Types
<1>6. LockHeld'
  BY <1>1, <1>3, <1>4, Zenon DEF LockHeld
<1>7. Seen'
  <2>1. "clear" # "recent again" /\ "clear" \notin Underway
    BY Zenon DEF Underway
  <2> QED BY <1>3, <1>4, <2>1, Outside, Zenon DEF Seen
<1>8. OneSlotInForce'
  BY <1>3, Zenon DEF OneSlotInForce
<1> QED BY <1>5, <1>6, <1>7, <1>8, Zenon DEF CacheInv

\* a step that returns the lock's holder after writing the error slot
LEMMA LastErrorKeeps ==
  ASSUME CacheInv, NEW c \in Callers, pc[c] \in Holding, NEW o, Return(c, o),
         UNCHANGED <<now, state, calls>>, last_error'.expires_at \in Nat,
         ~InForce(state) \/ ~InForce(last_error)'
  PROVE  CacheInv'
<1>1. pc' = [pc EXCEPT ![c] = "idle"] /\ "idle" \in Labels /\ "idle" \notin Holding
  BY Zenon DEF Return, Goto, Labels, Holding
<1>2. \A d \in Callers : pc'[d] \notin Holding
  BY <1>1, Alone, Zenon DEF CacheInv, Types
<1>3. Types'
  BY <1>1, Zenon DEF CacheInv, Types
<1>4. LockHeld' /\ Seen'
  BY <1>2, Outside, Zenon DEF LockHeld, Seen
<1>5. InForce(state)' = InForce(state)
  BY Zenon DEF InForce
<1>6. OneSlotInForce'
  BY <1>5, Zenon DEF OneSlotInForce
<1> QED BY <1>3, <1>4, <1>6, Zenon DEF CacheInv

LEMMA ClearKeeps ==
  ASSUME CacheInv, NEW c \in Callers, Clear(c)
  PROVE  CacheInv'
<1>1. /\ pc[c] \in Holding /\ Return(c, held[c]) /\ UNCHANGED <<now, state, calls>>
      /\ last_error' = Entry(NoOutcome, 0)
  BY Zenon DEF Clear, Holding
<1>2. last_error'.expires_at = 0
  BY <1>1, Zenon DEF Entry
<1>3. ~InForce(last_error)'
  BY <1>1, <1>2 DEF InForce, CacheInv, Types
<1> QED BY <1>1, <1>2, <1>3, LastErrorKeeps

LEMMA StoreErrorKeeps ==
  ASSUME CacheInv, NEW c \in Callers, StoreError(c)
  PROVE  CacheInv'
<1>1. /\ pc[c] \in Holding /\ pc[c] \in Underway
      /\ Return(c, held[c]) /\ UNCHANGED <<now, state, calls>>
      /\ last_error' = Entry(held[c], now + FailureTtl)
  BY Zenon DEF StoreError, Holding, Underway
<1>2. last_error'.expires_at \in Nat
  BY <1>1, CacheConstants DEF Entry, CacheInv, Types
<1>3. ~InForce(state)
  BY <1>1, Zenon DEF CacheInv, Seen
<1> QED BY <1>1, <1>2, <1>3, LastErrorKeeps, Zenon

\* what has lapsed stays so
LEMMA TickKeeps ==
  ASSUME CacheInv, Tick
  PROVE  CacheInv'
<1>1. now' = now + 1 /\ UNCHANGED <<state, last_error, holder, pc, calls>>
  BY Zenon DEF Tick, slots, lock
<1>2. /\ InForce(state)' => InForce(state)
      /\ InForce(last_error)' => InForce(last_error)
  BY <1>1 DEF InForce, CacheInv, Types
<1>3. Types'
  BY <1>1 DEF CacheInv, Types
<1>4. LockHeld' /\ Seen' /\ OneSlotInForce'
  BY <1>1, <1>2, Zenon DEF CacheInv, LockHeld, Seen, OneSlotInForce
<1> QED BY <1>3, <1>4, Zenon DEF CacheInv

LEMMA ArriveKeeps ==
  ASSUME CacheInv, NEW c \in Callers, Arrive(c)
  PROVE  CacheInv'
<1>1. Goto(c, "fresh") /\ UNCHANGED <<now, state, last_error, holder>> /\ calls' \in Nat
  BY Zenon DEF Arrive, slots, lock, CacheInv, Types
<1>2. /\ "fresh" \in Labels /\ "fresh" \notin Holding
      /\ "fresh" # "recent again" /\ "fresh" \notin Underway /\ "fresh" # "clear"
  BY Zenon DEF Labels, Holding, Underway
<1> QED BY <1>1, <1>2, GoesOn, Zenon

-----------------------------------------------------------------------------
\* The invariant holds in every reachable state.
THEOREM CacheInvariance == Spec => []CacheInv
<1>1. Init => CacheInv
  BY DEF Init, CacheInv, Types, LockHeld, Seen, OneSlotInForce, InForce, Entry, Labels,
         Holding, Underway
<1>2. CacheInv /\ [Next]_vars => CacheInv'
  <2> SUFFICES ASSUME CacheInv, [Next]_vars PROVE CacheInv'
    BY Zenon
  <2>1. CASE Tick
    BY <2>1, TickKeeps, Zenon
  <2>2. ASSUME NEW c \in Callers, Arrive(c) PROVE CacheInv'
    BY <2>2, ArriveKeeps, Zenon
  <2>3. ASSUME NEW c \in Callers, Steps(c) PROVE CacheInv'
    BY <2>3, FreshKeeps, RecentErrorKeeps, AcquireKeeps, RecentErrorAgainKeeps,
       RefreshStepKeeps, StoreKeeps, ClearKeeps, StoreErrorKeeps DEF Steps
  <2>6. ASSUME NEW c \in Callers, get_last_updated_dbsync(c) \/ DbsyncFails(c) PROVE CacheInv'
    BY <2>6, RefreshStepKeeps, Zenon
  <2>4. ASSUME NEW c \in Callers, Cancel(c) PROVE CacheInv'
    BY <2>4, Leaves, Zenon DEF Cancel, slots
  <2>5. CASE UNCHANGED vars
    BY <2>5, Zenon DEF vars, slots, lock, CacheInv, Types, LockHeld, Seen, OneSlotInForce, InForce
  <2> QED BY <2>1, <2>2, <2>3, <2>4, <2>5, <2>6, Zenon DEF Next
<1> QED BY <1>1, <1>2, PTL DEF Spec

\* A value and an error are never both in force, wherever callers of
\* get_or_refresh are suspended or cancelled.
THEOREM OneSlot == Spec => []OneSlotInForce
<1>1. CacheInv => OneSlotInForce
  BY Zenon DEF CacheInv
<1> QED BY <1>1, CacheInvariance, PTL

\* get_or_refresh calls the backend only when no other caller does, and only
\* when neither slot has an outcome in force.
THEOREM RefreshesOnce == Spec => SingleFlight
<1> DEFINE Once ==
      calls' > calls =>
        /\ ~InForce(state) /\ ~InForce(last_error)
        /\ \A c \in Callers : pc[c] \notin {"dbsync", "ogmios", "store", "clear", "store error"}
<1>1. CacheInv /\ [Next]_vars => [Once]_vars
  <2> SUFFICES ASSUME CacheInv, Next, calls' > calls
               PROVE  /\ ~InForce(state) /\ ~InForce(last_error)
                      /\ \A c \in Callers :
                           pc[c] \notin {"dbsync", "ogmios", "store", "clear", "store error"}
    BY Zenon
  <2>1. calls' # calls
    BY DEF CacheInv, Types
  <2>2. PICK c \in Callers : RecentErrorAgain(c)
    BY <2>1, Zenon
    DEF Next, Tick, Arrive, Steps, Fresh, RecentError, Acquire, Store, Clear, StoreError,
       Cancel, get_last_updated_dbsync, DbsyncFails, Succeeds, FailsForGood, Retries, Refreshing
  <2>3. pc[c] = "recent again" /\ ~InForce(last_error) /\ pc[c] \in Holding
    BY <2>1, <2>2, Zenon DEF RecentErrorAgain, Holding
  <2>4. ~InForce(state)
    BY <2>3, Zenon DEF CacheInv, Seen
  <2>5. \A d \in Callers : d # c => pc[d] \notin Holding
    BY <2>3, Alone, Zenon DEF CacheInv
  <2> QED BY <2>3, <2>4, <2>5, Zenon DEF Holding
<1> QED BY <1>1, CacheInvariance, PTL DEF Spec, SingleFlight

-----------------------------------------------------------------------------
(* No caller is told something older than what was stored when it came.    *)

\* where an outcome is held and not stored yet
Holds == {"store", "store error"}

AnswerTypes ==
  /\ stored \in Nat /\ stored <= calls
  /\ since \in [Callers -> Nat] /\ held \in [Callers -> Outcomes]

\* a slot in force holds the last outcome that was stored
SlotsAreLast ==
  /\ InForce(state) => state.outcome.call = stored /\ state.outcome \in Outcomes
  /\ InForce(last_error) => last_error.outcome.call = stored /\ last_error.outcome \in Outcomes

\* what a caller found when it came, and what the leader has in hand
InHand ==
  \A c \in Callers :
    /\ since[c] <= stored
    /\ pc[c] \in Holds => held[c].call = calls
    /\ pc[c] = "clear" => held[c].call = stored

\* the inductive invariant, beside CacheInv
AnswerInv == AnswerTypes /\ SlotsAreLast /\ InHand /\ AnswerIsCurrent

-----------------------------------------------------------------------------
LEMMA NoOutcomeType == NoOutcome \in Outcomes /\ NoOutcome.call = 0
BY Zenon DEF NoOutcome, Outcome, Outcomes

\* A step that touches no slot, clock or outcome number, and moves callers
\* to labels where nothing is in hand.
LEMMA AnswerQuiet ==
  ASSUME CacheInv, AnswerInv, NEW c \in Callers, NEW label \in Labels, Goto(c, label),
         label \notin Holds, label # "clear", label = "idle" => held'[c] = NoOutcome,
         UNCHANGED <<now, state, last_error, stored, calls, since>>,
         held' = held \/ held' = [held EXCEPT ![c] = NoOutcome]
  PROVE  AnswerInv'
<1>1. /\ pc'[c] = label /\ \A d \in Callers : d # c => pc'[d] = pc[d]
  BY Zenon DEF CacheInv, Types, Goto
<1>2. /\ held' \in [Callers -> Outcomes]
      /\ \A d \in Callers : d # c => held'[d] = held[d]
  BY NoOutcomeType, Zenon DEF AnswerInv, AnswerTypes
<1>3. AnswerTypes'
  BY <1>2, Zenon DEF AnswerInv, AnswerTypes
<1>4. SlotsAreLast'
  BY Zenon DEF AnswerInv, SlotsAreLast, InForce
<1>5. InHand'
  BY <1>1, <1>2, Zenon DEF AnswerInv, InHand
<1>6. AnswerIsCurrent'
  BY <1>1, <1>2, Zenon DEF AnswerInv, AnswerIsCurrent
<1> QED BY <1>3, <1>4, <1>5, <1>6, Zenon DEF AnswerInv

\* The caller returns with the last outcome that was stored; the slots may
\* change as long as they keep what SlotsAreLast says of them.
LEMMA AnswerReturns ==
  ASSUME CacheInv, AnswerInv, NEW c \in Callers, NEW o \in Outcomes, Return(c, o),
         o = NoOutcome \/ o.call = stored', stored' \in Nat, stored <= stored', stored' <= calls,
         \A d \in Callers : d # c /\ pc[d] = "clear" => stored' = stored,
         UNCHANGED <<calls, since>>, SlotsAreLast'
  PROVE  AnswerInv'
<1>1. /\ pc'[c] = "idle" /\ \A d \in Callers : d # c => pc'[d] = pc[d]
  BY Zenon DEF CacheInv, Types, Return, Goto
<1>2. /\ held' \in [Callers -> Outcomes] /\ held'[c] = o
      /\ \A d \in Callers : d # c => held'[d] = held[d]
  BY Zenon DEF AnswerInv, AnswerTypes, Return
<1>3. AnswerTypes'
  BY <1>2, Zenon DEF AnswerInv, AnswerTypes
<1>4. \A d \in Callers : since'[d] = since[d] /\ since[d] \in Nat /\ since[d] <= stored'
  BY DEF AnswerInv, AnswerTypes, InHand
<1>5. InHand'
  BY <1>1, <1>2, <1>4, Zenon DEF AnswerInv, InHand, Holds
<1>6. AnswerIsCurrent'
  BY <1>1, <1>2, <1>4, Zenon DEF AnswerInv, AnswerIsCurrent
<1> QED BY <1>3, <1>5, <1>6, Zenon DEF AnswerInv

\* the caller takes what is in a slot in force
LEMMA AnswerFromSlot ==
  ASSUME CacheInv, AnswerInv, NEW c \in Callers,
         \/ InForce(state) /\ Return(c, state.outcome)
         \/ InForce(last_error) /\ Return(c, last_error.outcome)
         \/ Return(c, NoOutcome),
         UNCHANGED <<now, state, last_error, stored, calls, since>>
  PROVE  AnswerInv'
<1>1. stored' \in Nat /\ stored <= stored' /\ stored' <= calls /\ stored' = stored
  BY DEF AnswerInv, AnswerTypes
<1>2. SlotsAreLast'
  BY Zenon DEF AnswerInv, SlotsAreLast, InForce
<1>3. PICK o \in Outcomes : Return(c, o) /\ (o = NoOutcome \/ o.call = stored')
  BY NoOutcomeType, Zenon DEF AnswerInv, SlotsAreLast
<1> QED BY <1>1, <1>2, <1>3, AnswerReturns, Zenon

LEMMA AnswerArrive ==
  ASSUME CacheInv, AnswerInv, NEW c \in Callers, Arrive(c)
  PROVE  AnswerInv'
<1>1. /\ pc[c] = "idle" /\ pc' = [pc EXCEPT ![c] = "fresh"]
      /\ since' = [since EXCEPT ![c] = stored] /\ held' = [held EXCEPT ![c] = NoOutcome]
      /\ UNCHANGED <<now, state, last_error, stored, calls>>
  BY Zenon DEF Arrive, Goto, slots
<1>2. /\ pc'[c] = "fresh" /\ \A d \in Callers : d # c => pc'[d] = pc[d]
  BY <1>1, Zenon DEF CacheInv, Types
<1>3. /\ held' \in [Callers -> Outcomes] /\ since' \in [Callers -> Nat] /\ since'[c] = stored
      /\ \A d \in Callers : d # c => held'[d] = held[d] /\ since'[d] = since[d]
  BY <1>1, NoOutcomeType, Zenon DEF AnswerInv, AnswerTypes
<1>4. AnswerTypes'
  BY <1>1, <1>3, Zenon DEF AnswerInv, AnswerTypes
<1>5. SlotsAreLast'
  BY <1>1, Zenon DEF AnswerInv, SlotsAreLast, InForce
<1>6. InHand'
  <2>1. \A d \in Callers : since'[d] <= stored'
    BY <1>1, <1>3 DEF AnswerInv, AnswerTypes, InHand
  <2>2. \A d \in Callers : pc'[d] \in Holds \/ pc'[d] = "clear" => d # c
    BY <1>2, Zenon DEF Holds
  <2>3. \A d \in Callers : d # c => pc'[d] = pc[d] /\ held'[d] = held[d]
    BY <1>2, <1>3, Zenon
  <2> QED BY <1>1, <2>1, <2>2, <2>3, Zenon DEF AnswerInv, InHand
<1>7. AnswerIsCurrent'
  BY <1>1, <1>2, <1>3, Zenon DEF AnswerInv, AnswerIsCurrent
<1> QED BY <1>4, <1>5, <1>6, <1>7, Zenon DEF AnswerInv

\* the callers' moves before a refresh begins
LEMMA AnswerLooks ==
  ASSUME CacheInv, AnswerInv, NEW c \in Callers, Fresh(c) \/ RecentError(c) \/ Acquire(c)
  PROVE  AnswerInv'
<1>1. UNCHANGED <<now, state, last_error, stored, calls, since>>
  BY Zenon DEF Fresh, RecentError, Acquire, slots
<1>2. \A label \in {"recent", "recent again", "queued", "fresh again"} :
        label \in Labels /\ label \notin Holds /\ label # "clear" /\ label # "idle"
  BY Zenon DEF Labels, Holds
<1>3. CASE /\ UNCHANGED held
           /\ \E label \in {"recent", "recent again", "queued", "fresh again"} : Goto(c, label)
  BY <1>1, <1>2, <1>3, AnswerQuiet, Zenon
<1>4. CASE \/ InForce(state) /\ Return(c, state.outcome)
           \/ InForce(last_error) /\ Return(c, last_error.outcome)
  BY <1>1, <1>4, AnswerFromSlot, Zenon
<1>5. CASE Fresh(c)
  BY <1>3, <1>4, <1>5, Zenon DEF Fresh
<1>6. CASE RecentError(c)
  BY <1>3, <1>4, <1>6, Zenon DEF RecentError
<1>7. CASE Acquire(c)
  BY <1>3, <1>7, Zenon DEF Acquire
<1> QED BY <1>5, <1>6, <1>7, Zenon

\* A refresh begins: its caller has the lock, so nobody holds an outcome
\* with the old number.
LEMMA AnswerBegins ==
  ASSUME CacheInv, AnswerInv, NEW c \in Callers, RecentErrorAgain(c)
  PROVE  AnswerInv'
<1>1. /\ UNCHANGED <<now, state, last_error, stored, since>> /\ pc[c] = "recent again"
  BY Zenon DEF RecentErrorAgain, slots
<1>2. CASE InForce(last_error)
  <2>1. Return(c, last_error.outcome) /\ UNCHANGED calls
    BY <1>2, Zenon DEF RecentErrorAgain
  <2> QED BY <1>1, <1>2, <2>1, AnswerFromSlot, Zenon
<1>3. CASE ~InForce(last_error)
  <2>1. pc' = [pc EXCEPT ![c] = "dbsync"] /\ calls' = calls + 1 /\ UNCHANGED held
    BY <1>3, Zenon DEF RecentErrorAgain, Goto
  <2>2. \A d \in Callers : pc'[d] \notin Holds
    <3>1. pc[c] \in Holding /\ "dbsync" \notin Holds /\ Holds \subseteq Holding
      BY <1>1, Zenon DEF Holding, Holds
    <3>2. \A d \in Callers : d # c => pc[d] \notin Holding
      BY <3>1, Alone, Zenon DEF CacheInv
    <3> QED BY <2>1, <3>1, <3>2, Zenon DEF CacheInv, Types
  <2>3. \A d \in Callers : /\ pc'[d] = "clear" => pc[d] = "clear"
                           /\ pc'[d] = "idle" => pc[d] = "idle"
    BY <2>1, Zenon DEF CacheInv, Types
  <2>4. AnswerTypes'
    <3>1. calls \in Nat /\ stored \in Nat /\ stored <= calls
      BY Zenon DEF CacheInv, Types, AnswerInv, AnswerTypes
    <3>2. stored <= calls'
      BY ONLY <3>1, <2>1
    <3> QED BY <1>1, <2>1, <3>2, Zenon DEF AnswerInv, AnswerTypes
  <2>5. SlotsAreLast'
    BY <1>1, Zenon DEF AnswerInv, SlotsAreLast, InForce
  <2>6. InHand'
    BY <1>1, <2>1, <2>2, <2>3, Zenon DEF AnswerInv, InHand
  <2>7. AnswerIsCurrent'
    BY <1>1, <2>1, <2>3, Zenon DEF AnswerInv, AnswerIsCurrent
  <2> QED BY <2>4, <2>5, <2>6, <2>7, Zenon DEF AnswerInv
<1> QED BY <1>2, <1>3, Zenon

\* an outcome is numbered by the refresh that is under way
LEMMA AnswerFinish ==
  ASSUME CacheInv, AnswerInv, NEW c \in Callers, NEW status,
         Outcome(calls, status) \in Outcomes, Finish(c, status),
         UNCHANGED <<now, state, last_error, stored, calls, since>>
  PROVE  AnswerInv'
<1>1. /\ held' = [held EXCEPT ![c] = Outcome(calls, status)]
      /\ pc'[c] \in Holds /\ \A d \in Callers : d # c => pc'[d] = pc[d]
  <2>1. PICK label \in Holds : Goto(c, label)
    BY Zenon DEF Finish, Holds
  <2>2. pc'[c] = label /\ \A d \in Callers : d # c => pc'[d] = pc[d]
    BY <2>1, Zenon DEF Goto, CacheInv, Types
  <2> QED BY <2>2, Zenon DEF Finish
<1>2. Outcome(calls, status).call = calls
  BY Zenon DEF Outcome
<1>3. /\ held' \in [Callers -> Outcomes] /\ held'[c].call = calls
      /\ \A d \in Callers : d # c => held'[d] = held[d]
  BY <1>1, <1>2, Zenon DEF AnswerInv, AnswerTypes
<1>4. pc'[c] # "clear" /\ pc'[c] # "idle"
  BY <1>1, Zenon DEF Holds
<1>5. AnswerTypes'
  BY <1>3, Zenon DEF AnswerInv, AnswerTypes
<1>6. SlotsAreLast'
  BY Zenon DEF AnswerInv, SlotsAreLast, InForce
<1>7. InHand'
  <2> SUFFICES ASSUME NEW d \in Callers
               PROVE  /\ since'[d] <= stored'
                      /\ pc'[d] \in Holds => held'[d].call = calls'
                      /\ pc'[d] = "clear" => held'[d].call = stored'
    BY Zenon DEF InHand
  <2>1. since' = since /\ stored' = stored /\ calls' = calls
    BY Zenon
  <2>2. CASE d = c
    BY <1>3, <1>4, <2>1, <2>2, Zenon DEF AnswerInv, InHand
  <2>3. CASE d # c
    <3>1. pc'[d] = pc[d] /\ held'[d] = held[d]
      BY <1>1, <1>3, <2>3, Zenon
    <3> QED BY <2>1, <3>1, Zenon DEF AnswerInv, InHand
  <2> QED BY <2>2, <2>3, Zenon
<1>8. AnswerIsCurrent'
  <2> SUFFICES ASSUME NEW d \in Callers, pc'[d] = "idle", held'[d] # NoOutcome
               PROVE  held'[d].call >= since'[d]
    BY Zenon DEF AnswerIsCurrent
  <2>1. since' = since /\ d # c
    BY <1>4, Zenon
  <2>2. pc'[d] = pc[d] /\ held'[d] = held[d]
    BY <1>1, <1>3, <2>1, Zenon
  <2> QED BY <2>1, <2>2, Zenon DEF AnswerInv, AnswerIsCurrent
<1> QED BY <1>5, <1>6, <1>7, <1>8, Zenon DEF AnswerInv

LEMMA AnswerRefresh ==
  ASSUME CacheInv, AnswerInv, NEW c \in Callers,
         \/ get_last_updated_dbsync(c) \/ DbsyncFails(c) \/ Succeeds(c)
         \/ \E e \in {"Timeout", "Transient", "JsonRpc", "Decode"} : FailsForGood(c, e) \/ Retries(c, e)
  PROVE  AnswerInv'
<1>1. UNCHANGED <<now, state, last_error, stored, calls, since>>
  BY Zenon
  DEF get_last_updated_dbsync, DbsyncFails, Succeeds, FailsForGood, Retries, Refreshing, slots
<1>2. CASE get_last_updated_dbsync(c)
  <2>1. Goto(c, "ogmios") /\ UNCHANGED held
    BY <1>2, Zenon DEF get_last_updated_dbsync
  <2>2. "ogmios" \in Labels /\ "ogmios" \notin Holds /\ "ogmios" # "clear" /\ "ogmios" # "idle"
    BY Zenon DEF Labels, Holds
  <2> QED BY <1>1, <2>1, <2>2, AnswerQuiet, Zenon
<1>3. CASE UNCHANGED <<pc, held>>
  BY <1>1, <1>3, Zenon DEF AnswerInv, AnswerTypes, SlotsAreLast, InHand, AnswerIsCurrent, InForce
<1>4. \A e \in {"Timeout", "Transient", "JsonRpc", "Decode"} :
        map_ogmios_error(e) \in {200, 500, 503, 504}
  BY DEF map_ogmios_error
<1>5. CASE \E status \in {200, 500, 503, 504} : Finish(c, status)
  <2>1. \A status \in {200, 500, 503, 504} : Outcome(calls, status) \in Outcomes
    BY DEF Outcome, Outcomes, CacheInv, Types
  <2> QED BY <1>1, <1>5, <2>1, AnswerFinish
<1>6. CASE DbsyncFails(c) \/ Succeeds(c)
  BY <1>5, <1>6 DEF DbsyncFails, Succeeds
<1>7. ASSUME NEW e \in {"Timeout", "Transient", "JsonRpc", "Decode"}, FailsForGood(c, e) \/ Retries(c, e)
      PROVE  AnswerInv'
  <2>1. Finish(c, map_ogmios_error(e)) \/ UNCHANGED <<pc, held>>
    BY <1>7, Zenon DEF FailsForGood, Retries
  <2> QED BY <1>3, <1>4, <1>5, <2>1
<1> QED BY <1>2, <1>6, <1>7, Zenon

\* A value is stored under the lock while no error is in force, so it is the
\* last outcome, and so is the only slot in force.
LEMMA AnswerStore ==
  ASSUME CacheInv, AnswerInv, NEW c \in Callers, Store(c)
  PROVE  AnswerInv'
<1>1. /\ pc[c] = "store" /\ pc' = [pc EXCEPT ![c] = "clear"]
      /\ state' = Entry(held[c], now + Ttl) /\ stored' = held[c].call
      /\ UNCHANGED <<now, last_error, held, calls, since>>
  BY Zenon DEF Store, Goto
<1>2. pc[c] \in Holding /\ pc[c] \in Underway /\ pc[c] \in Holds /\ Holds \subseteq Holding
  BY <1>1, Zenon DEF Holding, Underway, Holds
<1>3. stored' = calls /\ held[c] \in Outcomes /\ stored <= stored' /\ stored' \in Nat
  BY <1>1, <1>2, Zenon DEF AnswerInv, AnswerTypes, InHand, CacheInv, Types
<1>4. ~InForce(last_error)'
  BY <1>1, <1>2, Zenon DEF CacheInv, Seen, InForce
<1>5. /\ pc'[c] = "clear" /\ \A d \in Callers : d # c => pc'[d] = pc[d] /\ pc[d] \notin Holding
  BY <1>1, <1>2, Alone, Zenon DEF CacheInv, Types
<1>6. AnswerTypes'
  BY <1>1, <1>3 DEF AnswerInv, AnswerTypes, CacheInv, Types
<1>7. SlotsAreLast'
  BY <1>1, <1>3, <1>4, Zenon DEF SlotsAreLast, Entry
<1>8. InHand'
  <2> SUFFICES ASSUME NEW d \in Callers
               PROVE  /\ since'[d] <= stored'
                      /\ pc'[d] \in Holds => held'[d].call = calls'
                      /\ pc'[d] = "clear" => held'[d].call = stored'
    BY Zenon DEF InHand
  <2>1. since'[d] <= stored'
    BY <1>1, <1>3 DEF AnswerInv, AnswerTypes, InHand
  <2>2. pc'[d] \notin Holds
    BY <1>2, <1>5, Zenon DEF Holds
  <2>3. pc'[d] = "clear" => d = c
    BY <1>5, Zenon DEF Holding
  <2> QED BY <1>1, <2>1, <2>2, <2>3, Zenon
<1>9. AnswerIsCurrent'
  <2>1. \A d \in Callers : pc'[d] = "idle" => pc[d] = "idle" /\ held'[d] = held[d] /\ since'[d] = since[d]
    BY <1>1, <1>5, Zenon
  <2> QED BY <2>1, Zenon DEF AnswerInv, AnswerIsCurrent
<1> QED BY <1>6, <1>7, <1>8, <1>9, Zenon DEF AnswerInv

LEMMA AnswerClear ==
  ASSUME CacheInv, AnswerInv, NEW c \in Callers, Clear(c)
  PROVE  AnswerInv'
<1>1. /\ pc[c] = "clear" /\ Return(c, held[c]) /\ last_error' = Entry(NoOutcome, 0)
      /\ UNCHANGED <<now, state, stored, calls, since>>
  BY Zenon DEF Clear
<1>2. held[c] \in Outcomes /\ held[c].call = stored
  BY <1>1, Zenon DEF AnswerInv, AnswerTypes, InHand
<1>3. ~InForce(last_error)'
  BY <1>1 DEF InForce, Entry, CacheInv, Types
<1>4. SlotsAreLast'
  BY <1>1, <1>3, Zenon DEF AnswerInv, SlotsAreLast, InForce
<1>5. stored' \in Nat /\ stored <= stored' /\ stored' <= calls /\ stored' = stored
  BY <1>1 DEF AnswerInv, AnswerTypes
<1> QED BY <1>1, <1>2, <1>4, <1>5, AnswerReturns, Zenon

LEMMA AnswerStoreError ==
  ASSUME CacheInv, AnswerInv, NEW c \in Callers, StoreError(c)
  PROVE  AnswerInv'
<1>1. /\ pc[c] = "store error" /\ Return(c, held[c])
      /\ last_error' = Entry(held[c], now + FailureTtl) /\ stored' = held[c].call
      /\ UNCHANGED <<now, state, calls, since>>
  BY Zenon DEF StoreError
<1>2. pc[c] \in Holding /\ pc[c] \in Underway /\ pc[c] \in Holds
  BY <1>1, Zenon DEF Holding, Underway, Holds
<1>3. stored' = calls /\ held[c] \in Outcomes
  BY <1>1, <1>2, Zenon DEF AnswerInv, AnswerTypes, InHand
<1>4. stored <= stored' /\ stored' \in Nat /\ stored' <= calls
  BY <1>3 DEF AnswerInv, AnswerTypes, CacheInv, Types
<1>5. ~InForce(state)'
  BY <1>1, <1>2, Zenon DEF CacheInv, Seen, InForce
<1>6. SlotsAreLast'
  BY <1>1, <1>3, <1>5, Zenon DEF SlotsAreLast, Entry
<1>7. \A d \in Callers : d # c => pc[d] # "clear"
  BY <1>2, Alone, Zenon DEF CacheInv, Holding
<1> QED BY <1>1, <1>3, <1>4, <1>6, <1>7, AnswerReturns, Zenon

LEMMA AnswerTick ==
  ASSUME CacheInv, AnswerInv, Tick
  PROVE  AnswerInv'
<1>1. now' = now + 1 /\ UNCHANGED <<state, last_error, pc, held, stored, calls, since>>
  BY Zenon DEF Tick, slots
<1>2. /\ InForce(state)' => InForce(state)
      /\ InForce(last_error)' => InForce(last_error)
  BY <1>1 DEF InForce, CacheInv, Types
<1>3. SlotsAreLast'
  BY <1>1, <1>2, Zenon DEF AnswerInv, SlotsAreLast
<1>4. AnswerTypes' /\ InHand' /\ AnswerIsCurrent'
  BY <1>1, Zenon DEF AnswerInv, AnswerTypes, InHand, AnswerIsCurrent
<1> QED BY <1>3, <1>4, Zenon DEF AnswerInv

\* Whatever get_or_refresh returns, from a slot, from a refresh of its own or
\* from the leader it waited for, is at least as recent as the last outcome
\* stored before the call: a lapsed error does not come back.
THEOREM AnswersAreCurrent == Spec => []AnswerIsCurrent
<1>1. Init => AnswerInv
  <2> SUFFICES ASSUME Init PROVE AnswerInv
    BY Zenon
  <2>1. ~InForce(state) /\ ~InForce(last_error)
    BY DEF Init, InForce, Entry
  <2>2. AnswerTypes
    BY NoOutcomeType DEF Init, AnswerTypes
  <2>3. InHand /\ AnswerIsCurrent
    BY DEF Init, InHand, AnswerIsCurrent, Holds
  <2> QED BY <2>1, <2>2, <2>3, Zenon DEF AnswerInv, SlotsAreLast
<1>2. CacheInv /\ AnswerInv /\ [Next]_vars => AnswerInv'
  <2> SUFFICES ASSUME CacheInv, AnswerInv, [Next]_vars PROVE AnswerInv'
    BY Zenon
  <2>1. CASE Tick
    BY <2>1, AnswerTick, Zenon
  <2>2. ASSUME NEW c \in Callers, Arrive(c) PROVE AnswerInv'
    BY <2>2, AnswerArrive, Zenon
  <2>3. ASSUME NEW c \in Callers, Steps(c) PROVE AnswerInv'
    BY <2>3, AnswerLooks, AnswerBegins, AnswerRefresh, AnswerStore, AnswerClear, AnswerStoreError
    DEF Steps
  <2>6. ASSUME NEW c \in Callers, get_last_updated_dbsync(c) \/ DbsyncFails(c) PROVE AnswerInv'
    BY <2>6, AnswerRefresh, Zenon
  <2>4. ASSUME NEW c \in Callers, Cancel(c) PROVE AnswerInv'
    BY <2>4, AnswerFromSlot, Zenon DEF Cancel, slots
  <2>5. CASE UNCHANGED vars
    BY <2>5, Zenon
    DEF vars, slots, lock, AnswerInv, AnswerTypes, SlotsAreLast, InHand, AnswerIsCurrent, InForce
  <2> QED BY <2>1, <2>2, <2>3, <2>4, <2>5, <2>6, Zenon DEF Next
<1>3. AnswerInv => AnswerIsCurrent
  BY Zenon DEF AnswerInv
<1> QED BY <1>1, <1>2, <1>3, CacheInvariance, PTL DEF Spec
=============================================================================
