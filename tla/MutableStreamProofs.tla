------------------------- MODULE MutableStreamProofs -------------------------
(***************************************************************************)
(* A stream over the log never skips an entry and never closes without     *)
(* need, whatever the bounds are: a lag and rollbacks of any length.       *)
(***************************************************************************)
EXTENDS MutableStream, TLAPS

\* An entry is lost exactly when the iterator starts after it, and then the
\* oldest entry of the log stays after the next one to send.
StreamInv ==
  /\ first \in Nat /\ top \in Int /\ next \in Int /\ lost \in BOOLEAN
  /\ lost => first > 0
  /\ pc = "iterating" => (lost <=> next # 1)

\* a consumer that has just attached has lost nothing
LEMMA AttachedHolds ==
  ASSUME NEW f, NEW t, NEW p, NEW n, NEW e, NEW l, NEW w,
         Attached(f, t, p, n, e, l, w)
  PROVE  f = 0 /\ t \in Int /\ n = 0 /\ p # "iterating" /\ l \in BOOLEAN /\ ~l
<1>1. t \in Int
  BY BoundsAssumption DEF Attached
<1>2. p # "iterating"
  BY DEF Attached
<1>3. f = 0 /\ n = 0
  BY DEF Attached
<1>4. l \in BOOLEAN /\ ~l
  BY Zenon DEF Attached
<1> QED BY <1>1, <1>2, <1>3, <1>4

LEMMA InitStreamInv == Init => StreamInv
<1> SUFFICES ASSUME Init PROVE StreamInv
  OBVIOUS
<1>1. /\ first = 0 /\ top \in Int /\ next = 0 /\ pc # "iterating"
      /\ lost \in BOOLEAN /\ ~lost
  BY AttachedHolds DEF Init
<1> QED BY <1>1 DEF StreamInv

\* Writing moves the start of the log only forward.
LEMMA WriteStreamInv ==
  ASSUME StreamInv, Apply \/ Rollback \/ Notify
  PROVE  StreamInv'
<1>1. CASE Apply
  <2>1. first' \in Int /\ first' >= first
    BY <1>1 DEF Apply, StreamInv
  <2>2. top' \in Int
    BY <1>1 DEF Apply, Commits, StreamInv
  <2> QED BY <1>1, <2>1, <2>2 DEF Apply, StreamInv, iterator
<1>2. CASE Rollback
  <2>1. PICK n \in 1..(MaxUndo + 1) : Commits(n)
    BY <1>2 DEF Rollback
  <2>2. top' \in Int
    BY <2>1, BoundsAssumption DEF Commits, StreamInv
  <2> QED BY <1>2, <2>2 DEF Rollback, StreamInv, iterator
<1>3. CASE Notify
  BY <1>3 DEF Notify, StreamInv, log, iterator
<1> QED BY <1>1, <1>2, <1>3

\* An iterator starts right after the last entry sent, or after a lost one.
LEMMA ReadStreamInv ==
  ASSUME StreamInv, Read
  PROVE  StreamInv'
<1>1. CASE Iterate
  <2>1. lost' \in BOOLEAN /\ (lost' <=> (lost \/ first > 0))
    BY <1>1, Zenon DEF Iterate
  <2>2. first' = first /\ top' = top /\ next' = first + 1
    BY <1>1 DEF Iterate, log
  <2>3. lost' <=> first > 0
    BY <2>1 DEF StreamInv
  <2> QED BY <2>1, <2>2, <2>3 DEF StreamInv
<1>2. CASE Send
  BY <1>2 DEF Send, StreamInv, Larger
<1>3. CASE Close
  BY <1>3 DEF Close, StreamInv, log, iterator
<1>4. CASE Wait
  BY <1>4 DEF Wait, StreamInv, log, iterator
<1> QED BY <1>1, <1>2, <1>3, <1>4 DEF Read

LEMMA NextStreamInv ==
  ASSUME StreamInv, [Next]_vars
  PROVE  StreamInv'
<1>1. CASE Write \/ Notify
  BY <1>1, WriteStreamInv DEF Write
<1>2. CASE Read
  BY <1>2, ReadStreamInv
<1>3. CASE Disconnect
  BY <1>3 DEF Disconnect, StreamInv, log, iterator
<1>4. CASE Reattach
  <2>1. /\ first' = 0 /\ top' \in Int /\ next' = 0 /\ pc' # "iterating"
        /\ lost' \in BOOLEAN /\ ~lost'
    BY <1>4, AttachedHolds DEF Reattach
  <2> QED BY <2>1 DEF StreamInv
<1>5. CASE UNCHANGED vars
  BY <1>5 DEF vars, StreamInv
<1> QED BY <1>1, <1>2, <1>3, <1>4, <1>5 DEF Next

\* StreamInv holds in every state of every stream.
THEOREM StreamInvariance == Spec => []StreamInv
BY InitStreamInv, NextStreamInv, PTL DEF Spec

\* stream_mutable never sends an entry after one it missed, for every lag and
\* whatever is pruned at whatever moment.
THEOREM NeverSkips == Spec => NothingSkipped
<1>1. StreamInv /\ [Next]_vars => [Send => ~lost]_vars
  BY DEF StreamInv, Send
<1> QED BY <1>1, StreamInvariance, PTL DEF Spec, NothingSkipped

\* stream_mutable ends with an error only when an entry is gone.
THEOREM NeverClosesEarly == Spec => ClosedOnlyIfLost
<1>1. StreamInv /\ [Next]_vars => [Close => lost]_vars
  BY DEF StreamInv, Close
<1> QED BY <1>1, StreamInvariance, PTL DEF Spec, ClosedOnlyIfLost
=============================================================================
