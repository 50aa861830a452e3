-------------------------------- MODULE Daw --------------------------------
(***************************************************************************)
(* The admin tool daw (services/daw/src/commands.rs): it deletes the keys  *)
(* of an instance, of a dataplane, of a range or of a list, and writes the *)
(* pairs of a list.  It shares TiKV with instances that go on indexing,    *)
(* can be killed or fail at any call, and is then started again.           *)
(*                                                                         *)
(* Keys are those of KeySpace.  Every redis call and every transaction is  *)
(* a step of its own; a transaction reads when it begins and takes effect  *)
(* when it commits.  Logging, counting and the pauses are left out.        *)
(***************************************************************************)
EXTENDS KeySpace

CONSTANTS
  Retired, Live,    \* namespaces: of the stopped and of the indexing instances
  DataKeys(_),      \* the keys of an instance beside its cursor: entries, rollback metadata
  OtherCommands,    \* the range and list commands that are given
  ScanSizes,        \* of --scan-size, 0 included: the tool does not refuse it
  MaxMessage,       \* the keys that fit into one answer of TiKV
  UnforcedDestroy,  \* is --destroy-mode given without --force
  MaxCommands       \* bounds the commands that are given

Namespaces == Retired \cup Live

\* every other key of an instance sorts after its cursor: 'C' is the least tag
IsDataKey(e, k) ==
  /\ k \in Seq(Nat) /\ Len(k) > 2
  /\ k[1] = e[1] /\ k[2] = e[2] /\ k[3] > PREFIX_CURSOR

\* No dataplane is numbered as the tag that all info keys start with: deleting
\* it would delete them with it.
ASSUME DawConstants ==
  /\ Retired \cap Live = {} /\ Namespaces \subseteq (0..255) \X (0..255)
  /\ \A e \in Namespaces : e[1] # PREFIX_INFO
  /\ \A e \in Namespaces : IsFiniteSet(DataKeys(e)) /\ \A k \in DataKeys(e) : IsDataKey(e, k)
  /\ \A c \in OtherCommands :
       \/ c \in [op : {"range"}, range : [start : Seq(Nat), end : Seq(Nat)]]
       \/ c \in [op : {"delete list", "write list"}, keys : SUBSET Seq(Nat)] /\ IsFiniteSet(c.keys)
  /\ ScanSizes \subseteq Nat /\ MaxMessage \in Nat \ {0} /\ UnforcedDestroy \in BOOLEAN

VARIABLES
  db,        \* TiKV
  indexed,   \* what it would hold without daw
  tsKeys,    \* the namespaces in tikv-timestamps-keys
  tsEntries, \* the namespaces that have a key tikv-timestamps:<namespace>
  cmd,       \* the running command
  forced,    \* the commands that were given with --force
  done,      \* the namespaces for which one was carried through
  given      \* counts commands

daw == <<cmd, forced, done, given>>
vars == <<db, indexed, tsKeys, tsEntries, daw>>

-----------------------------------------------------------------------------
(* What an instance keeps.                                                 *)

CursorKey(e) == encode_cursor_key(e)
KeysOf(e) == {CursorKey(e)} \cup DataKeys(e)

Without(f, ks) == [k \in DOMAIN f \ ks |-> f[k]]
With(f, k, v) == [x \in DOMAIN f \cup {k} |-> IF x = k THEN v ELSE f[x]]

AllKeys == UNION {KeysOf(e) \cup {encode_info_key(e)} : e \in Namespaces}

-----------------------------------------------------------------------------
(* Commands.                                                               *)

Options == [force : BOOLEAN, destroy : BOOLEAN]

InstanceCommands == [op : {"instance"}, e : Namespaces, tsOnly : BOOLEAN]
DataplaneCommands == [op : {"dataplane"}, e : Namespaces, tsOnly : {FALSE}]

\* the timestamp keys a command is about
Matches(c, e) ==
  \/ c.op = "instance" /\ e = c.e
  \/ c.op = "dataplane" /\ e[1] = c.e[1]

RangeOf(c) ==
  CASE c.op = "instance"  -> instance_key_range(c.e)
    [] c.op = "dataplane" -> dataplane_key_range(c.e)
    [] c.op = "range"     -> c.range

\* with --force only what belongs to no live instance is deleted
Permitted(c) ==
  \A e \in Live : ~Matches(c, e) /\ ~(c.op = "range" /\ \E k \in KeysOf(e) : InRange(k, c.range))

NoCommand == [pc |-> "none"]
Idle == cmd = NoCommand

Init ==
  /\ db = [k \in AllKeys |-> 0] /\ indexed = db
  /\ tsKeys = Namespaces /\ tsEntries = Namespaces
  /\ cmd = NoCommand /\ forced = {} /\ done = {} /\ given = 0

\* blank: scans that ask for no key are given; retry: parity of the failed scans
Running(c, o, size, pc, todo, r) ==
  [pc |-> pc, c |-> c, force |-> o.force, destroy |-> o.destroy, size |-> size,
   blank |-> size = 0, todo |-> todo, range |-> r, batch |-> {}, conflict |-> FALSE, retry |-> FALSE]

\* handle_delete_cmd up to its first redis call
handle_delete_cmd(c, o, size) ==
  /\ o.force => Permitted(c)
  /\ o.destroy => o.force \/ UnforcedDestroy
  /\ cmd' = Running(c, o, size, "redis", {e \in tsKeys : Matches(c, e)}, RangeOf(c))
  /\ UNCHANGED <<db, indexed, tsKeys, tsEntries>>

\* handle_delete_list_cmd and handle_write_list_cmd up to the commit
handle_list_cmd(c, o) ==
  /\ ~o.destroy
  /\ cmd' = [Running(c, o, 1, "list", {}, <<>>)
             EXCEPT !.batch = IF c.op = "delete list" THEN c.keys \cap DOMAIN db ELSE c.keys]
  /\ UNCHANGED <<db, indexed, tsKeys, tsEntries>>

Given(c, o) ==
  /\ Idle /\ given < MaxCommands /\ given' = given + 1
  /\ forced' = IF o.force THEN forced \cup {[c |-> c, destroy |-> o.destroy]} ELSE forced
  /\ UNCHANGED done

Give ==
  \E o \in Options :
    \/ \E c \in InstanceCommands \cup DataplaneCommands, size \in ScanSizes :
         Given(c, o) /\ handle_delete_cmd(c, o, size)
    \/ \E c \in OtherCommands :
         /\ Given(c, o)
         /\ IF c.op = "range" THEN \E size \in ScanSizes : handle_delete_cmd(c, o, size)
            ELSE handle_list_cmd(c, o)

-----------------------------------------------------------------------------
(* The timestamps in redis: a key is deleted, then taken off the list.     *)

\* (mutant) off the list first
DelTimestampsLast ==
  /\ cmd.pc = "redis" /\ cmd.force
  /\ \E e \in cmd.todo :
       \/ /\ e \in tsKeys /\ tsKeys' = tsKeys \ {e} /\ UNCHANGED <<tsEntries, cmd>>
       \/ /\ e \notin tsKeys /\ tsEntries' = tsEntries \ {e} /\ cmd' = [cmd EXCEPT !.todo = @ \ {e}]
          /\ UNCHANGED tsKeys
  /\ UNCHANGED <<db, indexed, forced, done, given>>

DelTimestamps ==
  /\ cmd.pc = "redis" /\ cmd.force
  /\ \E e \in cmd.todo :
       \/ /\ e \in tsEntries /\ tsEntries' = tsEntries \ {e} /\ UNCHANGED <<tsKeys, cmd>>
       \/ /\ e \notin tsEntries /\ tsKeys' = tsKeys \ {e} /\ cmd' = [cmd EXCEPT !.todo = @ \ {e}]
          /\ UNCHANGED tsEntries
  /\ UNCHANGED <<db, indexed, forced, done, given>>

Finish(c) ==
  /\ cmd' = NoCommand
  /\ done' = IF cmd.force /\ c.op \in {"instance", "dataplane"} /\ ~c.tsOnly
             THEN done \cup {[op |-> c.op, e |-> e, blank |-> cmd.blank /\ ~cmd.destroy] :
                               e \in {x \in Namespaces : Matches(c, x)}}
             ELSE done
  /\ UNCHANGED <<forced, given>>

\* nothing is left to do in redis
LeaveRedis ==
  /\ cmd.pc = "redis" /\ (cmd.force => cmd.todo = {})
  /\ IF cmd.c.op = "instance" /\ cmd.c.tsOnly
     THEN Finish(cmd.c)
     ELSE /\ cmd' = [cmd EXCEPT !.pc = IF cmd.destroy THEN "destroy" ELSE "scan", !.todo = {}]
          /\ UNCHANGED <<forced, done, given>>
  /\ UNCHANGED <<db, indexed, tsKeys, tsEntries>>

-----------------------------------------------------------------------------
(* The keys in TiKV.                                                       *)

\* what follows the deletion of a range: the info key of an instance
AfterRange == IF cmd.c.op = "instance" THEN "info" ELSE "end"

\* unsafe_destroy_range drops the keys store by store, outside of transactions
Destroy ==
  /\ cmd.pc = "destroy"
  /\ \E ks \in {KeysIn(db, cmd.range)} :
       \/ /\ \E some \in SUBSET ks : some # {} /\ db' = Without(db, some)
          /\ UNCHANGED cmd
       \/ /\ ks = {} /\ cmd' = [cmd EXCEPT !.pc = AfterRange]
          /\ UNCHANGED db
  /\ UNCHANGED <<indexed, tsKeys, tsEntries, forced, done, given>>

\* (mutant) the next scan starts at the last key
FromLast(k) == k

\* the key after k
NextKey(k) == Append(k, 0)

\* (mutant) a quarter is asked for
ScanTooLargeQuarter ==
  /\ cmd.pc = "scan" /\ Len(Scan(db, cmd.range, cmd.size)) > MaxMessage
  /\ cmd' = [cmd EXCEPT !.size = @ \div 4]
  /\ UNCHANGED <<db, indexed, tsKeys, tsEntries, forced, done, given>>

\* more keys than fit into an answer: half as many are asked for
ScanTooLarge ==
  /\ cmd.pc = "scan" /\ Len(Scan(db, cmd.range, cmd.size)) > MaxMessage
  /\ cmd' = [cmd EXCEPT !.size = @ \div 2]
  /\ UNCHANGED <<db, indexed, tsKeys, tsEntries, forced, done, given>>

\* any other error of a scan is logged, and a new transaction scans again, without limit
ScanFails ==
  /\ cmd.pc = "scan" /\ cmd' = [cmd EXCEPT !.retry = ~@]
  /\ UNCHANGED <<db, indexed, tsKeys, tsEntries, forced, done, given>>

\* (mutant) the end of the range is taken off first
ScanBackwards ==
  /\ cmd.pc = "scan"
  /\ LET ks == ScanReverse(db, cmd.range, cmd.size)
     IN  /\ Len(ks) <= MaxMessage
         /\ cmd' = IF ks = <<>> THEN [cmd EXCEPT !.pc = AfterRange]
                   ELSE [cmd EXCEPT !.pc = "commit", !.batch = {ks[i] : i \in DOMAIN ks}, !.conflict = FALSE,
                                    !.range.end = ks[Len(ks)]]
  /\ UNCHANGED <<db, indexed, tsKeys, tsEntries, forced, done, given>>

\* a transaction begins and reads the next keys; none are left: the end
ScanKeys ==
  /\ cmd.pc = "scan"
  /\ \E ks \in {Scan(db, cmd.range, cmd.size)} :
       /\ Len(ks) <= MaxMessage
       /\ cmd' = IF ks = <<>> THEN [cmd EXCEPT !.pc = AfterRange]
                 ELSE [cmd EXCEPT !.pc = "commit", !.batch = {ks[i] : i \in DOMAIN ks}, !.conflict = FALSE,
                                  !.range.start = NextKey(ks[Len(ks)])]
  /\ UNCHANGED <<db, indexed, tsKeys, tsEntries, forced, done, given>>

\* (mutant) a summary deletes what it lists
CommitAlways ==
  /\ cmd.pc = "commit" /\ ~cmd.conflict
  /\ db' = Without(db, cmd.batch)
  /\ cmd' = [cmd EXCEPT !.pc = "scan", !.batch = {}]
  /\ UNCHANGED <<indexed, tsKeys, tsEntries, forced, done, given>>

\* the transaction commits: no key it deletes was written since it began
Commit ==
  /\ cmd.pc = "commit" /\ ~cmd.conflict
  /\ db' = IF cmd.force THEN Without(db, cmd.batch) ELSE db
  /\ cmd' = [cmd EXCEPT !.pc = "scan", !.batch = {}]
  /\ UNCHANGED <<indexed, tsKeys, tsEntries, forced, done, given>>

CommitList ==
  /\ cmd.pc = "list" /\ ~cmd.conflict
  /\ db' = CASE ~cmd.force -> db
             [] cmd.force /\ cmd.c.op = "delete list" -> Without(db, cmd.batch)
             [] cmd.force /\ cmd.c.op = "write list" ->
                  [k \in DOMAIN db \cup cmd.batch |-> IF k \in cmd.batch THEN 2 ELSE db[k]]
  /\ Finish(cmd.c)
  /\ UNCHANGED <<indexed, tsKeys, tsEntries>>

\* a key that the transaction writes was written since it began
Conflict ==
  /\ ~Idle /\ cmd.conflict /\ cmd' = NoCommand
  /\ UNCHANGED <<db, indexed, tsKeys, tsEntries, forced, done, given>>

DeleteInfo ==
  /\ cmd.pc = "info"
  /\ db' = IF cmd.force THEN Without(db, {encode_info_key(cmd.c.e)}) ELSE db
  /\ Finish(cmd.c)
  /\ UNCHANGED <<indexed, tsKeys, tsEntries>>

End ==
  /\ cmd.pc = "end" /\ Finish(cmd.c)
  /\ UNCHANGED <<db, indexed, tsKeys, tsEntries>>

\* a call fails or the tool is killed
Abort ==
  /\ ~Idle /\ cmd' = NoCommand
  /\ UNCHANGED <<db, indexed, tsKeys, tsEntries, forced, done, given>>

-----------------------------------------------------------------------------
\* a live instance commits a block: an entry appears or goes
Index ==
  \E e \in Live : \E k \in DataKeys(e) :
    LET Change(f) == IF k \in DOMAIN indexed THEN Without(f, {k}) ELSE With(f, k, 0)
    IN  /\ indexed' = Change(indexed)
        /\ db' = Change(db)
        /\ cmd' = IF Idle \/ ~cmd.force \/ k \notin cmd.batch THEN cmd ELSE [cmd EXCEPT !.conflict = TRUE]
        /\ UNCHANGED <<tsKeys, tsEntries, forced, done, given>>

Steps ==
  DelTimestamps \/ LeaveRedis \/ Destroy \/ ScanTooLarge \/ ScanKeys \/ Commit \/ CommitList \/ Conflict
  \/ DeleteInfo \/ End

Next == Give \/ Steps \/ ScanFails \/ Abort \/ Index

Spec == Init /\ [][Next]_vars

\* The process runs: it goes on to its next call, which may fail.
FairSpec == Spec /\ WF_vars(Steps \/ ScanFails)

-----------------------------------------------------------------------------
\* does a forced command cover the key
Covers(c, k) ==
  CASE c.op = "instance"   -> ~c.tsOnly /\ (k \in KeysOf(c.e) \/ k = encode_info_key(c.e))
    [] c.op = "dataplane"  -> \E e \in Namespaces : e[1] = c.e[1] /\ k \in KeysOf(e)
    [] c.op = "range"      -> InRange(k, c.range)
    [] OTHER               -> k \in c.keys

Same(k) == (k \in DOMAIN db <=> k \in DOMAIN indexed) /\ (k \in DOMAIN db => db[k] = indexed[k])

\* The variables have the expected types, and a scan asks for at least one
\* key however often its size was halved, unless --scan-size 0 was given: with
\* none, an unfinished deletion reports that it is complete.
TypeOK ==
  /\ DOMAIN indexed \subseteq AllKeys /\ tsKeys \subseteq Namespaces /\ tsEntries \subseteq Namespaces
  /\ \A d \in done : d.e \in Namespaces
  /\ ~Idle => (cmd.size = 0 => cmd.blank) /\ cmd.batch \subseteq Seq(Nat) /\ cmd.todo \subseteq Namespaces

\* "Every command is a dry run by default, printing a summary of what would
\* be deleted; pass --force to actually apply it" and "it deletes exactly the
\* namespaced range and nothing else": what differs from what was indexed,
\* in TiKV and in redis, is covered by a command that was given with --force.
OnlyWhatIsForced ==
  /\ \A k \in AllKeys : ~Same(k) => \E f \in forced : Covers(f.c, k)
  /\ \A e \in Namespaces \ (tsKeys \cap tsEntries) : \E f \in forced : Matches(f.c, e)

\* A forced deletion that reports success has left nothing of the instance:
\* no key, no timestamps, and no info key if it was deleted by itself; also
\* when it is the second attempt, after a first one that broke off anywhere.
\* A later write of a list can bring keys back.  With --scan-size 0 only the
\* timestamps are gone: the first scan returns no key, which the tool takes for
\* the end of the range, so it deletes the info key and reports success.
DoneMeansGone ==
  \A d \in done :
    /\ d.e \notin tsKeys \cup tsEntries
    /\ ~d.blank => \A k \in DOMAIN db :
         k \in KeysOf(d.e) \/ (d.op = "instance" /\ k = encode_info_key(d.e))
           => \E f \in forced : f.c.op = "write list" /\ k \in f.c.keys

\* While an instance is deleted a request finds its cursor only if all of its
\* data is there: the cursor sorts first and goes first.  It is so for the
\* deletion of an instance or a dataplane in transactions, not for --destroy-mode
\* or for ranges and lists of the operator's choice.
CursorGoesFirst ==
  \A e \in Namespaces :
    (\A f \in forced : \A k \in KeysOf(e) :
        Covers(f.c, k) => f.c.op \in {"instance", "dataplane"} /\ ~f.destroy)
      => (CursorKey(e) \in DOMAIN db => \A k \in DataKeys(e) : Same(k))

\* A command ends, although instances go on writing into the keys that it
\* scans and although a summary leaves every key where it is, or its scans
\* fail for ever: nothing limits how often a failed scan is repeated.
Ends == ((~Idle) ~> Idle) \/ []<><<ScanFails>>_vars
=============================================================================
