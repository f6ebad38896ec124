------------------------------ MODULE Journal ------------------------------
(***************************************************************************)
(* The observation journal of one stage attempt: its writer                *)
(* (observation_writer.ml) and any number of foreground readers            *)
(* (observation.ml's Reader under bin/observation_watch.ml), which share   *)
(* nothing but a directory and an advisory lock file.                      *)
(*                                                                         *)
(* The writer's append is cut where the file system shows it: the pending  *)
(* file, the link that promotes it under its sequence number, the unlink   *)
(* of the pending name.  A reader's refresh is cut at its directory        *)
(* listing and at each metadata call and read.  The event grammar is in    *)
(* module Observation; here an event is plain or the final outcome.        *)
(*                                                                         *)
(* Record metadata (device, inode, size, mtime, ctime) is one number: a    *)
(* link count that changes may show as a new ctime, or not if the clock    *)
(* has not moved.                                                          *)
(***************************************************************************)
EXTENDS Naturals, Sequences

CONSTANTS Readers,
          MaxRecords,   \* bound: records of the attempt
          Cursors,      \* cursors a reader may reconnect with
          None

ASSUME MaxRecordsIsPositive == MaxRecords \in Nat \ {0}
ASSUME CursorsAreNaturals == Cursors \subseteq Nat
ASSUME HoldersDiffer == "writer" \notin Readers /\ None \notin Readers \cup {"writer", "inactive"}

VARIABLES
  wpc,       \* the writer's place
  pending,   \* .event-pending.json: "absent", "empty", "whole"
  log,       \* promoted records: [kind, prev, meta]
  sequence,  \* the writer's in-memory sequence
  final,     \* the writer's reduced state has an outcome
  lock,      \* holder of the activity lock: "writer", a reader, or None
  rpc,       \* each reader's place
  listed,    \* length of its last directory listing
  position,  \* records it has gone through in this refresh
  before,    \* metadata taken before a read
  cached,    \* metadata of the records it has validated
  purpose,   \* what its refresh is for: "attach", "probe" or "deliver"
  answer,    \* what its last probe said
  after,     \* its cursor
  delivered, \* history: sequence numbers delivered since it attached
  origin,    \* history: the cursor it attached with
  shown      \* its last reported status

writerVars == <<wpc, pending, sequence, final>>
readerVars == <<rpc, listed, position, before, cached, purpose, answer, after,
                delivered, origin, shown>>
vars == <<writerVars, log, lock, readerVars>>

Kinds == {"event", "outcome"}

Init ==
  /\ wpc = "ready"
  /\ pending = "absent"
  /\ log = <<>>
  /\ sequence = 0
  /\ final = FALSE
  /\ lock = "writer"
  /\ rpc = [r \in Readers |-> "off"]
  /\ listed = [r \in Readers |-> 0]
  /\ position = [r \in Readers |-> 0]
  /\ before = [r \in Readers |-> 0]
  /\ cached = [r \in Readers |-> <<>>]
  /\ purpose = [r \in Readers |-> "attach"]
  /\ answer = [r \in Readers |-> None]
  /\ after = [r \in Readers |-> 0]
  /\ delivered = [r \in Readers |-> <<>>]
  /\ origin = [r \in Readers |-> 0]
  /\ shown = [r \in Readers |-> None]

-----------------------------------------------------------------------------
(* The writer.  create has locked writer.lock before the first append.     *)

WTransition(from, to) == wpc = from /\ wpc' = to

(* Reduction refuses an event after the outcome; a clock that went back or *)
(* an event the grammar refuses poisons the writer the same way.           *)
Refuse ==
  /\ WTransition("ready", "poisoned")
  /\ UNCHANGED <<pending, sequence, final, log, lock, readerVars>>

(* Mutant: the outcome does not close the grammar.                         *)
StaysOpen == TRUE

(* Nothing is accepted after the outcome.                                  *)
Open == ~final

OpenPending ==
  /\ WTransition("ready", "opened")
  /\ Open
  /\ Len(log) < MaxRecords
  /\ pending = "absent"
  /\ pending' = "empty"
  /\ UNCHANGED <<sequence, final, log, lock, readerVars>>

SavePending ==
  /\ WTransition("opened", "saved")
  /\ pending' = "whole"
  /\ UNCHANGED <<sequence, final, log, lock, readerVars>>

(* link(2) refuses a name that exists.                                     *)
NameIsFree == Len(log) = sequence

Promote(kind) ==
  /\ WTransition("saved", "linked")
  /\ NameIsFree
  /\ log' = Append(log, [kind |-> kind, prev |-> sequence, meta |-> 0])
  /\ UNCHANGED <<pending, sequence, final, lock, readerVars>>

(* Unlinking the pending name changes the record's link count: its ctime   *)
(* moves if the clock has.                                                 *)
Unlinked(record) == {record, [record EXCEPT !.meta = 1]}

Settle ==
  /\ WTransition("linked", "ready")
  /\ pending' = "absent"
  /\ log' \in {[log EXCEPT ![Len(log)] = x] : x \in Unlinked(log[Len(log)])}
  /\ sequence' = sequence + 1
  /\ final' = (log[Len(log)].kind = "outcome")
  /\ UNCHANGED <<lock, readerVars>>

(* Saving or linking fails, or a signal handler raises in the middle: the  *)
(* pending name goes, what was promoted stays, the writer is poisoned.     *)
AppendFails ==
  /\ wpc \in {"opened", "saved", "linked"}
  /\ wpc' = "poisoned"
  /\ pending' = "absent"
  /\ IF wpc = "linked"
       THEN log' \in {[log EXCEPT ![Len(log)] = x] : x \in Unlinked(log[Len(log)])}
       ELSE log' = log
  /\ UNCHANGED <<sequence, final, lock, readerVars>>

(* Closing the descriptor drops the lock.                                  *)
Released == IF lock = "writer" THEN None ELSE lock

Close ==
  /\ wpc \in {"ready", "poisoned"}
  /\ wpc' = "closed"
  /\ lock' = Released
  /\ UNCHANGED <<pending, sequence, final, log, readerVars>>

(* The process dies: the kernel drops its lock, the pending file stays.    *)
Die ==
  /\ wpc \notin {"closed", "dead"}
  /\ wpc' = "dead"
  /\ lock' = IF lock = "writer" THEN None ELSE lock
  /\ UNCHANGED <<pending, sequence, final, log, readerVars>>

Writer ==
  \/ Refuse \/ OpenPending \/ SavePending
  \/ \E k \in Kinds : Promote(k)
  \/ Settle \/ AppendFails \/ Close \/ Die

-----------------------------------------------------------------------------
(* A reader.                                                               *)

Others == <<writerVars, log>>

(* Reader.create, then poll after poll: both start with a refresh.         *)
Attach(r, c) ==
  /\ rpc[r] = "off"
  /\ log # <<>>
  /\ rpc' = [rpc EXCEPT ![r] = "list"]
  /\ after' = [after EXCEPT ![r] = c]
  /\ origin' = [origin EXCEPT ![r] = c]
  /\ UNCHANGED <<Others, lock, listed, position, before, cached, purpose, answer,
                 delivered, shown>>

(* The listing only counts names made of digits: no pending file.          *)
List(r) ==
  /\ rpc[r] = "list"
  /\ listed' = [listed EXCEPT ![r] = Len(log)]
  /\ position' = [position EXCEPT ![r] = 0]
  /\ rpc' = [rpc EXCEPT ![r] = "record"]
  /\ UNCHANGED <<Others, lock, before, cached, purpose, answer, after, delivered, origin, shown>>

(* A record it knows must look the same; of a new one the metadata is kept *)
(* to be compared after the read.                                          *)
Examine(r) ==
  LET i == position[r] + 1 IN
  /\ rpc[r] = "record"
  /\ i <= listed[r]
  /\ IF i <= Len(cached[r])
       THEN /\ position' = [position EXCEPT ![r] = i]
            /\ rpc' = [rpc EXCEPT ![r] = IF cached[r][i] = log[i].meta THEN "record" ELSE "failed"]
            /\ UNCHANGED before
       ELSE /\ before' = [before EXCEPT ![r] = log[i].meta]
            /\ rpc' = [rpc EXCEPT ![r] = "read"]
            /\ UNCHANGED position
  /\ UNCHANGED <<Others, lock, listed, cached, purpose, answer, after, delivered, origin, shown>>

(* The chain continues what was validated, and the metadata has not moved. *)
ReadRecord(r) ==
  LET i == position[r] + 1 IN
  /\ rpc[r] = "read"
  /\ IF log[i].prev = Len(cached[r]) /\ log[i].meta = before[r]
       THEN /\ cached' = [cached EXCEPT ![r] = Append(@, before[r])]
            /\ position' = [position EXCEPT ![r] = i]
            /\ rpc' = [rpc EXCEPT ![r] = "record"]
       ELSE /\ rpc' = [rpc EXCEPT ![r] = "failed"]
            /\ UNCHANGED <<cached, position>>
  /\ UNCHANGED <<Others, lock, listed, before, purpose, answer, after, delivered, origin, shown>>

Validated(r) == Len(cached[r])
HasOutcome(r) == \E i \in 1..Validated(r) : log[i].kind = "outcome"

(* Past the last listed record.  create checks the cursor and hands over   *)
(* to the first poll; a poll refreshes, probes, and delivers, with a       *)
(* second refresh in between unless the writer answered the probe.         *)
Refreshed(r) ==
  /\ rpc[r] = "record"
  /\ position[r] = listed[r]
  /\ IF purpose[r] = "attach"
       THEN /\ purpose' = [purpose EXCEPT ![r] = "probe"]
            /\ rpc' = [rpc EXCEPT ![r] = IF after[r] > Validated(r) THEN "failed" ELSE "list"]
       ELSE /\ UNCHANGED purpose
            /\ rpc' = [rpc EXCEPT ![r] = purpose[r]]
  /\ UNCHANGED <<Others, lock, listed, position, before, cached, answer, after,
                 delivered, origin, shown>>

(* Mutant: what was read before the probe is all there is.                 *)
NoDrain(r, active) == TRUE

(* Only an active writer makes the second refresh unnecessary.             *)
SkipsDrain(r, active) == active = "active"

(* The probe locks the lock file itself, if nobody holds it.               *)
Probe(r) ==
  /\ rpc[r] = "probe"
  /\ IF lock = None
       THEN /\ lock' = r
            /\ answer' = [answer EXCEPT ![r] = "inactive"]
       ELSE /\ UNCHANGED lock
            /\ answer' \in {[answer EXCEPT ![r] = a] : a \in {"active", "unknown"}}
  /\ rpc' = [rpc EXCEPT ![r] = "unlock"]
  /\ UNCHANGED <<Others, listed, position, before, cached, purpose, after, delivered, origin, shown>>

Unlock(r) ==
  /\ rpc[r] = "unlock"
  /\ lock' = IF lock = r THEN None ELSE lock
  /\ purpose' = [purpose EXCEPT ![r] = IF SkipsDrain(r, answer[r]) THEN "probe" ELSE "deliver"]
  /\ rpc' = [rpc EXCEPT ![r] = IF SkipsDrain(r, answer[r]) THEN "deliver" ELSE "list"]
  /\ UNCHANGED <<Others, listed, position, before, cached, answer, after, delivered, origin, shown>>

Status(r) ==
  IF HasOutcome(r) THEN "final"
  ELSE IF answer[r] = "active" THEN "live" ELSE "writer_lost_or_unknown"

(* Mutant: the cursor is the number of the next record.                    *)
CursorAhead(r) == Validated(r) + 1

NewCursor(r) == Validated(r)

(* Mutant: a watch waits for the outcome whatever the writer does.         *)
UntilFinal(status) == status # "final"

(* A watch goes on only while it is told "live".                           *)
GoesOn(status) == status = "live"

(* Every record past the cursor, and the status.                           *)
Deliver(r) ==
  /\ rpc[r] = "deliver"
  /\ delivered' = [delivered EXCEPT ![r] = @ \o [k \in 1..(Validated(r) - after[r]) |-> after[r] + k]]
  /\ after' = [after EXCEPT ![r] = NewCursor(r)]
  /\ shown' = [shown EXCEPT ![r] = Status(r)]
  /\ purpose' = [purpose EXCEPT ![r] = "probe"]
  /\ rpc' = [rpc EXCEPT ![r] = IF GoesOn(Status(r)) THEN "list" ELSE "done"]
  /\ UNCHANGED <<Others, lock, listed, position, before, cached, answer, origin>>

(* Ctrl-C, a broken pipe: the reader leaves without a word to the writer.  *)
Leave(r) ==
  /\ rpc[r] \notin {"off", "done", "failed", "left"}
  /\ lock' = IF lock = r THEN None ELSE lock
  /\ rpc' = [rpc EXCEPT ![r] = "left"]
  /\ UNCHANGED <<Others, listed, position, before, cached, purpose, answer, after,
                 delivered, origin, shown>>

Follow(r) ==
  \/ List(r) \/ Examine(r) \/ ReadRecord(r) \/ Refreshed(r)
  \/ Probe(r) \/ Unlock(r) \/ Deliver(r)

Reader(r) == Follow(r) \/ Leave(r) \/ \E c \in Cursors : Attach(r, c)

Next == Writer \/ \E r \in Readers : Reader(r)

(* A watch that runs keeps running; the writer owes nobody anything.       *)
Fairness == \A r \in Readers : WF_vars(Follow(r))

Spec == Init /\ [][Next]_vars /\ Fairness

-----------------------------------------------------------------------------
ReaderPlaces ==
  {"off", "list", "record", "read", "probe", "unlock", "deliver", "done", "failed", "left"}

(* Type invariant of writer, files and readers.                            *)
TypeOK ==
  /\ wpc \in {"ready", "opened", "saved", "linked", "poisoned", "closed", "dead"}
  /\ pending \in {"absent", "empty", "whole"}
  /\ log \in Seq([kind : Kinds, prev : Nat, meta : 0..1])
  /\ sequence \in Nat
  /\ final \in BOOLEAN
  /\ lock \in Readers \cup {"writer", None}
  /\ rpc \in [Readers -> ReaderPlaces]
  /\ listed \in [Readers -> Nat]
  /\ position \in [Readers -> Nat]
  /\ before \in [Readers -> 0..1]
  /\ cached \in [Readers -> Seq(0..1)]
  /\ purpose \in [Readers -> {"attach", "probe", "deliver"}]
  /\ answer \in [Readers -> {"active", "inactive", "unknown", None}]
  /\ after \in [Readers -> Nat]
  /\ delivered \in [Readers -> Seq(Nat)]
  /\ origin \in [Readers -> Nat]
  /\ shown \in [Readers -> {"live", "final", "writer_lost_or_unknown", None}]

WriterGone == wpc \in {"closed", "dead"}

(* Records form one chain with nothing after an outcome, whatever failed   *)
(* or was interrupted in the middle of an append: a half-done promotion is *)
(* never followed by another.                                              *)
ChainIsWhole ==
  /\ TypeOK
  /\ \A i \in 1..Len(log) :
       /\ log[i].prev = i - 1
       /\ log[i].kind = "outcome" => i = Len(log)

(* A reader that concludes the writer is gone has delivered everything the *)
(* writer ever promoted, also when the last record raced the probe.        *)
NoLostTail ==
  \A r \in Readers :
    rpc[r] = "done" /\ answer[r] = "inactive" => WriterGone /\ after[r] = Len(log)

(* When the writer is gone every watch comes to an end by itself.          *)
WatchesEnd ==
  \A r \in Readers : WriterGone /\ rpc[r] # "off" ~> rpc[r] \in {"done", "failed", "left"}

(* Said of the journal: records are immutable once promoted and readers    *)
(* fail on a changed one; so no reader fails over what the writer did.     *)
HonestRecordsNeverFail ==
  \A r \in Readers : rpc[r] = "failed" => after[r] > Len(log) \/ after[r] > listed[r]

-----------------------------------------------------------------------------
(* Why these hold, inductively.  The writer: its sequence counts what it   *)
(* promoted, nothing follows an outcome, and it has the lock until it is   *)
(* gone.                                                                   *)
WriterInv ==
  /\ wpc \in {"ready", "opened", "saved"} => Len(log) = sequence
  /\ wpc = "linked" => Len(log) = sequence + 1
  /\ (wpc = "ready" /\ ~final) \/ wpc \in {"opened", "saved"} =>
       \A i \in 1..Len(log) : log[i].kind # "outcome"
  /\ lock = "writer" <=> ~WriterGone

(* A reader has validated a prefix of what it listed, which is a prefix of *)
(* what is there; it goes through what it knows before it reads what is    *)
(* new; and it has the lock only between probe and unlock.                 *)
RefreshInv ==
  \A r \in Readers :
    /\ listed[r] <= Len(log) /\ Len(cached[r]) <= listed[r] /\ position[r] <= listed[r]
    /\ rpc[r] = "record" => position[r] <= Len(cached[r])
    /\ rpc[r] = "read" => position[r] = Len(cached[r]) /\ position[r] < listed[r]
    /\ lock = r => rpc[r] = "unlock"

(* What a reader was told of the lock, and that its second refresh came    *)
(* after that: nothing is appended once the writer is gone.                *)
TailInv ==
  \A r \in Readers :
    /\ answer[r] = "inactive" => WriterGone
    /\ answer[r] = "inactive" /\ purpose[r] = "deliver" /\ rpc[r] \in {"record", "read", "deliver"} =>
         listed[r] = Len(log)
    /\ rpc[r] = "deliver" => answer[r] = "active" \/ (purpose[r] = "deliver" /\ Len(cached[r]) = listed[r])
    /\ rpc[r] = "done" /\ answer[r] = "inactive" => after[r] = Len(log)

(* A cursor is checked once, and then only moves to what was validated.    *)
CursorInv ==
  \A r \in Readers :
    /\ rpc[r] = "off" => purpose[r] = "attach"
    /\ purpose[r] = "attach" => delivered[r] = <<>>
    /\ rpc[r] \in {"probe", "unlock", "deliver"} => purpose[r] # "attach"
    /\ purpose[r] # "attach" /\ rpc[r] # "failed" => after[r] <= Len(cached[r])

IInv == ChainIsWhole /\ WriterInv /\ RefreshInv /\ TailInv /\ CursorInv

-----------------------------------------------------------------------------
Log == INSTANCE JournalLog WITH
  length <- Len(log),
  owned <- ~WriterGone,
  given <- [r \in Readers |-> IF delivered[r] = <<>> THEN 0 ELSE after[r]]

(* The files and locks implement the promised log.                         *)
ImplementsLog == Log!Spec
=============================================================================
