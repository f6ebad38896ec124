------------------------ MODULE ProviderObservation ------------------------
(***************************************************************************)
(* flow/hardcaml_asic_flow/flow_observation.py: a Writer that journals a   *)
(* stage attempt, Writer.run around runner.py's execute with every         *)
(* lifecycle hook an append, and an IncrementalReader that watches it.     *)
(*                                                                         *)
(* Stages are 1..Stages.  A signal raises wherever the writer is, also     *)
(* between the promotion of a record and the update of what the writer     *)
(* remembers of it; a kill ends it anywhere and releases its lock.         *)
(***************************************************************************)
EXTENDS Cancellation, Sequences, FiniteSets

CONSTANT Stages

VARIABLES
  pc,
  scope,      \* which try statement an exception meets: "action", "run", "handler", "none"
  stage,      \* the stage the runner is at
  event,      \* the record being appended
  next,       \* where the writer goes once it is appended
  seq, state, \* what the writer remembers: records, and their reduction
  journal,    \* the promoted records
  lock,       \* the writer's activity lock is held
  execution,  \* the runner's verdict so far
  falls,      \* exceptions from outside: a failure or a signal
  store,      \* stages whose checkpoint was promoted
  sent, broken, \* signals; whether a save failed
  ended,      \* None or how the writer ended
  rpc, seen, active, \* the reader: at, the records it validated, its view of the lock
  told        \* None or the reader's last status

(* None, not yet or nothing, is no phase, status or end.                   *)
NoneIsNew ==
  None \notin {"allocated", "planned", "executing", "finished", "completed", "failed", "interrupted",
               "final", "live", "lost", "returned", "raised", "killed"}

vars == <<pc, scope, stage, event, next, seq, state, journal, lock, execution, falls,
          store, sent, broken, ended, rpc, seen, active, told>>
memory == <<seq, state>>
disk == <<journal, lock>>
reader == <<rpc, seen, active, told>>
faults == <<sent, broken>>

-----------------------------------------------------------------------------
(* reduce_event, the part of it the journal's order depends on.            *)
Empty == [phase |-> None, occ |-> [j \in 1..Stages |-> "unreached"],
          artifacts |-> {}, outcome |-> None]

Earned(s, e) ==
  IF e.status = "completed" THEN e.at \in s.artifacts ELSE e.status \in {"failed", "interrupted"}

(* Mutant: only an attempt that got to execute has an outcome.             *)
OutcomeOfExecution(s, e) ==
  /\ s.phase = "executing"
  /\ e.status = "completed" => \A j \in 1..Stages : s.occ[j] = "completed"

OutcomeOK(s, e) ==
  e.status = "completed" => s.phase = "executing" /\ \A j \in 1..Stages : s.occ[j] = "completed"

Accepts(s, e) ==
  IF s.phase = None THEN e.name = "allocated"
  ELSE /\ s.outcome = None
       /\ \/ e.name = "planned" /\ s.phase = "allocated"
          \/ e.name = "prepared" /\ s.phase = "planned"
          \/ /\ e.name = "started" /\ s.phase = "executing" /\ s.occ[e.at] = "unreached"
             /\ \A j \in 1..(e.at - 1) : s.occ[j] = "completed"
          \/ e.name = "published" /\ s.phase = "executing" /\ s.occ[e.at] = "running" /\ e.at \notin s.artifacts
          \/ e.name = "finished" /\ s.phase = "executing" /\ s.occ[e.at] = "running" /\ Earned(s, e)
          \/ e.name = "outcome" /\ OutcomeOK(s, e)

Reduce(s, e) ==
  CASE e.name = "allocated" -> [s EXCEPT !.phase = "allocated"]
    [] e.name = "planned" -> [s EXCEPT !.phase = "planned"]
    [] e.name = "prepared" -> [s EXCEPT !.phase = "executing"]
    [] e.name = "started" -> [s EXCEPT !.occ[e.at] = "running"]
    [] e.name = "published" -> [s EXCEPT !.artifacts = @ \cup {e.at}]
    [] e.name = "finished" -> [s EXCEPT !.occ[e.at] = e.status]
    [] e.name = "outcome" -> [s EXCEPT !.outcome = e.status, !.phase = "finished"]

Event(name, at, status) == [name |-> name, at |-> at, status |-> status]

-----------------------------------------------------------------------------
Init ==
  /\ pc = "append" /\ scope = "none" /\ stage = 0
  /\ event = Event("allocated", 0, None) /\ next = "plan"
  /\ seq = 0 /\ state = Empty
  /\ journal = <<>> /\ lock = TRUE
  /\ execution = "completed" /\ falls = 0 /\ store = {}
  /\ sent = 0 /\ broken = FALSE /\ ended = None
  /\ rpc = "refresh" /\ seen = <<>> /\ active = None /\ told = None

AppendThen(e, then) == pc' = "append" /\ event' = e /\ next' = then

(* An exception: the runner's try of an action makes it the occurrence's   *)
(* status, Writer.run's appends an outcome and re-raises, nothing else     *)
(* catches it, and the lock goes with close().                             *)
Handle(why) ==
  \/ /\ scope = "action"
     /\ scope' = "run" /\ execution' = why
     /\ AppendThen(Event("finished", stage, why), "stop")
     /\ UNCHANGED <<lock, ended>>
  \/ /\ scope = "run"
     /\ scope' = "handler"
     /\ AppendThen(Event("outcome", 0, why), "reraise")
     /\ UNCHANGED <<lock, ended, execution>>
  \/ /\ scope \in {"handler", "none"}
     /\ pc' = "over" /\ lock' = FALSE /\ ended' = "raised"
     /\ UNCHANGED <<scope, event, next, execution>>

Raise(why) == falls' = falls + 1 /\ Handle(why)

-----------------------------------------------------------------------------
(* Mutant: save_json replaces what is there.                               *)
AnyName == TRUE

(* append: the record's name must be free.                                 *)
NameIsFree == Len(journal) = seq

(* The grammar, then save_json, which promotes whole records.              *)
Promote ==
  /\ pc = "append"
  /\ \/ /\ Accepts(state, event) /\ NameIsFree
        /\ journal' = Append(SubSeq(journal, 1, seq), event)
        /\ pc' = "adopt"
        /\ UNCHANGED <<scope, event, next, execution, falls, lock, ended, broken>>
     \/ /\ ~(Accepts(state, event) /\ NameIsFree)
        /\ Handle("failed") /\ UNCHANGED <<journal, broken, falls>>
     \/ broken' = TRUE /\ Raise("failed") /\ UNCHANGED journal
  /\ UNCHANGED <<stage, memory, store, sent, reader>>

Adopt ==
  /\ pc = "adopt"
  /\ seq' = seq + 1 /\ state' = Reduce(state, event)
  /\ pc' = next
  /\ UNCHANGED <<scope, stage, event, next, disk, execution, falls, store, faults, ended, reader>>

-----------------------------------------------------------------------------
(* Writer.run: plan_factory and prepare may raise.                         *)
PlanAttempt ==
  /\ pc = "plan"
  /\ scope' = "run"
  /\ AppendThen(Event("planned", 0, None), "prepare")
  /\ UNCHANGED <<stage, memory, disk, execution, falls, store, faults, ended, reader>>

Prepare ==
  /\ pc = "prepare"
  /\ \/ AppendThen(Event("prepared", 0, None), "next") /\ UNCHANGED <<scope, execution, falls, lock, ended>>
     \/ Raise("failed")
  /\ UNCHANGED <<stage, memory, journal, store, faults, reader>>

(* _execute: the next action's "started" hook is outside its try.          *)
StartNext ==
  /\ pc = "next"
  /\ IF stage < Stages THEN stage' = stage + 1 /\ AppendThen(Event("started", stage + 1, None), "invoke")
     ELSE pc' = "finalize" /\ UNCHANGED <<stage, event, next>>
  /\ UNCHANGED <<scope, memory, disk, execution, falls, store, faults, ended, reader>>

(* The adapter's segment: it succeeds, or is the action's failure.         *)
Invoke ==
  /\ pc = "invoke"
  /\ \/ pc' = "publish" /\ scope' = "action" /\ UNCHANGED <<event, next, execution>>
     \/ /\ execution' = "failed" /\ scope' = "run"
        /\ AppendThen(Event("finished", stage, "failed"), "stop")
  /\ UNCHANGED <<stage, memory, disk, falls, store, faults, ended, reader>>

(* Mutant: the hook comes first, and the promotion may still fail.         *)
AnnounceFirst ==
  /\ pc = "publish"
  /\ store' \in {store, store \cup {stage}}
  /\ pc' = "announce"
  /\ UNCHANGED <<scope, stage, event, next, memory, disk, execution, falls, faults, ended, reader>>

(* The checkpoint is promoted before the journal hears of it.              *)
Publish ==
  /\ pc = "publish"
  /\ \/ store' = store \cup {stage} /\ pc' = "announce" /\ UNCHANGED <<scope, event, next, execution, falls, lock, ended>>
     \/ Raise("failed") /\ UNCHANGED store
  /\ UNCHANGED <<stage, memory, journal, faults, reader>>

Announce ==
  /\ pc = "announce"
  /\ AppendThen(Event("published", stage, None), "finish")
  /\ UNCHANGED <<scope, stage, memory, disk, execution, falls, store, faults, ended, reader>>

Finish ==
  /\ pc = "finish"
  /\ scope' = "run"
  /\ AppendThen(Event("finished", stage, "completed"), "next")
  /\ UNCHANGED <<stage, memory, disk, execution, falls, store, faults, ended, reader>>

(* A failed action ends the sequence: no later one may start.              *)
Stop ==
  /\ pc = "stop"
  /\ pc' = "finalize"
  /\ UNCHANGED <<scope, stage, event, next, memory, disk, execution, falls, store, faults, ended, reader>>

(* finalize publishes the execution, and the outcome is appended last.     *)
Finalize ==
  /\ pc = "finalize"
  /\ \/ AppendThen(Event("outcome", 0, execution), "return") /\ UNCHANGED <<scope, execution, falls, lock, ended>>
     \/ Raise("failed")
  /\ UNCHANGED <<stage, memory, journal, store, faults, reader>>

(* Back in the caller, which closes the writer.                            *)
Return ==
  /\ pc \in {"return", "reraise"}
  /\ pc' = "over" /\ lock' = FALSE
  /\ ended' = IF pc = "return" THEN "returned" ELSE "raised"
  /\ UNCHANGED <<scope, stage, event, next, memory, journal, execution, falls, store, faults, reader>>

Interrupt ==
  /\ pc # "over" /\ sent < MaxSignals
  /\ sent' = sent + 1
  /\ Raise("interrupted")
  /\ UNCHANGED <<stage, memory, journal, store, broken, reader>>

Kill ==
  /\ pc # "over"
  /\ pc' = "over" /\ lock' = FALSE /\ ended' = "killed"
  /\ UNCHANGED <<scope, stage, event, next, memory, journal, execution, falls, store, faults, reader>>

writer == <<pc, scope, stage, event, next, memory, disk, execution, falls, store, faults, ended>>

-----------------------------------------------------------------------------
(* The records the reader keeps are still those of the journal.            *)
Retained == Len(seen) <= Len(journal) /\ \A i \in DOMAIN seen : journal[i] = seen[i]

(* poll: every new record is validated and reduced; a retained one that    *)
(* was replaced or deleted is the end of the reader ...                    *)
Refresh ==
  /\ rpc = "refresh" /\ journal # <<>>
  /\ seen' = IF Retained THEN journal ELSE seen
  /\ told' = IF Retained THEN told ELSE "failed"
  /\ rpc' = IF Retained THEN "probe" ELSE "done"
  /\ UNCHANGED <<writer, active>>

Probe ==
  /\ rpc = "probe"
  /\ active' = lock
  /\ rpc' = "drain"
  /\ UNCHANGED <<writer, seen, told>>

(* Mutant: what was seen before the lock was looked at is all.             *)
TrustListing == seen' = seen

(* ... and once more if the lock was free by then.                         *)
DrainTail == seen' = IF active \/ ~Retained THEN seen ELSE journal

Final(records) == Len(records) > 0 /\ records[Len(records)].name = "outcome"

Tell ==
  /\ rpc = "drain"
  /\ DrainTail
  /\ told' = IF ~active /\ ~Retained THEN "failed"
             ELSE IF Final(seen') THEN "final" ELSE IF active THEN "live" ELSE "lost"
  /\ rpc' = IF told' = "live" THEN "refresh" ELSE "done"
  /\ UNCHANGED <<writer, active>>

Next ==
  \/ Promote \/ Adopt \/ PlanAttempt \/ Prepare \/ StartNext \/ Invoke \/ Publish \/ Announce
  \/ Finish \/ Stop \/ Finalize \/ Return \/ Interrupt \/ Kill
  \/ Refresh \/ Probe \/ Tell

Spec == Init /\ [][Next]_vars

-----------------------------------------------------------------------------
(* What a watch has delivered stands: no record is written over it, not    *)
(* by a writer that was interrupted before it noted the record either.  A  *)
(* watch that ends has delivered the whole journal, and told "lost" only   *)
(* of a writer that is gone without an outcome (IncrementalReader.poll).   *)
WatchEndsComplete ==
  /\ Retained
  /\ told \in {"final", "lost"} =>
       /\ Len(seen) = Len(journal)
       /\ told = "lost" => ~lock /\ ~Final(seen)

(* What the journal says stands: a published stage has its checkpoint, an  *)
(* outer success has all of them, and a writer that returned left its      *)
(* verdict as the last record (Writer.run, reduce_event).                  *)
JournalTellsTheRun ==
  /\ \A i \in DOMAIN journal :
       /\ journal[i].name = "published" => journal[i].at \in store
       /\ journal[i].name = "outcome" =>
            i = Len(journal) /\ (journal[i].status = "completed" => store = 1..Stages)
       /\ journal[i].name = "finished" /\ journal[i].status = "completed" =>
            \E k \in 1..(i - 1) : journal[k].name = "published" /\ journal[k].at = journal[i].at
  /\ ended = "returned" => Final(journal) /\ journal[Len(journal)].status = execution

(* A writer that raised because of one exception recorded an outcome all   *)
(* the same, unless it came between a record's promotion and the writer's  *)
(* notice of it (Writer.run's except clause).                              *)
RaisedIsRecorded ==
  ended = "raised" /\ falls <= 1 /\ seq = Len(journal) /\ scope # "none" => Final(journal)
=============================================================================
