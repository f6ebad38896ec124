---------------------------- MODULE StageAttempt ----------------------------
(***************************************************************************)
(* One stage attempt as bin/experimental_stages.ml runs it: the runner of  *)
(* module Runner with the hooks stage_preparation.ml gives it, the         *)
(* observation it writes under the grammar of module Observation, and the  *)
(* ending of main, which records the outcome, reports and exits, or comes  *)
(* there from any place with an exception.                                 *)
(*                                                                         *)
(* A step of the runner that calls a lifecycle hook is that step of Runner *)
(* together with the append it makes; all other steps leave the stream     *)
(* alone.  An append that fails poisons the writer, and may have promoted  *)
(* its record all the same (module Journal).                               *)
(***************************************************************************)
EXTENDS Runner

VARIABLES
  main,    \* where main is: before, in or after the runner
  stream,  \* the reduced state of what is promoted
  writer,  \* "ready", "poisoned" or "closed"
  exit     \* the exit code of the process: None, "zero", "nonzero"

attempt == <<main, stream, writer, exit>>
allVars == <<vars, attempt>>

O == INSTANCE Observation WITH Marks <- {"mark"}

ASSUME NoneIsNoStream ==
  /\ None \notin O!States
  /\ None \notin O!Outcomes
  /\ None \notin O!Artifacts
  /\ None \notin {"zero", "nonzero", "mark"}

AttemptInit ==
  /\ Init
  /\ main = "plan"
  /\ stream = O!Allocated
  /\ writer = "ready"
  /\ exit = None

-----------------------------------------------------------------------------
(* Appending.                                                              *)

Appended(e) ==
  /\ writer = "ready"
  /\ O!Accepts(stream, e)
  /\ stream' = O!Reduce(stream, e)
  /\ UNCHANGED writer

(* The grammar or an earlier failure refuses it, or its files fail, before *)
(* or after the record got its name.                                       *)
AppendFailed(e) ==
  /\ writer # "closed"
  /\ writer' = "poisoned"
  /\ \/ UNCHANGED stream
     \/ writer = "ready" /\ O!Accepts(stream, e) /\ stream' = O!Reduce(stream, e)

Raise == main' = "handler"

(* An append of main: it goes on to `next', or raises.                     *)
MainAppend(e, next) ==
  \/ Appended(e) /\ main' = next
  \/ AppendFailed(e) /\ Raise

-----------------------------------------------------------------------------
(* Before the runner: the plan, the preparation, the bound runtime.        *)

Planned ==
  /\ main = "plan"
  /\ MainAppend([name |-> "planned"], "prepare")
  /\ UNCHANGED <<vars, exit>>

Prepared ==
  /\ main = "prepare"
  /\ MainAppend([name |-> "prepared"], "run")
  /\ UNCHANGED <<vars, exit>>

-----------------------------------------------------------------------------
(* The runner under its hooks.                                             *)

Exit(s) == IF s = "completed" THEN "zero" ELSE IF s = "running" THEN "none" ELSE "nonzero"

Occurred == [status |-> occ[cur], exit |-> Exit(occ[cur]), mark |-> "mark"]

Artifact == [boundary |-> cur, mark |-> "mark"]

(* Mutant: a failed action is finished with what it published.             *)
WithArtifact == cur \in Done(artifacts)

(* Only a completion names its artifact.                                   *)
Names == cur \in Done(artifacts) /\ occ[cur] = "completed"

Event(name) ==
  CASE name = "started" -> [name |-> name, at |-> cur, occ |-> Occurred]
    [] name = "published" -> [name |-> name, at |-> cur, occ |-> Occurred, artifact |-> Artifact]
    [] name = "finished" -> [name |-> name, at |-> cur, occ |-> Occurred,
                             artifact |-> IF Names THEN Artifact ELSE None]

HookFailed == <<primary', secondary'>> # <<primary, secondary>>

(* The journal comes first; a named synthesis then runs its required       *)
(* analysis in the same hook, which may fail on its own.                   *)
Hook(name) ==
  \/ ~HookFailed /\ Appended(Event(name))
  \/ HookFailed /\ AppendFailed(Event(name))
  \/ HookFailed /\ Named /\ name = "published" /\ cur = 1 /\ Appended(Event(name))

Silent ==
  \/ SaveIntent \/ Validate \/ SaveInitial
  \/ NextAction \/ PollBefore \/ Begin \/ Announce
  \/ Invoke \/ PollAfter \/ Publish \/ Retain \/ RecordArtifact \/ PollPublished
  \/ Stop \/ Observe \/ SaveFinished
  \/ Settle \/ SaveFinal

Run ==
  /\ main = "run"
  /\ \/ Silent /\ UNCHANGED <<stream, writer>>
     \/ Started /\ Hook("started")
     \/ Published /\ Hook("published")
     \/ Finished /\ Hook("finished")
  /\ UNCHANGED <<main, exit>>

-----------------------------------------------------------------------------
(* After the runner.                                                       *)

(* The record on disk is the one that was returned.                        *)
Verified == saved = Snapshot

Verify ==
  /\ main = "run"
  /\ pc = "returned"
  /\ main' = IF Verified THEN "outcome" ELSE "handler"
  /\ UNCHANGED <<vars, stream, writer, exit>>

Outcome(s) == [name |-> "outcome",
               outcome |-> [status |-> s, exit |-> IF s = "completed" THEN "zero" ELSE "nonzero"]]

(* Mutant: the stages' completion stands in for the attempt's.             *)
StagesCompleted ==
  IF \A j \in DOMAIN stream.occ : stream.occ[j].status = "completed" THEN "completed" ELSE status

Ending == status

RecordOutcome ==
  /\ main = "outcome"
  /\ MainAppend(Outcome(Ending), "report")
  /\ UNCHANGED <<vars, exit>>

(* The report goes out, the writer is closed, and the attempt's exit code  *)
(* is the process's.                                                       *)
Report ==
  /\ main = "report"
  /\ exit' = IF status = "completed" THEN "zero" ELSE "nonzero"
  /\ writer' = "closed"
  /\ main' = "exited"
  /\ UNCHANGED <<vars, stream>>

(* A signal, a full disk or a closed stdout raises between protected calls.*)
Interrupt ==
  /\ main \in {"plan", "prepare", "run", "outcome", "report"}
  /\ Raise
  /\ UNCHANGED <<vars, stream, writer, exit>>

(* The writer's state has no outcome yet.                                  *)
OutcomeMissing == stream.outcome = None

(* main's exception handler: record the outcome if there is none, close.   *)
(* A second exception inside it leaves the outcome out.                    *)
Handle ==
  /\ main = "handler"
  /\ \/ /\ writer = "ready" /\ OutcomeMissing
        /\ \E s \in Kinds : \/ O!Accepts(stream, Outcome(s)) /\ stream' = O!Reduce(stream, Outcome(s))
                            \/ UNCHANGED stream
     \/ ~(writer = "ready" /\ OutcomeMissing) /\ UNCHANGED stream
  /\ writer' = "closed"
  /\ exit' = "nonzero"
  /\ main' = "exited"
  /\ UNCHANGED vars

(* The process dies; what is promoted and saved stays.                     *)
Die ==
  /\ main \notin {"exited", "dead"}
  /\ main' = "dead"
  /\ UNCHANGED <<vars, stream, writer, exit>>

AttemptNext ==
  \/ Planned \/ Prepared \/ Run \/ Verify \/ RecordOutcome \/ Report
  \/ Interrupt \/ Handle \/ Die

AttemptSpec == AttemptInit /\ [][AttemptNext]_allVars

-----------------------------------------------------------------------------
(* Type invariant of what main adds to the runner.                         *)
AttemptTypeOK ==
  /\ main \in {"plan", "prepare", "run", "outcome", "report", "handler", "exited", "dead"}
  /\ O!TypeOK
  /\ stream # None
  /\ writer \in {"ready", "poisoned", "closed"}
  /\ exit \in {"zero", "nonzero", None}

(* The grammar never refuses an honest attempt: whatever failed before,    *)
(* the event a hook or main is about to append is one it accepts, so only  *)
(* files can poison the writer.                                            *)
HonestEventsAreAccepted ==
  writer = "ready" =>
    /\ main = "run" /\ pc \in O!Lifecycle => O!Accepts(stream, Event(pc))
    /\ main = "outcome" => O!Accepts(stream, Outcome(status))

(* The stream never runs ahead of the attempt: what it calls published is  *)
(* published, and what it calls a completed action had its callback and    *)
(* its promotion succeed.                                                  *)
StreamNeverAhead ==
  /\ \A k \in DOMAIN stream.artifacts : stream.artifacts[k].boundary \in Done(artifacts)
  /\ stream.occ # <<>> =>
       \A j \in 1..N :
         /\ stream.occ[j].status # "unreached" => occ[j] # "unreached"
         /\ stream.occ[j].status = "completed" => j \in Done(artifacts)

RecordedSuccess == stream.outcome # None /\ stream.outcome.status = "completed"

(* A recorded outer success is also what the runner returned, and the same *)
(* complete record is on disk by then; and only a recorded one becomes     *)
(* exit code 0.                                                            *)
OuterSuccessIsBacked ==
  /\ AttemptTypeOK
  /\ RecordedSuccess =>
       /\ status = "completed"
       /\ saved = Snapshot
       /\ \A j \in 1..N : saved.occ[j] = "completed" /\ j \in Done(saved.artifacts)
  /\ exit = "zero" => RecordedSuccess

(* The two records of an attempt agree on what was completed: the summary  *)
(* never calls an action completed that the stream does not.  (The stream  *)
(* may: a summary that could not be saved takes the completion back.)      *)
SummaryIsObserved ==
  saved # None =>
    \A j \in 1..N : saved.occ[j] = "completed" =>
      stream.occ # <<>> /\ stream.occ[j].status = "completed"

(* The stream: what it was asked to record it could record, and it never   *)
(* runs ahead of what was done.                                            *)
StreamTellsTheTruth == HonestEventsAreAccepted /\ StreamNeverAhead

(* A success stands in the outcome, in the summary and on the disk, or it  *)
(* is none.                                                                *)
BothRecordsBackSuccess == OuterSuccessIsBacked /\ SummaryIsObserved

(* Each segment starts from its predecessor's checkpoint, and ends as a    *)
(* step that is clean exactly when nothing went wrong (module Runner).     *)
StepsAreTrue == HandoffFollowsPlan /\ StepsTellTheTruth

(* The summary on the disk, whenever the process dies (module Runner).     *)
DurableRecord == WriteAhead /\ DiskNeverOverclaims /\ SuccessIsDurable
=============================================================================
