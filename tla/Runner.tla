------------------------------- MODULE Runner -------------------------------
(***************************************************************************)
(* execution/runner.ml: Runner.execute, which drives one attempt through   *)
(* the actions of a checked plan, calls the owner's callbacks, and saves a *)
(* snapshot of the attempt at every lifecycle transition.                  *)
(*                                                                         *)
(* Each callback is a step of its own and may fail or be interrupted       *)
(* (runner.ml's `protect' turns any exception into one of the two).  A     *)
(* process that dies between two steps leaves `saved' as it is: what is    *)
(* said of `saved' in every state is said of every crash.  `pc' is the     *)
(* place in the loop body, `cur' the action it works on.  Exit codes and   *)
(* messages follow the kind of an error and are left out, as are durations.*)
(***************************************************************************)
EXTENDS Naturals, Sequences, ExecutionPlan

CONSTANTS Plan,     \* the actions
          Named,    \* the attempt carries a timing_intent expectation
          MaxErrors, \* bound: errors one attempt meets
          None

N == Len(Plan)
Kinds == {"failed", "interrupted"}
Points == {"validate", "cancel", "clock", "invoke", "publish",
           "started", "published", "finished", "observe", "persist"}
Terminal == {"completed", "failed", "interrupted"}
OccurrenceStates == {"unreached", "skipped", "running"} \cup Terminal

(* What is recorded of a failure, and what is saved of an attempt.         *)
Statuses == Terminal \cup {"accepted", "rejected"}
Diagnostics == [at : 0..N, point : Points, kind : Kinds]
Snapshots == [status : Statuses \cup {"running"}, occ : [1..N -> OccurrenceStates],
              run : BOOLEAN, archive : BOOLEAN, artifacts : Seq(1..N)]

ASSUME PlanIsChecked == N > 0 /\ PlanOK(Plan)
ASSUME NamedOrNot == Named \in BOOLEAN
ASSUME ErrorsAreBounded == MaxErrors \in Nat
ASSUME NoneIsNew ==
  /\ None \notin Statuses \cup {"invalid"}
  /\ None \notin 0..N
  /\ None \notin Diagnostics
  /\ None \notin Snapshots

VARIABLES
  pc, cur,
  status,      \* of the attempt
  primary,     \* the diagnostic that decided the status
  secondary,   \* later diagnostics, in order
  cancelled,   \* a cancellation poll was answered
  occ,         \* status of each occurrence
  best,        \* each occurrence ran as best effort
  steps,       \* what ran, in order
  run,         \* an allocated run is available
  archive,     \* an archive path was recorded
  artifacts,   \* actions whose segment was published, in order
  source,      \* the action whose checkpoint is handed on; 0 is `initial'
  local,       \* first error of the current action
  completion,  \* what its callback returned
  verdict,     \* what the report said
  saved,       \* the last snapshot on disk
  handed,      \* history: what each action's invoke was handed as source
  announced    \* history: actions whose Published hook was called

vars == <<pc, cur, status, primary, secondary, cancelled, occ, best, steps, run, archive,
          artifacts, source, local, completion, verdict, saved, handed, announced>>

diagnosis == <<status, primary, secondary, cancelled>>
results == <<run, archive, artifacts, source, verdict>>
history == <<handed, announced>>
progress == <<occ, best, steps>>

Transition(from, to) == pc = from /\ pc' = to

Snapshot == [status |-> status, occ |-> occ, run |-> run,
             archive |-> archive, artifacts |-> artifacts]

Init ==
  /\ pc = IF Named THEN "intent" ELSE "validate"
  /\ cur = 0
  /\ status = "running"
  /\ primary = None
  /\ secondary = <<>>
  /\ cancelled = FALSE
  /\ occ = [j \in 1..N |-> IF Plan[j].enabled THEN "unreached" ELSE "skipped"]
  /\ best = [j \in 1..N |-> FALSE]
  /\ steps = <<>>
  /\ run = FALSE
  /\ archive = FALSE
  /\ artifacts = <<>>
  /\ source = 0
  /\ local = None
  /\ completion = None
  /\ verdict = None
  /\ saved = None
  /\ handed = [j \in 1..N |-> None]
  /\ announced = {}

-----------------------------------------------------------------------------
(* `record': the first error outside best effort decides the attempt.      *)

(* Errors outside any action carry no action key: 0.                       *)
Key == IF pc \in {"intent", "validate", "initial", "final"} THEN 0 ELSE cur

Diagnostic(point, kind) == [at |-> Key, point |-> point, kind |-> kind]

Decides(bestEffort) == primary = None /\ ~bestEffort

(* Only an answered poll vetoes the rest of the attempt.                   *)
Vetoes(point, kind) == point = "cancel" /\ kind = "interrupted"

Record(point, kind, shown, bestEffort) ==
  /\ Len(secondary) + (IF primary = None THEN 0 ELSE 1) < MaxErrors
  /\ cancelled' = (cancelled \/ Vetoes(point, kind))
  /\ IF Decides(bestEffort)
       THEN /\ primary' = Diagnostic(point, kind)
            /\ status' = shown
            /\ secondary' = secondary
       ELSE /\ secondary' = Append(secondary, Diagnostic(point, kind))
            /\ UNCHANGED <<primary, status>>

Succeed == UNCHANGED <<diagnosis, local>>

Fail(point, kind) ==
  /\ Record(point, kind, kind, best[cur])
  /\ local' = IF local = None THEN kind ELSE local

(* `call': a protected callback.                                           *)
Call(point) == Succeed \/ \E k \in Kinds : Fail(point, k)

(* Mutant: an attempt-level save that fails is not an error.               *)
SaveUnchecked == saved' \in {saved, Snapshot} /\ UNCHANGED diagnosis

(* A snapshot reaches the disk, or not, or it does and saving then fails.  *)
(* The snapshot is the state before that failure is recorded.              *)
Saved(ok) ==
  IF ok THEN saved' = Snapshot ELSE saved' \in {saved, Snapshot}

(* `save' inside an action; a failure becomes the action's own.            *)
SaveStep ==
  \/ Saved(TRUE) /\ Succeed
  \/ Saved(FALSE) /\ \E k \in Kinds : Fail("persist", k)

(* `save None false'.                                                      *)
SaveAttempt ==
  \/ Saved(TRUE) /\ UNCHANGED diagnosis
  \/ Saved(FALSE) /\ \E k \in Kinds : Record("persist", k, k, FALSE)

-----------------------------------------------------------------------------
(* Before the first action.                                                *)

(* Only a named attempt saves its expectation before anything else.        *)
SaveIntent ==
  /\ pc = "intent"
  /\ SaveAttempt
  /\ pc' = IF primary' = None THEN "validate" ELSE "next"
  /\ UNCHANGED <<cur, progress, results, local, completion, history>>

(* The supplied handoff against the plan, and the owner's own validation.  *)
Validate ==
  /\ Transition("validate", "initial")
  /\ \/ UNCHANGED diagnosis
     \/ \E k \in Kinds : Record("validate", k, k, FALSE)
  /\ UNCHANGED <<cur, progress, results, local, completion, saved, history>>

SaveInitial ==
  /\ Transition("initial", "next")
  /\ IF Named /\ primary = None THEN UNCHANGED <<diagnosis, saved>> ELSE SaveAttempt
  /\ UNCHANGED <<cur, progress, results, local, completion, history>>

-----------------------------------------------------------------------------
(* One action.                                                             *)

(* Mutant: nothing runs after a failure, not even collection.              *)
NoBestEffort(j) == FALSE

BestEffort(j) == primary # None /\ Plan[j].gate = "run_available" /\ run

(* Mutant: a failed attempt still does whatever is enabled.                *)
RunsAnyway(j) == Plan[j].enabled /\ ~cancelled

Runs(j) ==
  /\ Plan[j].enabled
  /\ ~cancelled
  /\ primary = None \/ BestEffort(j)

NextAction ==
  /\ pc = "next"
  /\ cur < N
  /\ cur' = cur + 1
  /\ IF Runs(cur + 1)
       THEN /\ pc' = "poll"
            /\ best' = [best EXCEPT ![cur + 1] = BestEffort(cur + 1)]
            /\ local' = None
            /\ completion' = None
       ELSE UNCHANGED <<pc, best, local, completion>>
  /\ UNCHANGED <<diagnosis, occ, steps, results, saved, history>>

(* A poll answered before the action starts leaves its occurrence alone.   *)
PollBefore ==
  /\ pc = "poll"
  /\ Call("cancel")
  /\ pc' = IF local' = None THEN "begin" ELSE "next"
  /\ best' = IF local' = None THEN best ELSE [best EXCEPT ![cur] = FALSE]
  /\ UNCHANGED <<cur, occ, steps, results, completion, saved, history>>

Begin ==
  /\ Transition("begin", "started")
  /\ Call("clock")
  /\ occ' = [occ EXCEPT ![cur] = "running"]
  /\ UNCHANGED <<cur, best, steps, results, completion, saved, history>>

Started ==
  /\ Transition("started", "announce")
  /\ Call("started")
  /\ UNCHANGED <<cur, progress, results, completion, saved, history>>

(* Mutant: the callback runs although its announcement was not saved.      *)
InvokeUnsaved == "invoke"

AfterAnnounce == IF local' = None THEN "invoke" ELSE "stop"

Announce ==
  /\ pc = "announce"
  /\ SaveStep
  /\ pc' = AfterAnnounce
  /\ UNCHANGED <<cur, progress, results, completion, history>>

(* What a callback may return besides an error: a completion that fits the *)
(* action, or one that does not ("invalid").                               *)
Completions ==
  IF Plan[cur].op = "report" THEN {"accepted", "rejected", "invalid"}
                             ELSE Terminal \cup {"invalid"}

(* Completions with exit code 0.                                           *)
Clean == {"completed", "accepted"}

(* A completion that is not clean decides the attempt like an error would, *)
(* but keeps its own status: a rejection stays a rejection.                *)
Returned(c) ==
  /\ completion' = c
  /\ IF c \in Clean THEN Succeed
     ELSE LET shown == IF c = "invalid" THEN "failed" ELSE c
              kind  == IF c = "interrupted" THEN c ELSE "failed"
          IN  Record("invoke", kind, shown, best[cur]) /\ local' = shown
  /\ IF c = "invalid"
       THEN run' \in {run, run \/ Plan[cur].op = "run"}
       ELSE run' = (run \/ Plan[cur].op = "run")
  /\ pc' = "pollAfter"

Raised(k) ==
  /\ Fail("invoke", k)
  /\ pc' = "stop"
  /\ UNCHANGED <<completion, run>>

Invoke ==
  /\ pc = "invoke"
  /\ handed' = [handed EXCEPT ![cur] = source]
  /\ \/ \E c \in Completions : Returned(c)
     \/ \E k \in Kinds : Raised(k)
  /\ UNCHANGED <<cur, progress, archive, artifacts, source, verdict, saved, announced>>

PollAfter ==
  /\ pc = "pollAfter"
  /\ Call("cancel")
  /\ archive' = (archive \/ (Plan[cur].op = "archive" /\ local' = None))
  /\ pc' = IF Plan[cur].op = "segment" /\ local' = None THEN "publish" ELSE "stop"
  /\ UNCHANGED <<cur, progress, run, artifacts, source, verdict, completion, saved, history>>

(* Mutant: the handoff is not moved on.                                    *)
KeepSource == source

HandOn == cur

(* Mutant: the hook is told of a publication that failed.                  *)
AnnounceAnyway == "published"

AfterPublishError == "stop"

(* A publication under the wrong boundary fails like a publish error.      *)
Publish ==
  /\ pc = "publish"
  /\ \/ /\ Succeed
        /\ artifacts' = Append(artifacts, cur)
        /\ source' = HandOn
        /\ pc' = IF Named THEN "retain" ELSE "published"
     \/ /\ \E k \in Kinds : Fail("publish", k)
        /\ pc' = AfterPublishError
        /\ UNCHANGED <<artifacts, source>>
  /\ UNCHANGED <<cur, progress, run, archive, verdict, completion, saved, history>>

AfterRetain == IF local' = None THEN "published" ELSE "record"

(* Only a named attempt: the promoted artifact is on disk before the hook. *)
Retain ==
  /\ pc = "retain"
  /\ SaveStep
  /\ pc' = AfterRetain
  /\ UNCHANGED <<cur, progress, results, completion, history>>

Published ==
  /\ Transition("published", "record")
  /\ Call("published")
  /\ announced' = announced \cup {cur}
  /\ UNCHANGED <<cur, progress, results, completion, saved, handed>>

RecordArtifact ==
  /\ Transition("record", "pollPublished")
  /\ SaveStep
  /\ UNCHANGED <<cur, progress, results, completion, history>>

PollPublished ==
  /\ Transition("pollPublished", "stop")
  /\ Call("cancel")
  /\ UNCHANGED <<cur, progress, results, completion, saved, history>>

(* A verdict is a completed action whatever it says.                       *)
Occurrence(s) == IF s \in {"accepted", "rejected"} THEN "completed" ELSE s

(* Mutant: what the callback returned covers later errors.                 *)
ShownCompletion(l, c) == IF c # None THEN c ELSE l

(* What the occurrence shows: its own first error, else the completion.    *)
Shown(l, c) == IF l # None THEN l ELSE c

Stop ==
  /\ Transition("stop", "finished")
  /\ Call("clock")
  /\ occ' = [occ EXCEPT ![cur] = Occurrence(Shown(local', completion))]
  /\ IF completion = "invalid" /\ Plan[cur].op = "report"
       THEN verdict' \in {verdict, "accepted", "rejected"}
       ELSE verdict' = IF completion \in {"accepted", "rejected"} THEN completion ELSE verdict
  /\ UNCHANGED <<cur, best, steps, run, archive, artifacts, source, completion, saved, history>>

Finished ==
  /\ Transition("finished", "observe")
  /\ Call("finished")
  /\ UNCHANGED <<cur, progress, results, completion, saved, history>>

(* Mutant: errors of the hooks come too late to count.                     *)
BeforeHooks == occ[cur]

AfterHooks == Occurrence(Shown(local', completion))

(* The postcheck observer, the late errors applied again, and the step.    *)
Observe ==
  /\ Transition("observe", "saveStep")
  /\ IF Plan[cur].op = "postcheck" /\ completion # None THEN Call("observe") ELSE Succeed
  /\ occ' = [occ EXCEPT ![cur] = AfterHooks]
  /\ steps' = Append(steps, [at |-> cur, best |-> best[cur], status |->
                 IF occ'[cur] = "completed" THEN Shown(local', completion) ELSE occ'[cur]])
  /\ UNCHANGED <<cur, best, results, completion, saved, history>>

(* Mutant: a failed save of a finished action only shows in the            *)
(* diagnostics.                                                            *)
KeepStep(k) == UNCHANGED <<occ, steps>>

(* A save that fails after a clean action takes its completion back.       *)
TakeBack(k) ==
  IF local = None
    THEN /\ occ' = [occ EXCEPT ![cur] = k]
         /\ steps' = [steps EXCEPT ![Len(steps)].status = k]
    ELSE UNCHANGED <<occ, steps>>

SaveFinished ==
  /\ Transition("saveStep", "next")
  /\ \/ Saved(TRUE) /\ UNCHANGED <<diagnosis, occ, steps>>
     \/ /\ Saved(FALSE)
        /\ \E k \in Kinds : Record("persist", k, k, best[cur]) /\ TakeBack(k)
  /\ UNCHANGED <<cur, best, results, local, completion, history>>

-----------------------------------------------------------------------------
(* After the last action.                                                  *)

Settle ==
  /\ Transition("next", "final")
  /\ cur = N
  /\ status' = IF primary = None THEN "completed" ELSE status
  /\ UNCHANGED <<cur, primary, secondary, cancelled, progress, results, local, completion,
                 saved, history>>

SaveFinal ==
  /\ Transition("final", "returned")
  /\ SaveAttempt
  /\ UNCHANGED <<cur, progress, results, local, completion, history>>

Next ==
  \/ SaveIntent \/ Validate \/ SaveInitial
  \/ NextAction \/ PollBefore \/ Begin \/ Started \/ Announce
  \/ Invoke \/ PollAfter \/ Publish \/ Retain \/ Published \/ RecordArtifact \/ PollPublished
  \/ Stop \/ Finished \/ Observe \/ SaveFinished
  \/ Settle \/ SaveFinal

Spec == Init /\ [][Next]_vars

-----------------------------------------------------------------------------
Places == {"intent", "validate", "initial", "next", "poll", "begin", "started", "announce",
           "invoke", "pollAfter", "publish", "retain", "published", "record",
           "pollPublished", "stop", "finished", "observe", "saveStep", "final",
           "returned"}

(* Type invariant of an attempt (the records of runner.ml:4-57).           *)
TypeOK ==
  /\ pc \in Places
  /\ cur \in 0..N
  /\ status \in Terminal \cup {"running", "rejected"}
  /\ primary \in Diagnostics \cup {None}
  /\ secondary \in Seq(Diagnostics)
  /\ cancelled \in BOOLEAN
  /\ occ \in [1..N -> OccurrenceStates]
  /\ best \in [1..N -> BOOLEAN]
  /\ steps \in Seq([at : 1..N, best : BOOLEAN, status : Statuses])
  /\ run \in BOOLEAN
  /\ archive \in BOOLEAN
  /\ artifacts \in Seq(1..N)
  /\ source \in 0..N
  /\ local \in {"failed", "interrupted", "rejected", None}
  /\ completion \in Statuses \cup {"invalid", None}
  /\ verdict \in {"accepted", "rejected", None}
  /\ saved \in Snapshots \cup {None}
  /\ handed \in [1..N -> 0..N \cup {None}]
  /\ announced \subseteq 1..N

Done(s) == {s[j] : j \in DOMAIN s}

(* After a failure, wherever it came from, only work gated on an available *)
(* run starts, and only as best effort; once a cancellation poll has been  *)
(* answered nothing starts.                                                *)
NoWorkAfterFailure ==
  pc = "invoke" =>
    /\ ~cancelled
    /\ primary # None => best[cur] /\ Plan[cur].gate = "run_available" /\ run

Errors == Done(secondary) \cup ({primary} \ {None})

(* A run that was allocated is collected even if it failed or a later      *)
(* action did, unless a poll was answered (or raised) or the process died. *)
FailedRunsAreCollected ==
  pc = "returned" /\ run /\ (\A d \in Errors : d.point # "cancel") =>
    \A j \in 1..N : Plan[j].op = "collect" => occ[j] # "unreached"

(* Work never starts unannounced: whenever an action's callback has been   *)
(* invoked, the record on disk no longer calls it unreached, also if the   *)
(* process dies right then.                                                *)
AnnouncedBeforeWork ==
  \A j \in 1..N : handed[j] # None => saved # None /\ saved.occ[j] # "unreached"

(* What a plan requires is what has completed when work starts; only best  *)
(* effort may go without, and an archive is made of an accepted result.    *)
RequiresHonoured ==
  \A j \in 1..N : handed[j] # None /\ ~best[j] =>
    /\ \A r \in Plan[j].requires : Plan[r].enabled => occ[r] = "completed"
    /\ Plan[j].op = "archive" => verdict = "accepted"

(* Whatever starts is justified by how everything before it ended.         *)
StartsAreJustified == NoWorkAfterFailure /\ RequiresHonoured

(* Each segment is handed the checkpoint its predecessor published in this *)
(* attempt; the first one the attempt's own initial source.                *)
HandoffFollowsPlan ==
  \A j \in 1..N : Plan[j].op = "segment" /\ handed[j] # None =>
    /\ handed[j] = j - 1
    /\ j > 1 => j - 1 \in Done(artifacts)

(* A named attempt enters its Published hook (the required analysis) only  *)
(* with the promoted artifact already on disk.                             *)
RetainedBeforeHook ==
  Named => \A j \in announced : saved # None /\ j \in Done(saved.artifacts)

(* The record is written ahead of the work that follows it: of an action's *)
(* callback, and of the analysis a named attempt runs on its artifact.     *)
WriteAhead == AnnouncedBeforeWork /\ RetainedBeforeHook

(* What is on disk never claims more than happened, at any moment the      *)
(* process may die: a completed segment has its artifact in the same       *)
(* record, and a completed attempt has every enabled action completed.     *)
DiskNeverOverclaims ==
  saved # None =>
    /\ Done(saved.artifacts) \subseteq Done(artifacts)
    /\ \A j \in 1..N : Plan[j].op = "segment" /\ saved.occ[j] = "completed" =>
         j \in Done(saved.artifacts)
    /\ saved.status = "completed" =>
         \A j \in 1..N : saved.occ[j] = IF Plan[j].enabled THEN "completed" ELSE "skipped"

(* A returned success is complete and durable: no error was recorded, and  *)
(* the same finished record is the one on disk.                            *)
SuccessIsDurable ==
  pc = "returned" =>
    /\ status = "completed" <=> primary = None
    /\ status = "completed" => saved = Snapshot /\ secondary = <<>>

(* Every action that started ends as a step, and a step is clean exactly   *)
(* when none of its callbacks, polls and saves reported an error.          *)
StepsTellTheTruth ==
  /\ TypeOK
  /\ pc = "returned" =>
       /\ \A j \in 1..N : occ[j] # "running"
       /\ \A j \in DOMAIN steps :
            steps[j].status \in {"completed", "accepted"} <=>
              \A d \in Errors : d.at # steps[j].at
       /\ \A j \in DOMAIN steps : occ[steps[j].at] = Occurrence(steps[j].status)
=============================================================================
