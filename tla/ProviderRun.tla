----------------------------- MODULE ProviderRun -----------------------------
(***************************************************************************)
(* flow/hardcaml_asic_flow/phase4.py, run and _run: one implementation run *)
(* of a bundle, with result_store.py's allocation, atomic save, durable    *)
(* preflight and the handlers that raise FlowInterrupted wherever a signal *)
(* arrives.  The bundle may change meanwhile; versions tell its states     *)
(* apart.                                                                  *)
(***************************************************************************)
EXTENDS Cancellation

CONSTANT MaxVersions  \* bound: states of the bundle

VARIABLES
  pc,
  rec, disk,   \* run.json: in memory, and as last saved (None: no file)
  report,      \* preflight.json: None, "pending", or the status it tells
  checked,     \* the status durable_preflight returned
  cause,       \* why the body was left: "none", "interrupted", "failed"
  escaping,    \* an exception is on its way past the finally clause
  bundle,      \* the version that stands in the bundle directory
  parsed, hashed, examined, staged, \* the versions each step saw
  tool,        \* how the tool's command ended
  sent,
  outcome      \* None, Raised, or the RunOutcome returned

vars == <<pc, rec, disk, report, checked, cause, escaping, bundle, parsed, hashed,
          examined, staged, tool, sent, outcome>>
seen == <<parsed, hashed, examined, staged>>
world == <<bundle, sent>>
record == <<rec, disk>>

Init ==
  /\ pc = "read"
  /\ rec = [status |-> "starting", stage |-> None, ended |-> FALSE]
  /\ disk = None /\ report = None /\ checked = None
  /\ cause = "none" /\ escaping = FALSE
  /\ bundle = 1 /\ parsed = 0 /\ hashed = 0 /\ examined = 0 /\ staged = 0
  /\ tool = None /\ sent = 0 /\ outcome = None

Raised == [status |-> "raised", code |-> None]

Raise == pc' = "over" /\ outcome' = Raised

(* An exception in the body goes to the except clause that matches it.     *)
Leave(why) == pc' = "except" /\ cause' = why

-----------------------------------------------------------------------------
(* Before the record: read_json and the digest of the manifest are two     *)
(* reads, and allocate makes a new directory or gives up.                  *)
ReadManifest ==
  /\ pc = "read"
  /\ pc' = "allocate"
  /\ parsed' = bundle
  /\ UNCHANGED <<record, report, checked, cause, escaping, hashed, examined, staged, tool, world, outcome>>

Allocate ==
  /\ pc = "allocate"
  /\ \/ pc' = "create" /\ hashed' = bundle /\ UNCHANGED outcome
     \/ Raise /\ UNCHANGED hashed
  /\ UNCHANGED <<record, report, checked, cause, escaping, parsed, examined, staged, tool, world>>

(* The first save is outside the try.                                      *)
Create ==
  /\ pc = "create"
  /\ \/ disk' = rec /\ pc' = "pending" /\ UNCHANGED outcome
     \/ Raise /\ UNCHANGED disk
  /\ UNCHANGED <<rec, report, checked, cause, escaping, seen, tool, world>>

-----------------------------------------------------------------------------
(* durable_preflight.                                                      *)

SavePending ==
  /\ pc = "pending"
  /\ \/ report' = "pending" /\ pc' = "probe" /\ UNCHANGED cause
     \/ Leave("failed") /\ UNCHANGED report
  /\ UNCHANGED <<record, checked, escaping, seen, tool, world, outcome>>

(* An exception of the probe is a failed report.                           *)
Probe ==
  /\ pc = "probe"
  /\ pc' = "report"
  /\ examined' = bundle
  /\ checked' \in {"ready", "failed"}
  /\ UNCHANGED <<record, report, cause, escaping, parsed, hashed, staged, tool, world, outcome>>

SaveReport ==
  /\ pc = "report"
  /\ \/ report' = checked /\ pc' = "judge" /\ UNCHANGED cause
     \/ Leave("failed") /\ UNCHANGED report
  /\ UNCHANGED <<record, checked, escaping, seen, tool, world, outcome>>

(* Its own except clause: a diagnostic in place of the report.             *)
SaveDiagnostic ==
  /\ pc = "diagnose"
  /\ \/ report' = "interrupted" /\ checked' = "interrupted" /\ pc' = "judge" /\ UNCHANGED cause
     \/ Leave("failed") /\ UNCHANGED <<report, checked>>
  /\ UNCHANGED <<record, escaping, seen, tool, world, outcome>>

-----------------------------------------------------------------------------
(* The body.                                                               *)

(* The preflight's status decides; then the binding is validated.          *)
Judge ==
  /\ pc = "judge"
  /\ CASE checked = "interrupted" -> Leave("interrupted")
       [] checked = "failed" -> Leave("failed")
       [] checked = "ready" -> Leave("failed") \/ (pc' = "stage" /\ UNCHANGED cause)
  /\ UNCHANGED <<record, report, checked, escaping, seen, tool, world, outcome>>

(* The copy of the bundle, and its manifest against the digest.            *)
(* Mutant: nobody compares.                                                *)
AnyManifest(version) == TRUE

SameManifest(version) == version = hashed

Stage ==
  /\ pc = "stage"
  /\ staged' = bundle
  /\ \/ SameManifest(bundle) /\ pc' = "start" /\ UNCHANGED cause
     \/ Leave("failed")
  /\ UNCHANGED <<record, report, checked, escaping, parsed, hashed, examined, tool, world, outcome>>

Start ==
  /\ pc = "start"
  /\ rec' = [rec EXCEPT !.status = "running"]
  /\ \/ disk' = rec' /\ pc' = "tool" /\ UNCHANGED cause
     \/ UNCHANGED disk /\ Leave("failed")
  /\ UNCHANGED <<report, checked, escaping, seen, tool, world, outcome>>

(* The engine and the image are verified, then ProviderCommand.            *)
Tool ==
  /\ pc = "tool"
  /\ tool' \in {"zero", "nonzero", "raised"}
  /\ IF tool' = "zero" THEN pc' = "verify" /\ UNCHANGED cause ELSE Leave("failed")
  /\ UNCHANGED <<record, report, checked, escaping, seen, world, outcome>>

(* Staged and original manifest once more.                                 *)
Verify ==
  /\ pc = "verify"
  /\ IF SameManifest(bundle)
     THEN rec' = [rec EXCEPT !.stage = "requested", !.status = "completed"] /\ Leave("none")
     ELSE Leave("failed") /\ UNCHANGED rec
  /\ UNCHANGED <<disk, report, checked, escaping, seen, tool, world, outcome>>

(* The except and else clauses.                                            *)
Handle ==
  /\ pc = "except"
  /\ pc' = "finally"
  /\ rec' = IF cause = "none" THEN rec ELSE [rec EXCEPT !.status = cause]
  /\ UNCHANGED <<disk, report, checked, cause, escaping, seen, tool, world, outcome>>

(* Mutant: whatever went wrong, the code is one.                           *)
CollapsedCode == IF cause = "none" THEN "zero" ELSE "one"

Code == CASE cause = "none" -> "zero" [] cause = "failed" -> "one" [] cause = "interrupted" -> "128+n"

(* The finally clause, then the outcome.                                   *)
Settle ==
  /\ pc = "finally"
  /\ rec' = [rec EXCEPT !.ended = TRUE]
  /\ pc' = "over"
  /\ \/ /\ disk' = rec'
        /\ outcome' = IF escaping THEN Raised ELSE [status |-> rec.status, code |-> Code]
     \/ UNCHANGED disk /\ outcome' = Raised
  /\ UNCHANGED <<report, checked, cause, escaping, seen, tool, world>>

-----------------------------------------------------------------------------
(* interrupt_handler, anywhere.  save_json replaces the file or leaves it. *)

Heard == pc # "over" /\ sent < MaxSignals /\ sent' = sent + 1

(* Before the try statement nothing catches it.                            *)
InterruptEarly ==
  /\ Heard /\ pc \in {"read", "allocate", "create"}
  /\ disk' \in IF pc = "create" THEN {disk, rec} ELSE {disk}
  /\ Raise
  /\ UNCHANGED <<rec, report, checked, cause, escaping, bundle, seen, tool>>

(* durable_preflight hears it, whatever it was doing ...                   *)
InterruptPreflight ==
  /\ Heard /\ pc \in {"pending", "probe", "report"}
  /\ report' \in CASE pc = "pending" -> {report, "pending"}
                   [] pc = "probe" -> {report}
                   [] pc = "report" -> {report, checked}
  /\ pc' = "diagnose"
  /\ UNCHANGED <<record, checked, cause, escaping, bundle, seen, tool, outcome>>

(* ... but not twice.                                                      *)
InterruptBody ==
  /\ Heard /\ pc \in {"diagnose", "judge", "stage", "start", "verify"}
  /\ disk' \in IF pc = "start" THEN {disk, [rec EXCEPT !.status = "running"]} ELSE {disk}
  /\ report' \in IF pc = "diagnose" THEN {report, "interrupted"} ELSE {report}
  /\ rec' \in IF pc = "verify" THEN {rec, [rec EXCEPT !.stage = "requested"]} ELSE {rec}
  /\ Leave("interrupted")
  /\ UNCHANGED <<checked, escaping, bundle, seen, tool, outcome>>

(* During the tool's command, which swallows a signal that reaches it in   *)
(* its clean-up and raises a failure.                                      *)
InterruptTool ==
  /\ Heard /\ pc = "tool"
  /\ \E why \in {"interrupted", "failed"} : Leave(why)
  /\ tool' = "raised"
  /\ UNCHANGED <<record, report, checked, escaping, bundle, seen, outcome>>

(* In an except clause: the finally clause still saves what there is.      *)
InterruptHandler ==
  /\ Heard /\ pc = "except"
  /\ pc' = "finally"
  /\ escaping' = TRUE
  /\ UNCHANGED <<record, report, checked, cause, bundle, seen, tool, outcome>>

InterruptSettle ==
  /\ Heard /\ pc = "finally"
  /\ disk' \in {disk, [rec EXCEPT !.ended = TRUE]}
  /\ Raise
  /\ UNCHANGED <<rec, report, checked, cause, escaping, bundle, seen, tool>>

(* Somebody rebuilds the bundle.                                           *)
ChangeBundle ==
  /\ pc # "over" /\ bundle < MaxVersions
  /\ bundle' = bundle + 1
  /\ UNCHANGED <<pc, record, report, checked, cause, escaping, seen, tool, sent, outcome>>

Next ==
  \/ ReadManifest \/ Allocate \/ Create
  \/ SavePending \/ Probe \/ SaveReport \/ SaveDiagnostic
  \/ Judge \/ Stage \/ Start \/ Tool \/ Verify \/ Handle \/ Settle
  \/ InterruptEarly \/ InterruptPreflight \/ InterruptBody \/ InterruptTool
  \/ InterruptHandler \/ InterruptSettle
  \/ ChangeBundle

Spec == Init /\ [][Next]_vars

-----------------------------------------------------------------------------
(* A returned outcome is the record on disk: closed, with the same status, *)
(* and with the exit code of that status; a run that heard a signal never  *)
(* returns success (_run's except, else and finally clauses).              *)
Codes == [completed |-> "zero", failed |-> "one", interrupted |-> "128+n"]

OutcomeIsRecorded ==
  outcome \notin {None, Raised} =>
    /\ disk = rec /\ disk.ended
    /\ outcome.status = disk.status
    /\ outcome.code = Codes[outcome.status]
    /\ sent > 0 => outcome.status # "completed"

(* A record that says completed stands beside a ready preflight report and *)
(* a tool that succeeded, and preflight, copy and tool saw one version of  *)
(* the manifest (the digest comparisons of _run).                          *)
CompletedIsOneBuild ==
  disk # None /\ disk.status = "completed" =>
    /\ report = "ready" /\ tool = "zero"
    /\ examined = hashed /\ staged = hashed
=============================================================================
