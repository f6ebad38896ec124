-------------------------- MODULE ProviderPhysical --------------------------
(***************************************************************************)
(* flow/hardcaml_asic_flow/physical_runtime.py: check, which accepts a     *)
(* routed layout with stock macros, audit, which asks the same questions   *)
(* of a failed run and accepts nothing, and replay_models, which derives   *)
(* the gate-level models the replay simulates with.  disposition_magic is  *)
(* ProviderMagic.                                                          *)
(*                                                                         *)
(* Every file is read more than once, and others may write it in between.  *)
(***************************************************************************)
EXTENDS Naturals, FiniteSets, Sequences

CONSTANTS None, MaxChanges   \* bound: writes by others

Questions == {"plan", "options", "stock", "power", "deck", "zero", "magic", "lvs"}
(* The order check asks them in; the layout is read before "stock", the    *)
(* checker's input compared and its reports parsed before "zero".          *)
After == [plan |-> "digest", options |-> "layout", stock |-> "power", power |-> "input",
          deck |-> "reports", zero |-> "magic", magic |-> "lvs", lvs |-> "recheck"]

(* None, not looked at and not ended, is no version and no outcome.        *)
NoneIsNew == None \notin Nat \cup {"refused", "pass", "audited", "raised", "models"}

VARIABLES
  pc,
  op,         \* "check", "audit", "timing" or "macro" models
  wrong,      \* the questions that have a bad answer
  gds, input, \* versions: the final layout, the file the DRC ran on
  report,     \* version of the DRC's report
  models,     \* version of the vendor's models
  digest,     \* of the layout, None before it is taken
  seen,       \* what was looked at: the layout, the DRC's input, the reports
  snapshot,   \* None, or the models' version that was read
  written,    \* None, or the versions derived and retained
  answers,    \* audit.json
  evidence,   \* physical-checks.json or replay-models.json
  changes, outcome

vars == <<pc, op, wrong, gds, input, report, models, digest, seen, snapshot, written, answers, evidence, changes, outcome>>
world == <<op, wrong, gds, input, report, models, changes>>
replay == <<snapshot, written>>

Init ==
  /\ op \in {"check", "audit", "timing", "macro"}
  /\ pc = IF op \in {"check", "audit"} THEN "plan" ELSE "recorded"
  /\ wrong \in {w \in SUBSET Questions : Cardinality(w) <= 1}
  /\ gds = 1 /\ input \in {1, 2} /\ report = 1 /\ models \in {1, 2}
  /\ digest = None /\ seen = [layout |-> None, input |-> None, report |-> None]
  /\ snapshot = None /\ written = None
  /\ answers = <<>> /\ evidence = None
  /\ changes = 0 /\ outcome = None

Go(to) == pc' = to /\ UNCHANGED outcome
Over(what) == pc' = "over" /\ outcome' = what

-----------------------------------------------------------------------------
(* require: the first bad answer ends a check.                             *)
Question(q) ==
  /\ pc = q
  /\ IF q \in wrong THEN Over("refused")
     ELSE Go(IF q = "plan" /\ op = "audit" THEN "attempts" ELSE After[q])
  /\ UNCHANGED <<world, digest, seen, replay, answers, evidence>>

ValidatePlan == Question("plan")
(* Checkers on, their scope, workers, corners and deck options.            *)
Options == Question("options")
(* The assembled macros' polygons are the supplied ones.                   *)
VerifyStockGeometry == Question("stock")
(* Each supply's contact chain is in the final metal.                      *)
GeometryEvidence == Question("power")
(* Both logs name the layout and show every part of the deck enabled.      *)
DeckLogs == Question("deck")
(* Every count, and every corner's, is there, finite, whole and zero.      *)
RequiredZero == Question("zero")
DispositionMagic == Question("magic")
(* The reader's receipt, normalized inputs and statistics.                 *)
ValidateLvsReader == Question("lvs")

Digest ==
  /\ pc = "digest"
  /\ digest' = gds /\ Go("options")
  /\ UNCHANGED <<world, seen, replay, answers, evidence>>

ReadLayout ==
  /\ pc = "layout"
  /\ seen' = [seen EXCEPT !.layout = gds] /\ Go("stock")
  /\ UNCHANGED <<world, digest, replay, answers, evidence>>

(* What the DRC ran on is the final layout.                                *)
CompareInput ==
  /\ pc = "input"
  /\ IF input = digest THEN Go("deck") ELSE Over("refused")
  /\ seen' = [seen EXCEPT !.input = input]
  /\ UNCHANGED <<world, digest, replay, answers, evidence>>

ParseReports ==
  /\ pc = "reports"
  /\ seen' = [seen EXCEPT !.report = report] /\ Go("zero")
  /\ UNCHANGED <<world, digest, replay, answers, evidence>>

(* Mutant: the layout is not looked at again.                              *)
AsBefore == TRUE

StillThere == gds = digest /\ input = digest

(* The last look; then everything that was used is hashed.                 *)
Recheck ==
  /\ pc = "recheck"
  /\ IF StillThere THEN Go("evidence") ELSE Over("refused")
  /\ UNCHANGED <<world, digest, seen, replay, answers, evidence>>

WriteEvidence ==
  /\ pc = "evidence"
  /\ evidence' = [gds |-> digest, report |-> report] /\ Over("pass")
  /\ UNCHANGED <<world, digest, seen, replay, answers>>

(* attempt: an answer of an audit is written down, good or bad, and the    *)
(* next is asked; the layout and the DRC's input are hashed there and then.*)
Attempts == <<"stock", "power", "options", "deck", "magic", "lvs", "models", "zero">>

Attempt ==
  /\ pc = "attempts" /\ Len(answers) < Len(Attempts)
  /\ LET q == Attempts[Len(answers) + 1]
         true == q \notin wrong /\ (q = "deck" => input = gds)
     IN  \E good \in IF q = "models" THEN BOOLEAN ELSE {true} :
           answers' = Append(answers, [question |-> q, good |-> good])
  /\ Go("attempts")
  /\ UNCHANGED <<world, digest, seen, replay, evidence>>

(* The diagnosis is over, or a file it reads outside attempt is missing.   *)
AuditEnds ==
  /\ pc = "attempts"
  /\ \/ Len(answers) = Len(Attempts) /\ Over("audited")
     \/ Len(answers) \in {0, 1, 5} /\ Over("raised")
  /\ UNCHANGED <<world, digest, seen, replay, answers, evidence>>

-----------------------------------------------------------------------------
(* The run's preflight recorded version 1 of every model.                  *)
CheckRecorded ==
  /\ pc = "recorded"
  /\ IF models = 1 THEN Go("snapshot") ELSE Over("refused")
  /\ UNCHANGED <<world, digest, seen, replay, answers, evidence>>

(* Mutant: a snapshot is as good as the file it is of.                     *)
AnySnapshot == TRUE

(* The bytes that are used are those the preflight recorded.               *)
SnapshotIsRecorded == snapshot' = 1

Snapshot ==
  /\ pc = "snapshot"
  /\ snapshot' = IF op = "timing" THEN models ELSE None
  /\ IF op = "timing" => SnapshotIsRecorded THEN Go("derive") ELSE Over("refused")
  /\ UNCHANGED <<world, digest, seen, written, answers, evidence>>

Source == IF snapshot = None THEN models ELSE snapshot

(* Each used cell once, its timing region taken out and only reviewed      *)
(* delayed references bridged; another cell's body is refused.             *)
ReviewedCells ==
  /\ pc = "derive"
  /\ \/ written' = [derived |-> Source, retained |-> None] /\ Go("retain")
     \/ UNCHANGED written /\ Over("refused")
  /\ UNCHANGED <<world, digest, seen, snapshot, answers, evidence>>

RetainModels ==
  /\ pc = "retain"
  /\ written' = [written EXCEPT !.retained = Source] /\ Go("inventory")
  /\ UNCHANGED <<world, digest, seen, snapshot, answers, evidence>>

WriteInventory ==
  /\ pc = "inventory"
  /\ IF op = "timing" /\ models # snapshot THEN Over("refused") /\ UNCHANGED evidence
     ELSE evidence' = written /\ Over("models")
  /\ UNCHANGED <<world, digest, seen, replay, answers>>

Disturb ==
  /\ pc # "over" /\ changes < MaxChanges
  /\ changes' = changes + 1
  /\ \/ gds' = gds + 2 /\ UNCHANGED <<input, report, models>>
     \/ input' = input + 2 /\ UNCHANGED <<gds, report, models>>
     \/ report' = report + 1 /\ UNCHANGED <<gds, input, models>>
     \/ models' = models + 1 /\ UNCHANGED <<gds, input, report>>
  /\ UNCHANGED <<pc, op, wrong, digest, seen, replay, answers, evidence, outcome>>

Next ==
  \/ ValidatePlan \/ Digest \/ Options \/ ReadLayout \/ VerifyStockGeometry \/ GeometryEvidence
  \/ CompareInput \/ DeckLogs \/ ParseReports \/ RequiredZero \/ DispositionMagic
  \/ ValidateLvsReader \/ Recheck \/ WriteEvidence \/ Attempt \/ AuditEnds
  \/ CheckRecorded \/ Snapshot \/ ReviewedCells \/ RetainModels \/ WriteInventory
  \/ Disturb

Spec == Init /\ [][Next]_vars

-----------------------------------------------------------------------------
(* Passing evidence answers every question well, and all of them of one    *)
(* layout: the one that was hashed is the one whose polygons were compared *)
(* and the one the DRC ran on, whoever wrote to it meanwhile ("real GDS    *)
(* changed during physical evidence validation", check).  Its report's     *)
(* hash is taken after it was parsed, and is of the parsed one unless      *)
(* somebody wrote to it.                                                   *)
EvidenceIsOfOneLayout ==
  outcome = "pass" =>
    /\ op = "check" /\ wrong = {}
    /\ evidence.gds = seen.layout /\ evidence.gds = seen.input
    /\ evidence.report = seen.report \/ changes > 0

(* "Derive only reviewed zero-delay cells" (replay_models): the models a   *)
(* macro-free replay simulates, derived and retained, are the ones its     *)
(* run's preflight recorded, whatever is written to them meanwhile; a      *)
(* macro's are read again for each use, and are so unless they changed.    *)
ReplayIsTheRecorded ==
  outcome = "models" =>
    (evidence.derived = 1 /\ evidence.retained = 1) \/ (op = "macro" /\ changes > 0)
=============================================================================
