------------------------ MODULE ProviderFinalization ------------------------
(***************************************************************************)
(* flow/hardcaml_asic_flow/finalization.py, finalize: results, and on      *)
(* request an acceptance, for a completed stage execution.  Handlers that  *)
(* raise FlowInterrupted wherever a signal arrives are in force only while *)
(* the body of its `with' statement runs.                                  *)
(*                                                                         *)
(* `rec' is the receipt in memory, `disk' the one in operation.json.  What *)
(* is read, copied or compared is a step that succeeds or raises.          *)
(***************************************************************************)
EXTENDS Cancellation

(* What finalization.json may say; None, no such file, is no receipt.      *)
Receipts ==
  [status : {"running", "completed", "failed", "interrupted"},
   phase : {"validation", "collection", "external_postcheck", "acceptance"},
   acceptance : {"not_evaluated", "pass", "fail"},
   external : {"not_evaluated", "running", "completed", "failed", "interrupted"},
   results : BOOLEAN, ended : BOOLEAN, exit : {None, "zero", "one", "128+n"}]
NoneIsNew == None \notin Receipts \cup {"failed", "interrupted", "zero", "one", "128+n"}

VARIABLES
  pc,
  accept, \* acceptance was requested
  rec, disk,
  cause,  \* what the except clause that was reached says
  sent,
  outcome \* None, Raised, Killed, or the receipt returned

vars == <<pc, accept, rec, disk, cause, sent, outcome>>
record == <<rec, disk>>

(* inspect: what the strict reader of a receipt accepts.                   *)
Decodes(r) ==
  /\ r.status # "running" <=> r.ended
  /\ r.ended <=> r.exit # None
  /\ r.ended => (r.status = "completed" <=> r.exit = "zero")
  /\ r.status = "completed" => r.results
  /\ r.acceptance = "pass" => accept /\ r.external = "completed" /\ r.status = "completed"

Init ==
  /\ pc = "create"
  /\ accept \in BOOLEAN
  /\ rec = [status |-> "running", phase |-> "validation", acceptance |-> "not_evaluated",
            external |-> "not_evaluated", results |-> FALSE, ended |-> FALSE, exit |-> None]
  /\ disk = None
  /\ cause = None
  /\ sent = 0
  /\ outcome = None

Raised == [status |-> "raised"]
Killed == [status |-> "killed"]

Over == pc = "over"

Raise == pc' = "over" /\ outcome' = Raised

(* An exception of the body: the handlers are restored on the way.         *)
Leave(why) == pc' = "except" /\ cause' = why

Proceed(next) == pc' = next /\ UNCHANGED cause

(* save() in the body.                                                     *)
SaveThen(next) ==
  \/ disk' = rec' /\ Proceed(next)
  \/ UNCHANGED disk /\ Leave("failed")

-----------------------------------------------------------------------------
(* allocate and the first save: what they raise is the caller's.           *)
Create ==
  /\ pc = "create"
  /\ \/ disk' = rec /\ pc' = "allocated" /\ UNCHANGED outcome
     \/ Raise /\ UNCHANGED disk
  /\ UNCHANGED <<accept, rec, cause, sent>>

(* The allocated callback, inside the try but before the handlers.         *)
Allocated ==
  /\ pc = "allocated"
  /\ Proceed("select") \/ Leave("failed")
  /\ UNCHANGED <<accept, record, sent, outcome>>

(* selected: the six publications of a complete fresh execution.           *)
Select ==
  /\ pc = "select"
  /\ UNCHANGED <<accept, rec, sent, outcome>>
  /\ SaveThen("validate") \/ (Leave("failed") /\ UNCHANGED disk)

(* runtime_validate: the bound bridge validates the shared closure.        *)
RuntimeValidate ==
  /\ pc = "validate"
  /\ Proceed("adapt") \/ Leave("failed")
  /\ UNCHANGED <<accept, record, sent, outcome>>

(* adapt: copies of the selected evidence; then the phase is collection.   *)
Adapt ==
  /\ pc = "adapt"
  /\ \/ /\ rec' = [rec EXCEPT !.phase = "collection"]
        /\ SaveThen(IF accept THEN "postcheck" ELSE "recheck")
     \/ Leave("failed") /\ UNCHANGED record
  /\ UNCHANGED <<accept, sent, outcome>>

(* The later collateral is recorded, if it was given, before the checks.   *)
EnterPostcheck ==
  /\ pc = "postcheck"
  /\ \/ /\ rec' = [rec EXCEPT !.phase = "external_postcheck", !.external = "running"]
        /\ SaveThen("check")
     \/ Leave("failed") /\ UNCHANGED record
  /\ UNCHANGED <<accept, sent, outcome>>

(* ProviderPostcheck: its outcome, or what it raises.                      *)
Check ==
  /\ pc = "check"
  /\ \/ /\ \E status \in {"completed", "failed"} : rec' = [rec EXCEPT !.external = status]
        /\ SaveThen("recheck")
     \/ Leave("failed") /\ UNCHANGED record
  /\ UNCHANGED <<accept, sent, outcome>>

(* Fail closed if the selected records, the copies or the collateral       *)
(* changed meanwhile; else collect, and publish the results.               *)
Recheck ==
  /\ pc = "recheck"
  /\ \/ rec' = [rec EXCEPT !.results = TRUE] /\ Proceed(IF accept THEN "accept" ELSE "conclude")
     \/ Leave("failed") /\ UNCHANGED rec
  /\ UNCHANGED <<accept, disk, sent, outcome>>

EnterAcceptance ==
  /\ pc = "accept"
  /\ rec' = [rec EXCEPT !.phase = "acceptance"]
  /\ SaveThen("report")
  /\ UNCHANGED <<accept, sent, outcome>>

(* Mutant: the reporter does not look at the external checks.              *)
AnyVerdict(r) == {"pass", "fail"}

(* The reporter's verdict needs completed external checks to pass.         *)
Verdicts(r) == IF r.external = "completed" THEN {"pass", "fail"} ELSE {"fail"}

Report ==
  /\ pc = "report"
  /\ \/ (\E verdict \in Verdicts(rec) : rec' = [rec EXCEPT !.acceptance = verdict]) /\ Proceed("conclude")
     \/ Leave("failed") /\ UNCHANGED rec
  /\ UNCHANGED <<accept, disk, sent, outcome>>

(* The last statement of the `with' body.                                  *)
Conclude ==
  /\ pc = "conclude"
  /\ rec' = [rec EXCEPT !.status = IF rec.acceptance = "fail" THEN "failed" ELSE "completed"]
  /\ pc' = "restore"
  /\ UNCHANGED <<accept, disk, cause, sent, outcome>>

Restore ==
  /\ pc = "restore"
  /\ pc' = "final"
  /\ UNCHANGED <<accept, record, cause, sent, outcome>>

(* The except clauses.                                                     *)
Settled(r) ==
  [r EXCEPT !.status = cause, !.external = IF r.external = "running" THEN cause ELSE r.external]

Handle ==
  /\ pc = "except"
  /\ rec' = Settled(rec)
  /\ pc' = "final"
  /\ UNCHANGED <<accept, disk, cause, sent, outcome>>

ExitCode == CASE cause = "interrupted" -> "128+n"
              [] cause = "failed" -> "one"
              [] cause = None -> IF rec.acceptance = "fail" THEN "one" ELSE "zero"

Final ==
  /\ pc = "final"
  /\ rec' = [rec EXCEPT !.ended = TRUE, !.exit = ExitCode]
  /\ pc' = "over"
  /\ \/ disk' = rec' /\ outcome' = rec'
     \/ UNCHANGED disk /\ outcome' = Raised
  /\ UNCHANGED <<accept, cause, sent>>

-----------------------------------------------------------------------------
(* Signals.  A save they reach has replaced the file or left it.           *)

Heard == ~Over /\ sent < MaxSignals /\ sent' = sent + 1

Handlers == pc \in {"select", "validate", "adapt", "postcheck", "check", "recheck",
                    "accept", "report", "conclude", "restore"}

(* Once the verdict is in the receipt, only the status remains to be told. *)
Interrupt ==
  /\ Heard /\ Handlers
  /\ disk' \in IF pc \in {"select", "adapt", "postcheck", "check", "accept"} THEN {disk, rec} ELSE {disk}
  /\ Leave("interrupted")
  /\ UNCHANGED <<accept, rec, outcome>>

(* The external check hears the signal itself and says so.                 *)
InterruptCheck ==
  /\ Heard /\ pc = "check"
  /\ rec' = [rec EXCEPT !.external = "interrupted"]
  /\ disk' \in {disk, rec'}
  /\ Leave("interrupted")
  /\ UNCHANGED <<accept, outcome>>

(* Without them SIGTERM ends the process and SIGINT is a KeyboardInterrupt *)
(* that only the try statement catches.                                    *)
InterruptUnhandled ==
  /\ Heard /\ ~Handlers
  /\ \/ pc' = "over" /\ outcome' = Killed /\ UNCHANGED cause
     \/ IF pc = "allocated" THEN Leave("interrupted") /\ UNCHANGED outcome
                            ELSE Raise /\ UNCHANGED cause
  /\ UNCHANGED <<accept, record>>

Next ==
  \/ Create \/ Allocated \/ Select \/ RuntimeValidate \/ Adapt \/ EnterPostcheck \/ Check
  \/ Recheck \/ EnterAcceptance \/ Report \/ Conclude \/ Restore \/ Handle \/ Final
  \/ Interrupt \/ InterruptCheck \/ InterruptUnhandled

Spec == Init /\ [][Next]_vars

-----------------------------------------------------------------------------
(* "if value["acceptance"] == "pass" and (... value["status"] !=           *)
(* "completed")" (inspect): the strict reader accepts every receipt that a *)
(* finalization leaves on disk, at every moment.                           *)
ReceiptsDecode == disk # None => Decodes(disk)

(* A finalization that says completed was not interrupted while it could   *)
(* hear, has its results and, if acceptance was asked for, a pass over     *)
(* completed external checks; every other receipt but one that a late      *)
(* signal closed after the verdict is one the strict reader accepts.       *)
LateSignal(r) == r.status = "interrupted" /\ r.acceptance = "pass"

CompletionIsEarned ==
  /\ disk # None /\ disk.status = "completed" =>
       /\ disk.results /\ cause = None
       /\ accept => disk.acceptance = "pass" /\ disk.external = "completed"
  /\ disk # None /\ ~LateSignal(disk) => Decodes(disk)
  /\ outcome \notin {None, Raised, Killed} => disk = outcome /\ disk.ended
=============================================================================
