----------------------------- MODULE Finalization -----------------------------
(***************************************************************************)
(* execution/results/finalization_service.ml: one finalization of a        *)
(* completed stage execution, from its first running receipt to the        *)
(* terminal one, and inside it the external postcheck of                   *)
(* postcheck_service.ml, which hears signals instead of it while it runs.  *)
(*                                                                         *)
(* `rec' is the receipt in memory, `disk' the one in operation.json.  The  *)
(* evidence is a version of the selected execution record, which another   *)
(* process may replace; tools, copies and probes are steps that may fail.  *)
(***************************************************************************)
EXTENDS Cancellation, Sequences

CONSTANT MaxVersions \* bound: contents the selected execution record has

VARIABLES
  pc,
  accept,  \* acceptance was requested
  rec, disk,
  sig,     \* the signal the finalization remembers
  inner,   \* the signal the postcheck remembers
  cause,   \* what a raised exception says by itself
  check,   \* the postcheck's record
  exec,    \* the content of the selected execution record
  hashed,  \* the content the receipt's hash is of
  heard    \* history: where each signal was delivered

vars == <<pc, accept, rec, disk, sig, inner, cause, check, exec, hashed, heard>>

env == <<sig, inner, exec, heard>>
evidence == <<hashed, check>>

(* of_json: what the strict reader of a receipt accepts.                   *)
Decodes(r) ==
  /\ (r.status # "running") <=> r.ended
  /\ r.ended <=> r.exit # None
  /\ r.exit # None => (r.status = "completed" <=> r.exit = 0)
  /\ r.status = "completed" => r.results
  /\ r.acceptance = "pass" => accept /\ r.external = "completed" /\ r.status = "completed"

Running ==
  [status |-> "running", phase |-> "validation", acceptance |-> "not_evaluated",
   external |-> "not_evaluated", results |-> FALSE, ended |-> FALSE, exit |-> None]

Init ==
  /\ pc = "select"
  /\ accept \in BOOLEAN
  /\ rec = Running
  /\ disk = Running
  /\ sig = None
  /\ inner = None
  /\ cause = "failed"
  /\ check = [status |-> "none", passed |-> FALSE]
  /\ exec = 0
  /\ hashed = None
  /\ heard = <<>>

-----------------------------------------------------------------------------
(* The environment.                                                        *)

InPostcheck == pc \in {"postcheck", "postTail", "postClose"}
Late == pc \in {"postTail", "postClose", "close", "decode"}
Over == pc \in {"returned", "raised"}

Deliver ==
  /\ ~Over
  /\ Len(heard) < MaxSignals
  /\ \E n \in Signals : IF InPostcheck THEN inner' = First(inner, n) /\ UNCHANGED sig
                                       ELSE sig' = First(sig, n) /\ UNCHANGED inner
  /\ heard' = Append(heard, IF Late THEN "late" ELSE "early")
  /\ UNCHANGED <<pc, accept, rec, disk, cause, evidence, exec>>

(* The execution record is replaced by another complete one.               *)
Replace ==
  /\ exec + 1 < MaxVersions
  /\ exec' = exec + 1
  /\ UNCHANGED <<pc, accept, rec, disk, sig, inner, cause, evidence, heard>>

-----------------------------------------------------------------------------
(* The finalization's own steps.                                           *)

At(from) == pc = from /\ UNCHANGED <<accept, env>>

(* check_cancel.                                                           *)
Unsignalled == sig = None

(* A save replaces the receipt, or raises and leaves it.                   *)
Save(next) ==
  \/ disk' = rec' /\ pc' = next
  \/ disk' = disk /\ pc' = "caught"

(* Anything between two saves may raise.                                   *)
Raise ==
  /\ ~Over /\ pc \notin {"caught", "close", "decode"}
  /\ pc' = "caught"
  /\ UNCHANGED <<accept, rec, disk, cause, evidence, env>>

Select ==
  /\ At("select") /\ Unsignalled
  /\ pc' = "hash"
  /\ UNCHANGED <<rec, disk, cause, hashed, check>>

HashExecution ==
  /\ At("hash")
  /\ hashed' = exec
  /\ pc' = "validate"
  /\ UNCHANGED <<rec, disk, cause, check>>

(* The recorded runtime accepts the last publication; the evidence is      *)
(* copied and mapped.                                                      *)
ValidateAndMap ==
  /\ At("validate") /\ Unsignalled
  /\ rec' = [rec EXCEPT !.phase = "collection"]
  /\ Save(IF accept THEN "external" ELSE "verify")
  /\ UNCHANGED <<cause, evidence>>

EnterPostcheck ==
  /\ At("external") /\ Unsignalled
  /\ rec' = [rec EXCEPT !.phase = "external_postcheck", !.external = "running"]
  /\ Save("postcheck")
  /\ UNCHANGED <<cause, evidence>>

-----------------------------------------------------------------------------
(* The external postcheck.                                                 *)

(* Every launch looks at the signals it heard, before and after.           *)
LastLaunch ==
  /\ At("postcheck") /\ inner = None
  /\ check' = [status |-> "running", passed |-> FALSE]
  /\ pc' = "postTail"
  /\ UNCHANGED <<rec, disk, cause, hashed>>

(* Any exception ends it; a remembered signal explains the exception.      *)
BreakPostcheck ==
  /\ pc \in {"postcheck", "postTail"} /\ At(pc)
  /\ check' = [check EXCEPT !.status = IF inner # None THEN "interrupted" ELSE "failed"]
  /\ pc' = "postClose"
  /\ UNCHANGED <<rec, disk, cause, hashed>>

(* Precheck and gate-level replay both pass, or not.                       *)
FinishPostcheck ==
  /\ At("postTail")
  /\ \E passed \in BOOLEAN :
       check' = [status |-> IF passed THEN "completed" ELSE "failed", passed |-> passed]
  /\ pc' = "postClose"
  /\ UNCHANGED <<rec, disk, cause, hashed>>

(* Its terminal record is on disk, its handlers are gone.                  *)
ClosePostcheck ==
  /\ At("postClose")
  /\ pc' = "posted"
  /\ UNCHANGED <<rec, disk, cause, evidence>>

AfterPostcheck(status) == IF status = "interrupted" THEN "cancelled" ELSE "verify"

TakePostcheck ==
  /\ At("posted")
  /\ rec' = [rec EXCEPT !.external = check.status]
  /\ Save(AfterPostcheck(check.status))
  /\ UNCHANGED <<cause, evidence>>

PostcheckInterrupted ==
  /\ At("cancelled")
  /\ cause' = "interrupted"
  /\ pc' = "caught"
  /\ UNCHANGED <<rec, disk, evidence>>

-----------------------------------------------------------------------------
ExecutionUnchanged == exec = hashed

(* Nothing that was selected, copied or checked has changed since.         *)
VerifyUnchanged ==
  /\ At("verify") /\ Unsignalled
  /\ ExecutionUnchanged
  /\ rec' = [rec EXCEPT !.results = TRUE]
  /\ pc' = IF accept THEN "acceptance" ELSE "last"
  /\ UNCHANGED <<disk, cause, evidence>>

EnterAcceptance ==
  /\ At("acceptance")
  /\ rec' = [rec EXCEPT !.phase = "acceptance"]
  /\ Save("judge")
  /\ UNCHANGED <<cause, evidence>>

(* Report_service.evaluate: of the evidence only what this model keeps:    *)
(* a problem anywhere rejects, and a postcheck that is not complete and    *)
(* passed is one.                                                          *)
Verdicts ==
  {"fail"} \cup (IF check.status = "completed" /\ check.passed THEN {"pass"} ELSE {})

Judge ==
  /\ At("judge") /\ Unsignalled
  /\ \E v \in Verdicts : rec' = [rec EXCEPT !.acceptance = v]
  /\ pc' = "last"
  /\ UNCHANGED <<disk, cause, evidence>>

(* Mutant: no look at the signals before the status is decided.            *)
NoLastLook == TRUE

LastLook == sig = None

LastCheck ==
  /\ At("last") /\ LastLook
  /\ rec' = [rec EXCEPT !.status = IF rec.acceptance = "fail" THEN "failed" ELSE "completed"]
  /\ pc' = "close"
  /\ UNCHANGED <<disk, cause, evidence>>

(* Mutant: a verdict once reached stands.                                  *)
KeepVerdict(a) == a

Withdrawn(a) == IF a = "pass" THEN "not_evaluated" ELSE a

(* The handler: a remembered signal explains any exception; an acceptance  *)
(* is taken back, a running postcheck is not left running.                 *)
Catch ==
  /\ At("caught")
  /\ LET status == IF sig # None THEN "interrupted" ELSE cause
     IN  rec' = [rec EXCEPT !.status = status, !.acceptance = Withdrawn(@),
                            !.external = IF @ = "running" THEN status ELSE @]
  /\ pc' = "close"
  /\ UNCHANGED <<disk, cause, evidence>>

ExitCode(status) ==
  CASE status = "completed" -> 0 [] status = "failed" -> 1 [] status = "interrupted" -> 130

Close ==
  /\ At("close")
  /\ rec' = [rec EXCEPT !.ended = TRUE, !.exit = ExitCode(rec.status)]
  /\ \/ disk' = rec' /\ pc' = "decode"
     \/ disk' = disk /\ pc' = "raised"
  /\ UNCHANGED <<cause, evidence>>

(* The outcome is the receipt as the strict reader sees it.                *)
Return ==
  /\ At("decode")
  /\ pc' = IF Decodes(rec) THEN "returned" ELSE "raised"
  /\ UNCHANGED <<rec, disk, cause, evidence>>

Next ==
  \/ Deliver \/ Replace \/ Raise
  \/ Select \/ HashExecution \/ ValidateAndMap \/ EnterPostcheck
  \/ LastLaunch \/ BreakPostcheck \/ FinishPostcheck \/ ClosePostcheck
  \/ TakePostcheck \/ PostcheckInterrupted
  \/ VerifyUnchanged \/ EnterAcceptance \/ Judge \/ LastCheck
  \/ Catch \/ Close \/ Return

Spec == Init /\ [][Next]_vars

-----------------------------------------------------------------------------
Receipts ==
  [status : {"running", "completed", "failed", "interrupted"},
   phase : {"validation", "collection", "external_postcheck", "acceptance"},
   acceptance : {"not_evaluated", "pass", "fail"},
   external : {"not_evaluated", "running", "completed", "failed", "interrupted"},
   results : BOOLEAN, ended : BOOLEAN, exit : {0, 1, 130, None}]

TypeOK ==
  /\ accept \in BOOLEAN
  /\ {rec, disk} \subseteq Receipts
  /\ {sig, inner} \subseteq Signals \cup {None}
  /\ cause \in {"failed", "interrupted"}
  /\ exec \in 0..MaxVersions
  /\ hashed \in 0..MaxVersions \cup {None}

(* operation.json is readable by the strict reader at every moment, also   *)
(* if the process dies there: no running receipt carries a verdict, no     *)
(* terminal one a verdict it did not earn or a postcheck still running.    *)
ReceiptsDecode ==
  /\ TypeOK
  /\ Decodes(disk)
  /\ disk.ended => disk.external # "running"
  /\ pc = "decode" => Decodes(rec)

(* A completed finalization accepts exactly when it was asked to, and then *)
(* on a postcheck that completed with both checks passed; and every signal *)
(* that did not stop it, in its own scope or in the postcheck's, came      *)
(* after the last check of the scope that heard it.                        *)
CompletionIsEarned ==
  pc = "returned" /\ rec.status = "completed" =>
    /\ accept <=> rec.acceptance = "pass"
    /\ accept => check.status = "completed" /\ check.passed
    /\ \A k \in DOMAIN heard : heard[k] = "late"
=============================================================================
