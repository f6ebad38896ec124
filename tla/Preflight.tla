------------------------------ MODULE Preflight ------------------------------
(***************************************************************************)
(* execution/runtime/preflight_service.ml, run: one readiness probe with   *)
(* its two records, the report and (unless the caller chose the report's   *)
(* place) the operation's receipt, saved one after the other while signals *)
(* arrive and storage fails.                                               *)
(***************************************************************************)
EXTENDS Naturals

CONSTANT None

Statuses == {"ready", "failed", "interrupted"}

(* What a report says: its kind, its `ready' flag, the storage failures it *)
(* discloses.                                                              *)
Reports == [kind : Statuses \cup {"pending"}, ready : BOOLEAN,
            errors : SUBSET {"report", "receipt"}]

VARIABLES
  pc,
  round,   \* why the report is being published: first, second, disclose
  signal,  \* the first one the handler recorded: where the run stood then
  status, exit,
  report,  \* its kind in memory
  errors,  \* records whose save failed
  reportPublished, receiptPublished,
  reportFile, receiptFile, \* on disk: a report; a receipt's status and exit
  receipt  \* the operation has one

vars == <<pc, round, signal, status, exit, report, errors, reportPublished, receiptPublished,
          reportFile, receiptFile, receipt>>
outcome == <<status, exit, report>>
files == <<reportFile, receiptFile, receipt>>

Places == {"pending", "probe", "look", "save", "unsaved", "relook", "receipt", "unfiled", "ended", "escaped"}
Rounds == {"first", "second", "disclose"}

Pending == [kind |-> "pending", ready |-> FALSE, errors |-> {}]

(* After begin_preflight, which saved the pending receipt, if any.         *)
Init ==
  /\ pc = "pending"
  /\ round = "first"
  /\ signal = None
  /\ status = "failed" /\ exit = 1
  /\ report = "pending"
  /\ errors = {}
  /\ reportPublished = FALSE /\ receiptPublished = FALSE
  /\ reportFile = None
  /\ receipt \in BOOLEAN
  /\ receiptFile = IF receipt THEN [status |-> "pending", exit |-> None] ELSE None

Signal ==
  /\ pc # "ended" /\ signal = None
  /\ signal' = [at |-> pc, round |-> round]
  /\ UNCHANGED <<pc, round, outcome, errors, reportPublished, receiptPublished, files>>

-----------------------------------------------------------------------------
(* The probe.                                                              *)

SavePending ==
  /\ pc = "pending"
  /\ pc' = "probe"
  /\ reportFile' = Pending
  /\ UNCHANGED <<round, signal, outcome, errors, reportPublished, receiptPublished, receiptFile, receipt>>

(* That save, or the removal of the probe's private directory, raises.     *)
Escape ==
  /\ pc = "pending" \/ (pc = "probe" /\ ~receipt)
  /\ pc' = "escaped"
  /\ UNCHANGED <<round, signal, outcome, errors, reportPublished, receiptPublished, files>>

(* Cancellation is noticed between and after the probes; an exception is a *)
(* failed report.                                                          *)
ProbeReports == IF signal # None THEN {"interrupted", "failed"} ELSE {"ready", "failed"}

(* Otherwise the report's flag classifies it.                              *)
ExitCode(kind) == CASE kind = "ready" -> 0 [] kind = "failed" -> 1 [] kind = "interrupted" -> 130

Conclude(kind) == report' = kind /\ status' = kind /\ exit' = ExitCode(kind)

Probe ==
  /\ pc = "probe"
  /\ pc' = "look"
  /\ \E kind \in ProbeReports : Conclude(kind)
  /\ UNCHANGED <<round, signal, errors, reportPublished, receiptPublished, files>>

-----------------------------------------------------------------------------
(* Publication.                                                            *)

(* Mutant: the flag of a report no longer current stays.                   *)
StaysPublished(published) == published

Withdraw(published) == FALSE

(* Mutant: the signal is not looked at again.                              *)
NoLook == UNCHANGED <<outcome, reportPublished>>

(* refresh_cancel                                                          *)
Refresh ==
  IF signal # None /\ status # "interrupted"
  THEN /\ Conclude("interrupted")
       /\ reportPublished' = Withdraw(reportPublished)
  ELSE UNCHANGED <<outcome, reportPublished>>

(* Mutant: a failed save leaves the readiness as it is.                    *)
KeepReady(failed) ==
  /\ errors' = errors \cup {failed}
  /\ UNCHANGED <<status, exit>>

(* publication_error: it vetoes readiness, and nothing else.               *)
PublicationError(failed) ==
  /\ errors' = errors \cup {failed}
  /\ IF status = "ready" THEN status' = "failed" /\ exit' = 2 ELSE UNCHANGED <<status, exit>>

WithErrors == [kind |-> report, ready |-> report = "ready" /\ errors = {}, errors |-> errors]

(* publish_report: a last look, then the save.                             *)
LookFirst ==
  /\ pc = "look"
  /\ pc' = "save"
  /\ Refresh
  /\ UNCHANGED <<round, signal, errors, receiptPublished, files>>

SaveReport ==
  /\ pc = "save"
  /\ pc' = IF round = "first" THEN "relook" ELSE IF round = "second" /\ receipt THEN "receipt" ELSE "ended"
  /\ reportFile' = WithErrors
  /\ reportPublished' = TRUE
  /\ UNCHANGED <<round, signal, outcome, errors, receiptPublished, receiptFile, receipt>>

SaveReportFails ==
  /\ pc = "save"
  /\ pc' = "unsaved"
  /\ PublicationError("report")
  /\ reportPublished' = FALSE
  /\ UNCHANGED <<round, signal, report, receiptPublished, files>>

LookAfterFailure ==
  /\ pc = "unsaved"
  /\ pc' = IF round = "first" THEN "relook" ELSE IF round = "second" /\ receipt THEN "receipt" ELSE "ended"
  /\ Refresh
  /\ UNCHANGED <<round, signal, errors, receiptPublished, files>>

(* Once more if a signal arrived during the first save.                    *)
Relook ==
  /\ pc = "relook"
  /\ Refresh
  /\ IF ~reportPublished' /\ errors = {}
     THEN pc' = "look" /\ round' = "second"
     ELSE pc' = (IF receipt THEN "receipt" ELSE "ended") /\ UNCHANGED round
  /\ UNCHANGED <<signal, errors, receiptPublished, files>>

SaveReceipt ==
  /\ pc = "receipt"
  /\ pc' = "ended"
  /\ receiptFile' = [status |-> status, exit |-> exit]
  /\ receiptPublished' = TRUE
  /\ UNCHANGED <<round, signal, outcome, errors, reportPublished, reportFile, receipt>>

SaveReceiptFails ==
  /\ pc = "receipt"
  /\ pc' = "unfiled"
  /\ PublicationError("receipt")
  /\ UNCHANGED <<round, signal, report, reportPublished, receiptPublished, files>>

(* A report that could be saved tells of the receipt that could not.       *)
Disclose ==
  /\ pc = "unfiled"
  /\ Refresh
  /\ IF reportPublished' THEN pc' = "look" /\ round' = "disclose" ELSE pc' = "ended" /\ UNCHANGED round
  /\ UNCHANGED <<signal, errors, receiptPublished, files>>

Next ==
  \/ Signal \/ SavePending \/ Escape \/ Probe
  \/ LookFirst \/ SaveReport \/ SaveReportFails \/ LookAfterFailure \/ Relook
  \/ SaveReceipt \/ SaveReceiptFails \/ Disclose

Spec == Init /\ [][Next]_vars

-----------------------------------------------------------------------------
Ended == pc = "ended"

TypeOK ==
  /\ pc \in Places /\ round \in Rounds
  /\ signal \in [at : Places, round : Rounds] \cup {None}
  /\ {reportPublished, receiptPublished, receipt} \subseteq BOOLEAN
  /\ status \in Statuses /\ exit \in {0, 1, 2, 130}
  /\ report \in Statuses \cup {"pending"}
  /\ errors \subseteq {"report", "receipt"}
  /\ reportFile \in Reports \cup {None}
  /\ receiptFile \in [status : Statuses \cup {"pending"}, exit : {None, 0, 1, 2, 130}] \cup {None}

(* The published flags of the outcome are true of the disk: a published    *)
(* report is the outcome's own, with every storage failure in it, and a    *)
(* published receipt has its status and exit code.                         *)
FlagsDescribeTheFiles ==
  Ended => /\ reportPublished => reportFile = WithErrors
           /\ receiptPublished => receiptFile = [status |-> status, exit |-> exit]

(* No look follows a receipt's save that succeeds, nor that of a report    *)
(* which discloses that it failed.                                         *)
TooLate ==
  \/ signal.at = "receipt" /\ receiptPublished
  \/ signal = [at |-> "save", round |-> "disclose"] /\ reportPublished

(* Ready is said only with everything stored, and a signal interrupts the  *)
(* outcome wherever it arrives, but where no look at it follows.  An       *)
(* interruption keeps its code, then a failed probe, then storage.         *)
OutcomeIsHonest ==
  /\ TypeOK
  /\ Ended => /\ (status = "ready") = (exit = 0) /\ (status = "ready" => WithErrors.ready)
              /\ (status = "interrupted") = (exit = 130) /\ (status = "interrupted" => signal # None)
              /\ signal # None => status = "interrupted" \/ TooLate
              /\ exit = 2 => errors # {} /\ report = "ready"

(* "A writable report can disclose the failed receipt": a report that was  *)
(* never refused does not go on saying ready when the outcome is not.      *)
StaleReadyIsReplaced ==
  Ended /\ "report" \notin errors /\ reportFile.ready => status = "ready"
=============================================================================
