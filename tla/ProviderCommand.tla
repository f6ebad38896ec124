--------------------------- MODULE ProviderCommand ---------------------------
(***************************************************************************)
(* flow/hardcaml_asic_flow/phase4.py, run_logged: one tool command in its  *)
(* own session, with the container it owns, under the scoped handlers of   *)
(* result_store.py that raise FlowInterrupted wherever the signal arrives. *)
(*                                                                         *)
(* The command runs in a client process with a descendant.  The client     *)
(* asks a daemon for a container, and the request may still be on its way  *)
(* when the client dies.                                                   *)
(***************************************************************************)
EXTENDS Cancellation, Sequences

VARIABLES
  pc,
  contained,  \* a cleanup callback was given: the command owns a container
  timed,      \* a timeout was given
  client,     \* "none", "alive", "exited" with a code, "dead" by a signal
  code,
  descendant, \* a member of the client's session is alive
  known,      \* Popen returned and `process' is assigned
  failed,     \* the body raised
  container,  \* "none", "requested", "running", "gone"
  cleanups,   \* statuses appended to container_cleanup, in order
  cleanupError,
  stuck,      \* client_termination is noted: SIGKILL did not end the client
  sent,       \* signals sent so far
  late,       \* a request was still on its way after the last removal
  result      \* how the call ended: a code, "raised", "unsaved", "interrupted", "cut"

vars == <<pc, contained, timed, client, code, descendant, known, failed, container,
          cleanups, cleanupError, stuck, sent, late, result>>
given == <<contained, timed>>
processes == <<client, code, descendant>>
outside == <<client, code, descendant, container, late>>
noted == <<cleanups, cleanupError, stuck>>

Init ==
  /\ pc = "record"
  /\ contained \in BOOLEAN /\ timed \in BOOLEAN
  /\ client = "none" /\ code = None /\ descendant = FALSE
  /\ known = FALSE /\ failed = FALSE
  /\ container = "none"
  /\ cleanups = <<>> /\ cleanupError = FALSE /\ stuck = FALSE
  /\ sent = 0 /\ late = FALSE
  /\ result = None

Over == pc = "over"

End(r) == pc' = "over" /\ result' = r

-----------------------------------------------------------------------------
(* The client, its descendant and the daemon.                              *)

RequestContainer ==
  /\ client = "alive" /\ contained /\ container = "none"
  /\ container' = "requested"
  /\ UNCHANGED <<pc, given, processes, known, failed, noted, sent, late, result>>

DaemonStarts ==
  /\ container = "requested"
  /\ container' = "running"
  /\ UNCHANGED <<pc, given, processes, known, failed, noted, sent, late, result>>

(* The tool ends and --rm removes its container; a client that owns none   *)
(* just ends, and may leave a descendant behind.                           *)
ClientExits ==
  /\ client = "alive"
  /\ IF contained THEN container = "running" /\ container' = "gone" ELSE UNCHANGED container
  /\ client' = "exited"
  /\ code' \in {"zero", "nonzero"}
  /\ descendant' \in {descendant, FALSE}
  /\ UNCHANGED <<pc, given, known, failed, noted, sent, late, result>>

-----------------------------------------------------------------------------
(* The body.                                                               *)

(* record["commands"].append, the save of the record, the log.             *)
Record ==
  /\ pc = "record"
  /\ \/ pc' = "launch" /\ UNCHANGED result
     \/ End("raised")
  /\ UNCHANGED <<given, outside, known, failed, noted, sent>>

(* Popen: the child exists before its handle is assigned.                  *)
Launch ==
  /\ pc = "launch"
  /\ \/ /\ pc' = "assign"
        /\ client' = "alive" /\ descendant' = TRUE
        /\ UNCHANGED <<failed, result>>
     \/ /\ pc' = "remove" /\ failed' = TRUE /\ result' = "raised"
        /\ UNCHANGED <<client, descendant>>
  /\ UNCHANGED <<given, code, known, container, noted, sent, late>>

Assign ==
  /\ pc = "assign"
  /\ pc' = "wait"
  /\ known' = TRUE
  /\ UNCHANGED <<given, outside, failed, noted, sent, result>>

Reap ==
  /\ pc = "wait"
  /\ client = "exited"
  /\ pc' = "remove"
  /\ result' = code
  /\ UNCHANGED <<given, outside, known, failed, noted, sent>>

(* Mutant: a command that owns a container is left to the daemon's clock.  *)
OnlyUncontained == timed /\ ~contained

HasDeadline == timed

WaitTimesOut ==
  /\ pc = "wait"
  /\ HasDeadline /\ client = "alive"
  /\ pc' = "terminate"
  /\ failed' = TRUE /\ result' = "raised"
  /\ UNCHANGED <<given, outside, known, noted, sent>>

-----------------------------------------------------------------------------
(* The finally clause.                                                     *)

(* os.killpg with SIGTERM: the client may end, a descendant need not.      *)
Terminate ==
  /\ pc = "terminate"
  /\ pc' = "remove"
  /\ client' \in IF client = "alive" THEN {"alive", "dead"} ELSE {client}
  /\ descendant' \in {descendant, FALSE}
  /\ UNCHANGED <<given, code, known, failed, container, noted, sent, late, result>>

NoteFailedCleanup ==
  /\ cleanups' = Append(cleanups, "failed")
  /\ cleanupError' = (cleanupError \/ pc = "remove")

(* execution_transport.cleanup: `rm -f' under a deadline of its own.  An   *)
(* absent container counts as removed; a request on its way is not seen.   *)
RemoveContainer ==
  \/ /\ container' = IF container = "running" THEN "gone" ELSE container
     /\ late' = (container' = "requested")
     /\ cleanups' = Append(cleanups, "removed-or-absent")
     /\ UNCHANGED cleanupError
  \/ NoteFailedCleanup /\ UNCHANGED <<container, late>>

(* Mutant: a clean-up that failed does not spoil the tool's code.          *)
KeepCode == IF failed /\ known THEN pc' = "grace" /\ UNCHANGED result ELSE pc' = "over" /\ UNCHANGED result

(* What follows the first removal: the rest of the ladder only for a body  *)
(* that raised with a process at hand.                                     *)
AfterRemoval ==
  IF failed THEN IF known THEN pc' = "grace" /\ UNCHANGED result
                 ELSE pc' = "over" /\ UNCHANGED result
  ELSE IF cleanupError' THEN End("raised") ELSE pc' = "over" /\ UNCHANGED result

(* remove_owned_container; the save in its own finally may raise too.      *)
Remove ==
  /\ pc = "remove"
  /\ IF contained THEN RemoveContainer ELSE UNCHANGED <<cleanups, cleanupError, container, late>>
  /\ \/ AfterRemoval
     \/ contained /\ End("unsaved")
  /\ UNCHANGED <<given, processes, known, failed, stuck, sent>>

(* wait(timeout=5), then SIGKILL to the group of a client that is still    *)
(* there; one not seen to end in five more seconds is noted and saved.     *)
Grace ==
  /\ pc = "grace"
  /\ \/ /\ IF client = "alive" THEN client' = "dead" /\ descendant' = FALSE
                              ELSE UNCHANGED <<client, descendant>>
        /\ pc' = "sweep"
        /\ UNCHANGED <<stuck, result>>
     \/ /\ client = "alive" /\ stuck' = TRUE /\ UNCHANGED client
        /\ descendant' = FALSE
        /\ (pc' = "sweep" /\ UNCHANGED result) \/ End("unsaved")
  /\ UNCHANGED <<given, code, known, failed, container, cleanups, cleanupError, sent, late>>

(* A reaped client does not prove its descendants exited.                  *)
Sweep ==
  /\ pc = "sweep"
  /\ pc' = "retry"
  /\ descendant' = FALSE
  /\ UNCHANGED <<given, client, code, known, failed, container, noted, sent, late, result>>

(* Mutant: one removal is enough.                                          *)
NoRetry ==
  /\ pc = "retry"
  /\ pc' = "over"
  /\ UNCHANGED <<given, outside, known, failed, noted, sent, result>>

(* An in-flight launch may have raced the first removal.                   *)
Retry ==
  /\ pc = "retry"
  /\ IF contained THEN RemoveContainer ELSE UNCHANGED <<cleanups, cleanupError, container, late>>
  /\ pc' = "over"
  /\ result' \in IF contained THEN {result, "unsaved"} ELSE {result}
  /\ UNCHANGED <<given, processes, known, failed, stuck, sent>>

-----------------------------------------------------------------------------
(* interrupt_handler raises in the main thread, wherever that is.          *)

Handled == ~Over /\ sent < MaxSignals

(* In the body: the except clause notes the failure and re-raises.  Until  *)
(* Assign the process is not known, so there is nothing to terminate.      *)
InterruptBody ==
  /\ Handled /\ pc \in {"launch", "assign", "wait"}
  /\ pc' = IF known THEN "terminate" ELSE "remove"
  /\ failed' = TRUE /\ result' = "interrupted"
  /\ sent' = sent + 1
  /\ UNCHANGED <<given, outside, known, noted>>

(* In the cleanup callback: FlowInterrupted is an Exception, so it is      *)
(* recorded as a failed cleanup.                                           *)
InterruptCleanup ==
  /\ Handled /\ contained /\ pc \in {"remove", "retry"}
  /\ NoteFailedCleanup
  /\ IF pc = "remove" THEN AfterRemoval ELSE pc' = "over" /\ UNCHANGED result
  /\ sent' = sent + 1
  /\ UNCHANGED <<given, outside, known, failed, stuck>>

(* Anywhere else it leaves the call, and what was left of the ladder.      *)
InterruptElsewhere ==
  /\ Handled /\ pc \in {"record", "terminate", "grace", "sweep", "remove", "retry"}
  /\ End(IF failed THEN "cut" ELSE "interrupted")
  /\ sent' = sent + 1
  /\ UNCHANGED <<given, outside, known, failed, noted>>

-----------------------------------------------------------------------------
(* The calling thread, every wait of which has a deadline if the first has. *)
Step ==
  \/ Record \/ Launch \/ Assign \/ Reap \/ WaitTimesOut
  \/ Terminate \/ Remove \/ Grace \/ Sweep \/ Retry

Next ==
  \/ Step
  \/ RequestContainer \/ DaemonStarts \/ ClientExits
  \/ InterruptBody \/ InterruptCleanup \/ InterruptElsewhere

Fairness == WF_vars(Step)

Spec == Init /\ [][Next]_vars /\ Fairness

-----------------------------------------------------------------------------
(* A command cut short by a timeout, an error or a signal leaves neither a *)
(* process of its session nor a container behind, once its ladder ran to   *)
(* the end: unless it told that it could not, or the request was still on  *)
(* its way after the last removal (run_logged's order and its retry).      *)
TornDown == Over /\ failed /\ known /\ result \notin {"unsaved", "cut"}

Admitted == stuck \/ "failed" \in {cleanups[i] : i \in DOMAIN cleanups}

LeavesNothing ==
  TornDown /\ ~Admitted /\ ~late =>
    client # "alive" /\ ~descendant /\ container \notin {"requested", "running"}

(* A returned code is the tool's own, of a container seen to be removed,   *)
(* and no signal was heard on the way (run_logged).                        *)
CodeIsTheTools ==
  Over /\ result \in {"zero", "nonzero"} =>
    /\ result = code /\ client = "exited" /\ sent = 0
    /\ contained => container = "gone" /\ cleanups = <<"removed-or-absent">>

(* A command that was given a timeout ends, with whatever is left of its   *)
(* client: SIGKILL may not end that, and the daemon may answer no removal. *)
CallEnds == timed ~> Over
=============================================================================
