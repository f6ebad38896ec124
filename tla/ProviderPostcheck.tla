-------------------------- MODULE ProviderPostcheck --------------------------
(***************************************************************************)
(* flow/hardcaml_asic_flow/phase4.py, check: precheck and gate-level       *)
(* simulation of a completed run, in the container its record binds, under *)
(* handlers (the caller's) that raise FlowInterrupted at any moment.       *)
(***************************************************************************)
EXTENDS Cancellation

(* What postcheck.json may say; None, no such file, is no record.          *)
PostcheckRecords ==
  [status : {"running", "completed", "failed", "interrupted"}, precheck : {"pending", "pass", "fail"},
   gate : {"pending", "pass", "fail"}, ended : BOOLEAN]
NoneIsNew == None \notin PostcheckRecords \cup {"ok", "failed"}

VARIABLES
  pc,
  origin,    \* the run: what its record says of a binding
  rec, disk, \* postcheck.json: in memory, and as last saved
  cause, escaping,
  probe,     \* the simulator's probe: None, "ok", "failed"
  container, \* simulator containers: "none", "running", "gone"
  told,      \* a failed removal is in the record
  ran,       \* the commands that ended with code zero
  sent,
  outcome

vars == <<pc, origin, rec, disk, cause, escaping, probe, container, told, ran,
          sent, outcome>>
record == <<rec, disk>>
simulator == <<probe, container, told>>

(* "bound": docker; "native"; "unbound": required and absent; "old": of a  *)
(* time before bindings; "other": not a completed full flow, or no inputs. *)
Origins == {"bound", "native", "unbound", "old", "other"}

Init ==
  /\ pc = "guard"
  /\ origin \in Origins
  /\ rec = [status |-> "running", precheck |-> "pending", gate |-> "pending", ended |-> FALSE]
  /\ disk = None
  /\ cause = "none" /\ escaping = FALSE
  /\ probe = None /\ container = "none" /\ told = FALSE
  /\ ran = {}
  /\ sent = 0 /\ outcome = None

Raised == [status |-> "raised", code |-> None]

Raise == pc' = "over" /\ outcome' = Raised

Leave(why) == pc' = "except" /\ cause' = why

(* A save of the record in the body.                                       *)
SaveThen(saved, next) ==
  \/ disk' = saved /\ pc' = next /\ UNCHANGED cause
  \/ UNCHANGED disk /\ Leave("failed")

-----------------------------------------------------------------------------
(* PrerequisiteError before there is a record; else its first save.        *)
Guard ==
  /\ pc = "guard"
  /\ \/ origin # "other" /\ disk' = rec /\ pc' = "prepare" /\ UNCHANGED outcome
     \/ Raise /\ UNCHANGED disk
  /\ UNCHANGED <<origin, rec, cause, escaping, simulator, ran, sent>>

(* The private copy of the precheck and the pinned versions of KLayout.    *)
Prepare ==
  /\ pc = "prepare"
  /\ \/ pc' = "bind" /\ UNCHANGED cause
     \/ Leave("failed")
  /\ UNCHANGED <<origin, record, escaping, simulator, ran, sent, outcome>>

(* A new run needs its recorded container binding, engine and image; an    *)
(* old one falls back to the image its tag names.                          *)
Simulates(run) == run \in {"bound", "old"}

Bind ==
  /\ pc = "bind"
  /\ \/ Simulates(origin) /\ pc' = "probe" /\ UNCHANGED cause
     \/ Leave("failed")
  /\ UNCHANGED <<origin, record, escaping, simulator, ran, sent, outcome>>

(* iverilog -V in the container; a client cut short leaves it running.     *)
Probe ==
  /\ pc = "probe"
  /\ pc' = "clean"
  /\ \/ probe' = "ok" /\ container' = "gone"
     \/ probe' = "failed" /\ container' \in {"none", "gone", "running"}
  /\ UNCHANGED <<origin, record, cause, escaping, told, ran, sent, outcome>>

(* A failed removal is told, and raises unless the probe itself raised.    *)
Clean ==
  /\ pc = "clean"
  /\ \/ container' = "gone" /\ UNCHANGED told
     \/ told' = TRUE /\ UNCHANGED container
  /\ CASE probe = "failed" -> pc' = "except" /\ cause' = IF cause = "interrupted" THEN cause ELSE "failed"
       [] probe = "ok" -> IF told' THEN Leave("failed") ELSE pc' = "noted" /\ UNCHANGED cause
  /\ UNCHANGED <<origin, record, escaping, probe, ran, sent, outcome>>

Note ==
  /\ pc = "noted"
  /\ SaveThen(rec, "precheck")
  /\ UNCHANGED <<origin, rec, escaping, simulator, ran, sent, outcome>>

-----------------------------------------------------------------------------
(* The commands, each a ProviderCommand: a code, or an exception.          *)

Precheck ==
  /\ pc = "precheck"
  /\ \/ rec' = [rec EXCEPT !.precheck = "pass"] /\ ran' = ran \cup {"precheck"} /\ SaveThen(rec', "copy")
     \/ rec' = [rec EXCEPT !.precheck = "fail"] /\ UNCHANGED ran /\ SaveThen(rec', "copy")
     \/ Leave("failed") /\ UNCHANGED <<record, ran>>
  /\ UNCHANGED <<origin, escaping, simulator, sent, outcome>>

(* The models are there; the testbench is copied.                          *)
Copy ==
  /\ pc = "copy"
  /\ \/ pc' = "compile" /\ UNCHANGED cause
     \/ Leave("failed")
  /\ UNCHANGED <<origin, record, escaping, simulator, ran, sent, outcome>>

(* Mutant: the last check decides.                                         *)
ConcludeOnGate(gate) ==
  /\ rec' = [rec EXCEPT !.gate = gate, !.status = IF gate = "pass" THEN "completed" ELSE "failed"]
  /\ UNCHANGED disk
  /\ Leave("none")

Conclude(gate) ==
  /\ rec' = [rec EXCEPT !.gate = gate,
                        !.status = IF rec.precheck = "pass" /\ gate = "pass" THEN "completed" ELSE "failed"]
  /\ UNCHANGED disk
  /\ Leave("none")

Compile ==
  /\ pc = "compile"
  /\ \/ ran' = ran \cup {"compile"} /\ pc' = "simulate" /\ UNCHANGED <<record, cause>>
     \/ Conclude("fail") /\ UNCHANGED ran
     \/ Leave("failed") /\ UNCHANGED <<record, ran>>
  /\ UNCHANGED <<origin, escaping, simulator, sent, outcome>>

Simulate ==
  /\ pc = "simulate"
  /\ \/ Conclude("pass") /\ ran' = ran \cup {"simulate"}
     \/ Conclude("fail") /\ UNCHANGED ran
     \/ Leave("failed") /\ UNCHANGED <<record, ran>>
  /\ UNCHANGED <<origin, escaping, simulator, sent, outcome>>

-----------------------------------------------------------------------------
Handle ==
  /\ pc = "except"
  /\ pc' = "finally"
  /\ rec' = IF cause = "none" THEN rec ELSE [rec EXCEPT !.status = cause]
  /\ UNCHANGED <<origin, disk, cause, escaping, simulator, ran, sent, outcome>>

Code == CASE rec.status = "completed" -> "zero"
          [] rec.status = "failed" -> "one"
          [] rec.status = "interrupted" -> "128+n"

Settle ==
  /\ pc = "finally"
  /\ rec' = [rec EXCEPT !.ended = TRUE]
  /\ pc' = "over"
  /\ \/ disk' = rec' /\ outcome' = IF escaping THEN Raised ELSE [status |-> rec.status, code |-> Code]
     \/ UNCHANGED disk /\ outcome' = Raised
  /\ UNCHANGED <<origin, cause, escaping, simulator, ran, sent>>

-----------------------------------------------------------------------------
Heard == pc # "over" /\ sent < MaxSignals /\ sent' = sent + 1

InterruptEarly ==
  /\ Heard /\ pc = "guard"
  /\ disk' \in {disk, rec}
  /\ Raise
  /\ UNCHANGED <<origin, rec, cause, escaping, simulator, ran>>

InterruptBody ==
  /\ Heard /\ pc \in {"prepare", "bind", "noted", "copy"}
  /\ disk' \in IF pc = "noted" THEN {disk, rec} ELSE {disk}
  /\ Leave("interrupted")
  /\ UNCHANGED <<origin, rec, escaping, simulator, ran, outcome>>

(* The probe's finally clause still removes the container, if no second    *)
(* signal reaches it: that one is noted as a failed removal.               *)
InterruptProbe ==
  /\ Heard /\ pc = "probe"
  /\ pc' = "clean" /\ cause' = "interrupted"
  /\ probe' = "failed" /\ container' \in {"none", "gone", "running"}
  /\ UNCHANGED <<origin, record, escaping, told, ran, outcome>>

InterruptClean ==
  /\ Heard /\ pc = "clean"
  /\ told' = TRUE
  /\ IF probe = "ok" THEN Leave("interrupted")
     ELSE pc' = "except" /\ cause' = IF cause = "interrupted" THEN cause ELSE "failed"
  /\ UNCHANGED <<origin, record, escaping, probe, container, ran, outcome>>

(* A command swallows a signal that reaches it in its clean-up.            *)
InterruptCommand ==
  /\ Heard /\ pc \in {"precheck", "compile", "simulate"}
  /\ Leave("interrupted") \/ (pc # "precheck" /\ Leave("failed"))
  /\ UNCHANGED <<origin, record, escaping, simulator, ran, outcome>>

InterruptHandler ==
  /\ Heard /\ pc = "except"
  /\ pc' = "finally" /\ escaping' = TRUE
  /\ UNCHANGED <<origin, record, cause, simulator, ran, outcome>>

InterruptSettle ==
  /\ Heard /\ pc = "finally"
  /\ disk' \in {disk, [rec EXCEPT !.ended = TRUE]}
  /\ Raise
  /\ UNCHANGED <<origin, rec, cause, escaping, simulator, ran>>

Next ==
  \/ Guard \/ Prepare \/ Bind \/ Probe \/ Clean \/ Note
  \/ Precheck \/ Copy \/ Compile \/ Simulate \/ Handle \/ Settle
  \/ InterruptEarly \/ InterruptBody \/ InterruptProbe \/ InterruptClean
  \/ InterruptCommand \/ InterruptHandler \/ InterruptSettle

Spec == Init /\ [][Next]_vars

-----------------------------------------------------------------------------
(* A postcheck that is on disk as completed, or returned with code zero,   *)
(* ran all three commands to success, in a run whose record binds a        *)
(* simulator, and left no container of its probe untold; what it returns   *)
(* is what it saved, and no signal makes it a success (check).             *)
VerdictIsEarned ==
  /\ disk # None /\ disk.status = "completed" =>
       /\ ran = {"precheck", "compile", "simulate"} /\ Simulates(origin)
       /\ disk.precheck = "pass" /\ disk.gate = "pass"
  /\ outcome \notin {None, Raised} =>
       /\ disk = rec /\ disk.ended /\ outcome.status = rec.status
       /\ outcome.code = "zero" <=> rec.status = "completed"
       /\ sent > 0 => outcome.code # "zero"
  /\ pc = "over" /\ container = "running" => told
=============================================================================
