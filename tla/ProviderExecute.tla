-------------------------- MODULE ProviderExecute --------------------------
(***************************************************************************)
(* flow/hardcaml_asic_flow: the execute command - cli.py's contract and    *)
(* exit codes around runner.py's execute, whose five actions are helpers   *)
(* that ocaml_backend.py starts, forwards signals to and decodes.          *)
(*                                                                         *)
(* The runner's handlers raise FlowInterrupted wherever a signal arrives;  *)
(* run and postcheck replace them by handlers that only forward, the other *)
(* three wait in subprocess.run, which kills and reaps what it started.    *)
(***************************************************************************)
EXTENDS Cancellation, Sequences

Operations == <<"run", "postcheck", "collect", "report", "archive">>

(* An action's exit code and status; None, neither yet, is no outcome.     *)
Codes == {"zero", "one", "two", "128+n"}
Statuses == {"completed", "failed", "interrupted"}
NoneIsNew == None \notin Codes \cup Statuses \cup {"traceback", "accepted", "rejected"}

VARIABLES
  pc,
  args,      \* stage, native, archive, force, testbench
  at,        \* the action the runner is at
  occ,       \* status of each occurrence
  codes,     \* exit code of each occurrence
  best,      \* the current action runs as best effort
  stopped, execution, \* the aggregate: stopped, and the code so far
  run,       \* status of the run's outcome, None before there is one
  verdict,   \* what report said
  child,     \* "none", "running", "done": the helper
  code, payload, \* its return code, and whether its outcome decodes
  heard,     \* it was sent a signal
  forwarding, \* the handlers in force are the forwarding ones
  early,     \* a signal came between the helper's start and those, or the
             \* try of subprocess.run
  raised,    \* signals that raised since this helper was started
  sent, exit

vars == <<pc, args, at, occ, codes, best, stopped, execution, run, verdict, child, code,
          payload, heard, forwarding, early, raised, sent, exit>>
helper == <<child, code, payload, heard>>
signals == <<early, raised, sent>>
plan == <<args, at>>
aggregate == <<stopped, execution>>
facts == <<occ, codes, run, verdict>>

Init ==
  /\ pc = "contract"
  /\ args \in [stage : {"synthesis", "full"}, native : BOOLEAN, archive : BOOLEAN, force : BOOLEAN, testbench : BOOLEAN]
  /\ at = 1
  /\ occ = [i \in 1..5 |-> "unreached"] /\ codes = [i \in 1..5 |-> None]
  /\ best = FALSE /\ stopped = FALSE /\ execution = "zero"
  /\ run = None /\ verdict = None
  /\ child = "none" /\ code = None /\ payload = None /\ heard = FALSE
  /\ forwarding = FALSE /\ early = FALSE /\ raised = 0 /\ sent = 0 /\ exit = None

Operation == Operations[at]
Coded == Operation \in {"run", "postcheck"}

Exit(c) == pc' = "over" /\ exit' = c

(* validate_contract: what the options must agree on.                      *)
Coherent ==
  /\ args.force => args.archive
  /\ args.native => args.stage = "synthesis"
  /\ args.testbench <=> args.stage = "full"

Contract ==
  /\ pc = "contract"
  /\ IF Coherent THEN pc' = "next" /\ UNCHANGED exit ELSE Exit("two")
  /\ UNCHANGED <<plan, facts, best, aggregate, helper, forwarding, signals>>

-----------------------------------------------------------------------------
(* coarse_actions: the plan of an endpoint, and each action's gate.        *)
Enabled(i) ==
  /\ Operations[i] = "postcheck" => args.stage = "full"
  /\ Operations[i] = "archive" => args.archive

(* Mutant: every gate lets an action clean up after a failure.             *)
AnyGate == run # None

RunAvailable == Operation = "collect" /\ run # None

(* _execute: the next action, if there is one that may start.              *)
Begin ==
  /\ pc = "next" /\ at <= 5
  /\ best' = (stopped /\ RunAvailable)
  /\ IF Enabled(at) /\ (stopped => RunAvailable)
       THEN occ' = [occ EXCEPT ![at] = "running"] /\ pc' = "spawn" /\ UNCHANGED at
       ELSE /\ occ' = [occ EXCEPT ![at] = IF Enabled(at) THEN @ ELSE "skipped"]
            /\ at' = at + 1 /\ UNCHANGED pc
  /\ UNCHANGED <<args, codes, run, verdict, aggregate, helper, forwarding, signals, exit>>

(* An exception of the run action leaves the runner, and cli.main maps it; *)
(* of any other it is that action's result.                                *)
Caught(why, c) ==
  IF Operation = "run" THEN Exit(c) /\ UNCHANGED <<occ, codes>>
  ELSE /\ pc' = "settle" /\ UNCHANGED exit
       /\ occ' = [occ EXCEPT ![at] = why] /\ codes' = [codes EXCEPT ![at] = c]

(* binary() may not find the helper; Popen otherwise.                      *)
Spawn ==
  /\ pc = "spawn"
  /\ \/ /\ child' = "running" /\ heard' = FALSE
        /\ pc' = "install"
        /\ UNCHANGED <<occ, codes, exit>>
     \/ Caught("failed", "two") /\ UNCHANGED <<child, heard>>
  /\ UNCHANGED <<plan, best, aggregate, run, verdict, code, payload, forwarding, signals>>

(* The helper is there, and now what deals with a signal: the handlers of  *)
(* run and postcheck, the with and the try of subprocess.run.              *)
Install ==
  /\ pc = "install"
  /\ forwarding' = Coded /\ pc' = "wait"
  /\ UNCHANGED <<plan, facts, best, aggregate, helper, signals, exit>>

(* The helper ends; one that heard a signal usually says 128+n.            *)
ChildEnds ==
  /\ child = "running"
  /\ child' = "done"
  /\ code' \in {"zero", "one"} \cup (IF heard THEN {"128+n"} ELSE {})
  /\ payload' \in {"outcome", "garbled"}
  /\ UNCHANGED <<pc, plan, facts, best, aggregate, heard, forwarding, signals, exit>>

Reap ==
  /\ pc = "wait" /\ child = "done"
  /\ pc' = "decode" /\ forwarding' = FALSE
  /\ UNCHANGED <<plan, facts, best, aggregate, helper, signals, exit>>

(* subprocess.run, on its way out: it kills the helper, then waits for it. *)
Kill ==
  /\ pc = "kill"
  /\ child' = "done" /\ pc' = "reap"
  /\ UNCHANGED <<plan, facts, best, aggregate, code, payload, heard, forwarding, signals, exit>>

Reaped ==
  /\ pc = "reap" /\ child = "done"
  /\ Caught("interrupted", "128+n")
  /\ UNCHANGED <<plan, best, aggregate, run, verdict, helper, forwarding, signals>>

Status == IF code = "zero" THEN "completed" ELSE IF code = "128+n" THEN "interrupted" ELSE "failed"

Result(status) ==
  /\ pc' = "settle" /\ UNCHANGED exit
  /\ occ' = [occ EXCEPT ![at] = status] /\ codes' = [codes EXCEPT ![at] = code]

(* run and postcheck: an outcome whose code is the helper's, or 128+n.     *)
DecodeOutcome ==
  /\ pc = "decode" /\ Coded
  /\ IF payload = "outcome"
       THEN Result(Status) /\ run' = IF Operation = "run" THEN Status ELSE run
       ELSE /\ IF code = "128+n" THEN Caught("interrupted", "128+n") ELSE Caught("failed", "two")
            /\ UNCHANGED run
  /\ UNCHANGED <<plan, best, aggregate, verdict, helper, forwarding, signals>>

Verdict(c) == IF c = "zero" THEN "accepted" ELSE "rejected"

(* collect raises unless zero; report's code is its verdict.               *)
DecodeCode ==
  /\ pc = "decode" /\ ~Coded
  /\ \/ /\ Operation = "collect"
        /\ IF code = "zero" THEN Result("completed") ELSE Caught("failed", "two")
        /\ UNCHANGED verdict
     \/ Operation = "report" /\ Result("completed") /\ verdict' = Verdict(code)
     \/ Operation = "archive" /\ Result(Status) /\ UNCHANGED verdict
  /\ UNCHANGED <<plan, best, aggregate, run, helper, forwarding, signals>>

(* Mutant: best effort is judged like the rest.                            *)
Decides(c) == c # "zero" \/ best

(* A failure stops the plan, unless best effort.                           *)
Fails(c) == c # "zero" /\ ~best

Settle ==
  /\ pc = "settle"
  /\ IF Fails(codes[at]) THEN stopped' = TRUE /\ execution' = codes[at] ELSE UNCHANGED aggregate
  /\ at' = at + 1 /\ pc' = "next"
  /\ child' = "none" /\ early' = FALSE /\ raised' = 0
  /\ UNCHANGED <<args, facts, best, code, payload, heard, forwarding, sent, exit>>

(* execute_sequence prints the aggregate and returns its code.             *)
Report ==
  /\ pc = "next" /\ at = 6
  /\ Exit(execution)
  /\ UNCHANGED <<plan, facts, best, aggregate, helper, forwarding, signals>>

-----------------------------------------------------------------------------
Heard == pc \notin {"contract", "over"} /\ sent < MaxSignals /\ sent' = sent + 1

(* The forwarding handler: a helper that is done hears nothing.            *)
Forward ==
  /\ Heard /\ forwarding
  /\ heard' = (heard \/ child = "running")
  /\ UNCHANGED <<pc, plan, facts, best, aggregate, child, code, payload, forwarding, early, raised, exit>>

(* An action catches what is raised in its own code, and leaves whatever   *)
(* helper it has: one it has just started, one it has not killed.          *)
Leaves ==
  /\ pc \in {"spawn", "install", "reap", "decode"}
  /\ Caught("interrupted", "128+n")

(* Mutant: an interrupted wait does not kill.                              *)
LetLive == pc = "wait" /\ pc' = "reap"

(* What interrupts communicate is caught to kill the helper; what comes    *)
(* before the try, or cuts the kill short, finds the wait of __exit__.     *)
CleansUp ==
  \/ pc = "wait" /\ pc' = "kill"
  \/ (pc = "kill" \/ (pc = "install" /\ ~Coded)) /\ pc' = "reap"

InterruptAction ==
  /\ Heard /\ ~forwarding
  /\ Leaves \/ (CleansUp /\ UNCHANGED <<occ, codes, exit>>)
  /\ early' = (early \/ pc = "install")
  /\ raised' = raised + 1
  /\ UNCHANGED <<plan, best, aggregate, run, verdict, helper, forwarding>>

(* Between actions nothing catches it, main's clauses included.            *)
InterruptRunner ==
  /\ Heard /\ pc \in {"next", "settle"}
  /\ Exit("traceback")
  /\ UNCHANGED <<plan, facts, best, aggregate, helper, forwarding, early, raised>>

Next ==
  \/ Contract \/ Begin \/ Spawn \/ Install \/ ChildEnds \/ Reap \/ Kill \/ Reaped
  \/ DecodeOutcome \/ DecodeCode \/ Settle \/ Report \/ Forward \/ InterruptAction \/ InterruptRunner

Spec == Init /\ [][Next]_vars

-----------------------------------------------------------------------------
(* Exit zero means every action of the plan was done and the report        *)
(* accepted; otherwise the first action that failed decides, best effort   *)
(* never does (_execute, execute_sequence).                                *)
Failed(i) == codes[i] \notin {None, "zero"}

ExitIsEarned ==
  exit = execution /\ pc = "over" /\ at = 6 =>
    IF exit = "zero" THEN \A i \in 1..5 : Enabled(i) => occ[i] = "completed" /\ codes[i] = "zero"
    ELSE \E i \in 1..5 : codes[i] = exit /\ \A j \in 1..(i - 1) : ~Failed(j)

(* Nothing is archived but an accepted result, and an action starts after  *)
(* a failure only to collect a run that there is (the plan's gates).       *)
GatesHold ==
  /\ occ[5] \notin {"unreached", "skipped"} => verdict = "accepted"
  /\ \A i \in 2..5, j \in 1..4 :
       j < i /\ Failed(j) /\ occ[i] \notin {"unreached", "skipped"} =>
         Operations[i] = "collect" /\ run # None

(* No action leaves its helper running, unless a signal came in the moment *)
(* between its start and what deals with signals, or three came: the first *)
(* interrupts subprocess.run, the second the kill and the third the wait   *)
(* (run, postcheck, collect, report, archive).                             *)
NoHelperLeft == pc \in {"settle", "over"} /\ child = "running" => early \/ raised > 2
=============================================================================
