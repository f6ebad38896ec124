--------------------------- MODULE CoarseExecution ---------------------------
(***************************************************************************)
(* One coarse attempt: execution/coarse_execution_service.ml drives the    *)
(* five actions through the runner of module Runner, and each action calls *)
(* a service.  What this module adds is who hears a signal.  The executor  *)
(* installs handlers for its whole scope; the run and postcheck services   *)
(* install their own for theirs, so that a signal reaches only the         *)
(* innermost scope, and each scope looks at what it heard at places of its *)
(* own.  After the last such place of a service a signal is heard but no   *)
(* longer looked at.                                                       *)
(*                                                                         *)
(* The runner's clock, polls, hooks and saves do not fail here: this owner *)
(* supplies none.                                                          *)
(***************************************************************************)
EXTENDS Runner

CONSTANTS Signals,   \* SIGINT and SIGTERM
          MaxSignals \* bound: signals delivered during one attempt

ASSUME SignalsAreNamed == None \notin Signals /\ MaxSignals \in Nat

Scoped == {"run", "postcheck"}

VARIABLES
  own,      \* the signal the executor remembers
  inner,    \* the signal the service in scope remembers
  before,   \* what the executor remembered when it entered the action
  svc,      \* where the service called by the current action is
  record,   \* the run's and the check's record on disk
  told,     \* the outcome each service returns
  heard     \* history: where each signal was delivered

coarse == <<own, inner, before, svc, record, told, heard>>
coarseVars == <<vars, coarse>>

Op == Plan[cur].op

CoarseInit ==
  /\ Init
  /\ own = None
  /\ inner = None
  /\ before = None
  /\ svc = "idle"
  /\ record = [s \in Scoped |-> "none"]
  /\ told = [s \in Scoped |-> "none"]
  /\ heard = <<>>

-----------------------------------------------------------------------------
(* Delivery.                                                               *)

First(sig, n) == IF sig = None THEN n ELSE sig

InService == svc \in {"parse", "open", "tail", "closing"}

(* The executor checks once more after every service but the last one.     *)
Unchecked ==
  /\ \A j \in (cur + 1)..N : ~Plan[j].enabled
  /\ pc \notin {"poll", "begin", "started", "announce", "invoke"}

Place ==
  IF InService THEN <<Op, IF svc = "closing" THEN "tail" ELSE svc>>
  ELSE <<"executor", IF Unchecked THEN "tail" ELSE "open">>

Deliver ==
  /\ pc # "returned"
  /\ Len(heard) < MaxSignals
  /\ \E n \in Signals : IF InService THEN inner' = First(inner, n) /\ UNCHANGED own
                                     ELSE own' = First(own, n) /\ UNCHANGED inner
  /\ heard' = Append(heard, Place)
  /\ UNCHANGED <<vars, before, svc, record, told>>

-----------------------------------------------------------------------------
(* The runner around the services.                                         *)

Around ==
  /\ \/ Validate \/ SaveInitial \/ NextAction \/ PollBefore \/ Begin \/ Started \/ Announce
     \/ PollAfter \/ Stop \/ Finished \/ Observe \/ SaveFinished \/ Settle \/ SaveFinal
  /\ UNCHANGED <<primary, secondary, cancelled, coarse>>

Completes(c) == Invoke /\ completion' = c
Raises(k) == Invoke /\ completion' = None /\ local' = k

(* Entering an action.  Only collection goes on once a signal is known.    *)
Enter ==
  /\ pc = "invoke"
  /\ svc = "idle"
  /\ before' = own
  /\ IF own # None /\ Op # "collect"
       THEN Raises("interrupted") /\ UNCHANGED svc
       ELSE svc' = (IF Op \in Scoped THEN "gap" ELSE "own") /\ UNCHANGED vars
  /\ UNCHANGED <<own, inner, record, told, heard>>

(* Mutant: no check after a service.                                       *)
NeverCut == FALSE

(* A signal that came while the service worked.                            *)
Cut == before = None /\ own # None

(* An exception; only the known ones are replaced by the signal.           *)
Throws == Raises("failed") \/ (Cut /\ Raises("interrupted"))

Answers(op) ==
  CASE op = "collect" -> {"completed"}
    [] op = "report" -> {"accepted", "rejected"}
    [] op = "archive" -> {"completed", "failed"}

(* Collection, report and archive run in the executor's own scope.         *)
Answer ==
  /\ svc = "own"
  /\ svc' = "idle"
  /\ Throws \/ (~Cut /\ \E c \in Answers(Op) : Completes(c))
  /\ UNCHANGED <<own, inner, before, record, told, heard>>

-----------------------------------------------------------------------------
(* The run and postcheck services.  The run service takes its scope before *)
(* it reads its inputs, the postcheck service after.                       *)

TakeScope ==
  /\ svc = "gap"
  /\ svc' = IF Op = "run" THEN "parse" ELSE "open"
  /\ inner' = None
  /\ record' = IF Op = "run" THEN record ELSE [record EXCEPT !["postcheck"] = "running"]
  /\ UNCHANGED <<vars, own, before, told, heard>>

(* Refused inputs, or a signal before anything was allocated.              *)
Refuse ==
  /\ \/ svc = "parse"
     \/ svc = "gap" /\ Op = "postcheck"
  /\ svc' = "idle"
  /\ Throws \/ (svc = "parse" /\ inner # None /\ Raises("interrupted"))
  /\ UNCHANGED <<own, inner, before, record, told, heard>>

Allocate ==
  /\ svc = "parse"
  /\ inner = None
  /\ svc' = "open"
  /\ record' = [record EXCEPT !["run"] = "starting"]
  /\ UNCHANGED <<vars, own, inner, before, told, heard>>

(* Preflight passed and the bundle is staged; the tool is launched next.   *)
Launch ==
  /\ svc = "open"
  /\ record["run"] = "starting"
  /\ record' = [record EXCEPT !["run"] = "running"]
  /\ UNCHANGED <<vars, own, inner, before, svc, told, heard>>

(* The last look at what was heard.                                        *)
LastCheck ==
  /\ svc = "open"
  /\ record[Op] = "running"
  /\ inner = None
  /\ svc' = "tail"
  /\ UNCHANGED <<vars, own, inner, before, record, told, heard>>

(* Any exception ends the work; a remembered signal explains it.           *)
Broken == IF inner # None THEN "interrupted" ELSE "failed"

Conclude ==
  /\ \/ svc \in {"open", "tail"} /\ told' = [told EXCEPT ![Op] = Broken]
     \/ svc = "tail" /\ told' = [told EXCEPT ![Op] = "completed"]
     \/ svc = "tail" /\ Op = "postcheck" /\ told' = [told EXCEPT ![Op] = "failed"]
  /\ svc' = "closing"
  /\ UNCHANGED <<vars, own, inner, before, record, heard>>

(* Mutant: the outcome does not depend on the record.                      *)
ToldAnyway(t) == t

(* Retained_error: without its terminal record a completed run is a        *)
(* failure; an earlier failure or signal stays what it was.                *)
Retained(t) == IF t = "completed" THEN "failed" ELSE t

(* The terminal record, and the end of the service's scope.                *)
Close ==
  /\ svc = "closing"
  /\ svc' = "back"
  /\ \/ record' = [record EXCEPT ![Op] = told[Op]] /\ UNCHANGED told
     \/ Op = "run" /\ told' = [told EXCEPT !["run"] = Retained(told["run"])] /\ UNCHANGED record
  /\ UNCHANGED <<vars, own, inner, before, heard>>

(* The postcheck service has no outcome without its record.                *)
CloseFails ==
  /\ svc = "closing"
  /\ Op = "postcheck"
  /\ svc' = "idle"
  /\ Throws
  /\ UNCHANGED <<own, inner, before, record, told, heard>>

(* `remember': the executor learns a service's signal from its exit code.  *)
Remember ==
  /\ svc = "back"
  /\ svc' = "idle"
  /\ own' = IF told[Op] = "interrupted" THEN inner ELSE own
  /\ Completes(IF Op = "run" /\ told["run"] = "completed" /\ own' # None
                 THEN "interrupted" ELSE told[Op])
  /\ UNCHANGED <<inner, before, record, told, heard>>

Service ==
  \/ TakeScope \/ Refuse \/ Allocate \/ Launch \/ LastCheck \/ Conclude \/ Close \/ CloseFails

CoarseNext == Deliver \/ Around \/ Enter \/ Answer \/ Service \/ Remember

CoarseSpec == CoarseInit /\ [][CoarseNext]_coarseVars

-----------------------------------------------------------------------------
CoarseTypeOK ==
  /\ {own, inner, before} \subseteq Signals \cup {None}
  /\ svc \in {"idle", "gap", "own", "parse", "open", "tail", "closing", "back"}
  /\ record \in [Scoped -> {"none", "starting", "running"} \cup Terminal]
  /\ told \in [Scoped -> {"none"} \cup Terminal]
  /\ heard \in Seq((Scoped \cup {"executor"}) \X {"parse", "open", "tail"})

(* What the executor returns, what the services told it and what their     *)
(* records say agree: a record on disk ends the way that was told or not   *)
(* at all; a completed attempt has completed records under it; and a run   *)
(* that was interrupted is never reported as anything else.                *)
RecordsAgree ==
  /\ CoarseTypeOK
  /\ svc = "idle" => \A s \in Scoped : record[s] \in Terminal => record[s] = told[s]
  /\ pc = "returned" =>
       /\ run <=> record["run"] # "none"
       /\ status = "completed" =>
            \A j \in 1..N : Plan[j].op \in Scoped /\ Plan[j].enabled =>
              record[Plan[j].op] = "completed"
       /\ told["run"] = "interrupted" => status = "interrupted"

Tails == {<<"run", "tail">>, <<"postcheck", "tail">>, <<"executor", "tail">>}

(* Wherever in the nested scopes a signal arrives, the attempt does not    *)
(* complete, unless it arrived after the last check of the scope it was    *)
(* delivered to: the signals an attempt can lose are exactly those.        *)
SignalsAreHeeded ==
  pc = "returned" /\ status = "completed" => \A k \in DOMAIN heard : heard[k] \in Tails

(* coarse_run_service.mli:12-14: after allocation, signals produce outcome *)
(* codes 130 and 143: no run in whose scope a signal arrived completes.    *)
SignalsProduceTheirCodes ==
  svc = "back" /\ Op = "run" /\ told["run"] = "completed" =>
    \A k \in DOMAIN heard : heard[k][1] # "run"

(* Records, answers and exit agree, and account for every signal.          *)
OutcomesAreHonest == RecordsAgree /\ SignalsAreHeeded

(* What was started had what it needs, and what failed was still collected *)
(* (module Runner).                                                        *)
WorkFollowsTheRules == StartsAreJustified /\ FailedRunsAreCollected
=============================================================================
