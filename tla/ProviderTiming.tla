--------------------------- MODULE ProviderTiming ---------------------------
(***************************************************************************)
(* The timing analyses that run beside an implementation, inside the       *)
(* recorded runtime: one corner of a synthesized netlist                   *)
(* (timing_intent_runtime.py, plainly linked or of a named publication),   *)
(* or every configured corner of a synthesized or a routed one             *)
(* (timing_physical_runtime.py).                                           *)
(*                                                                         *)
(* LibreLane's step is external: it gives one future per corner, none to a *)
(* corner whose inputs equal an earlier one's, to an executor of one       *)
(* thread, and awaits them in order.  Somebody else may write the netlist. *)
(***************************************************************************)
EXTENDS Naturals, FiniteSets

CONSTANTS None,
          MaxCorner,   \* bound: corners that are configured
          MaxChanges   \* bound: writes of the netlist by others

Routes == {"linked", "named", "synthesis", "physical"}
Intent == {"linked", "named"}

(* What the executor's thread and corner-progress.json may say; None,      *)
(* neither yet, is no version, code or result, and neither of them.        *)
Workers == [corner : 1..MaxCorner, at : {"retain", "run", "filter", "audit"}]
Progresses ==
  [executed : SUBSET (1..MaxCorner), equivalent : SUBSET (1..MaxCorner),
   audited : SUBSET (1..MaxCorner), completed : BOOLEAN]
NoneIsNew ==
  None \notin Nat \cup Workers \cup Progresses \cup {"ok", "error", "unknown", "completed", "refused"}

VARIABLES
  pc, route,
  netlist,    \* version of the implementation's netlist
  chain,      \* the physical producers: "causal", "reordered" or "mixed"
  equal,      \* the corners' inputs are all the same
  selected,   \* None, or the version the selection hashed
  futures,    \* corners that were given to the executor
  worker,     \* None, or [corner, at]
  copies,     \* corner -> version of the copy that is analysed, or None
  process,    \* corner -> the record of its first process, None before there is one
  ended,      \* corner -> how its future ended: None, "ok", "error"
  audits,     \* corners with an audit
  progress,   \* None, or corner-progress.json
  changes, outcome

vars == <<pc, route, netlist, chain, equal, selected, futures, worker, copies, process, ended, audits, progress, changes, outcome>>
given == <<route, chain, equal>>
source == <<netlist, changes>>
corners == <<futures, worker, copies, process, ended, audits>>

Configured == IF route \in Intent THEN {1} ELSE 1..MaxCorner

Init ==
  /\ pc = "request" /\ route \in Routes
  /\ netlist = 1 /\ changes = 0 /\ equal \in BOOLEAN
  /\ chain \in IF route = "physical" THEN {"causal", "reordered", "mixed"} ELSE {"causal"}
  /\ selected = None /\ futures = {} /\ worker = None
  /\ copies = [c \in 1..MaxCorner |-> None] /\ process = copies /\ ended = copies
  /\ audits = {} /\ progress = None /\ outcome = None

Go(to) == pc' = to /\ UNCHANGED outcome
Refuse == pc' = "over" /\ outcome' = "refused"
Either(to) == Go(to) \/ Refuse

-----------------------------------------------------------------------------
(* The request, the manifest and the producer are what they were.          *)
AdmitIntent ==
  /\ pc = "request" /\ route \in Intent
  /\ Either("select")
  /\ UNCHANGED <<given, source, selected, corners, progress>>

AdmitPhysical ==
  /\ pc = "request" /\ route \notin Intent
  /\ Either("select")
  /\ UNCHANGED <<given, source, selected, corners, progress>>

(* The one producer of that class; what it names is hashed.                *)
SelectLinked ==
  /\ pc = "select" /\ route = "linked"
  /\ selected' = netlist /\ Either("configure")
  /\ UNCHANGED <<given, source, corners, progress>>

(* A publication pins its sources: version 1 of them, through aliases that *)
(* resolve before and after the hashing as they were bound.                *)
Pinned == netlist = 1

SelectNamed ==
  /\ pc = "select" /\ route = "named"
  /\ IF Pinned THEN selected' = netlist /\ Either("configure") ELSE UNCHANGED selected /\ Refuse
  /\ UNCHANGED <<given, source, corners, progress>>

(* The extraction's outputs are the analysis's inputs, and every producer  *)
(* comes after the one before it.                                          *)
Matched == chain # "mixed"
Causal == chain # "reordered"

SelectPhysical ==
  /\ pc = "select" /\ route \in {"synthesis", "physical"}
  /\ selected' = netlist
  /\ IF Matched THEN Either("close") ELSE Refuse
  /\ UNCHANGED <<given, source, corners, progress>>

CloseInputs ==
  /\ pc = "close"
  /\ IF Causal THEN Either("configure") ELSE Refuse
  /\ UNCHANGED <<given, source, selected, corners, progress>>

ConfigureIntent ==
  /\ pc = "configure" /\ route \in Intent
  /\ Either("step")
  /\ UNCHANGED <<given, source, selected, corners, progress>>

ConfigurePhysical ==
  /\ pc = "configure" /\ route \notin Intent
  /\ Either("step")
  /\ UNCHANGED <<given, source, selected, corners, progress>>

-----------------------------------------------------------------------------
(* The step begins: the first of equal corners stands for all of them.     *)
Schedule ==
  /\ pc = "step"
  /\ futures' = IF equal THEN {1} ELSE Configured
  /\ Go("await")
  /\ UNCHANGED <<given, source, selected, worker, copies, process, ended, audits, progress>>

(* The executor's thread takes the next future.                            *)
Take(c) ==
  /\ worker = None /\ c \in futures /\ ended[c] = None
  /\ \A d \in futures : d < c => ended[d] # None
  /\ worker' = [corner |-> c, at |-> "retain"]
  /\ UNCHANGED <<pc, given, source, selected, futures, copies, process, ended, audits, progress, outcome>>

Working(c, at) ==
  /\ worker = [corner |-> c, at |-> at]
  /\ UNCHANGED <<pc, given, source, selected, futures, progress, outcome>>

Step(at) == worker' = [worker EXCEPT !.at = at]
Ends(c, how) == worker' = None /\ ended' = [ended EXCEPT ![c] = how]

(* copy: what was copied hashes as it did before and does after, or else   *)
(* the corner fails; the copies are what the process is given.             *)
Copied(c) ==
  \/ copies' = [copies EXCEPT ![c] = netlist] /\ Step("run") /\ UNCHANGED ended
  \/ UNCHANGED copies /\ Ends(c, "error")

(* Netlist, constraints, libraries, driver; then the receipt.              *)
RetainIntent(c) ==
  /\ Working(c, "retain") /\ route \in Intent
  /\ Copied(c)
  /\ UNCHANGED <<process, audits>>

(* The extracted parasitics of the state as well, when it was routed.      *)
RetainPhysical(c) ==
  /\ Working(c, "retain") /\ route \notin Intent
  /\ Copied(c)
  /\ UNCHANGED <<process, audits>>

(* The native process; its record is written however it ends.              *)
Native(c) ==
  /\ Working(c, "run")
  /\ \/ /\ process' = [process EXCEPT ![c] = "ok"]
        /\ Step(IF route = "physical" THEN "filter" ELSE "audit") /\ UNCHANGED ended
     \/ process' \in {[process EXCEPT ![c] = code] : code \in {"error", "unknown"}} /\ Ends(c, "error")
  /\ UNCHANGED <<copies, audits>>

(* A second process of the corner filters the annotation's report.         *)
Filter(c) ==
  /\ Working(c, "filter")
  /\ (Step("audit") /\ UNCHANGED ended) \/ Ends(c, "error")
  /\ UNCHANGED <<copies, process, audits>>

(* Every report that an audit names has to be there.                       *)
Audit(c) ==
  /\ Working(c, "audit")
  /\ \/ audits' = audits \cup {c} /\ Ends(c, "ok")
     \/ UNCHANGED audits /\ Ends(c, "error")
  /\ UNCHANGED <<copies, process>>

-----------------------------------------------------------------------------
Failed == {c \in futures : ended[c] = "error"}
Idle == \A c \in futures : ended[c] # None

(* The step awaits its futures in order and raises the first error.        *)
Await ==
  /\ pc = "await"
  /\ \/ Idle
     \/ \E c \in Failed : \A d \in futures : d < c => ended[d] = "ok"
  /\ Go(IF route \in Intent THEN "judge" ELSE "drain")
  /\ UNCHANGED <<given, source, selected, corners, progress>>

(* Mutant: the executor is not waited for.                                 *)
Leave == TRUE

(* shutdown(wait=True).                                                    *)
Drained == Idle

Drain ==
  /\ pc = "drain"
  /\ Drained
  /\ Go("progress")
  /\ UNCHANGED <<given, source, selected, corners, progress>>

Executed == {c \in Configured : process[c] \in {"ok", "error"}}
Equivalent == {c \in Configured \ Executed : equal /\ Executed # {}}

(* finally: what is known of each corner, whatever the step came to.       *)
WriteProgress ==
  /\ pc = "progress"
  /\ progress' = [executed |-> Executed, equivalent |-> Equivalent, audited |-> audits, completed |-> Failed = {}]
  /\ IF Failed = {} THEN Go("judge") ELSE Refuse
  /\ UNCHANGED <<given, source, selected, corners>>

(* Mutant: what was selected is not looked at again.                       *)
Trust == TRUE

(* publication, aliases and selected sources after the native step.        *)
Unchanged == selected = netlist

JudgeIntent ==
  /\ pc = "judge" /\ route \in Intent
  /\ IF Failed = {} /\ audits = Configured /\ Unchanged THEN Either("result") ELSE Refuse
  /\ UNCHANGED <<given, source, selected, corners, progress>>

(* Mutant: an equivalent corner is as good as one that was executed.       *)
AnyExecuted == audits # {}

EveryCorner == audits = Configured

JudgePhysical ==
  /\ pc = "judge" /\ route \notin Intent
  /\ IF EveryCorner THEN Either("result") ELSE Refuse
  /\ UNCHANGED <<given, source, selected, corners, progress>>

WriteResult ==
  /\ pc = "result"
  /\ pc' = "over" /\ outcome' = "completed"
  /\ UNCHANGED <<given, source, selected, corners, progress>>

Disturb ==
  /\ pc # "over" /\ changes < MaxChanges
  /\ changes' = changes + 1 /\ netlist' = netlist + 1
  /\ UNCHANGED <<pc, given, selected, corners, progress, outcome>>

Next ==
  \/ AdmitIntent \/ AdmitPhysical \/ SelectLinked \/ SelectNamed \/ SelectPhysical \/ CloseInputs
  \/ ConfigureIntent \/ ConfigurePhysical \/ Schedule
  \/ \E c \in 1..MaxCorner :
       \/ Take(c) \/ RetainIntent(c) \/ RetainPhysical(c)
       \/ Native(c) \/ Filter(c) \/ Audit(c)
  \/ Await \/ Drain \/ WriteProgress \/ JudgeIntent \/ JudgePhysical \/ WriteResult \/ Disturb

Spec == Init /\ [][Next]_vars

-----------------------------------------------------------------------------
(* "The final retained progress cannot race later native corner processes" *)
(* (LinkedSTA.run): once corner-progress.json is there, no corner's thread *)
(* is at work or will be, and it says of each corner what its records say, *)
(* of the step that failed first as well.                                  *)
ProgressIsFinal ==
  progress # None =>
    /\ worker = None /\ Idle
    /\ progress.executed = Executed /\ progress.audited = audits
    /\ progress.equivalent \cap audits = {}

(* A completed analysis executed every configured corner itself, none by   *)
(* its likeness to another, each to the end of its native process, over    *)
(* producers in causal order; what one corner or a publication's analysis  *)
(* ran on is what was selected, and so it is for several corners unless    *)
(* the netlist was written after the selection, which nothing looks for.   *)
CompletedIsEveryCorner ==
  outcome = "completed" =>
    /\ chain = "causal"
    /\ \A c \in Configured :
         /\ c \in audits /\ process[c] = "ok"
         /\ copies[c] = selected \/ (route \notin Intent /\ changes > 0)
    /\ route \notin Intent => progress.completed /\ progress.equivalent = {}
=============================================================================
