--------------------------- MODULE ProviderSegment ---------------------------
(***************************************************************************)
(* flow/hardcaml_asic_flow/stages.py, SegmentAdapter, with the other end   *)
(* of its calls: a chain of segments, each a request file, a launched      *)
(* bridge (librelane_bridge.py) that answers with a reply file under the   *)
(* contract of backend_protocol.py, and the publication of its candidate.  *)
(*                                                                         *)
(* Every call has names of its own, so a bridge that outlives the launch   *)
(* that gave it up writes where nobody reads.  Inputs, candidate and       *)
(* bridge lie in a mutable workspace: versions tell their states apart.    *)
(* Of a candidate, the four files of its metadata are in the evidence of   *)
(* the reply; the views its state names lie in the run's directory and are *)
(* in no evidence.                                                         *)
(***************************************************************************)
EXTENDS Cancellation, Sequences

CONSTANTS Segments,   \* how many segments the chain has
          MaxChanges  \* bound: changes made by others

(* A candidate and its private copy; None, that there is none, is neither. *)
Candidates == [files : Nat, views : Nat, closure : Nat, intact : BOOLEAN]
Copies == [files : Nat, views : Nat, closure : Nat]
NoneIsNew == None \notin Candidates \cup Copies

VARIABLES
  pc,         \* the host
  segment,    \* the segment the chain is at
  call,       \* "execute" or "validate": what the bridge was asked
  bridge,     \* the bridge process
  intact,     \* the transported bridge is the one compatibility names
  inputs,     \* version of the declared closure: config, inputs, PDK
  dependencies, \* the version the bridge saw
  candidate,  \* None, or what the bridge wrote
  reply,      \* of each call: None, or whole, partial or an error
  imageOnly,  \* the closure names files only the image has
  staging,    \* the private copy that is being published
  checkpoint, \* current_checkpoint
  store,      \* checkpoints published so far
  touched,    \* history: what others wrote of the candidate: its metadata
              \* unanswered or in copying, its views at any time
  sent, changes, outcome

vars == <<pc, segment, call, bridge, intact, inputs, dependencies, candidate, reply,
          imageOnly, staging, checkpoint, store, touched, sent, changes, outcome>>
process == <<bridge, dependencies, candidate, reply>>
world == <<intact, inputs, changes>>
chain == <<segment, checkpoint, store>>
fixed == <<imageOnly, sent>>

NoReply == [execute |-> None, validate |-> None]

Init ==
  /\ pc = "run" /\ segment = 1
  /\ call = "execute" /\ bridge = "none"
  /\ intact = TRUE /\ inputs = 1
  /\ dependencies = 0 /\ candidate = None /\ reply = NoReply
  /\ imageOnly \in BOOLEAN
  /\ staging = None /\ checkpoint = None /\ store = <<>> /\ touched = {}
  /\ sent = 0 /\ changes = 0 /\ outcome = None

Raise == pc' = "over" /\ outcome' = "raised" /\ staging' = None
GoOr(to) == (pc' = to /\ UNCHANGED <<outcome, staging>>) \/ Raise

-----------------------------------------------------------------------------
(* run_segment: the handoff and the transported bridge are validated, and  *)
(* the request gets names that nothing else has.                           *)
Request ==
  /\ pc = "run"
  /\ call' = "execute"
  /\ IF intact /\ (segment > 1 => inputs = checkpoint.closure)
     THEN GoOr("launch") ELSE Raise
  /\ candidate' = None /\ reply' = NoReply /\ bridge' = "none" /\ touched' = {}
  /\ UNCHANGED <<dependencies, chain, world, fixed>>

(* launch: engine and image are verified, then run_logged.                 *)
Launch ==
  /\ pc = "launch"
  /\ \/ pc' = "wait" /\ bridge' = "load" /\ UNCHANGED <<outcome, staging>>
     \/ Raise /\ UNCHANGED bridge
  /\ UNCHANGED <<call, dependencies, candidate, reply, chain, world, fixed, touched>>

(* The launch ended with the bridge's code: only zero goes on.             *)
Reap ==
  /\ pc = "wait" /\ bridge \in {"succeeded", "failed"}
  /\ IF bridge = "succeeded" THEN pc' = "read" /\ UNCHANGED <<outcome, staging>>
     ELSE /\ pc' = "over" /\ staging' = None
          /\ outcome' = IF call = "execute" THEN "failed" ELSE "raised"
  /\ UNCHANGED <<call, process, chain, world, fixed, touched>>

(* A timeout, a failed clean-up: the chain is over, so what a bridge that  *)
(* outlives the call still writes under its own names is left out.         *)
GiveUp ==
  /\ pc = "wait"
  /\ Raise
  /\ UNCHANGED <<call, process, chain, world, fixed, touched>>

(* read_reply: complete, of this request, and its evidence still true; no  *)
(* view is in it.                                                          *)
Answers(asked) ==
  /\ reply[asked] # None /\ reply[asked].kind = "whole"
  /\ reply[asked].evidence = IF asked = "execute" THEN candidate.files ELSE staging.files

ReadReply ==
  /\ pc = "read"
  /\ IF Answers(call) THEN GoOr(IF call = "execute" THEN "report" ELSE "revalidate") ELSE Raise
  /\ UNCHANGED <<call, process, chain, world, fixed, touched>>

(* segment.json says completed, the boundary, and the bridge's digest.     *)
ReadReport ==
  /\ pc = "report"
  /\ IF candidate.intact THEN GoOr("publish") ELSE Raise
  /\ UNCHANGED <<call, process, chain, world, fixed, touched>>

(* Mutant: the reply of the completed call was read once.                  *)
TrustCompleted ==
  /\ pc = "publish"
  /\ IF intact THEN GoOr("copy") ELSE Raise
  /\ UNCHANGED <<call, process, chain, world, fixed, touched>>

(* publish: only what this adapter completed, and it is read again.        *)
Publish ==
  /\ pc = "publish"
  /\ IF intact /\ Answers("execute") THEN GoOr("copy") ELSE Raise
  /\ UNCHANGED <<call, process, chain, world, fixed, touched>>

(* checkpoint.publish copies it, validates it against the host ...         *)
CopyCandidate ==
  /\ pc = "copy"
  /\ \/ /\ staging' = [files |-> candidate.files, views |-> candidate.views, closure |-> candidate.closure]
        /\ pc' = "validate" /\ UNCHANGED outcome
     \/ Raise
  /\ UNCHANGED <<call, process, chain, world, fixed, touched>>

Current == staging.closure = inputs

(* ... and through validate_runtime asks the image about the rest.         *)
Validate ==
  /\ pc = "validate"
  /\ IF Current /\ (imageOnly => intact)
     THEN GoOr(IF imageOnly THEN "launch" ELSE "rename") ELSE Raise
  /\ call' = IF imageOnly THEN "validate" ELSE call
  /\ UNCHANGED <<process, chain, world, fixed, touched>>

Revalidate ==
  /\ pc = "revalidate"
  /\ IF Current THEN GoOr("rename") ELSE Raise
  /\ UNCHANGED <<call, process, chain, world, fixed, touched>>

Rename ==
  /\ pc = "rename"
  /\ \/ /\ store' = Append(store, [files |-> staging.files, views |-> staging.views, closure |-> staging.closure,
                             answer |-> reply["execute"].evidence, touched |-> touched,
                             asked |-> imageOnly => reply["validate"] # None])
        /\ staging' = None /\ pc' = "handoff" /\ UNCHANGED outcome
     \/ Raise /\ UNCHANGED store
  /\ UNCHANGED <<call, process, segment, checkpoint, world, fixed, touched>>

Handoff ==
  /\ pc = "handoff"
  /\ checkpoint' = store[Len(store)]
  /\ IF segment < Segments THEN segment' = segment + 1 /\ pc' = "run" /\ UNCHANGED outcome
     ELSE pc' = "over" /\ outcome' = "completed" /\ UNCHANGED segment
  /\ UNCHANGED <<call, process, staging, store, world, fixed, touched>>

-----------------------------------------------------------------------------
(* The bridge: main and execute.                                           *)
host == <<pc, call, chain, world, fixed, staging, touched, outcome>>

BridgeFails == bridge' = "fail"

(* The protocol's and its own digest, a well-formed request, a new reply.  *)
BridgeLoads ==
  /\ pc = "wait" /\ bridge = "load"
  /\ \/ intact /\ bridge' = "closure"
     \/ bridge' = "failed"
  /\ UNCHANGED <<host, dependencies, candidate, reply>>

(* Mutant: a continuation takes the closure as it is.                      *)
AnyClosure(seen) == call = "validate" => seen = staging.closure

(* The closure a validation is about, or a continuation starts from.       *)
ExpectedClosure(seen) ==
  /\ call = "validate" => seen = staging.closure
  /\ call = "execute" /\ segment > 1 => seen = checkpoint.closure

BridgeReadsClosure ==
  /\ pc = "wait" /\ bridge = "closure"
  /\ dependencies' = inputs
  /\ \/ ExpectedClosure(inputs) /\ bridge' = IF call = "execute" THEN "flow" ELSE "reply"
     \/ BridgeFails
  /\ UNCHANGED <<host, candidate, reply>>

(* Flow.start; then the closure must not have moved meanwhile.             *)
BridgeRuns ==
  /\ pc = "wait" /\ bridge = "flow"
  /\ bridge' = "recheck" \/ BridgeFails
  /\ UNCHANGED <<host, dependencies, candidate, reply>>

BridgeRechecks ==
  /\ pc = "wait" /\ bridge = "recheck"
  /\ IF inputs = dependencies THEN bridge' = "write" \/ BridgeFails ELSE BridgeFails
  /\ UNCHANGED <<host, dependencies, candidate, reply>>

BridgeWrites ==
  /\ pc = "wait" /\ bridge = "write"
  /\ candidate' = [files |-> 1, views |-> 1, closure |-> dependencies, intact |-> intact]
  /\ bridge' = "reply" \/ BridgeFails
  /\ UNCHANGED <<host, dependencies, reply>>

(* write_reply creates the file and fills it; a second try finds it there. *)
BridgeReplies ==
  /\ pc = "wait" /\ bridge = "reply"
  /\ \/ /\ reply' = [reply EXCEPT ![call] =
              [kind |-> "whole",
               evidence |-> IF call = "execute" THEN candidate.files ELSE staging.files]]
        /\ bridge' = "succeeded"
     \/ reply' = [reply EXCEPT ![call] = [kind |-> "partial"]] /\ BridgeFails
  /\ UNCHANGED <<host, dependencies, candidate>>

(* The except clause: a diagnostic reply and an exit that is not zero.     *)
BridgeReports ==
  /\ pc = "wait" /\ bridge = "fail"
  /\ reply' = [reply EXCEPT ![call] = IF @ = None THEN [kind |-> "error"] ELSE @]
  /\ bridge' = "failed"
  /\ UNCHANGED <<host, dependencies, candidate>>

-----------------------------------------------------------------------------
(* A signal leaves the chain wherever it is.                               *)
Interrupt ==
  /\ pc # "over" /\ sent < MaxSignals
  /\ Raise
  /\ sent' = sent + 1
  /\ UNCHANGED <<call, process, chain, world, imageOnly, touched>>

(* Others write to the inputs, to the bridge, to the candidate's metadata  *)
(* (a closure that is not of the inputs is refused like one that stays) or *)
(* to its views.                                                           *)
Disturb ==
  /\ pc # "over" /\ changes < MaxChanges
  /\ changes' = changes + 1
  /\ \/ inputs' = inputs + 1 /\ UNCHANGED <<candidate, intact, touched>>
     \/ intact' = FALSE /\ UNCHANGED <<candidate, inputs, touched>>
     \/ /\ candidate # None
        /\ \E closure \in {candidate.closure, inputs} :
             candidate' = [candidate EXCEPT !.files = @ + 1, !.closure = closure]
        /\ touched' = touched \cup (IF pc = "copy" THEN {"copying"} ELSE {})
                              \cup (IF reply["execute"] = None THEN {"unanswered"} ELSE {})
        /\ UNCHANGED <<inputs, intact>>
     \/ /\ candidate # None
        /\ candidate' = [candidate EXCEPT !.views = @ + 1]
        /\ touched' = touched \cup {"views"}
        /\ UNCHANGED <<inputs, intact>>
  /\ UNCHANGED <<pc, call, bridge, dependencies, reply, chain, fixed, staging, outcome>>

Next ==
  \/ Request \/ Launch \/ Reap \/ GiveUp \/ ReadReply \/ ReadReport
  \/ Publish \/ CopyCandidate \/ Validate \/ Revalidate \/ Rename \/ Handoff
  \/ BridgeLoads \/ BridgeReadsClosure \/ BridgeRuns \/ BridgeRechecks \/ BridgeWrites
  \/ BridgeReplies \/ BridgeReports \/ Interrupt \/ Disturb

Spec == Init /\ [][Next]_vars

-----------------------------------------------------------------------------
(* The metadata of a published checkpoint is what the bridge answered for  *)
(* the very call that made it, unless it changed while it was being        *)
(* copied; its views are those the candidate was written with, unless      *)
(* somebody wrote to them since; and the image was asked when the closure  *)
(* needs it (publish).                                                     *)
PublishedIsAnswered ==
  \A i \in DOMAIN store :
    /\ store[i].files = store[i].answer \/ "copying" \in store[i].touched
    /\ store[i].views = 1 \/ "views" \in store[i].touched
    /\ store[i].asked

(* Each checkpoint of a chain was computed from the state of the declared  *)
(* closure that the one before it names, whatever changed between and      *)
(* during the segments, unless its metadata changed before the reply or    *)
(* while it was being copied (execute).                                    *)
ChainIsOneClosure ==
  \A i \in DOMAIN store \ {1} :
    store[i].closure = store[i - 1].closure \/ store[i].touched \cap {"unanswered", "copying"} # {}
=============================================================================
