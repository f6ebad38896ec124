--------------------------- MODULE ProviderProofs ---------------------------
(***************************************************************************)
(* Proofs about the Python provider, for any signals, any number of them,  *)
(* any processes and any number of others' acts. Each module of the        *)
(* provider has a part, here or in EvidenceProofs: its inductive           *)
(* invariant, that the invariant holds at the start and is kept by every   *)
(* step, and what it implies. The last part puts them together as          *)
(* MCProvider does.                                                        *)
(***************************************************************************)
EXTENDS EvidenceProofs
-----------------------------------------------------------------------------
(* Tool commands (phase4.run_logged). The invariant follows the ladder of  *)
(* a call: where the call is tells whether it failed, what it knows of its *)
(* client, and what client, descendant and container can still do.         *)

(* The ladder: where the call is tells whether it failed, whether it knows *)
(* its process, and what that process and the daemon can still do.         *)
CommandCallInv ==
  /\ pc \in {"record", "launch", "assign", "wait", "terminate", "remove", "grace", "sweep", "retry", "over"}
  /\ contained \in BOOLEAN /\ timed \in BOOLEAN /\ descendant \in BOOLEAN /\ known \in BOOLEAN
  /\ failed \in BOOLEAN /\ cleanupError \in BOOLEAN /\ stuck \in BOOLEAN /\ late \in BOOLEAN
  /\ sent \in Nat
  /\ pc \in {"record", "launch", "assign"} => ~known
  /\ pc \in {"record", "launch", "assign", "wait"} => ~failed /\ sent = 0
  /\ pc = "wait" => known
  /\ pc \in {"terminate", "grace", "sweep", "retry"} => known /\ failed

(* Clean-ups are noted from the removal on.                                *)
CommandNotesInv ==
  /\ cleanups \in Seq({"failed", "removed-or-absent"})
  /\ pc \in {"record", "launch", "assign", "wait", "terminate", "remove"} => cleanups = <<>> /\ ~cleanupError

(* A container that was never asked for is never there, and a client's end *)
(* is its container's.                                                     *)
CommandWorldInv ==
  /\ client \in {"none", "alive", "exited", "dead"}
  /\ container \in {"none", "requested", "running", "gone"}
  /\ ~contained => container = "none"
  /\ contained /\ client = "exited" => container = "gone"
  /\ client = "none" => container = "none"
  /\ pc \in {"record", "launch"} => client = "none"

(* What the rest of the ladder has seen to by then.                        *)
CommandLadderInv ==
  /\ pc \in {"sweep", "retry"} => (client = "alive" => stuck)
  /\ pc = "retry" => ~descendant
  /\ Command!TornDown => ~descendant /\ (client = "alive" => stuck)
  /\ Command!TornDown => Command!Admitted \/ late \/ container \in {"none", "gone"}

(* A call that has failed has no result of the tool's.                     *)
CommandResultInv ==
  /\ failed => result \notin {"zero", "nonzero"}
  /\ pc = "remove" /\ ~failed => result = code /\ client = "exited" /\ sent = 0
  /\ Command!CodeIsTheTools

CommandInv == CommandCallInv /\ CommandNotesInv /\ CommandWorldInv /\ CommandLadderInv /\ CommandResultInv

(* A call that has not begun.                                              *)
LEMMA CommandStarts ==
  ASSUME Command!Init
  PROVE  CommandInv
<1> USE DEF Command!Init
<1>1. CommandCallInv
  BY DEF CommandCallInv
<1>2. CommandNotesInv
  BY DEF CommandNotesInv
<1>3. CommandWorldInv
  BY DEF CommandWorldInv
<1>4. CommandLadderInv
  BY DEF CommandLadderInv, Command!TornDown, Command!Over
<1>5. CommandResultInv
  BY DEF CommandResultInv, Command!CodeIsTheTools, Command!Over
<1>6. QED
  BY <1>1, <1>2, <1>3, <1>4, <1>5 DEF CommandInv

(* Every step of a call keeps its invariant.                               *)
LEMMA CommandKept ==
  ASSUME CommandInv, [Command!Next]_(Command!vars)
  PROVE  CommandInv'
<1> USE DEF CommandInv, Command!End, Command!given, Command!processes, Command!outside,
         Command!noted, Command!Over, CommandCallInv, CommandNotesInv, CommandWorldInv,
         CommandLadderInv, Command!TornDown, Command!Admitted, Command!HasDeadline,
         CommandResultInv, Command!CodeIsTheTools
<1>1. CASE Command!Record
  BY <1>1 DEF Command!Record
<1>2. CASE Command!Launch
  <2>1. CommandCallInv'
    <3>1. /\ pc = "launch" /\ UNCHANGED <<contained, timed, known, cleanupError, stuck, sent, late>>
          /\ \/ pc' = "assign" /\ descendant' = TRUE /\ UNCHANGED failed
             \/ pc' = "remove" /\ failed' = TRUE /\ UNCHANGED descendant
      BY <1>2 DEF Command!Launch
    <3>2. CASE pc' = "assign" /\ descendant' = TRUE /\ UNCHANGED failed
      BY <3>1, <3>2
    <3>3. CASE pc' = "remove" /\ failed' = TRUE /\ UNCHANGED descendant
      BY <3>1, <3>3
    <3>4. QED
      BY <3>1, <3>2, <3>3
  <2>2. CommandNotesInv'
    BY <1>2 DEF Command!Launch
  <2>3. CommandWorldInv'
    BY <1>2 DEF Command!Launch
  <2>4. CommandLadderInv'
    BY <1>2 DEF Command!Launch
  <2>5. CommandResultInv'
    BY <1>2 DEF Command!Launch
  <2>6. QED
    BY <2>1, <2>2, <2>3, <2>4, <2>5
<1>3. CASE Command!Assign
  BY <1>3 DEF Command!Assign
<1>4. CASE Command!Reap
  BY <1>4 DEF Command!Reap
<1>5. CASE Command!WaitTimesOut
  BY <1>5 DEF Command!WaitTimesOut
<1>6. CASE Command!Terminate
  BY <1>6 DEF Command!Terminate
<1>7. CASE Command!Remove
  <2>1. CommandCallInv'
    BY <1>7 DEF Command!Remove, Command!RemoveContainer, Command!NoteFailedCleanup,
       Command!AfterRemoval
  <2>2. CommandNotesInv'
    <3>1. pc = "remove" /\ pc' \in {"grace", "over"}
      BY <1>7 DEF Command!Remove, Command!AfterRemoval
    <3>2. cleanups' \in {cleanups, Append(cleanups, "failed"), Append(cleanups, "removed-or-absent")}
      BY <1>7 DEF Command!Remove, Command!RemoveContainer, Command!NoteFailedCleanup
    <3>3. cleanups' \in Seq({"failed", "removed-or-absent"})
      BY <3>2
    <3>4. QED
      BY <3>1, <3>3
  <2>3. CommandWorldInv'
    BY <1>7 DEF Command!Remove, Command!RemoveContainer, Command!NoteFailedCleanup,
       Command!AfterRemoval
  <2>4. CommandLadderInv'
    BY <1>7 DEF Command!Remove, Command!RemoveContainer, Command!NoteFailedCleanup,
       Command!AfterRemoval
  <2>5. CommandResultInv'
    BY <1>7 DEF Command!Remove, Command!RemoveContainer, Command!NoteFailedCleanup,
       Command!AfterRemoval
  <2>6. QED
    BY <2>1, <2>2, <2>3, <2>4, <2>5
<1>8. CASE Command!Grace
  BY <1>8 DEF Command!Grace
<1>9. CASE Command!Sweep
  BY <1>9 DEF Command!Sweep
<1>10. CASE Command!Retry
  BY <1>10 DEF Command!Retry, Command!RemoveContainer, Command!NoteFailedCleanup
<1>11. CASE Command!RequestContainer
  BY <1>11 DEF Command!RequestContainer
<1>12. CASE Command!DaemonStarts
  BY <1>12 DEF Command!DaemonStarts
<1>13. CASE Command!ClientExits
  <2>1. CommandCallInv'
    BY <1>13 DEF Command!ClientExits
  <2>2. CommandNotesInv'
    BY <1>13 DEF Command!ClientExits
  <2>3. CommandWorldInv'
    BY <1>13 DEF Command!ClientExits
  <2>4. CommandLadderInv'
    <3>1. UNCHANGED <<pc, failed, known, cleanups, stuck, late, result>> /\ client' = "exited"
      BY <1>13 DEF Command!ClientExits
    <3>2. ~descendant => ~descendant'
      BY <1>13 DEF Command!ClientExits
    <3>3. container' \in {container, "gone"}
      BY <1>13 DEF Command!ClientExits
    <3>4. Command!Admitted' = Command!Admitted /\ Command!TornDown' = Command!TornDown
      BY <3>1
    <3>5. (pc' = "retry" => ~descendant') /\ (pc' \in {"sweep", "retry"} => (client' = "alive" => stuck'))
      BY <3>1, <3>2
    <3>6. QED
      BY <3>1, <3>4, <3>5, <3>2, <3>3
  <2>5. CommandResultInv'
    BY <1>13 DEF Command!ClientExits
  <2>6. QED
    BY <2>1, <2>2, <2>3, <2>4, <2>5
<1>14. CASE Command!InterruptBody
  BY <1>14 DEF Command!InterruptBody, Command!Handled
<1>15. CASE Command!InterruptCleanup
  <2>1. CommandCallInv'
    BY <1>15 DEF Command!InterruptCleanup, Command!Handled, Command!NoteFailedCleanup,
       Command!AfterRemoval
  <2>2. CommandNotesInv'
    BY <1>15 DEF Command!InterruptCleanup, Command!Handled, Command!NoteFailedCleanup,
       Command!AfterRemoval
  <2>3. CommandWorldInv'
    BY <1>15 DEF Command!InterruptCleanup, Command!Handled, Command!NoteFailedCleanup,
       Command!AfterRemoval
  <2>4. CommandLadderInv'
    BY <1>15 DEF Command!InterruptCleanup, Command!Handled, Command!NoteFailedCleanup,
       Command!AfterRemoval
  <2>5. CommandResultInv'
    BY <1>15 DEF Command!InterruptCleanup, Command!Handled, Command!NoteFailedCleanup,
       Command!AfterRemoval
  <2>6. QED
    BY <2>1, <2>2, <2>3, <2>4, <2>5
<1>16. CASE Command!InterruptElsewhere
  BY <1>16 DEF Command!InterruptElsewhere, Command!Handled
<1>17. CASE UNCHANGED Command!vars
  BY <1>17 DEF Command!vars
<1>18. QED
  BY <1>1, <1>2, <1>3, <1>4, <1>5, <1>6, <1>7, <1>8, <1>9, <1>10, <1>11, <1>12, <1>13,
     <1>14, <1>15, <1>16, <1>17 DEF Command!Next, Command!Step

(* Torn down with its daemon answering, a call has left nothing.           *)
LEMMA CommandHolds ==
  ASSUME CommandInv
  PROVE  Command!LeavesNothing /\ Command!CodeIsTheTools
<1>1. Command!LeavesNothing
  BY DEF CommandInv, CommandLadderInv, CommandWorldInv, CommandCallInv, Command!TornDown,
     Command!Over, Command!LeavesNothing, Command!Admitted
<1>2. QED
  BY <1>1 DEF CommandInv, CommandResultInv

-----------------------------------------------------------------------------
(* Runs (phase4.run). A signal that was heard is remembered in one of four *)
(* places, and each comparison of digests bounds which version of the      *)
(* manifest was seen.                                                      *)

(* What the record says, and what the body still has to do to it.          *)
RunRecordInv ==
  /\ pc \in {"read", "allocate", "create", "pending", "probe", "report", "diagnose", "judge", "stage", "start",
            "tool", "verify", "except", "finally", "over"}
  /\ rec \in [status : {"starting", "running", "completed", "failed", "interrupted"},
              stage : {None, "requested"}, ended : BOOLEAN]
  /\ cause \in {"none", "interrupted", "failed"} /\ escaping \in BOOLEAN
  /\ rec.status = "completed" => pc \in {"except", "finally", "over"}
  /\ pc = "except" /\ cause = "none" => rec.status = "completed"
  /\ pc = "finally" /\ ~escaping => rec.status = (IF cause = "none" THEN "completed" ELSE cause)

(* A signal that was heard is remembered as a cause, an exception on its   *)
(* way or an interrupted preflight.                                        *)
RunSignalsInv ==
  /\ sent \in Nat
  /\ pc \in {"read", "allocate", "create", "pending", "probe", "report", "stage", "start", "tool", "verify"} => sent = 0
  /\ pc = "judge" => sent = 0 \/ checked = "interrupted"
  /\ pc \in {"except", "finally"} /\ cause = "none" /\ ~escaping => sent = 0

(* What each step saw, and what a completed record stands beside: a        *)
(* preflight between two looks at one version saw that one.                *)
RunEvidenceInv ==
  /\ bundle \in Nat /\ hashed \in Nat /\ examined \in Nat
  /\ hashed <= bundle
  /\ pc \in {"report", "judge"} => (examined \in hashed..bundle \/ checked = "interrupted")
  /\ pc \in {"report", "judge"} => checked \in {"ready", "failed", "interrupted"}
  /\ pc \in {"stage", "start", "tool", "verify"} => report = "ready" /\ examined \in hashed..bundle
  /\ pc = "judge" /\ checked = "ready" => report = "ready"
  /\ pc \in {"start", "tool", "verify"} => staged = hashed /\ examined = hashed
  /\ pc = "verify" => tool = "zero"

(* A record is completed only by the step that compared all digests.       *)
RunBuildInv ==
  /\ rec.status = "completed" => report = "ready" /\ tool = "zero" /\ examined = hashed /\ staged = hashed
  /\ disk # None /\ disk.status = "completed" => rec.status = "completed" /\ pc = "over"

(* What is returned is what was saved last.                                *)
RunOutcomeInv ==
  /\ pc # "over" => outcome = None
  /\ Run!OutcomeIsRecorded

RunInv == RunRecordInv /\ RunSignalsInv /\ RunEvidenceInv /\ RunBuildInv /\ RunOutcomeInv

(* A run whose bundle has not been read.                                   *)
LEMMA RunStarts ==
  ASSUME Run!Init
  PROVE  RunInv
<1> USE DEF Run!Init
<1>1. RunRecordInv
  BY DEF RunRecordInv
<1>2. RunSignalsInv
  BY DEF RunSignalsInv
<1>3. RunEvidenceInv
  BY DEF RunEvidenceInv
<1>4. RunBuildInv
  BY DEF RunBuildInv
<1>5. RunOutcomeInv
  BY DEF RunOutcomeInv, Run!OutcomeIsRecorded
<1>6. QED
  BY <1>1, <1>2, <1>3, <1>4, <1>5 DEF RunInv

(* Every step of a run keeps its invariant.                                *)
LEMMA RunKept ==
  ASSUME RunInv, [Run!Next]_(Run!vars)
  PROVE  RunInv'
<1> USE DEF RunInv, Run!Leave, Run!Raise, Run!Raised, Run!seen, Run!world, Run!record, RunRecordInv,
         RunSignalsInv, RunEvidenceInv, RunBuildInv, RunOutcomeInv, Run!OutcomeIsRecorded
<1>1. CASE Run!ReadManifest
  BY <1>1 DEF Run!ReadManifest
<1>2. CASE Run!Allocate
  BY <1>2 DEF Run!Allocate
<1>3. CASE Run!Create
  BY <1>3 DEF Run!Create
<1>4. CASE Run!SavePending
  BY <1>4 DEF Run!SavePending
<1>5. CASE Run!Probe
  BY <1>5 DEF Run!Probe
<1>6. CASE Run!SaveReport
  BY <1>6 DEF Run!SaveReport
<1>7. CASE Run!SaveDiagnostic
  BY <1>7 DEF Run!SaveDiagnostic
<1>8. CASE Run!Judge
  <2>1. RunRecordInv'
    <3>1. /\ checked \in {"ready", "failed", "interrupted"} /\ pc = "judge" /\ UNCHANGED <<rec, escaping>>
          /\ checked = "interrupted" => Run!Leave("interrupted")
          /\ checked = "failed" => Run!Leave("failed")
          /\ checked = "ready" => Run!Leave("failed") \/ (pc' = "stage" /\ UNCHANGED cause)
      BY <1>8 DEF Run!Judge, RunEvidenceInv
    <3>2. (pc' = "except" /\ cause' \in {"interrupted", "failed"}) \/ (pc' = "stage" /\ UNCHANGED cause)
      BY <3>1
    <3>3. QED
      BY <3>1, <3>2
  <2>2. RunSignalsInv'
    BY <1>8 DEF Run!Judge
  <2>3. RunEvidenceInv'
    BY <1>8 DEF Run!Judge
  <2>4. RunBuildInv'
    BY <1>8 DEF Run!Judge
  <2>5. RunOutcomeInv'
    BY <1>8 DEF Run!Judge
  <2>6. QED
    BY <2>1, <2>2, <2>3, <2>4, <2>5
<1>9. CASE Run!Stage
  BY <1>9 DEF Run!Stage, Run!SameManifest
<1>10. CASE Run!Start
  BY <1>10 DEF Run!Start
<1>11. CASE Run!Tool
  BY <1>11 DEF Run!Tool
<1>12. CASE Run!Verify
  BY <1>12 DEF Run!Verify, Run!SameManifest
<1>13. CASE Run!Handle
  BY <1>13 DEF Run!Handle
<1>14. CASE Run!Settle
  <2>1. RunRecordInv'
    BY <1>14 DEF Run!Settle, Run!Code, Run!Codes
  <2>2. RunSignalsInv'
    BY <1>14 DEF Run!Settle, Run!Code, Run!Codes
  <2>3. RunEvidenceInv'
    BY <1>14 DEF Run!Settle, Run!Code, Run!Codes
  <2>4. RunBuildInv'
    BY <1>14 DEF Run!Settle, Run!Code, Run!Codes
  <2>5. RunOutcomeInv'
    BY <1>14 DEF Run!Settle, Run!Code, Run!Codes
  <2>6. QED
    BY <2>1, <2>2, <2>3, <2>4, <2>5
<1>15. CASE Run!InterruptEarly
  BY <1>15 DEF Run!InterruptEarly, Run!Heard
<1>16. CASE Run!InterruptPreflight
  BY <1>16 DEF Run!InterruptPreflight, Run!Heard
<1>17. CASE Run!InterruptBody
  BY <1>17 DEF Run!InterruptBody, Run!Heard
<1>18. CASE Run!InterruptTool
  BY <1>18 DEF Run!InterruptTool, Run!Heard
<1>19. CASE Run!InterruptHandler
  BY <1>19 DEF Run!InterruptHandler, Run!Heard
<1>20. CASE Run!InterruptSettle
  BY <1>20 DEF Run!InterruptSettle, Run!Heard
<1>21. CASE Run!ChangeBundle
  BY <1>21 DEF Run!ChangeBundle
<1>22. CASE UNCHANGED Run!vars
  BY <1>22 DEF Run!vars
<1>23. QED
  BY <1>1, <1>2, <1>3, <1>4, <1>5, <1>6, <1>7, <1>8, <1>9, <1>10, <1>11, <1>12, <1>13,
     <1>14, <1>15, <1>16, <1>17, <1>18, <1>19, <1>20, <1>21, <1>22 DEF Run!Next

(* What is recorded of a run is what came of it.                           *)
LEMMA RunHolds ==
  ASSUME RunInv
  PROVE  Run!OutcomeIsRecorded /\ Run!CompletedIsOneBuild
BY DEF RunInv, RunOutcomeInv, RunBuildInv, Run!CompletedIsOneBuild

-----------------------------------------------------------------------------
(* Runtimes (runtime_contract, runtime_observation, execution_transport).  *)
(* What was probed, judged and bound is one image ID with one set of       *)
(* flags, and what an image holds never changes.                           *)

RuntimeLaunches == [image : Runtime!Images, flags : {Runtime!Isolated, Runtime!Owned}, engine : Runtime!Engines, disturbed : BOOLEAN]

RuntimeTypeInv ==
  /\ pc \in {"policy", "collateral", "host", "engine", "image", "probe", "ask", "remove", "evaluate", "prepare",
            "launch", "run", "over"}
  /\ mode \in {"native", "docker", "stages", "provision"} /\ policy \in {"legacy", "declared", "bad"}
  /\ tag \in Runtime!Images /\ engine \in Runtime!Engines /\ sent \in Nat
  /\ contents \in [Runtime!Images -> Runtime!Contents \cup {None}]
  /\ probe \in {None, "asked", "standing"}
  /\ disturbed \in BOOLEAN /\ issue \in BOOLEAN
  /\ pc # "over" => outcome = None
  /\ pc \notin {"policy", "over"} => policy # "bad"

(* What a probe is about: the image the tag named when it was resolved.    *)
RuntimeIdentityInv ==
  /\ pc = "image" => identity \in [engine : Runtime!Engines, image : {None}]
  /\ pc \in {"probe", "ask", "remove"} => identity.image \in Runtime!Images /\ flags \in {Runtime!Isolated, Runtime!Owned}

(* A probe that is left behind was told of or cut short.                   *)
RuntimeProbeInv ==
  /\ pc = "remove" /\ probe # None => sent > 0 \/ answer = "failed"
  /\ pc \notin {"ask", "remove"} /\ probe # None => sent > 0 \/ answer \in {"unremoved", "failed"}
  /\ pc = "remove" /\ answer = "signal" => sent > 0

(* An observation is of the image whose ID was resolved, and was found     *)
(* with the flags that are remembered.                                     *)
RuntimeObservedInv ==
  container # None =>
    /\ pc \in {"remove", "evaluate", "prepare", "launch", "run", "over"}
    /\ pc = "remove" => answer = "metadata"
    /\ probe = None /\ identity.image \in Runtime!Images /\ flags \in {Runtime!Isolated, Runtime!Owned}
    /\ contents[identity.image] = container /\ container \in Runtime!Contents
    /\ Runtime!Visible(container, flags)

(* Nothing goes on, and nothing is said to be ready, that was not judged.  *)
RuntimeJudgedInv ==
  /\ pc \in {"prepare", "launch", "run"} \/ outcome \in {"ready", "done"} => Runtime!Passes /\ policy # "bad"
  /\ pc \in {"prepare", "launch", "run"} =>
       /\ mode = "stages" /\ binding = [identity |-> identity, flags |-> flags]
  /\ pc = "run" /\ ~disturbed => Runtime!SameEngine

RuntimeLaunchInv ==
  /\ launches \in Seq(RuntimeLaunches)
  /\ launches # <<>> => pc \in {"launch", "run", "over"}
  /\ Runtime!LaunchedAsJudged

RuntimeInv == RuntimeTypeInv /\ RuntimeIdentityInv /\ RuntimeProbeInv /\ RuntimeObservedInv /\ RuntimeJudgedInv /\ RuntimeLaunchInv

(* A runtime nobody has looked at.                                         *)
LEMMA RuntimeStarts ==
  ASSUME Runtime!NoneIsNew, Runtime!Init
  PROVE  RuntimeInv
<1> USE DEF Runtime!NoneIsNew, Runtime!Init
<1>1. RuntimeTypeInv
  BY DEF RuntimeTypeInv, Runtime!Images
<1>2. RuntimeIdentityInv /\ RuntimeProbeInv
  BY DEF RuntimeIdentityInv, RuntimeProbeInv
<1>3. RuntimeObservedInv
  BY DEF RuntimeObservedInv
<1>4. RuntimeJudgedInv
  BY DEF RuntimeJudgedInv
<1>5. RuntimeLaunchInv
  BY DEF RuntimeLaunchInv, Runtime!LaunchedAsJudged
<1>6. QED
  BY <1>1, <1>2, <1>3, <1>4, <1>5 DEF RuntimeInv

(* What is known of a runtime is of its kind; what an image holds is known *)
(* once.                                                                   *)
LEMMA RuntimeTypeInvStep ==
  ASSUME Runtime!NoneIsNew, RuntimeInv, [Runtime!Next]_(Runtime!vars)
  PROVE  RuntimeTypeInv'
<1> USE DEF Runtime!NoneIsNew, RuntimeInv, Runtime!Go, Runtime!Over, Runtime!given, Runtime!world,
         Runtime!observed, Runtime!probing, Runtime!launched, RuntimeTypeInv, Runtime!Isolated,
         Runtime!Owned
<1>1. CASE Runtime!ParseRequested
  BY <1>1 DEF Runtime!ParseRequested
<1>2. CASE Runtime!ParseLock
  BY <1>2 DEF Runtime!ParseLock
<1>3. CASE Runtime!CheckCollateral
  BY <1>3 DEF Runtime!CheckCollateral
<1>4. CASE Runtime!ObserveHost
  BY <1>4 DEF Runtime!ObserveHost
<1>5. CASE Runtime!ObserveEngine
  BY <1>5 DEF Runtime!ObserveEngine, Runtime!Unobserved
<1>6. CASE Runtime!InspectImage
  BY <1>6 DEF Runtime!InspectImage, Runtime!Unobserved
<1>7. CASE Runtime!StartProbe
  BY <1>7 DEF Runtime!StartProbe
<1>8. CASE Runtime!DaemonCreates
  BY <1>8 DEF Runtime!DaemonCreates
<1>9. CASE Runtime!ProbeAnswers
  BY <1>9 DEF Runtime!ProbeAnswers, Runtime!Probed
<1>10. CASE Runtime!ProbeFails
  BY <1>10 DEF Runtime!ProbeFails
<1>11. CASE Runtime!RemoveProbe
  BY <1>11 DEF Runtime!RemoveProbe, Runtime!AfterProbe, Runtime!Unobserved
<1>12. CASE Runtime!Evaluate
  BY <1>12 DEF Runtime!Evaluate, Runtime!FromPreflight
<1>13. CASE Runtime!Prepare
  BY <1>13 DEF Runtime!Prepare
<1>14. CASE Runtime!Verify
  BY <1>14 DEF Runtime!Verify, Runtime!VerifyEngine
<1>15. CASE Runtime!Launch
  BY <1>15 DEF Runtime!Launch
<1>16. CASE Runtime!Interrupt
  <2>1. /\ pc # "over" /\ sent' \in Nat /\ UNCHANGED <<Runtime!given, Runtime!world, contents, issue, Runtime!observed, probe, Runtime!launched>>
        /\ \/ pc = "ask" /\ pc' = "remove" /\ UNCHANGED outcome
           \/ pc' = "over"
    BY <1>16 DEF Runtime!Interrupt
  <2>2. QED
    BY <2>1
<1>17. CASE Runtime!Disturb
  BY <1>17 DEF Runtime!Disturb
<1>18. CASE UNCHANGED Runtime!vars
  BY <1>18 DEF Runtime!vars
<1>19. QED
  BY <1>1, <1>2, <1>3, <1>4, <1>5, <1>6, <1>7, <1>8, <1>9, <1>10, <1>11, <1>12, <1>13, <1>14, <1>15,
     <1>16, <1>17, <1>18 DEF Runtime!Next

(* The tag is resolved before the first probe, and only then.              *)
LEMMA RuntimeIdentityInvStep ==
  ASSUME Runtime!NoneIsNew, RuntimeInv, [Runtime!Next]_(Runtime!vars)
  PROVE  RuntimeIdentityInv'
<1> USE DEF Runtime!NoneIsNew, RuntimeInv, Runtime!Go, Runtime!Over, Runtime!given, Runtime!world,
         Runtime!observed, Runtime!probing, Runtime!launched, RuntimeTypeInv, RuntimeIdentityInv
<1>1. CASE Runtime!ParseRequested
  BY <1>1 DEF Runtime!ParseRequested
<1>2. CASE Runtime!ParseLock
  BY <1>2 DEF Runtime!ParseLock
<1>3. CASE Runtime!CheckCollateral
  BY <1>3 DEF Runtime!CheckCollateral
<1>4. CASE Runtime!ObserveHost
  BY <1>4 DEF Runtime!ObserveHost
<1>5. CASE Runtime!ObserveEngine
  <2>1. [engine |-> engine, image |-> None] \in [engine : Runtime!Engines, image : {None}]
    OBVIOUS
  <2>2. pc' = "image" => identity' = [engine |-> engine, image |-> None]
    BY <1>5 DEF Runtime!ObserveEngine, Runtime!Unobserved
  <2>3. pc' \in {"image", "over", "evaluate"}
    BY <1>5 DEF Runtime!ObserveEngine, Runtime!Unobserved
  <2>4. QED
    BY <2>1, <2>2, <2>3
<1>6. CASE Runtime!InspectImage
  BY <1>6 DEF Runtime!InspectImage, Runtime!Unobserved
<1>7. CASE Runtime!StartProbe
  BY <1>7 DEF Runtime!StartProbe
<1>8. CASE Runtime!DaemonCreates
  BY <1>8 DEF Runtime!DaemonCreates
<1>9. CASE Runtime!ProbeAnswers
  BY <1>9 DEF Runtime!ProbeAnswers, Runtime!Probed
<1>10. CASE Runtime!ProbeFails
  BY <1>10 DEF Runtime!ProbeFails
<1>11. CASE Runtime!RemoveProbe
  BY <1>11 DEF Runtime!RemoveProbe, Runtime!AfterProbe, Runtime!Unobserved
<1>12. CASE Runtime!Evaluate
  BY <1>12 DEF Runtime!Evaluate, Runtime!FromPreflight
<1>13. CASE Runtime!Prepare
  BY <1>13 DEF Runtime!Prepare
<1>14. CASE Runtime!Verify
  BY <1>14 DEF Runtime!Verify, Runtime!VerifyEngine
<1>15. CASE Runtime!Launch
  BY <1>15 DEF Runtime!Launch
<1>16. CASE Runtime!Interrupt
  BY <1>16 DEF Runtime!Interrupt
<1>17. CASE Runtime!Disturb
  BY <1>17 DEF Runtime!Disturb
<1>18. CASE UNCHANGED Runtime!vars
  BY <1>18 DEF Runtime!vars
<1>19. QED
  BY <1>1, <1>2, <1>3, <1>4, <1>5, <1>6, <1>7, <1>8, <1>9, <1>10, <1>11, <1>12, <1>13, <1>14, <1>15,
     <1>16, <1>17, <1>18 DEF Runtime!Next

(* A probe is removed, or a failure or a signal says that it may be left.  *)
LEMMA RuntimeProbeInvStep ==
  ASSUME Runtime!NoneIsNew, RuntimeInv, [Runtime!Next]_(Runtime!vars)
  PROVE  RuntimeProbeInv'
<1> USE DEF Runtime!NoneIsNew, RuntimeInv, Runtime!Go, Runtime!Over, Runtime!given, Runtime!world,
         Runtime!observed, Runtime!probing, Runtime!launched, RuntimeTypeInv, RuntimeProbeInv,
         RuntimeObservedInv
<1>1. CASE Runtime!ParseRequested
  BY <1>1 DEF Runtime!ParseRequested
<1>2. CASE Runtime!ParseLock
  BY <1>2 DEF Runtime!ParseLock
<1>3. CASE Runtime!CheckCollateral
  BY <1>3 DEF Runtime!CheckCollateral
<1>4. CASE Runtime!ObserveHost
  BY <1>4 DEF Runtime!ObserveHost
<1>5. CASE Runtime!ObserveEngine
  BY <1>5 DEF Runtime!ObserveEngine, Runtime!Unobserved
<1>6. CASE Runtime!InspectImage
  BY <1>6 DEF Runtime!InspectImage, Runtime!Unobserved
<1>7. CASE Runtime!StartProbe
  BY <1>7 DEF Runtime!StartProbe
<1>8. CASE Runtime!DaemonCreates
  BY <1>8 DEF Runtime!DaemonCreates
<1>9. CASE Runtime!ProbeAnswers
  BY <1>9 DEF Runtime!ProbeAnswers, Runtime!Probed
<1>10. CASE Runtime!ProbeFails
  BY <1>10 DEF Runtime!ProbeFails
<1>11. CASE Runtime!RemoveProbe
  BY <1>11 DEF Runtime!RemoveProbe, Runtime!AfterProbe, Runtime!Unobserved
<1>12. CASE Runtime!Evaluate
  BY <1>12 DEF Runtime!Evaluate, Runtime!FromPreflight
<1>13. CASE Runtime!Prepare
  BY <1>13 DEF Runtime!Prepare
<1>14. CASE Runtime!Verify
  BY <1>14 DEF Runtime!Verify, Runtime!VerifyEngine
<1>15. CASE Runtime!Launch
  BY <1>15 DEF Runtime!Launch
<1>16. CASE Runtime!Interrupt
  BY <1>16 DEF Runtime!Interrupt
<1>17. CASE Runtime!Disturb
  BY <1>17 DEF Runtime!Disturb
<1>18. CASE UNCHANGED Runtime!vars
  BY <1>18 DEF Runtime!vars
<1>19. QED
  BY <1>1, <1>2, <1>3, <1>4, <1>5, <1>6, <1>7, <1>8, <1>9, <1>10, <1>11, <1>12, <1>13, <1>14, <1>15,
     <1>16, <1>17, <1>18 DEF Runtime!Next

(* An observation is of the image whose ID was resolved, with the flags    *)
(* that found it.                                                          *)
LEMMA RuntimeObservedInvStep ==
  ASSUME Runtime!NoneIsNew, RuntimeInv, [Runtime!Next]_(Runtime!vars)
  PROVE  RuntimeObservedInv'
<1> USE DEF Runtime!NoneIsNew, RuntimeInv, Runtime!Go, Runtime!Over, Runtime!given, Runtime!world,
         Runtime!observed, Runtime!probing, Runtime!launched, RuntimeTypeInv, RuntimeIdentityInv,
         RuntimeObservedInv, RuntimeProbeInv, Runtime!Visible
<1>1. CASE Runtime!ParseRequested
  BY <1>1 DEF Runtime!ParseRequested
<1>2. CASE Runtime!ParseLock
  BY <1>2 DEF Runtime!ParseLock
<1>3. CASE Runtime!CheckCollateral
  BY <1>3 DEF Runtime!CheckCollateral
<1>4. CASE Runtime!ObserveHost
  BY <1>4 DEF Runtime!ObserveHost
<1>5. CASE Runtime!ObserveEngine
  BY <1>5 DEF Runtime!ObserveEngine, Runtime!Unobserved
<1>6. CASE Runtime!InspectImage
  BY <1>6 DEF Runtime!InspectImage, Runtime!Unobserved
<1>7. CASE Runtime!StartProbe
  BY <1>7 DEF Runtime!StartProbe
<1>8. CASE Runtime!DaemonCreates
  BY <1>8 DEF Runtime!DaemonCreates
<1>9. CASE Runtime!ProbeAnswers
  BY <1>9 DEF Runtime!ProbeAnswers, Runtime!Probed
<1>10. CASE Runtime!ProbeFails
  BY <1>10 DEF Runtime!ProbeFails
<1>11. CASE Runtime!RemoveProbe
  BY <1>11 DEF Runtime!RemoveProbe, Runtime!AfterProbe, Runtime!Unobserved
<1>12. CASE Runtime!Evaluate
  BY <1>12 DEF Runtime!Evaluate, Runtime!FromPreflight
<1>13. CASE Runtime!Prepare
  BY <1>13 DEF Runtime!Prepare
<1>14. CASE Runtime!Verify
  BY <1>14 DEF Runtime!Verify, Runtime!VerifyEngine
<1>15. CASE Runtime!Launch
  BY <1>15 DEF Runtime!Launch
<1>16. CASE Runtime!Interrupt
  BY <1>16 DEF Runtime!Interrupt
<1>17. CASE Runtime!Disturb
  BY <1>17 DEF Runtime!Disturb
<1>18. CASE UNCHANGED Runtime!vars
  BY <1>18 DEF Runtime!vars
<1>19. QED
  BY <1>1, <1>2, <1>3, <1>4, <1>5, <1>6, <1>7, <1>8, <1>9, <1>10, <1>11, <1>12, <1>13, <1>14, <1>15,
     <1>16, <1>17, <1>18 DEF Runtime!Next

(* Nothing goes on from the judgement that did not pass it.                *)
LEMMA RuntimeJudgedInvStep ==
  ASSUME Runtime!NoneIsNew, RuntimeInv, [Runtime!Next]_(Runtime!vars)
  PROVE  RuntimeJudgedInv'
<1> USE DEF Runtime!NoneIsNew, RuntimeInv, Runtime!Go, Runtime!Over, Runtime!given, Runtime!world,
         Runtime!observed, Runtime!probing, Runtime!launched, RuntimeTypeInv, RuntimeObservedInv,
         RuntimeJudgedInv, Runtime!Passes, Runtime!HostAdmitted, Runtime!ContainerAdmitted,
         Runtime!Waivable, Runtime!SameEngine
<1>1. CASE Runtime!ParseRequested
  BY <1>1 DEF Runtime!ParseRequested
<1>2. CASE Runtime!ParseLock
  BY <1>2 DEF Runtime!ParseLock
<1>3. CASE Runtime!CheckCollateral
  BY <1>3 DEF Runtime!CheckCollateral
<1>4. CASE Runtime!ObserveHost
  BY <1>4 DEF Runtime!ObserveHost
<1>5. CASE Runtime!ObserveEngine
  BY <1>5 DEF Runtime!ObserveEngine, Runtime!Unobserved
<1>6. CASE Runtime!InspectImage
  BY <1>6 DEF Runtime!InspectImage, Runtime!Unobserved
<1>7. CASE Runtime!StartProbe
  BY <1>7 DEF Runtime!StartProbe
<1>8. CASE Runtime!DaemonCreates
  BY <1>8 DEF Runtime!DaemonCreates
<1>9. CASE Runtime!ProbeAnswers
  BY <1>9 DEF Runtime!ProbeAnswers, Runtime!Probed
<1>10. CASE Runtime!ProbeFails
  BY <1>10 DEF Runtime!ProbeFails
<1>11. CASE Runtime!RemoveProbe
  BY <1>11 DEF Runtime!RemoveProbe, Runtime!AfterProbe, Runtime!Unobserved
<1>12. CASE Runtime!Evaluate
  BY <1>12 DEF Runtime!Evaluate, Runtime!FromPreflight
<1>13. CASE Runtime!Prepare
  BY <1>13 DEF Runtime!Prepare
<1>14. CASE Runtime!Verify
  BY <1>14 DEF Runtime!Verify, Runtime!VerifyEngine
<1>15. CASE Runtime!Launch
  BY <1>15 DEF Runtime!Launch
<1>16. CASE Runtime!Interrupt
  BY <1>16 DEF Runtime!Interrupt
<1>17. CASE Runtime!Disturb
  BY <1>17 DEF Runtime!Disturb
<1>18. CASE UNCHANGED Runtime!vars
  BY <1>18 DEF Runtime!vars
<1>19. QED
  BY <1>1, <1>2, <1>3, <1>4, <1>5, <1>6, <1>7, <1>8, <1>9, <1>10, <1>11, <1>12, <1>13, <1>14, <1>15,
     <1>16, <1>17, <1>18 DEF Runtime!Next

(* A launch is of what the binding names, on an engine that was just       *)
(* compared or changed since then.                                         *)
LEMMA RuntimeLaunchInvStep ==
  ASSUME Runtime!NoneIsNew, RuntimeInv, [Runtime!Next]_(Runtime!vars)
  PROVE  RuntimeLaunchInv'
<1> USE DEF Runtime!NoneIsNew, RuntimeInv, Runtime!Go, Runtime!Over, Runtime!given, Runtime!world,
         Runtime!observed, Runtime!probing, Runtime!launched, RuntimeTypeInv, RuntimeLaunches,
         RuntimeLaunchInv, Runtime!LaunchedAsJudged, RuntimeJudgedInv, RuntimeObservedInv,
         Runtime!Passes, Runtime!ContainerAdmitted, Runtime!Waivable, Runtime!SameEngine
<1>1. CASE Runtime!ParseRequested
  BY <1>1 DEF Runtime!ParseRequested
<1>2. CASE Runtime!ParseLock
  BY <1>2 DEF Runtime!ParseLock
<1>3. CASE Runtime!CheckCollateral
  BY <1>3 DEF Runtime!CheckCollateral
<1>4. CASE Runtime!ObserveHost
  BY <1>4 DEF Runtime!ObserveHost
<1>5. CASE Runtime!ObserveEngine
  BY <1>5 DEF Runtime!ObserveEngine, Runtime!Unobserved
<1>6. CASE Runtime!InspectImage
  BY <1>6 DEF Runtime!InspectImage, Runtime!Unobserved
<1>7. CASE Runtime!StartProbe
  BY <1>7 DEF Runtime!StartProbe
<1>8. CASE Runtime!DaemonCreates
  BY <1>8 DEF Runtime!DaemonCreates
<1>9. CASE Runtime!ProbeAnswers
  BY <1>9 DEF Runtime!ProbeAnswers, Runtime!Probed
<1>10. CASE Runtime!ProbeFails
  BY <1>10 DEF Runtime!ProbeFails
<1>11. CASE Runtime!RemoveProbe
  BY <1>11 DEF Runtime!RemoveProbe, Runtime!AfterProbe, Runtime!Unobserved
<1>12. CASE Runtime!Evaluate
  BY <1>12 DEF Runtime!Evaluate, Runtime!FromPreflight
<1>13. CASE Runtime!Prepare
  BY <1>13 DEF Runtime!Prepare
<1>14. CASE Runtime!Verify
  BY <1>14 DEF Runtime!Verify, Runtime!VerifyEngine
<1>15. CASE Runtime!Launch
  BY <1>15 DEF Runtime!Launch
<1>16. CASE Runtime!Interrupt
  BY <1>16 DEF Runtime!Interrupt
<1>17. CASE Runtime!Disturb
  BY <1>17 DEF Runtime!Disturb
<1>18. CASE UNCHANGED Runtime!vars
  BY <1>18 DEF Runtime!vars
<1>19. QED
  BY <1>1, <1>2, <1>3, <1>4, <1>5, <1>6, <1>7, <1>8, <1>9, <1>10, <1>11, <1>12, <1>13, <1>14, <1>15,
     <1>16, <1>17, <1>18 DEF Runtime!Next

(* Every step from a contract to a launch keeps the invariant.             *)
LEMMA RuntimeKept ==
  ASSUME Runtime!NoneIsNew, RuntimeInv, [Runtime!Next]_(Runtime!vars)
  PROVE  RuntimeInv'
BY RuntimeTypeInvStep, RuntimeIdentityInvStep, RuntimeProbeInvStep, RuntimeObservedInvStep,
   RuntimeJudgedInvStep, RuntimeLaunchInvStep DEF RuntimeInv

(* Ready was judged, and so is whatever is launched.                       *)
LEMMA RuntimeHolds ==
  ASSUME Runtime!NoneIsNew, RuntimeInv
  PROVE  Runtime!LaunchedAsJudged /\ Runtime!ReadyIsJudged
<1>1. Runtime!ReadyIsJudged
  BY DEF Runtime!NoneIsNew, RuntimeInv, RuntimeTypeInv, RuntimeProbeInv, RuntimeObservedInv,
     RuntimeJudgedInv, Runtime!ReadyIsJudged, Runtime!Passes, Runtime!HostAdmitted,
     Runtime!ContainerAdmitted, Runtime!PythonPasses, Runtime!Waivable
<1>2. QED
  BY <1>1 DEF RuntimeInv, RuntimeLaunchInv

-----------------------------------------------------------------------------
(* Managed Pythons (managed_python), of any number of processes. The       *)
(* argument is the lock: one process at a time is anywhere between looking *)
(* for a generation and the receipt, so what it found there still stands   *)
(* when it builds on it; only the cache, which a user may rewrite, is not  *)
(* covered by it.                                                          *)

(* Every step keeps the types; what a process links, extracts or publishes *)
(* is there by OwnInv.                                                     *)
LEMMA PythonTypeStep ==
  ASSUME Python!NoneIsNew, Python!TypeOK, Python!OwnInv, [Python!Next]_(Python!vars)
  PROVE  Python!TypeOK'
<1> USE DEF Python!NoneIsNew, Python!Go, Python!End, Python!At, Python!own, Python!shared,
         Python!faults, Python!TypeOK, Python!OwnInv, Python!Pinned, Python!Archives, Python!Modes,
         Python!Staged, Python!Published, Python!Locked, Python!Outcomes
<1>1. ASSUME NEW p \in Procs, Python!Describe(p)
      PROVE  Python!TypeOK'
  BY <1>1 DEF Python!Describe
<1>2. ASSUME NEW p \in Procs, Python!Start(p)
      PROVE  Python!TypeOK'
  BY <1>2 DEF Python!Start
<1>3. ASSUME NEW p \in Procs, Python!Inspect(p)
      PROVE  Python!TypeOK'
  BY <1>3 DEF Python!Inspect
<1>4. ASSUME NEW p \in Procs, Python!Lock(p)
      PROVE  Python!TypeOK'
  BY <1>4 DEF Python!Lock
<1>5. ASSUME NEW p \in Procs, Python!Look(p)
      PROVE  Python!TypeOK'
  BY <1>5 DEF Python!Look
<1>6. ASSUME NEW p \in Procs, Python!Download(p)
      PROVE  Python!TypeOK'
  BY <1>6 DEF Python!Download
<1>7. ASSUME NEW p \in Procs, Python!Link(p)
      PROVE  Python!TypeOK'
  BY <1>7 DEF Python!Link
<1>8. ASSUME NEW p \in Procs, Python!Verify(p)
      PROVE  Python!TypeOK'
  BY <1>8 DEF Python!Verify, Python!VerifyCache
<1>9. ASSUME NEW p \in Procs, Python!Extract(p)
      PROVE  Python!TypeOK'
  <2>1. cache \in Python!Archives /\ pc[p] = "extract" /\ pc' \in [Procs -> {"start", "begin", "inspect", "lock", "over"} \cup Python!Locked]
    BY <1>9 DEF Python!Extract
  <2>2. /\ UNCHANGED <<partial, cache, generation, receipt, probed, mode, kills, changes>>
        /\ stage' \in {stage, [stage EXCEPT ![p] = cache]}
        /\ outcome' \in {outcome, [outcome EXCEPT ![p] = "archive"]} /\ lock' \in {lock, None}
    BY <1>9 DEF Python!Extract
  <2>3. QED
    BY <2>1, <2>2
<1>10. ASSUME NEW p \in Procs, Python!StageProbe(p)
      PROVE  Python!TypeOK'
  BY <1>10 DEF Python!StageProbe, Python!Abandon
<1>11. ASSUME NEW p \in Procs, Python!CheckAbsent(p)
      PROVE  Python!TypeOK'
  BY <1>11 DEF Python!CheckAbsent, Python!Abandon
<1>12. ASSUME NEW p \in Procs, Python!PublishGeneration(p)
      PROVE  Python!TypeOK'
  BY <1>12 DEF Python!PublishGeneration, Python!NoReplace, Python!Abandon
<1>13. ASSUME NEW p \in Procs, Python!FinalProbe(p)
      PROVE  Python!TypeOK'
  BY <1>13 DEF Python!FinalProbe
<1>14. ASSUME NEW p \in Procs, Python!WriteReceipt(p)
      PROVE  Python!TypeOK'
  BY <1>14 DEF Python!WriteReceipt
<1>15. ASSUME NEW p \in Procs, Python!RenameReceipt(p)
      PROVE  Python!TypeOK'
  BY <1>15 DEF Python!RenameReceipt
<1>16. ASSUME NEW p \in Procs, Python!Kill(p)
      PROVE  Python!TypeOK'
  BY <1>16 DEF Python!Kill
<1>17. CASE Python!Disturb
  BY <1>17 DEF Python!Disturb
<1>18. CASE UNCHANGED Python!vars
  BY <1>18 DEF Python!vars
<1>19. QED
  BY <1>1, <1>2, <1>3, <1>4, <1>5, <1>6, <1>7, <1>8, <1>9, <1>10, <1>11, <1>12, <1>13, <1>14, <1>15,
     <1>16, <1>17, <1>18 DEF Python!Next

(* One process at a time has the lock: nobody takes it from another, and   *)
(* who gives it up leaves the places that need it.                         *)
LEMMA PythonLockStep ==
  ASSUME Python!NoneIsNew, Python!TypeOK, Python!LockInv, [Python!Next]_(Python!vars)
  PROVE  Python!LockInv'
<1> USE DEF Python!NoneIsNew, Python!Go, Python!End, Python!At, Python!own, Python!shared,
         Python!faults, Python!TypeOK, Python!LockInv, Python!Staged, Python!Published,
         Python!Locked
<1>1. ASSUME NEW p \in Procs, Python!Describe(p)
      PROVE  Python!LockInv'
  BY <1>1 DEF Python!Describe
<1>2. ASSUME NEW p \in Procs, Python!Start(p)
      PROVE  Python!LockInv'
  BY <1>2 DEF Python!Start
<1>3. ASSUME NEW p \in Procs, Python!Inspect(p)
      PROVE  Python!LockInv'
  BY <1>3 DEF Python!Inspect
<1>4. ASSUME NEW p \in Procs, Python!Lock(p)
      PROVE  Python!LockInv'
  BY <1>4 DEF Python!Lock
<1>5. ASSUME NEW p \in Procs, Python!Look(p)
      PROVE  Python!LockInv'
  BY <1>5 DEF Python!Look
<1>6. ASSUME NEW p \in Procs, Python!Download(p)
      PROVE  Python!LockInv'
  BY <1>6 DEF Python!Download
<1>7. ASSUME NEW p \in Procs, Python!Link(p)
      PROVE  Python!LockInv'
  BY <1>7 DEF Python!Link
<1>8. ASSUME NEW p \in Procs, Python!Verify(p)
      PROVE  Python!LockInv'
  BY <1>8 DEF Python!Verify, Python!VerifyCache
<1>9. ASSUME NEW p \in Procs, Python!Extract(p)
      PROVE  Python!LockInv'
  BY <1>9 DEF Python!Extract
<1>10. ASSUME NEW p \in Procs, Python!StageProbe(p)
      PROVE  Python!LockInv'
  BY <1>10 DEF Python!StageProbe, Python!Abandon
<1>11. ASSUME NEW p \in Procs, Python!CheckAbsent(p)
      PROVE  Python!LockInv'
  BY <1>11 DEF Python!CheckAbsent, Python!Abandon
<1>12. ASSUME NEW p \in Procs, Python!PublishGeneration(p)
      PROVE  Python!LockInv'
  BY <1>12 DEF Python!PublishGeneration, Python!NoReplace, Python!Abandon
<1>13. ASSUME NEW p \in Procs, Python!FinalProbe(p)
      PROVE  Python!LockInv'
  BY <1>13 DEF Python!FinalProbe
<1>14. ASSUME NEW p \in Procs, Python!WriteReceipt(p)
      PROVE  Python!LockInv'
  BY <1>14 DEF Python!WriteReceipt
<1>15. ASSUME NEW p \in Procs, Python!RenameReceipt(p)
      PROVE  Python!LockInv'
  BY <1>15 DEF Python!RenameReceipt
<1>16. ASSUME NEW p \in Procs, Python!Kill(p)
      PROVE  Python!LockInv'
  BY <1>16 DEF Python!Kill
<1>17. CASE Python!Disturb
  BY <1>17 DEF Python!Disturb
<1>18. CASE UNCHANGED Python!vars
  BY <1>18 DEF Python!vars
<1>19. QED
  BY <1>1, <1>2, <1>3, <1>4, <1>5, <1>6, <1>7, <1>8, <1>9, <1>10, <1>11, <1>12, <1>13, <1>14, <1>15,
     <1>16, <1>17, <1>18 DEF Python!Next

(* What a process has under names of its own is the pin's, and is gone     *)
(* when it ends; a user's act is counted.                                  *)
LEMMA PythonOwnStep ==
  ASSUME Python!NoneIsNew, Python!IInv, Python!TypeOK', [Python!Next]_(Python!vars)
  PROVE  Python!OwnInv'
<1> USE DEF Python!NoneIsNew, Python!Go, Python!End, Python!At, Python!own, Python!shared,
         Python!faults, Python!IInv, Python!TypeOK, Python!LockInv, Python!OwnInv, Python!Pinned,
         Python!Archives, Python!Staged, Python!Published, Python!Locked, Python!Outcomes
<1>1. ASSUME NEW p \in Procs, Python!Describe(p)
      PROVE  Python!OwnInv'
  BY <1>1 DEF Python!Describe
<1>2. ASSUME NEW p \in Procs, Python!Start(p)
      PROVE  Python!OwnInv'
  BY <1>2 DEF Python!Start
<1>3. ASSUME NEW p \in Procs, Python!Inspect(p)
      PROVE  Python!OwnInv'
  BY <1>3 DEF Python!Inspect
<1>4. ASSUME NEW p \in Procs, Python!Lock(p)
      PROVE  Python!OwnInv'
  BY <1>4 DEF Python!Lock
<1>5. ASSUME NEW p \in Procs, Python!Look(p)
      PROVE  Python!OwnInv'
  BY <1>5 DEF Python!Look
<1>6. ASSUME NEW p \in Procs, Python!Download(p)
      PROVE  Python!OwnInv'
  BY <1>6 DEF Python!Download
<1>7. ASSUME NEW p \in Procs, Python!Link(p)
      PROVE  Python!OwnInv'
  BY <1>7 DEF Python!Link
<1>8. ASSUME NEW p \in Procs, Python!Verify(p)
      PROVE  Python!OwnInv'
  BY <1>8 DEF Python!Verify, Python!VerifyCache
<1>9. ASSUME NEW p \in Procs, Python!Extract(p)
      PROVE  Python!OwnInv'
  <2>1. /\ pc[p] = "extract" /\ UNCHANGED <<partial, cache, generation, receipt, probed, mode, kills, changes>>
        /\ \/ stage' = [stage EXCEPT ![p] = cache] /\ Python!Go(p, "stageProbe")
           \/ UNCHANGED stage /\ Python!End(p, "archive")
    BY <1>9 DEF Python!Extract
  <2>2. CASE stage' = [stage EXCEPT ![p] = cache] /\ Python!Go(p, "stageProbe")
    BY <2>1, <2>2
  <2>3. CASE UNCHANGED stage /\ Python!End(p, "archive")
    BY <2>1, <2>3
  <2>4. QED
    BY <2>1, <2>2, <2>3
<1>10. ASSUME NEW p \in Procs, Python!StageProbe(p)
      PROVE  Python!OwnInv'
  BY <1>10 DEF Python!StageProbe, Python!Abandon
<1>11. ASSUME NEW p \in Procs, Python!CheckAbsent(p)
      PROVE  Python!OwnInv'
  BY <1>11 DEF Python!CheckAbsent, Python!Abandon
<1>12. ASSUME NEW p \in Procs, Python!PublishGeneration(p)
      PROVE  Python!OwnInv'
  BY <1>12 DEF Python!PublishGeneration, Python!NoReplace, Python!Abandon
<1>13. ASSUME NEW p \in Procs, Python!FinalProbe(p)
      PROVE  Python!OwnInv'
  BY <1>13 DEF Python!FinalProbe
<1>14. ASSUME NEW p \in Procs, Python!WriteReceipt(p)
      PROVE  Python!OwnInv'
  BY <1>14 DEF Python!WriteReceipt
<1>15. ASSUME NEW p \in Procs, Python!RenameReceipt(p)
      PROVE  Python!OwnInv'
  BY <1>15 DEF Python!RenameReceipt
<1>16. ASSUME NEW p \in Procs, Python!Kill(p)
      PROVE  Python!OwnInv'
  BY <1>16 DEF Python!Kill
<1>17. CASE Python!Disturb
  BY <1>17 DEF Python!Disturb
<1>18. CASE UNCHANGED Python!vars
  BY <1>18 DEF Python!vars
<1>19. QED
  BY <1>1, <1>2, <1>3, <1>4, <1>5, <1>6, <1>7, <1>8, <1>9, <1>10, <1>11, <1>12, <1>13, <1>14, <1>15,
     <1>16, <1>17, <1>18 DEF Python!Next

(* A generation does not change once it stands, and no second process is   *)
(* between publication and receipt, by LockInv.                            *)
LEMMA PythonPublishedStep ==
  ASSUME Python!NoneIsNew, Python!IInv, Python!TypeOK', [Python!Next]_(Python!vars)
  PROVE  Python!PublishedInv'
<1> USE DEF Python!NoneIsNew, Python!Go, Python!End, Python!At, Python!own, Python!shared,
         Python!faults, Python!IInv, Python!TypeOK, Python!LockInv, Python!OwnInv,
         Python!PublishedInv, Python!Pinned, Python!Archives, Python!Staged, Python!Published,
         Python!Locked, Python!Outcomes
<1>1. ASSUME NEW p \in Procs, Python!Describe(p)
      PROVE  Python!PublishedInv'
  BY <1>1 DEF Python!Describe
<1>2. ASSUME NEW p \in Procs, Python!Start(p)
      PROVE  Python!PublishedInv'
  BY <1>2 DEF Python!Start
<1>3. ASSUME NEW p \in Procs, Python!Inspect(p)
      PROVE  Python!PublishedInv'
  BY <1>3 DEF Python!Inspect
<1>4. ASSUME NEW p \in Procs, Python!Lock(p)
      PROVE  Python!PublishedInv'
  BY <1>4 DEF Python!Lock
<1>5. ASSUME NEW p \in Procs, Python!Look(p)
      PROVE  Python!PublishedInv'
  BY <1>5 DEF Python!Look
<1>6. ASSUME NEW p \in Procs, Python!Download(p)
      PROVE  Python!PublishedInv'
  BY <1>6 DEF Python!Download
<1>7. ASSUME NEW p \in Procs, Python!Link(p)
      PROVE  Python!PublishedInv'
  BY <1>7 DEF Python!Link
<1>8. ASSUME NEW p \in Procs, Python!Verify(p)
      PROVE  Python!PublishedInv'
  BY <1>8 DEF Python!Verify, Python!VerifyCache
<1>9. ASSUME NEW p \in Procs, Python!Extract(p)
      PROVE  Python!PublishedInv'
  <2>1. /\ pc[p] = "extract" /\ UNCHANGED <<partial, cache, generation, receipt, probed, mode, kills, changes>>
        /\ \/ stage' = [stage EXCEPT ![p] = cache] /\ Python!Go(p, "stageProbe")
           \/ UNCHANGED stage /\ Python!End(p, "archive")
    BY <1>9 DEF Python!Extract
  <2>2. CASE stage' = [stage EXCEPT ![p] = cache] /\ Python!Go(p, "stageProbe")
    BY <2>1, <2>2
  <2>3. CASE UNCHANGED stage /\ Python!End(p, "archive")
    BY <2>1, <2>3
  <2>4. QED
    BY <2>1, <2>2, <2>3
<1>10. ASSUME NEW p \in Procs, Python!StageProbe(p)
      PROVE  Python!PublishedInv'
  BY <1>10 DEF Python!StageProbe, Python!Abandon
<1>11. ASSUME NEW p \in Procs, Python!CheckAbsent(p)
      PROVE  Python!PublishedInv'
  BY <1>11 DEF Python!CheckAbsent, Python!Abandon
<1>12. ASSUME NEW p \in Procs, Python!PublishGeneration(p)
      PROVE  Python!PublishedInv'
  BY <1>12 DEF Python!PublishGeneration, Python!NoReplace, Python!Abandon
<1>13. ASSUME NEW p \in Procs, Python!FinalProbe(p)
      PROVE  Python!PublishedInv'
  BY <1>13 DEF Python!FinalProbe
<1>14. ASSUME NEW p \in Procs, Python!WriteReceipt(p)
      PROVE  Python!PublishedInv'
  BY <1>14 DEF Python!WriteReceipt
<1>15. ASSUME NEW p \in Procs, Python!RenameReceipt(p)
      PROVE  Python!PublishedInv'
  BY <1>15 DEF Python!RenameReceipt
<1>16. ASSUME NEW p \in Procs, Python!Kill(p)
      PROVE  Python!PublishedInv'
  BY <1>16 DEF Python!Kill
<1>17. CASE Python!Disturb
  BY <1>17 DEF Python!Disturb
<1>18. CASE UNCHANGED Python!vars
  BY <1>18 DEF Python!vars
<1>19. QED
  BY <1>1, <1>2, <1>3, <1>4, <1>5, <1>6, <1>7, <1>8, <1>9, <1>10, <1>11, <1>12, <1>13, <1>14, <1>15,
     <1>16, <1>17, <1>18 DEF Python!Next

(* A root without a generation.                                            *)
LEMMA PythonStarts ==
  ASSUME Python!NoneIsNew, Python!Init
  PROVE  Python!IInv
BY DEF Python!NoneIsNew, Python!Init, Python!IInv, Python!TypeOK, Python!LockInv, Python!OwnInv,
   Python!PublishedInv, Python!Pinned, Python!Archives, Python!Modes, Python!Staged,
   Python!Published, Python!Locked, Python!Outcomes

(* Every step of every process, and every act of a user, keeps the         *)
(* invariant.                                                              *)
LEMMA PythonKept ==
  ASSUME Python!NoneIsNew, Python!IInv, [Python!Next]_(Python!vars)
  PROVE  Python!IInv'
<1>1. Python!TypeOK'
  BY PythonTypeStep DEF Python!IInv
<1>2. Python!LockInv'
  BY PythonLockStep DEF Python!IInv
<1>3. Python!OwnInv'
  BY <1>1, PythonOwnStep
<1>4. Python!PublishedInv'
  BY <1>1, PythonPublishedStep
<1>5. QED
  BY <1>1, <1>2, <1>3, <1>4 DEF Python!IInv

(* Ready means a receipt, and a receipt a probed generation of the pin     *)
(* unless the cache was rewritten.                                         *)
LEMMA PythonHolds ==
  ASSUME Python!IInv
  PROVE  Python!ReadyIsThePin
<1>1. receipt = "written" => probed /\ (generation = "pin" \/ (generation = "other" /\ changes > 0))
  BY DEF Python!IInv, Python!PublishedInv, Python!Pinned
<1>2. ASSUME NEW p \in Procs
      PROVE  outcome[p] = "ready" => receipt = "written"
  BY DEF Python!IInv, Python!PublishedInv
<1>3. ASSUME NEW p \in Procs, outcome[p] \notin {None, "killed"}
      PROVE  stage[p] = None /\ partial[p] = None
  BY <1>3 DEF Python!IInv, Python!OwnInv, Python!Staged
<1>4. QED
  BY <1>1, <1>2, <1>3 DEF Python!ReadyIsThePin

(* A process publishes only where nothing stands and writes only where no  *)
(* receipt is.                                                             *)
LEMMA PythonKeeps ==
  ASSUME Python!NoneIsNew, Python!IInv, Python!Next
  PROVE  Python!KeepsGenerations
<1> USE DEF Python!NoneIsNew, Python!Go, Python!End, Python!At, Python!own, Python!shared,
         Python!faults, Python!KeepsGenerations
<1>1. ASSUME NEW p \in Procs, Python!Describe(p)
      PROVE  Python!KeepsGenerations
  BY <1>1 DEF Python!Describe
<1>2. ASSUME NEW p \in Procs, Python!Start(p)
      PROVE  Python!KeepsGenerations
  BY <1>2 DEF Python!Start
<1>3. ASSUME NEW p \in Procs, Python!Inspect(p)
      PROVE  Python!KeepsGenerations
  BY <1>3 DEF Python!Inspect
<1>4. ASSUME NEW p \in Procs, Python!Lock(p)
      PROVE  Python!KeepsGenerations
  BY <1>4 DEF Python!Lock
<1>5. ASSUME NEW p \in Procs, Python!Look(p)
      PROVE  Python!KeepsGenerations
  BY <1>5 DEF Python!Look
<1>6. ASSUME NEW p \in Procs, Python!Download(p)
      PROVE  Python!KeepsGenerations
  BY <1>6 DEF Python!Download
<1>7. ASSUME NEW p \in Procs, Python!Link(p)
      PROVE  Python!KeepsGenerations
  BY <1>7 DEF Python!Link
<1>8. ASSUME NEW p \in Procs, Python!Verify(p)
      PROVE  Python!KeepsGenerations
  BY <1>8 DEF Python!Verify, Python!VerifyCache
<1>9. ASSUME NEW p \in Procs, Python!Extract(p)
      PROVE  Python!KeepsGenerations
  BY <1>9 DEF Python!Extract
<1>10. ASSUME NEW p \in Procs, Python!StageProbe(p)
      PROVE  Python!KeepsGenerations
  BY <1>10 DEF Python!StageProbe, Python!Abandon
<1>11. ASSUME NEW p \in Procs, Python!CheckAbsent(p)
      PROVE  Python!KeepsGenerations
  BY <1>11 DEF Python!CheckAbsent, Python!Abandon
<1>12. ASSUME NEW p \in Procs, Python!PublishGeneration(p)
      PROVE  Python!KeepsGenerations
  BY <1>12 DEF Python!PublishGeneration, Python!NoReplace, Python!Abandon
<1>13. ASSUME NEW p \in Procs, Python!FinalProbe(p)
      PROVE  Python!KeepsGenerations
  BY <1>13 DEF Python!FinalProbe
<1>14. ASSUME NEW p \in Procs, Python!WriteReceipt(p)
      PROVE  Python!KeepsGenerations
  BY <1>14 DEF Python!WriteReceipt, Python!IInv, Python!PublishedInv, Python!Published
<1>15. ASSUME NEW p \in Procs, Python!RenameReceipt(p)
      PROVE  Python!KeepsGenerations
  BY <1>15 DEF Python!RenameReceipt, Python!IInv, Python!PublishedInv
<1>16. ASSUME NEW p \in Procs, Python!Kill(p)
      PROVE  Python!KeepsGenerations
  BY <1>16 DEF Python!Kill
<1>17. CASE Python!Disturb
  BY <1>17 DEF Python!Disturb
<1>18. QED
  BY <1>1, <1>2, <1>3, <1>4, <1>5, <1>6, <1>7, <1>8, <1>9, <1>10, <1>11, <1>12, <1>13, <1>14, <1>15,
     <1>16, <1>17 DEF Python!Next

-----------------------------------------------------------------------------
(* Archives (archive.archive). An archive of this run stands at the output *)
(* only once it was placed, and was pinned before that; the reader's files *)
(* and the older archive are in the output, or in what was moved away, at  *)
(* every step, and all but the late ones are copied before it is moved.    *)

ArchiveCopying == {"manifest", "records", "reports", "bundle", "check", "users", "away", "place"}

ArchiveTypeInv ==
  /\ pc \in {"verify", "source", "members", "output", "back", "forget", "over"} \cup ArchiveCopying
  /\ original \in Nat /\ staged \in Nat /\ layout \in Nat /\ checks \in Nat /\ changes \in Nat
  /\ output \in Archive!Outputs \cup {None} /\ backup \in Archive!Outputs \cup {None} /\ staging \in Archive!Holdings \cup {None}
  /\ verified \in [layout : Nat, checks : Nat] /\ selected \in BOOLEAN /\ kept \in SUBSET Archive!Users
  /\ added \in SUBSET Archive!Users /\ drifted \in BOOLEAN /\ older \in BOOLEAN
  /\ pc \in ArchiveCopying => staging \in Archive!Holdings
  /\ pc \in {"verify", "source", "members", "output"} => staging = None
  /\ pc # "over" => outcome = None

(* What was verified is what is there, as long as nobody wrote to it.      *)
ArchiveVerifiedInv ==
  /\ pc = "verify" => verified.checks = 0 /\ ~drifted
  /\ pc # "over" => verified.layout \in {0, 1}
  /\ pc # "verify" /\ verified.checks > 0 /\ ~drifted => verified.layout = layout
  /\ pc \notin {"verify", "source", "members"} /\ verified.checks > 0 /\ ~drifted =>
       pc = "over" \/ (selected <=> layout # 0)

ArchiveAsVerified(holding) ==
  holding.checks > 0 => (holding.layout = verified.layout /\ verified.layout \in {0, 1}) \/ drifted

ArchivePinned(holding) == holding.whole /\ holding.manifest = 1 /\ holding.bundle = 1 /\ ArchiveAsVerified(holding)

(* The private directory, by the step that is next.                        *)
ArchiveStagingInv ==
  /\ pc \in ArchiveCopying \ {"manifest"} => staging.manifest = 1
  /\ pc = "reports" => staging.checks = verified.checks
  /\ pc \in {"bundle", "check"} => ArchiveAsVerified(staging)
  /\ pc \in {"users", "away", "place"} => ArchivePinned(staging)
  /\ pc = "away" => kept \ added \subseteq staging.users
  /\ pc = "place" => (kept \ added) \ Archive!Others \subseteq staging.users

(* The output and what was moved away: an archive of this run stands there *)
(* only once it was placed.                                                *)
ArchiveOutputInv ==
  /\ Archive!Archived => ArchivePinned(output.archive) /\ pc \in {"forget", "over"}
  /\ backup # None => backup.archive \in {None, Archive!Older}
  /\ pc \notin {"place", "back", "forget", "over"} => backup = None /\ kept \subseteq Archive!Others
  /\ pc \in {"place", "back"} => kept \subseteq Archive!Others \cup Archive!Moved
  /\ pc = "forget" => Archive!Archived /\ kept \ added \subseteq Archive!Others
  /\ outcome = "archived" => Archive!Archived
  /\ Archive!ReadersFilesSurvive

ArchiveOlderInv ==
  /\ older /\ pc \notin {"place", "back", "forget", "over"} => Archive!Stands(output, Archive!Older)
  /\ older /\ pc \in {"place", "back"} => Archive!Stands(backup, Archive!Older)
  /\ Archive!OlderSurvives

ArchiveInv == ArchiveTypeInv /\ ArchiveVerifiedInv /\ ArchiveStagingInv /\ ArchiveOutputInv /\ ArchiveOlderInv

(* An archiver that has verified nothing.                                  *)
LEMMA ArchiveStarts ==
  ASSUME Archive!NoneIsNew, Archive!Init
  PROVE  ArchiveInv
<1> USE DEF Archive!Init
<1>1. ArchiveTypeInv
  <2>1. Archive!Older \in Archive!Holdings
    BY DEF Archive!Holdings, Archive!Older, Archive!Nothing
  <2>2. output \in Archive!Outputs \cup {None} /\ kept \in SUBSET Archive!Users
    BY <2>1 DEF Archive!Outputs, Archive!Users
  <2>3. original \in Nat /\ staged \in Nat /\ layout \in Nat /\ checks \in Nat
    OBVIOUS
  <2>4. selected \in BOOLEAN /\ drifted \in BOOLEAN /\ added \in SUBSET Archive!Users
    OBVIOUS
  <2>5. older \in BOOLEAN
    OBVIOUS
  <2>6. QED
    BY <2>2, <2>3, <2>4, <2>5 DEF ArchiveTypeInv, ArchiveCopying
<1>2. ArchiveVerifiedInv
  BY DEF ArchiveVerifiedInv
<1>3. ArchiveStagingInv
  BY DEF ArchiveStagingInv, ArchiveCopying
<1>4. ArchiveOutputInv
  BY DEF Archive!NoneIsNew, ArchiveOutputInv, Archive!Archived, Archive!Others, Archive!Moved,
     Archive!ReadersFilesSurvive
<1>5. ArchiveOlderInv
  <2>1. older => Archive!Stands(output, Archive!Older)
    BY DEF Archive!Stands
  <2>2. pc = "verify" /\ outcome = None
    OBVIOUS
  <2> HIDE DEF Archive!Init
  <2>3. QED
    BY <2>1, <2>2 DEF Archive!NoneIsNew, ArchiveOlderInv, Archive!OlderSurvives
<1>6. QED
  BY <1>1, <1>2, <1>3, <1>4, <1>5 DEF ArchiveInv

(* Every step of an archiver, and every act of others, keeps the           *)
(* invariant.                                                              *)
LEMMA ArchiveKept ==
  ASSUME Archive!NoneIsNew, ArchiveInv, [Archive!Next]_(Archive!vars)
  PROVE  ArchiveInv'
<1> USE DEF Archive!NoneIsNew, ArchiveInv, Archive!Go, Archive!Refuse, Archive!Over,
         Archive!Discard, Archive!given, Archive!read, Archive!world, Archive!Nothing,
         ArchiveTypeInv, ArchiveCopying, Archive!Holdings, Archive!Outputs, Archive!Users,
         Archive!Populated, Archive!Bundle, Archive!Others, ArchiveVerifiedInv, ArchiveStagingInv,
         ArchiveAsVerified, ArchivePinned, ArchiveOutputInv, Archive!Archived, Archive!Moved,
         Archive!ReadersFilesSurvive, ArchiveOlderInv, Archive!OlderSurvives, Archive!Stands
<1>1. CASE Archive!Verify
  BY <1>1 DEF Archive!Verify
<1>2. CASE Archive!Select
  BY <1>2 DEF Archive!Select
<1>3. CASE Archive!Members
  BY <1>3 DEF Archive!Members
<1>4. CASE Archive!List
  BY <1>4 DEF Archive!List
<1>5. CASE Archive!MakeStaging
  <2>1. ArchiveTypeInv'
    <3>1. Archive!Nothing \in Archive!Holdings
      OBVIOUS
    <3>2. /\ pc = "output" /\ staging' \in {staging, Archive!Nothing}
          /\ pc' = "manifest" => staging' = Archive!Nothing
          /\ pc' \in {"manifest", "over"} /\ (pc' # "over" => outcome' = outcome)
          /\ UNCHANGED <<Archive!given, Archive!world, output, backup, Archive!read, sent>>
      BY <1>5 DEF Archive!MakeStaging
    <3>3. staging' \in Archive!Holdings \cup {None} /\ (pc' = "manifest" => staging' \in Archive!Holdings)
      BY <3>1, <3>2
    <3>4. QED
      BY <3>2, <3>3
  <2>2. ArchiveVerifiedInv'
    BY <1>5 DEF Archive!MakeStaging
  <2>3. ArchiveStagingInv'
    BY <1>5 DEF Archive!MakeStaging
  <2>4. ArchiveOutputInv'
    BY <1>5 DEF Archive!MakeStaging
  <2>5. ArchiveOlderInv'
    BY <1>5 DEF Archive!MakeStaging
  <2>6. QED
    BY <2>1, <2>2, <2>3, <2>4, <2>5
<1>6. CASE Archive!CopyManifest
  BY <1>6 DEF Archive!CopyManifest
<1>7. CASE Archive!CopyRecords
  BY <1>7 DEF Archive!CopyRecords
<1>8. CASE Archive!TarReports
  <2>1. ArchiveTypeInv'
    BY <1>8 DEF Archive!TarReports
  <2>2. ArchiveVerifiedInv'
    BY <1>8 DEF Archive!TarReports
  <2>3. ArchiveStagingInv'
    <3>1. CASE pc' = "bundle"
      <4>1. /\ pc = "reports" /\ staging' = [staging EXCEPT !.layout = IF selected THEN layout ELSE 0]
            /\ UNCHANGED <<verified, drifted>> /\ staging \in Archive!Holdings
        BY <1>8, <3>1 DEF Archive!TarReports
      <4>2. staging'.checks = verified.checks /\ staging'.manifest = 1 /\ staging'.layout = (IF selected THEN layout ELSE 0)
        BY <4>1
      <4>3. verified.checks > 0 /\ ~drifted => verified.layout = layout /\ verified.layout \in {0, 1} /\ (selected <=> layout # 0)
        BY <4>1
      <4>4. ArchiveAsVerified(staging')
        BY <4>1, <4>2, <4>3
      <4>5. QED
        BY <3>1, <4>1, <4>2, <4>4
    <3>2. CASE pc' # "bundle"
      BY <1>8, <3>2 DEF Archive!TarReports
    <3>3. QED
      BY <3>1, <3>2
  <2>4. ArchiveOutputInv'
    BY <1>8 DEF Archive!TarReports
  <2>5. ArchiveOlderInv'
    BY <1>8 DEF Archive!TarReports
  <2>6. QED
    BY <2>1, <2>2, <2>3, <2>4, <2>5
<1>9. CASE Archive!WriteBundle
  BY <1>9 DEF Archive!WriteBundle
<1>10. CASE Archive!CheckBundle
  <2>1. ArchiveTypeInv'
    <3> HIDE DEF ArchiveVerifiedInv, ArchiveStagingInv, ArchiveAsVerified, ArchivePinned, ArchiveOutputInv, Archive!Archived,
             Archive!ReadersFilesSurvive, ArchiveOlderInv, Archive!OlderSurvives, Archive!Stands, Archive!Moved
    <3> QED
      BY <1>10 DEF Archive!CheckBundle, Archive!Packaged
  <2>2. ArchiveVerifiedInv'
    BY <1>10 DEF Archive!CheckBundle, Archive!Packaged
  <2>3. ArchiveStagingInv'
    BY <1>10 DEF Archive!CheckBundle, Archive!Packaged
  <2>4. ArchiveOutputInv'
    BY <1>10 DEF Archive!CheckBundle, Archive!Packaged
  <2>5. ArchiveOlderInv'
    BY <1>10 DEF Archive!CheckBundle, Archive!Packaged
  <2>6. QED
    BY <2>1, <2>2, <2>3, <2>4, <2>5
<1>11. CASE Archive!CopyUsers
  BY <1>11 DEF Archive!CopyUsers
<1>12. CASE Archive!MoveAway
  BY <1>12 DEF Archive!MoveAway
<1>13. CASE Archive!Place
  <2>1. CASE output = None /\ output' = Archive!Placed /\ staging' = None /\ Archive!Go("forget")
    <3>1. /\ staging \in Archive!Holdings /\ staging # None /\ staging.manifest = 1 /\ staging.users \in SUBSET Archive!Users
          /\ ArchivePinned(staging) /\ kept \ added \subseteq staging.users
      BY <1>13, <2>1 DEF Archive!Place
    <3>2. output' = [archive |-> staging, users |-> staging.users]
      BY <2>1 DEF Archive!Placed
    <3>3. staging # Archive!Older /\ output' \in Archive!Outputs /\ output' # None
      <4>1. staging # Archive!Older
        <5>1. Archive!Older.manifest = 3
          BY DEF Archive!Older
        <5>2. QED
          BY <3>1, <5>1
      <4> HIDE DEF Archive!Holdings, Archive!Users
      <4>2. output' \in Archive!Outputs
        BY <3>1, <3>2
      <4>3. QED
        BY <4>1, <4>2
    <3>4. Archive!Archived' /\ output'.archive = staging
      BY <3>1, <3>2, <3>3
    <3>5. UNCHANGED <<kept, added, drifted, older, verified, backup, layout, selected, outcome>>
      BY <1>13, <2>1 DEF Archive!Place
    <3>6. ArchiveTypeInv' /\ ArchiveVerifiedInv' /\ ArchiveStagingInv'
      BY <1>13, <2>1, <3>3 DEF Archive!Place
    <3>7. ArchiveOutputInv'
      BY <2>1, <3>1, <3>2, <3>4, <3>5
    <3>8. ArchiveOlderInv'
      <4>1. outcome' = None /\ None \notin {"refused", "unrestored", "listed"} /\ pc' = "forget"
        BY <1>13, <2>1 DEF Archive!Place
      <4>2. Archive!Archived'
        BY <3>4
      <4> HIDE DEF ArchiveInv, Archive!Archived
      <4>3. QED
        BY <4>1, <4>2
    <3>9. QED
      BY <3>6, <3>7, <3>8
  <2>2. CASE Archive!Go("back") /\ UNCHANGED <<output, staging>>
    BY <1>13, <2>2 DEF Archive!Place
  <2>3. QED
    BY <1>13, <2>1, <2>2 DEF Archive!Place
<1>14. CASE Archive!Restore
  BY <1>14 DEF Archive!Restore, Archive!PutBack
<1>15. CASE Archive!Forget
  BY <1>15 DEF Archive!Forget
<1>16. CASE Archive!Interrupt
  BY <1>16 DEF Archive!Interrupt
<1>17. CASE Archive!Disturb
  <2>1. UNCHANGED <<pc, output, staging, backup, verified, selected, older, kept, added, outcome>>
    BY <1>17 DEF Archive!Disturb, Archive!read
  <2>2. /\ layout' = layout \/ (layout' \in Nat /\ (pc = "verify" \/ drifted'))
        /\ drifted => drifted'
        /\ pc = "verify" => (drifted' <=> drifted)
        /\ drifted' \in BOOLEAN
    <3>1. CASE UNCHANGED <<layout, drifted>>
      BY <3>1
    <3>2. CASE layout' \in {0, 2} /\ drifted' = (drifted \/ pc # "verify")
      <4>1. layout' \in Nat
        BY <3>2
      <4>2. drifted' <=> drifted \/ pc # "verify"
        BY <3>2
      <4>3. drifted' \in BOOLEAN
        BY <3>2
      <4>4. QED
        BY <4>1, <4>2, <4>3
    <3>3. QED
      BY <1>17, <3>1, <3>2 DEF Archive!Disturb
  <2>3. ArchiveTypeInv'
    <3>1. original' \in Nat /\ staged' \in Nat /\ layout' \in Nat /\ checks' \in Nat /\ changes' \in Nat
      BY <1>17, <2>2 DEF Archive!Disturb
    <3>2. QED
      BY <2>1, <2>2, <3>1
  <2>4. ArchiveVerifiedInv'
    BY <2>1, <2>2
  <2>5. ArchiveStagingInv'
    BY <2>1, <2>2
  <2>6. ArchiveOutputInv'
    BY <2>1, <2>2
  <2>7. ArchiveOlderInv'
    BY <2>1
  <2>8. QED
    BY <2>3, <2>4, <2>5, <2>6, <2>7
<1>18. CASE Archive!AddLate
  <2>1. /\ output' # None /\ output' \in Archive!Outputs /\ Archive!Others \subseteq output'.users /\ "late" \in output'.users
        /\ output = None => output'.archive = None
        /\ output # None => output'.archive = output.archive
    <3>1. CASE output = None
      BY <1>18, <3>1 DEF Archive!AddLate
    <3>2. CASE output # None
      <4> HIDE DEF Archive!Holdings, Archive!Users
      <4>1. /\ output.users \cup {"late"} \in SUBSET Archive!Users /\ output.archive \in Archive!Holdings \cup {None}
            /\ output \in Archive!Outputs
        BY <3>2 DEF Archive!Users
      <4>2. output' = [archive |-> output.archive, users |-> output.users \cup {"late"}]
        BY <1>18, <3>2, <4>1 DEF Archive!AddLate
      <4>3. QED
        BY <3>2, <4>1, <4>2
    <3>3. QED
      BY <3>1, <3>2
  <2>2. kept' = kept \cup {"late"} /\ added \subseteq added' /\ (pc # "away" => added' = added)
    BY <1>18 DEF Archive!AddLate
  <2>3. UNCHANGED <<pc, staging, backup, verified, selected, drifted, older, outcome, layout>>
    BY <1>18 DEF Archive!AddLate
  <2>4. ArchiveTypeInv'
    BY <1>18, <2>1, <2>2 DEF Archive!AddLate
  <2>5. ArchiveVerifiedInv'
    BY <2>3
  <2>6. ArchiveStagingInv'
    BY <1>18, <2>1, <2>2, <2>3 DEF Archive!AddLate
  <2>7. Archive!Archived' => Archive!Archived
    BY <2>1
  <2>8. ArchiveOutputInv'
    BY <2>1, <2>2, <2>3, <2>7
  <2>9. ArchiveOlderInv'
    BY <2>1, <2>3, <2>7
  <2>10. QED
    BY <2>4, <2>5, <2>6, <2>8, <2>9
<1>19. CASE UNCHANGED Archive!vars
  BY <1>19 DEF Archive!vars
<1>20. QED
  BY <1>1, <1>2, <1>3, <1>4, <1>5, <1>6, <1>7, <1>8, <1>9, <1>10, <1>11, <1>12, <1>13,
     <1>14, <1>15, <1>16, <1>17, <1>18, <1>19 DEF Archive!Next

(* What is archived is pinned, and the reader's files and the older        *)
(* archive survive.                                                        *)
LEMMA ArchiveHolds ==
  ASSUME ArchiveInv
  PROVE  Archive!ArchiveIsThePinned /\ Archive!ReadersFilesSurvive /\ Archive!OlderSurvives
BY DEF ArchiveInv, ArchiveOutputInv, ArchiveOlderInv, ArchivePinned, ArchiveAsVerified,
   Archive!ArchiveIsThePinned

-----------------------------------------------------------------------------
(* External postchecks (phase4.check). Where the check is tells what has   *)
(* run, and what the record says has passed has run; a signal is in the    *)
(* cause or has escaped the handler until it decides the status.           *)

PostcheckBody == {"guard", "prepare", "bind", "probe", "clean", "noted", "precheck", "copy", "compile", "simulate"}

(* Where the check is tells what has run and whether anything went wrong.  *)
PostcheckPlaceInv ==
  /\ pc \in PostcheckBody \cup {"except", "finally", "over"}
  /\ rec \in Postcheck!PostcheckRecords /\ disk \in Postcheck!PostcheckRecords \cup {None}
  /\ cause \in {"none", "failed", "interrupted"} /\ escaping \in BOOLEAN /\ sent \in Nat
  /\ ran \subseteq {"precheck", "compile", "simulate"}
  /\ pc \in PostcheckBody => rec.status = "running" /\ rec.gate = "pending" /\ ~escaping /\ outcome = None
  /\ pc \in PostcheckBody \ {"clean"} => cause = "none"
  /\ pc = "clean" => probe \in {"ok", "failed"} /\ (cause # "none" => probe = "failed")
  /\ pc = "except" => ~escaping /\ outcome = None /\ (cause = "none" <=> rec.status # "running")
  /\ pc = "finally" => outcome = None /\ (rec.status # "running" \/ escaping)
  /\ pc # "over" => ~rec.ended

(* What the record says has run has run, in a run that simulates.          *)
PostcheckEarnedInv ==
  /\ pc \in {"probe", "clean", "noted", "precheck", "copy", "compile", "simulate"} => Postcheck!Simulates(origin)
  /\ rec.precheck = "pass" => "precheck" \in ran
  /\ pc = "simulate" => "compile" \in ran
  /\ rec.gate = "pass" => {"compile", "simulate"} \subseteq ran
  /\ rec.status = "completed" => rec.precheck = "pass" /\ rec.gate = "pass" /\ Postcheck!Simulates(origin)
  /\ disk # None /\ disk.status = "completed" => pc = "over"

(* A signal is in the cause, or has escaped the handler, or the call raised. *)
PostcheckSignalInv ==
  /\ pc # "over" /\ sent > 0 => cause # "none" \/ escaping
  /\ pc = "finally" /\ cause # "none" => rec.status = cause \/ escaping

PostcheckContainerInv == container = "running" => pc = "clean" \/ told

PostcheckInv == PostcheckPlaceInv /\ PostcheckEarnedInv /\ PostcheckSignalInv /\ PostcheckContainerInv /\ Postcheck!VerdictIsEarned

(* A check that has read nothing.                                          *)
LEMMA PostcheckStarts ==
  ASSUME Postcheck!NoneIsNew, Postcheck!Init
  PROVE  PostcheckInv
<1> USE DEF Postcheck!NoneIsNew, Postcheck!Init, Postcheck!PostcheckRecords
<1>1. PostcheckPlaceInv
  BY DEF PostcheckPlaceInv, PostcheckBody
<1>2. PostcheckEarnedInv
  BY DEF PostcheckEarnedInv
<1>3. PostcheckSignalInv /\ PostcheckContainerInv /\ Postcheck!VerdictIsEarned
  BY DEF PostcheckSignalInv, PostcheckContainerInv, Postcheck!VerdictIsEarned
<1>4. QED
  BY <1>1, <1>2, <1>3 DEF PostcheckInv

(* Every step of a check keeps its invariant.                              *)
LEMMA PostcheckKept ==
  ASSUME Postcheck!NoneIsNew, PostcheckInv, [Postcheck!Next]_(Postcheck!vars)
  PROVE  PostcheckInv'
<1> USE DEF Postcheck!NoneIsNew, PostcheckInv, Postcheck!PostcheckRecords, PostcheckBody,
         Postcheck!Raised, Postcheck!Raise, Postcheck!Leave, Postcheck!SaveThen, Postcheck!Heard,
         Postcheck!record, Postcheck!simulator, PostcheckPlaceInv, PostcheckEarnedInv,
         Postcheck!Simulates, PostcheckSignalInv, PostcheckContainerInv, Postcheck!VerdictIsEarned
<1>1. CASE Postcheck!Guard
  BY <1>1 DEF Postcheck!Guard
<1>2. CASE Postcheck!Prepare
  BY <1>2 DEF Postcheck!Prepare
<1>3. CASE Postcheck!Bind
  BY <1>3 DEF Postcheck!Bind
<1>4. CASE Postcheck!Probe
  BY <1>4 DEF Postcheck!Probe
<1>5. CASE Postcheck!Clean
  <2>1. PostcheckPlaceInv'
    BY <1>5 DEF Postcheck!Clean
  <2>2. PostcheckEarnedInv'
    BY <1>5 DEF Postcheck!Clean
  <2>3. PostcheckSignalInv'
    BY <1>5 DEF Postcheck!Clean
  <2>4. PostcheckContainerInv'
    BY <1>5 DEF Postcheck!Clean
  <2>5. Postcheck!VerdictIsEarned'
    BY <1>5 DEF Postcheck!Clean
  <2>6. QED
    BY <2>1, <2>2, <2>3, <2>4, <2>5
<1>6. CASE Postcheck!Note
  BY <1>6 DEF Postcheck!Note
<1>7. CASE Postcheck!Precheck
  BY <1>7 DEF Postcheck!Precheck
<1>8. CASE Postcheck!Copy
  BY <1>8 DEF Postcheck!Copy
<1>9. CASE Postcheck!Compile
  BY <1>9 DEF Postcheck!Compile, Postcheck!Conclude
<1>10. CASE Postcheck!Simulate
  <2>1. PostcheckPlaceInv'
    BY <1>10 DEF Postcheck!Simulate, Postcheck!Conclude
  <2>2. PostcheckEarnedInv'
    BY <1>10 DEF Postcheck!Simulate, Postcheck!Conclude
  <2>3. PostcheckSignalInv'
    BY <1>10 DEF Postcheck!Simulate, Postcheck!Conclude
  <2>4. PostcheckContainerInv'
    BY <1>10 DEF Postcheck!Simulate, Postcheck!Conclude
  <2>5. Postcheck!VerdictIsEarned'
    BY <1>10 DEF Postcheck!Simulate, Postcheck!Conclude
  <2>6. QED
    BY <2>1, <2>2, <2>3, <2>4, <2>5
<1>11. CASE Postcheck!Handle
  BY <1>11 DEF Postcheck!Handle
<1>12. CASE Postcheck!Settle
  <2>1. PostcheckPlaceInv'
    BY <1>12 DEF Postcheck!Settle, Postcheck!Code
  <2>2. PostcheckEarnedInv'
    BY <1>12 DEF Postcheck!Settle, Postcheck!Code
  <2>3. PostcheckSignalInv'
    BY <1>12 DEF Postcheck!Settle, Postcheck!Code
  <2>4. PostcheckContainerInv'
    BY <1>12 DEF Postcheck!Settle, Postcheck!Code
  <2>5. Postcheck!VerdictIsEarned'
    BY <1>12 DEF Postcheck!Settle, Postcheck!Code
  <2>6. QED
    BY <2>1, <2>2, <2>3, <2>4, <2>5
<1>13. CASE Postcheck!InterruptEarly
  BY <1>13 DEF Postcheck!InterruptEarly
<1>14. CASE Postcheck!InterruptBody
  BY <1>14 DEF Postcheck!InterruptBody
<1>15. CASE Postcheck!InterruptProbe
  BY <1>15 DEF Postcheck!InterruptProbe
<1>16. CASE Postcheck!InterruptClean
  BY <1>16 DEF Postcheck!InterruptClean
<1>17. CASE Postcheck!InterruptCommand
  BY <1>17 DEF Postcheck!InterruptCommand
<1>18. CASE Postcheck!InterruptHandler
  <2>1. PostcheckPlaceInv'
    BY <1>18 DEF Postcheck!InterruptHandler
  <2>2. PostcheckEarnedInv'
    BY <1>18 DEF Postcheck!InterruptHandler
  <2>3. PostcheckSignalInv'
    BY <1>18 DEF Postcheck!InterruptHandler
  <2>4. PostcheckContainerInv'
    BY <1>18 DEF Postcheck!InterruptHandler
  <2>5. Postcheck!VerdictIsEarned'
    BY <1>18 DEF Postcheck!InterruptHandler
  <2>6. QED
    BY <2>1, <2>2, <2>3, <2>4, <2>5
<1>19. CASE Postcheck!InterruptSettle
  <2>1. PostcheckPlaceInv'
    <3>1. [rec EXCEPT !.ended = TRUE] \in Postcheck!PostcheckRecords
      OBVIOUS
    <3>2. pc' = "over" /\ UNCHANGED <<rec, cause, escaping, ran>> /\ sent' = sent + 1
      BY <1>19 DEF Postcheck!InterruptSettle
    <3>3. disk' \in {disk, [rec EXCEPT !.ended = TRUE]}
      BY <1>19 DEF Postcheck!InterruptSettle
    <3>4. disk' \in Postcheck!PostcheckRecords \cup {None}
      BY <3>1, <3>3
    <3>5. QED
      BY <3>2, <3>4
  <2>2. PostcheckEarnedInv'
    BY <1>19 DEF Postcheck!InterruptSettle
  <2>3. PostcheckSignalInv'
    BY <1>19 DEF Postcheck!InterruptSettle
  <2>4. PostcheckContainerInv'
    BY <1>19 DEF Postcheck!InterruptSettle
  <2>5. Postcheck!VerdictIsEarned'
    BY <1>19 DEF Postcheck!InterruptSettle
  <2>6. QED
    BY <2>1, <2>2, <2>3, <2>4, <2>5
<1>20. CASE UNCHANGED Postcheck!vars
  BY <1>20 DEF Postcheck!vars
<1>21. QED
  BY <1>1, <1>2, <1>3, <1>4, <1>5, <1>6, <1>7, <1>8, <1>9, <1>10, <1>11, <1>12, <1>13,
     <1>14, <1>15, <1>16, <1>17, <1>18, <1>19, <1>20 DEF Postcheck!Next

(* A passing check was earned.                                             *)
LEMMA PostcheckHolds ==
  ASSUME PostcheckInv
  PROVE  Postcheck!VerdictIsEarned
BY DEF PostcheckInv

-----------------------------------------------------------------------------
(* Finalizations (finalization.finalize). The verdict is written once      *)
(* results are there, by the last call that can fail: a failure finds the  *)
(* receipt without one.                                                    *)

FinalizationBody == {"create", "allocated", "select", "validate", "adapt", "postcheck", "check", "recheck", "accept", "report", "conclude"}

(* What the receipt says at each place.                                    *)
FinalizationPlaceInv ==
  /\ pc \in FinalizationBody \cup {"restore", "except", "final", "over"}
  /\ accept \in BOOLEAN /\ rec \in Finalization!Receipts /\ disk \in Finalization!Receipts \cup {None}
  /\ cause \in {None, "failed", "interrupted"}
  /\ pc \in FinalizationBody \cup {"restore"} => cause = None
  /\ pc \in FinalizationBody => rec.status = "running"
  /\ pc = "except" => cause # None
  /\ pc = "final" /\ cause # None => rec.status = cause
  /\ pc # "over" => ~rec.ended /\ rec.exit = None /\ outcome = None

(* What it was given for that: a verdict is only reached with results, and *)
(* nothing fails once it is there.                                         *)
FinalizationVerdictInv ==
  /\ pc \in FinalizationBody \ {"conclude"} => rec.acceptance = "not_evaluated"
  /\ cause = "failed" => rec.acceptance = "not_evaluated"
  /\ pc \in {"accept", "report"} => accept
  /\ pc \in {"accept", "report", "conclude", "restore"} => rec.results
  /\ rec.acceptance = "pass" => accept /\ rec.external = "completed"
  /\ accept /\ pc \in {"conclude", "restore"} => rec.acceptance # "not_evaluated"
  /\ pc = "restore" \/ (pc = "final" /\ cause = None) =>
       /\ rec.status = IF rec.acceptance = "fail" THEN "failed" ELSE "completed"
       /\ rec.results /\ (accept => rec.acceptance # "not_evaluated")

FinalizationDiskInv ==
  /\ disk # None /\ disk.status # "running" => pc = "over"
  /\ Finalization!CompletionIsEarned

FinalizationInv == FinalizationPlaceInv /\ FinalizationVerdictInv /\ FinalizationDiskInv

(* A finalization without a receipt.                                       *)
LEMMA FinalizationStarts ==
  ASSUME Finalization!NoneIsNew, Finalization!Init
  PROVE  FinalizationInv
<1> USE DEF Finalization!NoneIsNew, Finalization!Init, Finalization!Receipts
<1>1. FinalizationPlaceInv
  BY DEF FinalizationPlaceInv, FinalizationBody
<1>2. FinalizationVerdictInv
  BY DEF FinalizationVerdictInv, FinalizationBody
<1>3. FinalizationDiskInv
  BY DEF FinalizationDiskInv, Finalization!CompletionIsEarned
<1>4. QED
  BY <1>1, <1>2, <1>3 DEF FinalizationInv

(* Every step of a finalization keeps its invariant.                       *)
LEMMA FinalizationKept ==
  ASSUME Finalization!NoneIsNew, FinalizationInv, [Finalization!Next]_(Finalization!vars)
  PROVE  FinalizationInv'
<1> USE DEF Finalization!NoneIsNew, FinalizationInv, Finalization!Receipts, FinalizationBody,
         Finalization!Raised, Finalization!Killed, Finalization!Raise, Finalization!Over,
         Finalization!Leave, Finalization!Proceed, Finalization!SaveThen, Finalization!Heard,
         Finalization!record, FinalizationPlaceInv, FinalizationVerdictInv,
         Finalization!CompletionIsEarned, Finalization!Decodes, Finalization!LateSignal,
         FinalizationDiskInv
<1>1. CASE Finalization!Create
  BY <1>1 DEF Finalization!Create
<1>2. CASE Finalization!Allocated
  BY <1>2 DEF Finalization!Allocated
<1>3. CASE Finalization!Select
  BY <1>3 DEF Finalization!Select
<1>4. CASE Finalization!RuntimeValidate
  BY <1>4 DEF Finalization!RuntimeValidate
<1>5. CASE Finalization!Adapt
  BY <1>5 DEF Finalization!Adapt
<1>6. CASE Finalization!EnterPostcheck
  <2>1. FinalizationPlaceInv'
    <3>1. rec' \in Finalization!Receipts
      BY <1>6 DEF Finalization!EnterPostcheck
    <3>2. QED
      BY <1>6, <3>1 DEF Finalization!EnterPostcheck
  <2>2. FinalizationVerdictInv'
    BY <1>6 DEF Finalization!EnterPostcheck
  <2>3. FinalizationDiskInv'
    <3>1. /\ disk' = disk \/ disk' = [rec EXCEPT !.phase = "external_postcheck", !.external = "running"]
          /\ UNCHANGED <<accept, outcome>> /\ pc = "postcheck" /\ cause' \in {cause, "failed"}
      BY <1>6 DEF Finalization!EnterPostcheck
    <3>2. disk' = disk \/ (disk'.status = "running" /\ ~disk'.ended /\ disk'.exit = None /\ disk'.acceptance = "not_evaluated")
      BY <3>1
    <3>3. QED
      BY <3>1, <3>2
  <2>4. QED
    BY <2>1, <2>2, <2>3
<1>7. CASE Finalization!Check
  BY <1>7 DEF Finalization!Check
<1>8. CASE Finalization!Recheck
  <2>1. FinalizationPlaceInv'
    <3>1. rec' \in Finalization!Receipts
      BY <1>8 DEF Finalization!Recheck
    <3>2. QED
      BY <1>8, <3>1 DEF Finalization!Recheck
  <2>2. FinalizationVerdictInv'
    BY <1>8 DEF Finalization!Recheck
  <2>3. FinalizationDiskInv'
    BY <1>8 DEF Finalization!Recheck
  <2>4. QED
    BY <2>1, <2>2, <2>3
<1>9. CASE Finalization!EnterAcceptance
  BY <1>9 DEF Finalization!EnterAcceptance
<1>10. CASE Finalization!Report
  BY <1>10 DEF Finalization!Report, Finalization!Verdicts
<1>11. CASE Finalization!Conclude
  BY <1>11 DEF Finalization!Conclude
<1>12. CASE Finalization!Restore
  BY <1>12 DEF Finalization!Restore
<1>13. CASE Finalization!Handle
  <2>1. FinalizationPlaceInv'
    <3>1. rec' \in Finalization!Receipts
      BY <1>13 DEF Finalization!Handle, Finalization!Settled
    <3>2. QED
      BY <1>13, <3>1 DEF Finalization!Handle, Finalization!Settled
  <2>2. FinalizationVerdictInv'
    BY <1>13 DEF Finalization!Handle, Finalization!Settled
  <2>3. FinalizationDiskInv'
    BY <1>13 DEF Finalization!Handle, Finalization!Settled
  <2>4. QED
    BY <2>1, <2>2, <2>3
<1>14. CASE Finalization!Final
  <2>1. FinalizationPlaceInv'
    <3>1. rec' \in Finalization!Receipts
      BY <1>14 DEF Finalization!Final, Finalization!ExitCode
    <3>2. pc' = "over" /\ disk' \in {disk, rec'} /\ UNCHANGED <<accept, cause>>
      BY <1>14 DEF Finalization!Final
    <3>3. QED
      BY <3>1, <3>2
  <2>2. FinalizationVerdictInv'
    BY <1>14 DEF Finalization!Final, Finalization!ExitCode
  <2>3. FinalizationDiskInv'
    <3>1. /\ pc = "final" /\ pc' = "over" /\ UNCHANGED <<accept, cause>>
          /\ \/ disk' = rec' /\ outcome' = rec'
             \/ UNCHANGED disk /\ outcome' = Finalization!Raised
      BY <1>14 DEF Finalization!Final
    <3>2. /\ rec'.ended /\ rec'.exit = Finalization!ExitCode /\ rec'.status = rec.status /\ rec'.acceptance = rec.acceptance
          /\ rec'.external = rec.external /\ rec'.results = rec.results
      BY <1>14 DEF Finalization!Final
    <3>3. Finalization!Decodes(rec)' \/ Finalization!LateSignal(rec')
      BY <3>1, <3>2 DEF Finalization!ExitCode
    <3>4. rec'.status = "completed" => rec'.results /\ cause' = None /\ (accept' => rec'.acceptance = "pass" /\ rec'.external = "completed")
      BY <3>1, <3>2
    <3>5. CASE disk' = rec' /\ outcome' = rec'
      BY <3>1, <3>2, <3>3, <3>4, <3>5
    <3>6. CASE UNCHANGED disk /\ outcome' = Finalization!Raised
      BY <3>1, <3>6
    <3>7. QED
      BY <3>1, <3>5, <3>6
  <2>4. QED
    BY <2>1, <2>2, <2>3
<1>15. CASE Finalization!Interrupt
  <2>1. FinalizationPlaceInv'
    <3>1. pc' = "except" /\ cause' = "interrupted" /\ disk' \in {disk, rec} /\ UNCHANGED <<accept, rec, outcome>>
      BY <1>15 DEF Finalization!Interrupt
    <3>2. pc \in FinalizationBody \cup {"restore"} /\ pc \notin {"create", "allocated"}
      BY <1>15 DEF Finalization!Interrupt, Finalization!Handlers
    <3>3. QED
      BY <3>1, <3>2
  <2>2. FinalizationVerdictInv'
    BY <1>15 DEF Finalization!Interrupt, Finalization!Handlers
  <2>3. FinalizationDiskInv'
    BY <1>15 DEF Finalization!Interrupt, Finalization!Handlers
  <2>4. QED
    BY <2>1, <2>2, <2>3
<1>16. CASE Finalization!InterruptCheck
  BY <1>16 DEF Finalization!InterruptCheck, Finalization!Handlers
<1>17. CASE Finalization!InterruptUnhandled
  BY <1>17 DEF Finalization!InterruptUnhandled, Finalization!Handlers
<1>18. CASE UNCHANGED Finalization!vars
  BY <1>18 DEF Finalization!vars
<1>19. QED
  BY <1>1, <1>2, <1>3, <1>4, <1>5, <1>6, <1>7, <1>8, <1>9, <1>10, <1>11, <1>12, <1>13,
     <1>14, <1>15, <1>16, <1>17, <1>18 DEF Finalization!Next

(* A completed finalization was earned.                                    *)
LEMMA FinalizationHolds ==
  ASSUME FinalizationInv
  PROVE  Finalization!CompletionIsEarned
BY DEF FinalizationInv, FinalizationDiskInv

-----------------------------------------------------------------------------
(* The execute command (cli, runner, ocaml_backend). What is ahead of the  *)
(* runner is untouched; behind it everything enabled is done, or the first *)
(* failure is what stopped it. A helper that runs is one somebody waits    *)
(* for or is about to kill, or a signal came right at its start, or three  *)
(* came: one for the wait, one for the kill, one for the wait after it.    *)

ExecuteActing == {"spawn", "install", "wait", "kill", "reap", "decode", "settle"}
ExecuteResting == {"unreached", "skipped"}

(* Where the runner is, and what its helper is then.                       *)
ExecutePlaceInv ==
  /\ pc \in ExecuteActing \cup {"contract", "next", "over"}
  /\ at \in 1..6 /\ (pc \in ExecuteActing => at <= 5)
  /\ occ \in [1..5 -> ExecuteResting \cup Execute!Statuses \cup {"running"}] /\ codes \in [1..5 -> Execute!Codes \cup {None}]
  /\ run \in Execute!Statuses \cup {None} /\ execution \in Execute!Codes /\ code \in Execute!Codes \cup {None}
  /\ stopped \in BOOLEAN /\ best \in BOOLEAN /\ early \in BOOLEAN /\ raised \in Nat
  /\ pc \in ExecuteActing => best = stopped

ExecuteHelperInv ==
  /\ child \in {"none", "running", "done"}
  /\ child = "running" => pc \in {"install", "wait", "kill", "reap"} \/ early \/ raised > 2
  /\ pc = "kill" => raised > 0
  /\ pc = "reap" /\ child = "running" => early \/ raised > 1
  /\ pc \in {"contract", "next", "spawn"} => child = "none"
  /\ pc = "decode" => child = "done"
  /\ pc \in {"install", "wait", "decode"} /\ child = "done" => code # None

(* What is ahead is untouched, what is behind of a plan that goes on is    *)
(* done, and what stopped it is its first failure.                         *)
ExecuteAheadInv ==
  /\ \A j \in 1..5 : j > at \/ (j = at /\ pc \in {"contract", "next"}) => occ[j] = "unreached" /\ codes[j] = None
  /\ pc \in ExecuteActing \ {"settle"} => occ[at] = "running" /\ codes[at] = None
  /\ pc = "settle" => codes[at] # None /\ (codes[at] = "zero" => occ[at] = "completed")

ExecuteBehindInv ==
  /\ stopped <=> execution # "zero"
  /\ ~stopped => \A j \in 1..5 : j < at => (Execute!Enabled(j) => occ[j] = "completed" /\ codes[j] = "zero") /\ ~Execute!Failed(j)
  /\ stopped => \E i \in 1..5 : i < at /\ codes[i] = execution /\ \A j \in 1..(i - 1) : ~Execute!Failed(j)

ExecuteVerdictInv ==
  /\ codes[4] = "zero" => verdict = "accepted"
  /\ Execute!GatesHold

ExecuteInv == ExecutePlaceInv /\ ExecuteHelperInv /\ ExecuteAheadInv /\ ExecuteBehindInv /\ ExecuteVerdictInv

(* The five actions, by number.                                            *)
LEMMA ExecuteOperationsInOrder ==
  ASSUME NEW i \in 1..5
  PROVE  /\ Execute!Operations[i] = "run" <=> i = 1
         /\ Execute!Operations[i] = "postcheck" <=> i = 2
         /\ Execute!Operations[i] = "collect" <=> i = 3
         /\ Execute!Operations[i] = "report" <=> i = 4
         /\ Execute!Operations[i] = "archive" <=> i = 5
BY DEF Execute!Operations

(* The end of an action: its result is settled, or it leaves the runner.   *)
ExecuteEnded(s, c) ==
  /\ s \in Execute!Statuses /\ c \in Execute!Codes /\ (c = "zero" => s = "completed")
  /\ \/ pc' = "over" /\ UNCHANGED <<occ, codes>>
     \/ pc' = "settle" /\ occ' = [occ EXCEPT ![at] = s] /\ codes' = [codes EXCEPT ![at] = c]
  /\ UNCHANGED <<args, at, best, stopped, execution, code>>
  /\ run' \in {run} \cup Execute!Statuses /\ early' \in BOOLEAN /\ raised' \in Nat
  /\ verdict' = verdict \/ at = 4
  /\ at = 4 /\ c = "zero" => verdict' = "accepted"

(* An action that ends, however it does, is settled or leaves the runner.  *)
LEMMA ExecuteEndsAreKept ==
  ASSUME Execute!NoneIsNew, ExecuteInv, pc \in ExecuteActing \ {"settle"}, NEW s, NEW c, ExecuteEnded(s, c)
  PROVE  ExecutePlaceInv' /\ ExecuteAheadInv' /\ ExecuteBehindInv' /\ ExecuteVerdictInv'
<1> USE DEF Execute!NoneIsNew, ExecuteInv, Execute!Codes, Execute!Statuses, ExecuteActing,
         ExecuteResting, ExecutePlaceInv, ExecuteEnded
<1>1. at \in 1..5 /\ occ[at] = "running" /\ codes[at] = None
  BY DEF ExecuteAheadInv
<1>2. ExecutePlaceInv'
  <2>1. occ' \in [1..5 -> ExecuteResting \cup Execute!Statuses \cup {"running"}] /\ codes' \in [1..5 -> Execute!Codes \cup {None}]
    BY <1>1
  <2>2. QED
    BY <2>1
<1>3. \A j \in 1..5 : j # at => occ'[j] = occ[j] /\ codes'[j] = codes[j]
  BY <1>1
<1>4. pc' = "settle" => occ'[at] = s /\ codes'[at] = c
  BY <1>1
<1>5. codes'[at] \in {None, c} /\ (codes'[at] = None => occ'[at] = occ[at])
  BY <1>1
<1>6. ExecuteAheadInv'
  BY <1>1, <1>3, <1>4 DEF ExecuteAheadInv
<1>7. ExecuteBehindInv'
  <2>1. \A j \in 1..5 : j < at => (Execute!Failed(j)' <=> Execute!Failed(j))
    BY <1>3 DEF Execute!Failed
  <2>2. \A j \in 1..5 : Execute!Enabled(j)' <=> Execute!Enabled(j)
    BY DEF Execute!Enabled
  <2>3. CASE stopped
    <3>1. PICK i \in 1..5 : i < at /\ codes[i] = execution /\ \A j \in 1..(i - 1) : ~Execute!Failed(j)
      BY <2>3 DEF ExecuteBehindInv
    <3>2. i < at' /\ codes'[i] = execution' /\ \A j \in 1..(i - 1) : ~Execute!Failed(j)'
      BY <1>3, <2>1, <3>1
    <3>3. QED
      BY <2>3, <3>2 DEF ExecuteBehindInv
  <2>4. CASE ~stopped
    BY <1>3, <2>1, <2>2, <2>4 DEF ExecuteBehindInv
  <2>5. QED
    BY <2>3, <2>4
<1>8. ExecuteVerdictInv'
  <2>1. codes'[4] = "zero" => verdict' = "accepted"
    BY <1>1, <1>3, <1>5 DEF ExecuteVerdictInv
  <2>2. occ'[5] \notin {"unreached", "skipped"} => verdict' = "accepted"
    <3>1. CASE at = 4
      BY <1>3, <3>1 DEF ExecuteAheadInv
    <3>2. CASE at = 5
      BY <1>1, <3>2 DEF ExecuteVerdictInv, Execute!GatesHold, ExecuteBehindInv, ExecuteAheadInv
    <3>3. CASE at \notin {4, 5}
      BY <1>3, <3>3 DEF ExecuteVerdictInv, Execute!GatesHold
    <3>4. QED
      BY <3>1, <3>2, <3>3
  <2>3. ASSUME NEW i \in 2..5, NEW j \in 1..4, j < i, Execute!Failed(j)', occ'[i] \notin {"unreached", "skipped"}
        PROVE  Execute!Operations[i] = "collect" /\ run' # None
    <3>1. i <= at
      BY <1>3, <2>3 DEF ExecuteAheadInv
    <3>2. Execute!Failed(j) /\ occ[i] \notin {"unreached", "skipped"}
      BY <1>1, <1>3, <2>3, <3>1 DEF Execute!Failed
    <3>3. QED
      BY <2>3, <3>2 DEF ExecuteVerdictInv, Execute!GatesHold
  <2>4. QED
    BY <2>1, <2>2, <2>3 DEF ExecuteVerdictInv, Execute!GatesHold
<1>9. QED
  BY <1>2, <1>6, <1>7, <1>8

(* A command that has not looked at its options.                           *)
LEMMA ExecuteStarts ==
  ASSUME Execute!NoneIsNew, Execute!Init
  PROVE  ExecuteInv
<1> USE DEF Execute!NoneIsNew, Execute!Init, Execute!Codes, Execute!Statuses, ExecuteActing,
         ExecuteResting
<1>1. ExecutePlaceInv
  <2>1. occ \in [1..5 -> ExecuteResting \cup Execute!Statuses \cup {"running"}] /\ codes \in [1..5 -> Execute!Codes \cup {None}]
    OBVIOUS
  <2>2. pc = "contract" /\ at = 1 /\ run = None /\ execution = "zero" /\ code = None /\ ~stopped /\ ~best /\ ~early
        /\ raised \in Nat /\ stopped \in BOOLEAN /\ best \in BOOLEAN /\ early \in BOOLEAN
    OBVIOUS
  <2> HIDE DEF Execute!Init
  <2>3. QED
    BY <2>1, <2>2 DEF ExecutePlaceInv
<1>2. ExecuteHelperInv /\ ExecuteAheadInv
  BY DEF ExecuteHelperInv, ExecuteAheadInv
<1>3. ExecuteBehindInv /\ ExecuteVerdictInv
  BY DEF ExecuteBehindInv, ExecuteVerdictInv, Execute!GatesHold, Execute!Failed
<1>4. QED
  BY <1>1, <1>2, <1>3 DEF ExecuteInv

(* Every step of a command keeps its invariant.                            *)
LEMMA ExecuteKept ==
  ASSUME Execute!NoneIsNew, ExecuteInv, [Execute!Next]_(Execute!vars)
  PROVE  ExecuteInv'
<1> USE DEF Execute!NoneIsNew, ExecuteInv, Execute!Codes, Execute!Statuses, ExecuteActing,
         ExecuteResting, Execute!Operation, Execute!Coded, Execute!plan, Execute!facts,
         Execute!aggregate, Execute!helper, Execute!signals, Execute!Heard, Execute!Enabled,
         Execute!RunAvailable, ExecutePlaceInv, ExecuteAheadInv, ExecuteHelperInv, Execute!Failed,
         ExecuteBehindInv, Execute!GatesHold, ExecuteVerdictInv
<1> USE ExecuteOperationsInOrder
<1>1. CASE Execute!Contract
  BY <1>1 DEF Execute!Contract, Execute!Exit
<1>2. CASE Execute!Begin
  BY <1>2 DEF Execute!Begin
<1>3. CASE Execute!Spawn
  <2>1. CASE Execute!Caught("failed", "two") /\ UNCHANGED <<child, heard>>
    <3>1. ExecuteEnded("failed", "two")
      BY <1>3, <2>1 DEF Execute!Spawn, Execute!Caught, Execute!Exit, ExecuteEnded
    <3>2. ExecuteHelperInv'
      BY <1>3, <2>1 DEF Execute!Spawn, Execute!Caught, Execute!Exit
    <3>3. pc \in ExecuteActing \ {"settle"}
      BY <1>3 DEF Execute!Spawn
    <3>4. QED
      BY <3>1, <3>2, <3>3, ExecuteEndsAreKept
  <2>2. CASE ~Execute!Caught("failed", "two")
    BY <1>3, <2>2 DEF Execute!Spawn
  <2>3. QED
    BY <1>3, <2>1, <2>2 DEF Execute!Spawn
<1>4. CASE Execute!Install
  BY <1>4 DEF Execute!Install
<1>5. CASE Execute!ChildEnds
  BY <1>5 DEF Execute!ChildEnds
<1>6. CASE Execute!Reap
  BY <1>6 DEF Execute!Reap
<1>7. CASE Execute!DecodeOutcome
  <2>1. pc = "decode" /\ at \in {1, 2} /\ code \in Execute!Codes
    BY <1>7 DEF Execute!DecodeOutcome
  <2>2. Execute!Status \in Execute!Statuses /\ (code = "zero" => Execute!Status = "completed")
    BY DEF Execute!Status
  <2>3. ExecuteEnded(Execute!Status, code) \/ ExecuteEnded("interrupted", "128+n") \/ ExecuteEnded("failed", "two")
    <3>1. CASE payload = "outcome"
      BY <1>7, <2>1, <2>2, <3>1 DEF Execute!DecodeOutcome, Execute!Result, ExecuteEnded
    <3>2. CASE payload # "outcome"
      BY <1>7, <2>1, <3>2 DEF Execute!DecodeOutcome, Execute!Caught, Execute!Exit, ExecuteEnded
    <3>3. QED
      BY <3>1, <3>2
  <2>4. ExecuteHelperInv'
    BY <1>7 DEF Execute!DecodeOutcome, Execute!Result, Execute!Caught, Execute!Exit
  <2>5. QED
    BY <2>1, <2>3, <2>4, ExecuteEndsAreKept
<1>8. CASE Execute!DecodeCode
  <2>1. pc = "decode" /\ at \in 3..5 /\ code \in Execute!Codes /\ child = "done"
    BY <1>8 DEF Execute!DecodeCode
  <2>2. Execute!Status \in Execute!Statuses /\ (code = "zero" => Execute!Status = "completed")
    BY DEF Execute!Status
  <2>3. UNCHANGED <<args, at, best, stopped, execution, code, run, early, raised, child>> /\ pc' \in {"settle", "over"}
    BY <1>8, <2>1 DEF Execute!DecodeCode, Execute!Result, Execute!Caught, Execute!Exit
  <2>4. CASE at = 3
    <3>1. (IF code = "zero" THEN Execute!Result("completed") ELSE Execute!Caught("failed", "two")) /\ UNCHANGED verdict
      BY <1>8, <2>4 DEF Execute!DecodeCode
    <3>2. ExecuteEnded("completed", code) \/ ExecuteEnded("failed", "two")
      BY <2>1, <2>3, <2>4, <3>1 DEF Execute!Result, Execute!Caught, ExecuteEnded
    <3>3. ExecuteHelperInv'
      BY <2>1, <2>3
    <3>4. QED
      BY <2>1, <3>2, <3>3, ExecuteEndsAreKept
  <2>5. CASE at = 4
    <3>1. Execute!Result("completed") /\ verdict' = Execute!Verdict(code)
      BY <1>8, <2>5 DEF Execute!DecodeCode
    <3>2. ExecuteEnded("completed", code)
      BY <2>1, <2>3, <2>5, <3>1 DEF Execute!Result, Execute!Verdict, ExecuteEnded
    <3>3. ExecuteHelperInv'
      BY <2>1, <2>3
    <3>4. QED
      BY <2>1, <3>2, <3>3, ExecuteEndsAreKept
  <2>6. CASE at = 5
    <3>1. Execute!Result(Execute!Status) /\ UNCHANGED verdict
      BY <1>8, <2>6 DEF Execute!DecodeCode
    <3>2. ExecuteEnded(Execute!Status, code)
      BY <2>1, <2>2, <2>3, <2>6, <3>1 DEF Execute!Result, ExecuteEnded
    <3>3. ExecuteHelperInv'
      BY <2>1, <2>3
    <3>4. QED
      BY <2>1, <3>2, <3>3, ExecuteEndsAreKept
  <2>7. QED
    BY <2>1, <2>4, <2>5, <2>6
<1>9. CASE Execute!Settle
  <2>1. ExecutePlaceInv'
    <3>1. /\ pc = "settle" /\ pc' = "next" /\ at' = at + 1 /\ UNCHANGED <<occ, codes, run, code, best>>
          /\ early' \in BOOLEAN /\ raised' \in Nat
      BY <1>9 DEF Execute!Settle
    <3>2. at' \in 1..6
      BY <3>1
    <3>3. at \in 1..5 /\ codes[at] \in Execute!Codes
      BY <3>1 DEF ExecuteAheadInv
    <3>4. (stopped' = TRUE /\ execution' = codes[at]) \/ (stopped' = stopped /\ execution' = execution)
      BY <1>9 DEF Execute!Settle, Execute!aggregate
    <3>5. execution' \in Execute!Codes /\ stopped' \in BOOLEAN
      BY <3>3, <3>4
    <3>6. (pc \in ExecuteActing => best = stopped)'
      BY <3>1
    <3>7. QED
      BY <3>1, <3>2, <3>5, <3>6
  <2>2. ExecuteHelperInv'
    BY <1>9 DEF Execute!Settle, Execute!Fails
  <2>3. ExecuteAheadInv'
    BY <1>9 DEF Execute!Settle, Execute!Fails
  <2>4. ExecuteBehindInv'
    BY <1>9 DEF Execute!Settle, Execute!Fails
  <2>5. ExecuteVerdictInv'
    BY <1>9 DEF Execute!Settle, Execute!Fails
  <2>6. QED
    BY <2>1, <2>2, <2>3, <2>4, <2>5
<1>10. CASE Execute!Report
  BY <1>10 DEF Execute!Report, Execute!Exit
<1>11. CASE Execute!Forward
  BY <1>11 DEF Execute!Forward
<1>12. CASE Execute!InterruptAction
  <2>1. pc \in ExecuteActing \ {"settle"} /\ early' \in BOOLEAN /\ raised' \in Nat
    BY <1>12 DEF Execute!InterruptAction, Execute!Leaves, Execute!CleansUp
  <2>2. /\ early => early'
        /\ pc = "install" => early'
        /\ raised' = raised + 1 /\ child' = child /\ code' = code
    BY <1>12 DEF Execute!InterruptAction
  <2>3. CASE Execute!Leaves
    <3>1. ExecuteEnded("interrupted", "128+n")
      BY <1>12, <2>1, <2>3 DEF Execute!InterruptAction, Execute!Leaves, Execute!Caught,
         Execute!Exit, ExecuteEnded
    <3>2. pc \in {"spawn", "install", "reap", "decode"} /\ pc' \in {"over", "settle"}
      BY <2>3 DEF Execute!Leaves, Execute!Caught, Execute!Exit
    <3>3. ExecuteHelperInv'
      <4> HIDE DEF ExecuteInv, ExecutePlaceInv, ExecuteAheadInv, ExecuteBehindInv, ExecuteVerdictInv
      <4>1. ExecuteHelperInv /\ raised \in Nat
        BY DEF ExecuteInv, ExecutePlaceInv
      <4>2. QED
        BY <2>2, <3>2, <4>1
    <3>4. QED
      BY <2>1, <3>1, <3>3, ExecuteEndsAreKept
  <2>4. CASE ~Execute!Leaves
    <3>1. Execute!CleansUp /\ UNCHANGED <<occ, codes, exit>>
      BY <1>12, <2>4 DEF Execute!InterruptAction
    <3>2. pc' \in {"kill", "reap"}
      BY <3>1 DEF Execute!CleansUp
    <3>3. ExecuteHelperInv'
      <4>1. (pc = "wait" /\ pc' = "kill") \/ (pc \in {"kill", "install"} /\ pc' = "reap")
        BY <3>1 DEF Execute!CleansUp
      <4> HIDE DEF ExecuteInv, ExecutePlaceInv, ExecuteAheadInv, ExecuteBehindInv, ExecuteVerdictInv
      <4>2. ExecuteHelperInv /\ raised \in Nat
        BY DEF ExecuteInv, ExecutePlaceInv
      <4>3. QED
        BY <2>2, <4>1, <4>2
    <3>4. ExecutePlaceInv' /\ ExecuteAheadInv' /\ ExecuteBehindInv' /\ ExecuteVerdictInv'
      BY <1>12, <2>1, <3>1, <3>2 DEF Execute!InterruptAction
    <3>5. QED
      BY <3>3, <3>4
  <2>5. QED
    BY <2>3, <2>4
<1>13. CASE Execute!InterruptRunner
  BY <1>13 DEF Execute!InterruptRunner, Execute!Exit
<1>14. CASE Execute!Kill
  BY <1>14 DEF Execute!Kill
<1>15. CASE Execute!Reaped
  <2>1. pc = "reap" /\ ExecuteEnded("interrupted", "128+n")
    BY <1>15 DEF Execute!Reaped, Execute!Caught, Execute!Exit, ExecuteEnded
  <2>2. ExecuteHelperInv'
    BY <1>15 DEF Execute!Reaped, Execute!Caught, Execute!Exit
  <2>3. QED
    BY <2>1, <2>2, ExecuteEndsAreKept
<1>16. CASE UNCHANGED Execute!vars
  BY <1>16 DEF Execute!vars
<1>17. QED
  BY <1>1, <1>2, <1>3, <1>4, <1>5, <1>6, <1>7, <1>8, <1>9, <1>10, <1>11, <1>12, <1>13,
     <1>14, <1>15, <1>16 DEF Execute!Next

(* The exit code was earned, the gates hold, and no helper is left but one *)
(* a signal came too early for, or the third of three.                     *)
LEMMA ExecuteHolds ==
  ASSUME Execute!NoneIsNew, ExecuteInv
  PROVE  Execute!ExitIsEarned /\ Execute!GatesHold /\ Execute!NoHelperLeft
<1>1. Execute!ExitIsEarned
  BY DEF ExecuteInv, ExecutePlaceInv, ExecuteBehindInv, Execute!ExitIsEarned
<1>2. QED
  BY <1>1 DEF ExecuteInv, ExecuteVerdictInv, ExecuteHelperInv, Execute!NoHelperLeft

-----------------------------------------------------------------------------
(* The parts together: `part' never changes, and of the one it names the   *)
(* part's own invariant holds.                                             *)
ProviderInv ==
  /\ part = "command" => CommandInv
  /\ part = "run" => RunInv
  /\ part = "checkpoint" => CheckpointInv
  /\ part = "segment" => SegmentInv
  /\ part = "runtime" => RuntimeInv
  /\ part = "python" => Python!IInv
  /\ part = "archive" => ArchiveInv
  /\ part = "plan" => PlanInv
  /\ part = "postcheck" => PostcheckInv
  /\ part = "finalization" => FinalizationInv
  /\ part = "execute" => ExecuteInv
  /\ part = "timing" => TimingInv
  /\ part = "physical" => PhysicalInv
  /\ part = "collection" => CollectionInv
  /\ part = "magic" => MagicInv
  /\ part = "observation" => ObservationInv

(* Each part starts with its own initial state.                            *)
LEMMA ProviderStart ==
  ASSUME Init
  PROVE  ProviderInv
<1>1. part = "command" => Command!Init
  BY DEF Init
<1>2. part = "run" => Run!Init
  BY DEF Init
<1>3. part = "checkpoint" => Checkpoint!Init
  BY DEF Init
<1>4. part = "segment" => Segment!Init
  BY DEF Init
<1>5. part = "runtime" => Runtime!Init
  BY DEF Init
<1>6. part = "python" => Python!Init
  BY DEF Init
<1>7. part = "archive" => Archive!Init
  BY DEF Init
<1>8. part = "plan" => Plan!Init
  BY DEF Init
<1>9. part = "postcheck" => Postcheck!Init
  BY DEF Init
<1>10. part = "finalization" => Finalization!Init
  BY DEF Init
<1>11. part = "execute" => Execute!Init
  BY DEF Init
<1>12. part = "timing" => Timing!Init
  BY DEF Init
<1>13. part = "physical" => Physical!Init
  BY DEF Init
<1>14. part = "collection" => Collection!Init
  BY DEF Init
<1>15. part = "magic" => Magic!Init
  BY DEF Init
<1>16. part = "observation" => Watched!Init
  BY DEF Init
<1>17. QED
  BY <1>1, <1>2, <1>3, <1>4, <1>5, <1>6, <1>7, <1>8, <1>9, <1>10, <1>11, <1>12, <1>13, <1>14,
     <1>15, <1>16, CommandStarts, RunStarts, CheckpointStarts, SegmentStarts, RuntimeStarts,
     PythonStarts, ArchiveStarts, PlanStarts, PostcheckStarts, FinalizationStarts,
     ExecuteStarts, TimingStarts, PhysicalStarts, CollectionStarts, MagicStarts,
     ObservationStarts, NoneIsNoDirectory, NoneIsNoCandidate, NoneIsNoContent, NoneIsNoProcess,
     NoneIsNoHolding, NoneIsNoRecord, NoneIsNoReceipt, NoneIsNoOutcome, NoneIsNoCorner,
     CornersAreCounted, NoneIsNoLook, NoneIsNoDecision, NoneIsNoPhase, StagesAreCounted DEF
     ProviderInv

(* A step of the whole is a step of its part, or leaves that alone.        *)
LEMMA ProviderStep ==
  ASSUME ProviderInv, [Next]_vars
  PROVE  ProviderInv' /\ part' = part
<1>1. part' = part
  BY DEF Next, vars
<1>2. part = "command" => CommandInv'
  <2>1. part = "command" => [Command!Next]_(Command!vars)
    BY DEF Next, vars, Command!vars, commandVars
  <2>2. QED
    BY <2>1, CommandKept DEF ProviderInv
<1>3. part = "run" => RunInv'
  <2>1. part = "run" => [Run!Next]_(Run!vars)
    BY DEF Next, vars, Run!vars, runVars
  <2>2. QED
    BY <2>1, RunKept DEF ProviderInv
<1>4. part = "checkpoint" => CheckpointInv'
  <2>1. part = "checkpoint" => [Checkpoint!Next]_(Checkpoint!vars)
    BY DEF Next, vars, Checkpoint!vars, checkpointVars
  <2>2. QED
    BY <2>1, NoneIsNoDirectory, CheckpointKept DEF ProviderInv
<1>5. part = "segment" => SegmentInv'
  <2>1. part = "segment" => [Segment!Next]_(Segment!vars)
    BY DEF Next, vars, Segment!vars, segmentVars
  <2>2. QED
    BY <2>1, NoneIsNoCandidate, SegmentKept DEF ProviderInv
<1>6. part = "runtime" => RuntimeInv'
  <2>1. part = "runtime" => [Runtime!Next]_(Runtime!vars)
    BY DEF Next, vars, Runtime!vars, runtimeVars
  <2>2. QED
    BY <2>1, NoneIsNoContent, RuntimeKept DEF ProviderInv
<1>7. part = "python" => Python!IInv'
  <2>1. part = "python" => [Python!Next]_(Python!vars)
    BY DEF Next, vars, Python!vars, pythonVars
  <2>2. QED
    BY <2>1, NoneIsNoProcess, PythonKept DEF ProviderInv
<1>8. part = "archive" => ArchiveInv'
  <2>1. part = "archive" => [Archive!Next]_(Archive!vars)
    BY DEF Next, vars, Archive!vars, archiveVars
  <2>2. QED
    BY <2>1, NoneIsNoHolding, ArchiveKept DEF ProviderInv
<1>9. part = "plan" => PlanInv'
  <2>1. part = "plan" => [Plan!Next]_(Plan!vars)
    BY DEF Next, vars, Plan!vars, planVars
  <2>2. QED
    BY <2>1, NoneIsNoStage, PlanKept DEF ProviderInv
<1>10. part = "postcheck" => PostcheckInv'
  <2>1. part = "postcheck" => [Postcheck!Next]_(Postcheck!vars)
    BY DEF Next, vars, Postcheck!vars, postcheckVars
  <2>2. QED
    BY <2>1, NoneIsNoRecord, PostcheckKept DEF ProviderInv
<1>11. part = "finalization" => FinalizationInv'
  <2>1. part = "finalization" => [Finalization!Next]_(Finalization!vars)
    BY DEF Next, vars, Finalization!vars, finalizationVars
  <2>2. QED
    BY <2>1, NoneIsNoReceipt, FinalizationKept DEF ProviderInv
<1>12. part = "execute" => ExecuteInv'
  <2>1. part = "execute" => [Execute!Next]_(Execute!vars)
    BY DEF Next, vars, Execute!vars, executeVars
  <2>2. QED
    BY <2>1, NoneIsNoOutcome, ExecuteKept DEF ProviderInv
<1>13. part = "timing" => TimingInv'
  <2>1. part = "timing" => [Timing!Next]_(Timing!vars)
    BY DEF Next, vars, Timing!vars, timingVars
  <2>2. QED
    BY <2>1, NoneIsNoCorner, CornersAreCounted, TimingKept DEF ProviderInv
<1>14. part = "physical" => PhysicalInv'
  <2>1. part = "physical" => [Physical!Next]_(Physical!vars)
    BY DEF Next, vars, Physical!vars, physicalVars
  <2>2. QED
    BY <2>1, NoneIsNoLook, PhysicalKept DEF ProviderInv
<1>15. part = "collection" => CollectionInv'
  <2>1. part = "collection" => [Collection!Next]_(Collection!vars)
    BY DEF Next, vars, Collection!vars, collectionVars
  <2>2. QED
    BY <2>1, NoneIsNoNumber, CollectionKept DEF ProviderInv
<1>16. part = "magic" => MagicInv'
  <2>1. part = "magic" => [Magic!Next]_(Magic!vars)
    BY DEF Next, vars, Magic!vars, magicVars
  <2>2. QED
    BY <2>1, NoneIsNoDecision, MagicKept DEF ProviderInv
<1>17. part = "observation" => ObservationInv'
  <2>1. part = "observation" => [Watched!Next]_(Watched!vars)
    BY DEF Next, vars, Watched!vars, observationVars
  <2>2. QED
    BY <2>1, NoneIsNoPhase, StagesAreCounted, ObservationKept DEF ProviderInv
<1>18. QED
  BY <1>1, <1>2, <1>3, <1>4, <1>5, <1>6, <1>7, <1>8, <1>9, <1>10, <1>11, <1>12, <1>13, <1>14,
     <1>15, <1>16, <1>17 DEF ProviderInv

(* Each part keeps its own inductive invariant in the composed provider,   *)
(* which runs one of them on its own.                                      *)
THEOREM ProviderInvariance == Spec => []ProviderInv
<1>1. Init => ProviderInv
  BY ProviderStart
<1>2. ProviderInv /\ [Next]_vars => ProviderInv'
  BY ProviderStep
<1>3. QED
  BY <1>1, <1>2, PTL DEF Spec

(* A command that has ended leaves no process and no container of its own  *)
(* while the daemon answers, and returns the tool's own code, wherever     *)
(* signals, timeouts and failed removals fall (phase4.run_logged).         *)
THEOREM CommandsAlwaysLeaveNothing == Spec => []CommandsLeaveNothing
<1>1. ProviderInv => CommandsLeaveNothing
  BY CommandHolds DEF ProviderInv, CommandsLeaveNothing
<1>2. QED
  BY <1>1, ProviderInvariance, PTL

(* A run's exit code, record and report agree however it ends, and a       *)
(* completed one saw one version of the manifest throughout (phase4.run).  *)
THEOREM RunsAreAlwaysRecorded == Spec => []RunsAreRecorded
<1>1. ProviderInv => RunsAreRecorded
  BY RunHolds DEF ProviderInv, RunsAreRecorded
<1>2. QED
  BY <1>1, ProviderInvariance, PTL

(* A checkpoint that a reader accepts was cleared as it stands, and a      *)
(* publication that raised leaves none that anybody was told of            *)
(* (checkpoint.publish).                                                   *)
THEOREM CheckpointsAreAlwaysWhole == Spec => []CheckpointsAreWhole
<1>1. ProviderInv => CheckpointsAreWhole
  BY NoneIsNoDirectory, CheckpointHolds DEF ProviderInv, CheckpointsAreWhole
<1>2. QED
  BY <1>1, ProviderInvariance, PTL

(* What is launched is the image that was probed and admitted, with the    *)
(* flags that were found to work, wherever the tag went, on the engine     *)
(* that was judged, unless it changed after it was verified for this       *)
(* launch (stages.launch).                                                 *)
THEOREM LaunchesAreAlwaysJudged == Spec => []LaunchedAsJudged
<1>1. ProviderInv => LaunchedAsJudged
  BY NoneIsNoContent, RuntimeHolds DEF ProviderInv, LaunchedAsJudged
<1>2. QED
  BY <1>1, ProviderInvariance, PTL

(* "Ready" is said only of the pinned interpreter, probed where it stands, *)
(* whoever else works on the root, is killed or writes to it, unless the   *)
(* cache was rewritten (managed_python.acquire, inspect).                  *)
THEOREM ReadyIsAlwaysThePin == Spec => []ReadyIsThePin
<1>1. ProviderInv => ReadyIsThePin
  BY PythonHolds DEF ProviderInv, ReadyIsThePin
<1>2. QED
  BY <1>1, ProviderInvariance, PTL

(* An archive at the output is whole and holds the manifest and bundle the *)
(* run pinned, and of the layout what was verified unless it changed after *)
(* that. The older archive and the reader's files survive every failure    *)
(* and every death of the archiver, but for a file that came after the     *)
(* listing and before the rename of a publication that succeeds            *)
(* (archive.archive).                                                      *)
THEOREM ArchivesAreAlwaysThePinned == Spec => []ArchivesAreThePinned
<1>1. ProviderInv => ArchivesAreThePinned
  BY ArchiveHolds DEF ProviderInv, ArchivesAreThePinned
<1>2. QED
  BY <1>1, ProviderInvariance, PTL

(* A postcheck that passes had its verdict earned by what ran, and no      *)
(* signal fell into it; a finalization that completed has results, and the *)
(* acceptance it was asked for (phase4.check, finalization.finalize).      *)
THEOREM VerdictsAreAlwaysEarned == Spec => []VerdictsAreEarned
<1>1. ProviderInv => VerdictsAreEarned
  BY PostcheckHolds, FinalizationHolds DEF ProviderInv, VerdictsAreEarned
<1>2. QED
  BY <1>1, ProviderInvariance, PTL

(* The metadata of a published segment is what was answered for unless it  *)
(* changed while it was copied, its views those the candidate was written  *)
(* with unless others wrote to them; a chain is of one closure unless that *)
(* metadata was rewritten; and no plan that is accepted skips a stage or   *)
(* is refused by a gate after it (stages.run_segment, librelane_bridge,    *)
(* execution_plan).                                                        *)
THEOREM SegmentsAreAlwaysOneClosure == Spec => []SegmentsAreOneClosure
<1>1. ProviderInv => SegmentsAreOneClosure
  BY SegmentHolds, PlanHolds, NoneIsNoStage DEF ProviderInv, SegmentsAreOneClosure
<1>2. QED
  BY <1>1, ProviderInvariance, PTL

(* The exit code of an execution is earned by its actions, its gates hold, *)
(* and its helpers are gone, unless a signal came right at a helper's      *)
(* start or three came while it ran (cli, runner, ocaml_backend).          *)
THEOREM ExitsAreAlwaysEarned == Spec => []ExitsAreEarned
<1>1. ProviderInv => ExitsAreEarned
  BY ExecuteHolds, NoneIsNoOutcome DEF ProviderInv, ExitsAreEarned
<1>2. QED
  BY <1>1, ProviderInvariance, PTL

(* The journal tells of a run what its checkpoints and its verdict are, an *)
(* exception is recorded in it unless it fell between a record and its     *)
(* notice, no record is written over another, and a watch ends with the    *)
(* last one (flow_observation).                                            *)
THEOREM JournalsAlwaysTellTheRun == Spec => []JournalsTellTheRun
<1>1. ProviderInv => JournalsTellTheRun
  BY ObservationHolds DEF ProviderInv, JournalsTellTheRun
<1>2. QED
  BY <1>1, ProviderInvariance, PTL

(* A layout is accepted for the stock abstract's own findings alone, its   *)
(* evidence is of one file, and it is replayed with the models that were   *)
(* recorded (physical_runtime).                                            *)
THEOREM LayoutsAreAlwaysJudged == Spec => []LayoutsAreJudged
<1>1. ProviderInv => LayoutsAreJudged
  BY MagicHolds, PhysicalHolds, NoneIsNoDecision, NoneIsNoLook DEF ProviderInv, LayoutsAreJudged
<1>2. QED
  BY <1>1, ProviderInvariance, PTL

(* A completed timing analysis is of every corner, from intent and         *)
(* physical files that were retained, and a report passes only what was    *)
(* collected of a clean run (timing_physical_runtime, report).             *)
THEOREM AnalysesAreAlwaysWhole == Spec => []AnalysesAreWhole
<1>1. ProviderInv => AnalysesAreWhole
  BY TimingHolds, CollectionHolds, NoneIsNoCorner, CornersAreCounted DEF ProviderInv, AnalysesAreWhole
<1>2. QED
  BY <1>1, ProviderInvariance, PTL

(* A generation is never replaced and a receipt never taken back           *)
(* (managed_python.acquire).                                               *)
THEOREM GenerationsAreAlwaysKept == Spec => GenerationsAreKept
<1>1. ProviderInv /\ [Next]_vars => [part = "python" => Python!KeepsGenerations]_vars
  <2> SUFFICES ASSUME ProviderInv, Next, part = "python"
               PROVE  Python!KeepsGenerations
    OBVIOUS
  <2>1. Python!Next
    BY DEF Next
  <2>2. QED
    BY <2>1, NoneIsNoProcess, PythonKeeps DEF ProviderInv
<1>2. QED
  BY <1>1, ProviderInvariance, PTL DEF Spec, GenerationsAreKept
=============================================================================
