--------------------------- MODULE AttemptProofs ---------------------------
(***************************************************************************)
(* Proofs about the runner, for every checked plan, named or not, however  *)
(* its callbacks, polls, hooks and saves fail, and in whatever state the   *)
(* process dies; and about the two attempts it drives: the stages of       *)
(* StageAttempt and the five actions of CoarseExecution.  Each step of     *)
(* either is a step of the runner, or leaves the runner alone, so all that *)
(* is said of the runner's steps holds of both; what their own plans make  *)
(* of it, and what they add to the runner, is proved after it.             *)
(***************************************************************************)
EXTENDS StageAttempt, CoarseExecution, TLAPS

(* The places of the loop body, by what is known there of the occurrence.  *)
Waiting == {"poll", "begin"}
Running == {"started", "announce", "invoke", "pollAfter", "publish", "retain", "published",
            "record", "pollPublished", "stop"}
Ended == {"finished", "observe", "saveStep"}
Inside == Waiting \cup Running \cup Ended
Before == {"intent", "validate", "initial"}
After == {"final", "returned"}

(* Where the loop stands.                                                  *)
PlaceInv ==
  /\ pc \in Before => cur = 0
  /\ pc \in Inside => cur # 0
  /\ pc \in Inside => Plan[cur].enabled
  /\ pc \in After => cur = N

(* As long as no error decided the attempt there is none at all, nothing   *)
(* ran as best effort, and everything so far completed.                    *)
DiagnosisInv ==
  /\ primary # None => status \in {"failed", "interrupted", "rejected"}
  /\ primary = None =>
       /\ secondary = <<>>
       /\ ~cancelled
       /\ local = None
       /\ status = IF pc \in After THEN "completed" ELSE "running"
       /\ \A j \in 1..N : ~best[j]
       /\ \A j \in 1..N : Plan[j].enabled /\ (j < cur \/ (j = cur /\ pc \notin Inside)) =>
            occ[j] = "completed"
  /\ cancelled => \E d \in Errors : d.point = "cancel"

(* What is ahead is untouched, what is behind has ended.                   *)
OccurrenceInv ==
  /\ \A j \in 1..N : Plan[j].enabled <=> occ[j] # "skipped"
  /\ \A j \in 1..N : j > cur =>
       occ[j] \in {"unreached", "skipped"} /\ ~best[j]
  /\ \A j \in 1..N : occ[j] = "running" => j = cur /\ pc \in Running
  /\ \A j \in 1..N : handed[j] # None =>
       j <= cur /\ occ[j] \notin {"unreached", "skipped"}
  /\ pc \in Waiting => occ[cur] = "unreached"
  /\ pc \in Running => occ[cur] = "running"
  /\ pc \in Ended => occ[cur] \in Terminal

(* An action without an error of its own has a clean completion once its   *)
(* callback returned, and that completion fits its operation.              *)
CompletionInv ==
  /\ pc \in Inside => completion \in Completions \cup {None}
  /\ pc \in Inside /\ local = "rejected" => completion = "rejected"
  /\ pc \in Waiting \cup {"started", "announce", "invoke"} => completion = None
  /\ pc \in {"poll", "begin", "invoke", "publish"} => local = None
  /\ pc \in {"pollAfter", "publish", "retain", "published", "record", "pollPublished", "stop",
             "finished", "observe", "saveStep"} /\ local = None => completion \in Clean
  /\ pc = "saveStep" => occ[cur] = Occurrence(Shown(local, completion))

(* Published and recorded segments.                                        *)
ArtifactInv ==
  /\ \A j \in Done(artifacts) : j <= cur
  /\ pc \in {"retain", "published", "record", "pollPublished"} => cur \in Done(artifacts)
  /\ pc \in {"stop"} \cup Ended /\ local = None /\ Plan[cur].op = "segment" =>
       cur \in Done(artifacts)
  /\ \A j \in 1..N : Plan[j].op = "segment" /\ occ[j] = "completed" => j \in Done(artifacts)
  /\ announced \subseteq Done(artifacts)

(* The record on disk against the attempt.                                 *)
SavedInv ==
  /\ DiskNeverOverclaims
  /\ AnnouncedBeforeWork
  /\ RetainedBeforeHook
  /\ pc = "invoke" => saved # None /\ saved.occ[cur] # "unreached"
  /\ pc = "published" /\ Named => saved # None /\ cur \in Done(saved.artifacts)
  /\ pc = "returned" /\ status = "completed" => saved = Snapshot

(* Errors belong to actions in order, and the steps tell of them.          *)
StepsInv ==
  /\ \A d \in Errors : d.at <= cur
  /\ pc \in Inside => (local = None <=> \A d \in Errors : d.at # cur)
  /\ \A k \in DOMAIN steps : steps[k].at <= cur /\ (steps[k].at = cur => pc \notin Inside \ {"saveStep"})
  /\ \A k, l \in DOMAIN steps : k < l => steps[k].at < steps[l].at
  /\ pc = "saveStep" => steps # <<>> /\ steps[Len(steps)].at = cur
  /\ \A k \in DOMAIN steps :
       /\ steps[k].status \in Clean <=> \A d \in Errors : d.at # steps[k].at
       /\ occ[steps[k].at] = Occurrence(steps[k].status)

(* What has to hold to start is known from NextAction on.                  *)
WorkInv ==
  /\ pc \in Waiting \cup {"started", "announce", "invoke"} /\ local = None =>
       /\ ~cancelled
       /\ primary # None => best[cur] /\ Plan[cur].gate = "run_available" /\ run
  /\ \A j \in 1..N : handed[j] # None /\ ~best[j] =>
       \A r \in Plan[j].requires : Plan[r].enabled => occ[r] = "completed"

IInv ==
  /\ TypeOK /\ PlaceInv /\ DiagnosisInv /\ OccurrenceInv /\ CompletionInv
  /\ ArtifactInv /\ SavedInv /\ StepsInv /\ WorkInv

-----------------------------------------------------------------------------
(* Sequences: what Append does to the set of elements.                     *)
LEMMA AppendAdds ==
  ASSUME NEW S, NEW s \in Seq(S), NEW x \in S
  PROVE  Done(Append(s, x)) = Done(s) \cup {x}
<1>1. /\ DOMAIN Append(s, x) = 1..(Len(s) + 1) /\ DOMAIN s = 1..Len(s) /\ Len(s) \in Nat
      /\ Append(s, x)[Len(s) + 1] = x
      /\ \A k \in 1..Len(s) : Append(s, x)[k] = s[k]
  OBVIOUS
<1>2. QED
  BY <1>1 DEF Done

LEMMA LastOf ==
  ASSUME NEW S, NEW s \in Seq(S), s # <<>>
  PROVE  /\ Len(s) \in 1..Len(s) /\ s[Len(s)] \in S
         /\ \A x \in S : [s EXCEPT ![Len(s)] = x] \in Seq(S)
<1>1. Len(s) \in 1..Len(s)
  OBVIOUS
<1>2. \A k \in 1..Len(s) : s[k] \in S
  OBVIOUS
<1>3. \A x \in S : [s EXCEPT ![Len(s)] = x] \in Seq(S)
  BY <1>1
<1>4. QED
  BY <1>1, <1>2, <1>3

-----------------------------------------------------------------------------
(* The plan as the provers need it.                                        *)
LEMMA PlanFacts ==
  /\ N \in Nat \ {0}
  /\ \A j \in 1..N : /\ Plan[j].op \in Operations
                     /\ Plan[j].enabled \in BOOLEAN
                     /\ Plan[j].gate \in Gates
                     /\ Plan[j].requires \subseteq 1..(j - 1)
<1>1. Plan \in Seq(Actions) /\ N > 0 /\ \A j \in DOMAIN Plan : Plan[j].requires \subseteq 1..(j - 1)
  BY PlanIsChecked DEF PlanOK
<1>2. N \in Nat /\ DOMAIN Plan = 1..N /\ \A j \in 1..N : Plan[j] \in Actions
  BY <1>1 DEF N
<1>3. QED
  BY <1>1, <1>2 DEF Actions

(* An error is recorded once, as the deciding one or behind it.            *)
LEMMA RecordFacts ==
  ASSUME TypeOK, NEW point \in Points, NEW kind \in Kinds, NEW shown, NEW b \in BOOLEAN,
         Record(point, kind, shown, b)
  PROVE  /\ Diagnostic(point, kind) \in Diagnostics
         /\ primary' \in Diagnostics \cup {None}
         /\ secondary' \in Seq(Diagnostics)
         /\ cancelled' = (cancelled \/ Vetoes(point, kind)) /\ cancelled' \in BOOLEAN
         /\ Errors' = Errors \cup {Diagnostic(point, kind)}
         /\ primary = None /\ ~b => primary' # None /\ status' = shown
         /\ primary # None \/ b => primary' = primary /\ status' = status
<1>1. Diagnostic(point, kind) \in Diagnostics
  BY PlanFacts DEF TypeOK, Diagnostic, Diagnostics, Key
<1>2. Diagnostic(point, kind) # None
  BY <1>1, NoneIsNew
<1>3. cancelled' = (cancelled \/ Vetoes(point, kind)) /\ cancelled' \in BOOLEAN
  BY DEF Record, Vetoes, TypeOK
<1>4. CASE Decides(b)
  <2>1. primary = None /\ ~b /\ primary' = Diagnostic(point, kind) /\ status' = shown
        /\ secondary' = secondary
    BY <1>4 DEF Record, Decides
  <2>2. Errors' = Errors \cup {Diagnostic(point, kind)}
    BY <2>1, <1>2 DEF Errors
  <2>3. QED
    BY <1>1, <1>2, <1>3, <2>1, <2>2 DEF TypeOK
<1>5. CASE ~Decides(b)
  <2>1. /\ primary # None \/ b
        /\ primary' = primary /\ status' = status
        /\ secondary' = Append(secondary, Diagnostic(point, kind))
    BY <1>5 DEF Record, Decides
  <2>2. secondary \in Seq(Diagnostics)
    BY DEF TypeOK
  <2>3. secondary' \in Seq(Diagnostics)
    BY <1>1, <2>1, <2>2
  <2>4. Done(secondary') = Done(secondary) \cup {Diagnostic(point, kind)}
    BY <1>1, <2>1, <2>2, AppendAdds
  <2>5. QED
    BY <1>1, <1>2, <1>3, <2>1, <2>3, <2>4 DEF TypeOK, Errors
<1>6. QED
  BY <1>4, <1>5

(* What a step may do to the diagnosis: nothing, or record one error, and  *)
(* once one decided the attempt, it decided.                               *)
Diagnosed(point) ==
  /\ primary' \in Diagnostics \cup {None}
  /\ secondary' \in Seq(Diagnostics)
  /\ cancelled' \in BOOLEAN
  /\ status' \in Terminal \cup {"running", "rejected"}
  /\ primary # None => primary' = primary /\ status' = status
  /\ primary = None /\ primary' # None => status' \in {"failed", "interrupted", "rejected"}
  /\ primary' = None => UNCHANGED diagnosis
  /\ \/ Errors' = Errors /\ UNCHANGED diagnosis
     \/ \E d \in Diagnostics : /\ d.at = Key /\ d.point = point /\ Errors' = Errors \cup {d}
                               /\ cancelled' => cancelled \/ point = "cancel"

(* And the same of a protected step of an action, whose error is the       *)
(* action's own if it is the first.                                        *)
Noticed(point) ==
  /\ Diagnosed(point)
  /\ local' \in {"failed", "interrupted", "rejected", None}
  /\ local # None => local' = local
  /\ local' = "rejected" => local = "rejected" \/ point = "invoke"
  /\ local = None /\ local' = None => UNCHANGED diagnosis /\ Errors' = Errors
  /\ local = None /\ local' # None =>
       \E d \in Diagnostics : d.at = cur /\ d.point = point /\ Errors' = Errors \cup {d}

LEMMA Unchanging ==
  ASSUME TypeOK, UNCHANGED diagnosis, NEW point
  PROVE  Diagnosed(point) /\ Errors' = Errors
  BY DEF TypeOK, diagnosis, Diagnosed, Errors, Done

LEMMA RecordIsDiagnosed ==
  ASSUME TypeOK, DiagnosisInv, NEW point \in Points, NEW kind \in Kinds,
         NEW shown \in {"failed", "interrupted", "rejected"}, NEW b \in BOOLEAN,
         primary = None => ~b, Record(point, kind, shown, b)
  PROVE  /\ Diagnosed(point)
         /\ \E d \in Diagnostics : d.at = Key /\ d.point = point /\ Errors' = Errors \cup {d}
<1>1. /\ Diagnostic(point, kind).at = Key /\ Diagnostic(point, kind).point = point
  BY DEF Diagnostic
<1>2. cancelled' => cancelled \/ point = "cancel"
  BY RecordFacts DEF Vetoes, TypeOK
<1>3. cancelled' \in BOOLEAN
  BY RecordFacts
<1>4. QED
  BY <1>1, <1>2, <1>3, RecordFacts DEF Diagnosed, TypeOK, Terminal

LEMMA FailIsNoticed ==
  ASSUME TypeOK, PlaceInv, DiagnosisInv, pc \in Inside, NEW point \in Points, NEW kind \in Kinds,
         Fail(point, kind)
  PROVE  Noticed(point)
<1>1. cur \in 1..N /\ Key = cur
  BY PlanFacts DEF TypeOK, PlaceInv, Inside, Waiting, Running, Ended, Key
<1>2. best[cur] \in BOOLEAN /\ (primary = None => ~best[cur])
  BY <1>1 DEF TypeOK, DiagnosisInv
<1>3. kind \in {"failed", "interrupted", "rejected"} /\ kind # None
  BY NoneIsNew DEF Kinds, Statuses, Terminal
<1>4. local' = IF local = None THEN kind ELSE local
  BY DEF Fail
<1>5. Record(point, kind, kind, best[cur])
  BY DEF Fail
<1>6. /\ Diagnosed(point)
      /\ \E d \in Diagnostics : d.at = Key /\ d.point = point /\ Errors' = Errors \cup {d}
  BY <1>2, <1>3, <1>5, RecordIsDiagnosed
<1>7. QED
  BY <1>1, <1>3, <1>4, <1>6 DEF Noticed, TypeOK, Kinds

LEMMA SucceedIsNoticed ==
  ASSUME TypeOK, NEW point, Succeed
  PROVE  Noticed(point)
  BY Unchanging DEF Succeed, Noticed, TypeOK

LEMMA CallIsNoticed ==
  ASSUME TypeOK, PlaceInv, DiagnosisInv, pc \in Inside, NEW point \in Points, Call(point)
  PROVE  Noticed(point)
  BY FailIsNoticed, SucceedIsNoticed DEF Call

(* A save ends with what it was to write on the disk or without.           *)
LEMMA SaveIsNoticed ==
  ASSUME TypeOK, PlaceInv, DiagnosisInv, pc \in Inside, SaveStep
  PROVE  /\ Noticed("persist")
         /\ saved' \in {saved, Snapshot}
         /\ local = None /\ local' = None => saved' = Snapshot
<1>1. "persist" \in Points
  BY DEF Points
<1>2. CASE Saved(TRUE) /\ Succeed
  BY <1>2, SucceedIsNoticed DEF Saved
<1>3. CASE Saved(FALSE) /\ \E k \in Kinds : Fail("persist", k)
  <2>1. PICK k \in Kinds : Fail("persist", k)
    BY <1>3
  <2>2. local' # None
    BY <2>1, NoneIsNew DEF Fail, Kinds, Statuses, Terminal
  <2>3. QED
    BY <1>1, <1>3, <2>1, <2>2, FailIsNoticed DEF Saved
<1>4. QED
  BY <1>2, <1>3 DEF SaveStep

LEMMA AttemptSaveIsDiagnosed ==
  ASSUME TypeOK, DiagnosisInv, SaveAttempt
  PROVE  /\ Diagnosed("persist")
         /\ saved' \in {saved, Snapshot}
         /\ primary = None /\ primary' = None => saved' = Snapshot
<1>1. "persist" \in Points
  BY DEF Points
<1>2. CASE Saved(TRUE) /\ UNCHANGED diagnosis
  BY <1>2, Unchanging DEF Saved
<1>3. CASE Saved(FALSE) /\ \E k \in Kinds : Record("persist", k, k, FALSE)
  <2>1. PICK k \in Kinds : Record("persist", k, k, FALSE)
    BY <1>3
  <2>2. k \in {"failed", "interrupted", "rejected"}
    BY <2>1 DEF Kinds
  <2>3. Diagnosed("persist")
    BY <1>1, <2>1, <2>2, RecordIsDiagnosed
  <2>4. primary = None => primary' # None
    BY <1>1, <2>1, RecordFacts
  <2>5. QED
    BY <1>3, <2>3, <2>4 DEF Saved
<1>4. QED
  BY <1>2, <1>3 DEF SaveAttempt

(* The same of each action that calls something.                           *)
LEMMA ReturnedIsNoticed ==
  ASSUME TypeOK, PlaceInv, DiagnosisInv, pc = "invoke", local = None, NEW c \in Completions, Returned(c)
  PROVE  /\ Noticed("invoke") /\ completion' = c
         /\ local' = None <=> c \in Clean
         /\ local' = "rejected" => c = "rejected"
         /\ run' \in BOOLEAN
         /\ run => run'
         /\ Plan[cur].op # "run" => run' = run
<1>1. cur \in 1..N /\ Key = cur /\ "invoke" \in Points
  BY PlanFacts DEF TypeOK, PlaceInv, Inside, Running, Key, Points
<1>2. best[cur] \in BOOLEAN /\ (primary = None => ~best[cur])
  BY <1>1 DEF TypeOK, DiagnosisInv
<1>3. c \in Terminal \cup {"accepted", "rejected", "invalid"}
  BY DEF Completions
<1>4. run' \in BOOLEAN /\ (run => run') /\ (Plan[cur].op # "run" => run' = run)
  BY <1>1 DEF Returned, TypeOK
<1>5. CASE c \in Clean
  <2>1. Succeed
    BY <1>5 DEF Returned
  <2>2. local' = None
    BY <2>1 DEF Succeed
  <2>3. QED
    BY <1>4, <1>5, <2>1, <2>2, SucceedIsNoticed, NoneIsNew DEF Returned, Statuses
<1>6. CASE c \notin Clean
  <2> DEFINE shown == IF c = "invalid" THEN "failed" ELSE c
             kind == IF c = "interrupted" THEN c ELSE "failed"
  <2>1. Record("invoke", kind, shown, best[cur]) /\ local' = shown
    BY <1>6 DEF Returned
  <2>2. shown \in {"failed", "interrupted", "rejected"} /\ kind \in Kinds
    BY <1>3, <1>6 DEF Terminal, Clean, Kinds
  <2>3. local' # None
    BY <2>1, <2>2, NoneIsNew DEF Statuses, Terminal
  <2> HIDE DEF shown, kind
  <2>4. /\ Diagnosed("invoke")
        /\ \E d \in Diagnostics : d.at = Key /\ d.point = "invoke" /\ Errors' = Errors \cup {d}
    BY <1>1, <1>2, <2>1, <2>2, RecordIsDiagnosed
  <2>5. Noticed("invoke")
    BY <1>1, <2>1, <2>2, <2>3, <2>4 DEF Noticed
  <2>6. local' = "rejected" => c = "rejected"
    BY <2>1 DEF shown
  <2>7. QED
    BY <1>4, <1>6, <2>3, <2>5, <2>6 DEF Returned
<1>7. QED
  BY <1>5, <1>6

(* The actions that may record an error, and what they record.             *)
LEMMA ActionFacts ==
  ASSUME TypeOK, PlaceInv, DiagnosisInv, CompletionInv
  PROVE  /\ SaveIntent => Diagnosed("persist") /\ saved' \in {saved, Snapshot}
         /\ Validate => Diagnosed("validate")
         /\ SaveInitial => Diagnosed("persist") /\ saved' \in {saved, Snapshot}
         /\ PollBefore => Noticed("cancel")
         /\ Begin => Noticed("clock")
         /\ Started => Noticed("started")
         /\ Announce => /\ Noticed("persist") /\ saved' \in {saved, Snapshot}
                        /\ local' = None => local = None /\ saved' = Snapshot
         /\ Invoke => /\ Noticed("invoke")
                      /\ pc' = "stop" => local' \in Kinds /\ UNCHANGED <<completion, run>>
                      /\ pc' # "stop" =>
                           /\ pc' = "pollAfter"
                           /\ completion' \in Completions
                           /\ local' = None <=> completion' \in Clean
                           /\ local' = "rejected" => completion' = "rejected"
                      /\ run' \in BOOLEAN
                      /\ run => run'
                      /\ Plan[cur].op # "run" => run' = run
         /\ PollAfter => Noticed("cancel")
         /\ Publish => Noticed("publish")
         /\ Retain => /\ Noticed("persist") /\ saved' \in {saved, Snapshot}
                      /\ local = None /\ local' = None => saved' = Snapshot
         /\ Published => Noticed("published")
         /\ RecordArtifact => Noticed("persist") /\ saved' \in {saved, Snapshot}
         /\ PollPublished => Noticed("cancel")
         /\ Stop => Noticed("clock")
         /\ Finished => Noticed("finished")
         /\ Observe => Noticed("observe")
         /\ SaveFinished => /\ Diagnosed("persist") /\ saved' \in {saved, Snapshot}
                            /\ primary' = None => UNCHANGED <<occ, steps>>
         /\ SaveFinal => /\ Diagnosed("persist") /\ saved' \in {saved, Snapshot}
                         /\ primary = None /\ primary' = None => saved' = Snapshot
<1> USE DEF Points
<1>1. SaveIntent => Diagnosed("persist") /\ saved' \in {saved, Snapshot}
  BY AttemptSaveIsDiagnosed DEF SaveIntent
<1>2. Validate => Diagnosed("validate")
  <2>1. SUFFICES ASSUME Validate
                 PROVE  Diagnosed("validate")
    OBVIOUS
  <2>2. CASE UNCHANGED diagnosis
    BY <2>2, Unchanging
  <2>3. CASE \E k \in Kinds : Record("validate", k, k, FALSE)
    <3>1. PICK k \in Kinds : Record("validate", k, k, FALSE)
      BY <2>3
    <3>2. k \in {"failed", "interrupted", "rejected"}
      BY <3>1 DEF Kinds
    <3>3. QED
      BY <3>1, <3>2, RecordIsDiagnosed
  <2>4. QED
    BY <2>1, <2>2, <2>3 DEF Validate
<1>3. SaveInitial => Diagnosed("persist") /\ saved' \in {saved, Snapshot}
  BY AttemptSaveIsDiagnosed, Unchanging DEF SaveInitial
<1>4. PollBefore => Noticed("cancel")
  BY CallIsNoticed DEF PollBefore, Inside, Waiting
<1>5. Begin => Noticed("clock")
  BY CallIsNoticed DEF Begin, Transition, Inside, Waiting
<1>6. Started => Noticed("started")
  BY CallIsNoticed DEF Started, Transition, Inside, Running
<1>7. Announce => /\ Noticed("persist") /\ saved' \in {saved, Snapshot}
                  /\ local' = None => local = None /\ saved' = Snapshot
  BY SaveIsNoticed DEF Announce, Inside, Running, Noticed
<1>8. Invoke => /\ Noticed("invoke")
                /\ pc' = "stop" => local' \in Kinds /\ UNCHANGED <<completion, run>>
                /\ pc' # "stop" =>
                     /\ pc' = "pollAfter"
                     /\ completion' \in Completions
                     /\ local' = None <=> completion' \in Clean
                     /\ local' = "rejected" => completion' = "rejected"
                /\ run' \in BOOLEAN
                /\ run => run'
                /\ Plan[cur].op # "run" => run' = run
  <2>1. SUFFICES ASSUME Invoke
                 PROVE  /\ Noticed("invoke")
                        /\ pc' = "stop" => local' \in Kinds /\ UNCHANGED <<completion, run>>
                        /\ pc' # "stop" =>
                             /\ pc' = "pollAfter"
                             /\ completion' \in Completions
                             /\ local' = None <=> completion' \in Clean
                             /\ local' = "rejected" => completion' = "rejected"
                        /\ run' \in BOOLEAN
                        /\ run => run'
                        /\ Plan[cur].op # "run" => run' = run
    OBVIOUS
  <2>2. pc = "invoke" /\ local = None /\ pc \in Inside
    BY <2>1 DEF Invoke, CompletionInv, Inside, Running
  <2>3. CASE \E c \in Completions : Returned(c)
    <3>1. PICK c \in Completions : Returned(c)
      BY <2>3
    <3>2. pc' = "pollAfter"
      BY <3>1 DEF Returned
    <3>3. QED
      BY <2>2, <3>1, <3>2, ReturnedIsNoticed
  <2>4. CASE \E k \in Kinds : Raised(k)
    <3>1. PICK k \in Kinds : Raised(k)
      BY <2>4
    <3>2. pc' = "stop" /\ local' = k /\ completion' = completion /\ run' = run
      BY <2>2, <3>1 DEF Raised, Fail
    <3>3. Noticed("invoke")
      BY <2>2, <3>1, FailIsNoticed DEF Raised
    <3>4. QED
      BY <3>1, <3>2, <3>3 DEF TypeOK
  <2>5. QED
    BY <2>1, <2>3, <2>4 DEF Invoke
<1>9. PollAfter => Noticed("cancel")
  BY CallIsNoticed DEF PollAfter, Inside, Running
<1>10. Publish => Noticed("publish")
  BY SucceedIsNoticed, FailIsNoticed DEF Publish, Inside, Running
<1>11. Retain => /\ Noticed("persist") /\ saved' \in {saved, Snapshot}
                 /\ local = None /\ local' = None => saved' = Snapshot
  BY SaveIsNoticed DEF Retain, Inside, Running
<1>12. Published => Noticed("published")
  BY CallIsNoticed DEF Published, Transition, Inside, Running
<1>13. RecordArtifact => Noticed("persist") /\ saved' \in {saved, Snapshot}
  BY SaveIsNoticed DEF RecordArtifact, Transition, Inside, Running
<1>14. PollPublished => Noticed("cancel")
  BY CallIsNoticed DEF PollPublished, Transition, Inside, Running
<1>15. Stop => Noticed("clock")
  BY CallIsNoticed DEF Stop, Transition, Inside, Running
<1>16. Finished => Noticed("finished")
  BY CallIsNoticed DEF Finished, Transition, Inside, Ended
<1>17. Observe => Noticed("observe")
  BY CallIsNoticed, SucceedIsNoticed DEF Observe, Transition, Inside, Ended
<1>18. SaveFinished => /\ Diagnosed("persist") /\ saved' \in {saved, Snapshot}
                       /\ primary' = None => UNCHANGED <<occ, steps>>
  <2>1. SUFFICES ASSUME SaveFinished
                 PROVE  /\ Diagnosed("persist") /\ saved' \in {saved, Snapshot}
                        /\ primary' = None => UNCHANGED <<occ, steps>>
    OBVIOUS
  <2>2. CASE Saved(TRUE) /\ UNCHANGED <<diagnosis, occ, steps>>
    BY <2>2, Unchanging DEF Saved
  <2>3. CASE Saved(FALSE) /\ \E k \in Kinds : Record("persist", k, k, best[cur]) /\ TakeBack(k)
    <3>1. PICK k \in Kinds : Record("persist", k, k, best[cur])
      BY <2>3
    <3>2. k \in {"failed", "interrupted", "rejected"}
      BY <3>1 DEF Kinds
    <3>3. cur \in 1..N
      BY <2>1, PlanFacts DEF SaveFinished, Transition, TypeOK, PlaceInv, Inside, Ended
    <3>4. best[cur] \in BOOLEAN /\ (primary = None => ~best[cur])
      BY <3>3 DEF TypeOK, DiagnosisInv
    <3>5. Diagnosed("persist")
      BY <3>1, <3>2, <3>4, RecordIsDiagnosed
    <3>6. primary' # None
      BY <3>1, <3>4, <3>5, RecordFacts DEF Diagnosed
    <3>7. QED
      BY <2>3, <3>5, <3>6 DEF Saved
  <2>4. QED
    BY <2>1, <2>2, <2>3 DEF SaveFinished
<1>19. SaveFinal => /\ Diagnosed("persist") /\ saved' \in {saved, Snapshot}
                    /\ primary = None /\ primary' = None => saved' = Snapshot
  BY AttemptSaveIsDiagnosed DEF SaveFinal
<1>20. QED
  BY <1>1, <1>2, <1>3, <1>4, <1>5, <1>6, <1>7, <1>8, <1>9, <1>10, <1>11, <1>12, <1>13, <1>14,
     <1>15, <1>16, <1>17, <1>18, <1>19

LEMMA SnapshotTyped ==
  ASSUME TypeOK
  PROVE  Snapshot \in Snapshots /\ Snapshot # None
<1>1. Snapshot \in Snapshots
  BY DEF TypeOK, Snapshot, Snapshots, Statuses, Terminal
<1>2. QED
  BY <1>1, NoneIsNew

(* At a place inside the loop the action is one of the plan.               *)
LEMMA InsideFacts ==
  ASSUME TypeOK, PlaceInv, pc \in Inside
  PROVE  cur \in 1..N /\ Plan[cur].enabled /\ Key = cur
  BY PlanFacts DEF TypeOK, PlaceInv, Inside, Waiting, Running, Ended, Key

(* Which actions touch what.                                               *)
LEMMA Frame ==
  ASSUME Next
  PROVE  /\ UNCHANGED cur \/ NextAction
         /\ UNCHANGED best \/ NextAction \/ PollBefore
         /\ UNCHANGED occ \/ Begin \/ Stop \/ Observe \/ SaveFinished
         /\ UNCHANGED steps \/ Observe \/ SaveFinished
         /\ UNCHANGED run \/ Invoke
         /\ UNCHANGED archive \/ PollAfter
         /\ UNCHANGED artifacts \/ Publish
         /\ UNCHANGED source \/ Publish
         /\ UNCHANGED verdict \/ Stop
         /\ UNCHANGED completion \/ NextAction \/ Invoke
         /\ UNCHANGED handed \/ Invoke
         /\ UNCHANGED announced \/ Published
         /\ \/ UNCHANGED saved
            \/ SaveIntent \/ SaveInitial \/ Announce \/ Retain \/ RecordArtifact
            \/ SaveFinished \/ SaveFinal
<1>1. UNCHANGED cur \/ NextAction
  BY DEF Next, SaveIntent, Validate, SaveInitial, PollBefore, Begin, Started, Announce, Invoke,
     PollAfter, Publish, Retain, Published, RecordArtifact, PollPublished, Stop, Finished,
     Observe, SaveFinished, Settle, SaveFinal, results, history, progress
<1>2. UNCHANGED best \/ NextAction \/ PollBefore
  BY DEF Next, SaveIntent, Validate, SaveInitial, Begin, Started, Announce, Invoke, PollAfter,
     Publish, Retain, Published, RecordArtifact, PollPublished, Stop, Finished, Observe,
     SaveFinished, Settle, SaveFinal, results, history, progress
<1>3. UNCHANGED occ \/ Begin \/ Stop \/ Observe \/ SaveFinished
  BY DEF Next, SaveIntent, Validate, SaveInitial, NextAction, PollBefore, Started, Announce,
     Invoke, PollAfter, Publish, Retain, Published, RecordArtifact, PollPublished, Finished,
     Settle, SaveFinal, results, history, progress
<1>4. UNCHANGED steps \/ Observe \/ SaveFinished
  BY DEF Next, SaveIntent, Validate, SaveInitial, NextAction, PollBefore, Begin, Started,
     Announce, Invoke, PollAfter, Publish, Retain, Published, RecordArtifact, PollPublished, Stop,
     Finished, Settle, SaveFinal, results, history, progress
<1>5. UNCHANGED run \/ Invoke
  BY DEF Next, SaveIntent, Validate, SaveInitial, NextAction, PollBefore, Begin, Started,
     Announce, PollAfter, Publish, Retain, Published, RecordArtifact, PollPublished, Stop,
     Finished, Observe, SaveFinished, Settle, SaveFinal, results, history, progress, Returned,
     Raised
<1>6. UNCHANGED archive \/ PollAfter
  BY DEF Next, SaveIntent, Validate, SaveInitial, NextAction, PollBefore, Begin, Started,
     Announce, Invoke, Publish, Retain, Published, RecordArtifact, PollPublished, Stop, Finished,
     Observe, SaveFinished, Settle, SaveFinal, results, history, progress
<1>7. UNCHANGED artifacts \/ Publish
  BY DEF Next, SaveIntent, Validate, SaveInitial, NextAction, PollBefore, Begin, Started,
     Announce, Invoke, PollAfter, Retain, Published, RecordArtifact, PollPublished, Stop,
     Finished, Observe, SaveFinished, Settle, SaveFinal, results, history, progress
<1>8. UNCHANGED source \/ Publish
  BY DEF Next, SaveIntent, Validate, SaveInitial, NextAction, PollBefore, Begin, Started,
     Announce, Invoke, PollAfter, Retain, Published, RecordArtifact, PollPublished, Stop,
     Finished, Observe, SaveFinished, Settle, SaveFinal, results, history, progress
<1>9. UNCHANGED verdict \/ Stop
  BY DEF Next, SaveIntent, Validate, SaveInitial, NextAction, PollBefore, Begin, Started,
     Announce, Invoke, PollAfter, Publish, Retain, Published, RecordArtifact, PollPublished,
     Finished, Observe, SaveFinished, Settle, SaveFinal, results, history, progress
<1>10. UNCHANGED completion \/ NextAction \/ Invoke
  BY DEF Next, SaveIntent, Validate, SaveInitial, PollBefore, Begin, Started, Announce, PollAfter,
     Publish, Retain, Published, RecordArtifact, PollPublished, Stop, Finished, Observe,
     SaveFinished, Settle, SaveFinal, results, history, progress
<1>11. UNCHANGED handed \/ Invoke
  BY DEF Next, SaveIntent, Validate, SaveInitial, NextAction, PollBefore, Begin, Started,
     Announce, PollAfter, Publish, Retain, Published, RecordArtifact, PollPublished, Stop,
     Finished, Observe, SaveFinished, Settle, SaveFinal, results, history, progress
<1>12. UNCHANGED announced \/ Published
  BY DEF Next, SaveIntent, Validate, SaveInitial, NextAction, PollBefore, Begin, Started,
     Announce, Invoke, PollAfter, Publish, Retain, RecordArtifact, PollPublished, Stop, Finished,
     Observe, SaveFinished, Settle, SaveFinal, results, history, progress
<1>13. UNCHANGED saved \/ SaveIntent \/ SaveInitial \/ Announce \/ Retain \/ RecordArtifact \/ SaveFinished \/ SaveFinal
  BY DEF Next, Validate, NextAction, PollBefore, Begin, Started, Invoke, PollAfter, Publish,
     Published, PollPublished, Stop, Finished, Observe, Settle, results, history, progress
<1>14. QED
  BY <1>1, <1>2, <1>3, <1>4, <1>5, <1>6, <1>7, <1>8, <1>9, <1>10, <1>11, <1>12, <1>13

(* What is shown of an action whose callback returned or that failed.      *)
LEMMA ShownFacts ==
  ASSUME IInv, Stop \/ Observe
  PROVE  /\ Shown(local', completion) \in Statuses
         /\ Shown(local', completion) \in Clean <=> local' = None
         /\ Occurrence(Shown(local', completion)) \in Terminal
         /\ Plan[cur].op = "segment" /\ Occurrence(Shown(local', completion)) = "completed" =>
              local' = None
<1>1. Noticed("clock") \/ Noticed("observe")
  BY ActionFacts DEF IInv
<1>2. /\ local = None => completion \in Clean
      /\ local = "rejected" => completion = "rejected"
      /\ completion \in Completions \cup {None}
      /\ local \in {"failed", "interrupted", "rejected", None}
  BY DEF IInv, CompletionInv, TypeOK, Stop, Observe, Transition, Inside, Running, Ended
<1>3. /\ local' \in {"failed", "interrupted", "rejected", None}
      /\ local' = None => local = None
      /\ local' = "rejected" => local = "rejected"
  BY <1>1 DEF Noticed
<1>4. Plan[cur].op = "segment" => local' # "rejected"
  BY <1>2, <1>3, NoneIsNew DEF Completions, Terminal, Statuses
<1>5. QED
  BY <1>2, <1>3, <1>4, NoneIsNew DEF Shown, Occurrence, Clean, Statuses, Terminal

(* Types.                                                                  *)
LEMMA TypeStep ==
  ASSUME IInv, Next
  PROVE  TypeOK'
<1> USE DEF IInv
<1>1. pc' \in Places
  <2>1. CASE NextAction \/ Invoke \/ Publish \/ PollAfter \/ PollBefore
    BY <2>1, ActionFacts DEF NextAction, Invoke, Publish, PollAfter, PollBefore, TypeOK, Places,
       AfterPublishError
  <2>2. QED
    BY <2>1 DEF Next, SaveIntent, Validate, SaveInitial, Begin, Started, Announce, Retain,
       Published, RecordArtifact, PollPublished, Stop, Finished, Observe, SaveFinished, Settle,
       SaveFinal, Transition, TypeOK, Places, AfterAnnounce, AfterRetain
<1>2. cur' \in 0..N
  BY Frame, PlanFacts DEF NextAction, TypeOK
<1>3. /\ primary' \in Diagnostics \cup {None} /\ secondary' \in Seq(Diagnostics)
      /\ cancelled' \in BOOLEAN /\ status' \in Terminal \cup {"running", "rejected"}
  <2>1. CASE NextAction
    BY <2>1 DEF NextAction, diagnosis, TypeOK
  <2>2. CASE Settle
    BY <2>2 DEF Settle, TypeOK, Terminal
  <2>3. CASE ~NextAction /\ ~Settle
    <3>1. \E point : Diagnosed(point)
      BY <2>3, ActionFacts DEF Next, Noticed
    <3>2. QED
      BY <3>1 DEF Diagnosed
  <2>4. QED
    BY <2>1, <2>2, <2>3
<1>4. local' \in {"failed", "interrupted", "rejected", None}
  <2>1. CASE NextAction
    BY <2>1 DEF NextAction, TypeOK
  <2>2. CASE SaveIntent \/ Validate \/ SaveInitial \/ SaveFinished \/ Settle \/ SaveFinal
    BY <2>2 DEF SaveIntent, Validate, SaveInitial, SaveFinished, Settle, SaveFinal, TypeOK
  <2>3. CASE ~NextAction /\ ~(SaveIntent \/ Validate \/ SaveInitial \/ SaveFinished \/ Settle
                              \/ SaveFinal)
    <3>1. \E point : Noticed(point)
      BY <2>3, ActionFacts DEF Next
    <3>2. QED
      BY <3>1 DEF Noticed
  <2>4. QED
    BY <2>1, <2>2, <2>3
<1>5. occ' \in [1..N -> OccurrenceStates]
  <2>1. CASE Begin
    BY <2>1, InsideFacts DEF Begin, TypeOK, OccurrenceStates
  <2>2. CASE Stop
    <3>1. Occurrence(Shown(local', completion)) \in OccurrenceStates
      BY <2>2, ShownFacts DEF OccurrenceStates
    <3>2. QED
      BY <2>2, <3>1 DEF Stop, TypeOK
  <2>3. CASE Observe
    <3>1. Occurrence(Shown(local', completion)) \in OccurrenceStates
      BY <2>3, ShownFacts DEF OccurrenceStates
    <3>2. QED
      BY <2>3, <3>1 DEF Observe, AfterHooks, TypeOK
  <2>4. CASE SaveFinished
    <3>1. occ' = occ \/ \E k \in Kinds : occ' = [occ EXCEPT ![cur] = k]
      BY <2>4 DEF SaveFinished, TakeBack
    <3>2. QED
      BY <3>1 DEF TypeOK, Kinds, OccurrenceStates, Terminal
  <2>5. QED
    BY <2>1, <2>2, <2>3, <2>4, Frame DEF TypeOK
<1>6. best' \in [1..N -> BOOLEAN]
  BY Frame, PlanFacts DEF NextAction, PollBefore, TypeOK, BestEffort
<1>7. steps' \in Seq([at : 1..N, best : BOOLEAN, status : Statuses])
  <2>1. CASE Observe
    <3> DEFINE step == [at |-> cur, best |-> best[cur], status |->
                 IF occ'[cur] = "completed" THEN Shown(local', completion) ELSE occ'[cur]]
    <3>1. cur \in 1..N /\ best[cur] \in BOOLEAN
      BY <2>1, InsideFacts DEF Observe, Transition, Inside, Ended, TypeOK
    <3>2. occ'[cur] \in Terminal
      BY <2>1, <3>1, ShownFacts DEF Observe, AfterHooks, TypeOK
    <3>3. step \in [at : 1..N, best : BOOLEAN, status : Statuses]
      BY <2>1, <3>1, <3>2, ShownFacts DEF Statuses
    <3>4. steps' = Append(steps, step)
      BY <2>1 DEF Observe
    <3> HIDE DEF step
    <3>5. QED
      BY <3>3, <3>4 DEF TypeOK
  <2>2. CASE SaveFinished
    <3>1. steps' = steps \/ \E k \in Kinds : steps' = [steps EXCEPT ![Len(steps)].status = k]
      BY <2>2 DEF SaveFinished, TakeBack
    <3>2. CASE steps' # steps
      <4> DEFINE Step == [at : 1..N, best : BOOLEAN, status : Statuses]
                 last == steps[Len(steps)]
      <4>1. PICK k \in Kinds : steps' = [steps EXCEPT ![Len(steps)].status = k]
        BY <3>1, <3>2
      <4>2. steps \in Seq(Step) /\ steps # <<>> /\ k \in Statuses
        BY <2>2 DEF SaveFinished, Transition, StepsInv, TypeOK, Kinds, Statuses, Terminal
      <4>3. steps' = [steps EXCEPT ![Len(steps)] = [last EXCEPT !.status = k]]
        BY <4>1
      <4>4. last \in Step /\ \A x \in Step : [steps EXCEPT ![Len(steps)] = x] \in Seq(Step)
        <5> HIDE DEF Step
        <5>1. QED
          BY <4>2, LastOf
      <4>5. [last EXCEPT !.status = k] \in Step
        BY <4>2, <4>4
      <4> HIDE DEF Step, last
      <4>6. steps' \in Seq(Step)
        BY <4>3, <4>4, <4>5
      <4>7. QED
        BY <4>6 DEF Step
    <3>3. QED
      BY <3>2 DEF TypeOK
  <2>3. QED
    BY <2>1, <2>2, Frame DEF TypeOK
<1>8. run' \in BOOLEAN /\ archive' \in BOOLEAN
  BY Frame, ActionFacts, InsideFacts DEF PollAfter, TypeOK
<1>9. artifacts' \in Seq(1..N) /\ source' \in 0..N
  <2>1. CASE Publish
    <3>1. cur \in 1..N
      BY <2>1, InsideFacts DEF Publish, Inside, Running
    <3>2. /\ artifacts' = artifacts \/ artifacts' = Append(artifacts, cur)
          /\ source' = source \/ source' = cur
      BY <2>1 DEF Publish, HandOn
    <3>3. artifacts \in Seq(1..N) /\ source \in 0..N /\ N \in Nat
      BY PlanFacts DEF TypeOK
    <3>4. Append(artifacts, cur) \in Seq(1..N)
      BY <3>1, <3>3
    <3>5. artifacts' \in Seq(1..N)
      BY <3>2, <3>3, <3>4
    <3>6. source' \in 0..N
      BY <3>1, <3>2, <3>3
    <3>7. QED
      BY <3>5, <3>6
  <2>2. QED
    BY <2>1, Frame DEF TypeOK
<1>10. completion' \in Statuses \cup {"invalid", None}
  <2>1. CASE Invoke
    BY <2>1, ActionFacts DEF TypeOK, Completions, Statuses, Terminal
  <2>2. QED
    BY <2>1, Frame DEF NextAction, TypeOK
<1>11. verdict' \in {"accepted", "rejected", None}
  BY Frame DEF Stop, TypeOK
<1>12. saved' \in Snapshots \cup {None}
  BY Frame, ActionFacts, SnapshotTyped DEF TypeOK
<1>13. handed' \in [1..N -> 0..N \cup {None}]
  BY Frame DEF Invoke, TypeOK
<1>14. announced' \subseteq 1..N
  BY Frame, InsideFacts DEF Published, Transition, Inside, Running, TypeOK
<1>15. QED
  BY <1>1, <1>2, <1>3, <1>4, <1>5, <1>6, <1>7, <1>8, <1>9, <1>10, <1>11, <1>12, <1>13, <1>14
     DEF TypeOK

(* The place in the loop.                                                  *)
LEMMA PlaceStep ==
  ASSUME IInv, Next
  PROVE  PlaceInv'
<1>1. CASE SaveIntent
  BY <1>1, PlanFacts DEF SaveIntent, IInv, TypeOK, PlaceInv, Transition, Before, Inside, Waiting,
     Running, Ended, After
<1>2. CASE Validate
  BY <1>2, PlanFacts DEF Validate, IInv, TypeOK, PlaceInv, Transition, Before, Inside, Waiting,
     Running, Ended, After
<1>3. CASE SaveInitial
  BY <1>3, PlanFacts DEF SaveInitial, IInv, TypeOK, PlaceInv, Transition, Before, Inside, Waiting,
     Running, Ended, After
<1>4. CASE NextAction
  BY <1>4, PlanFacts DEF NextAction, IInv, TypeOK, PlaceInv, Transition, Before, Inside, Waiting,
     Running, Ended, After, Runs
<1>5. CASE PollBefore
  BY <1>5, PlanFacts DEF PollBefore, IInv, TypeOK, PlaceInv, Transition, Before, Inside, Waiting,
     Running, Ended, After
<1>6. CASE Begin
  BY <1>6, PlanFacts DEF Begin, IInv, TypeOK, PlaceInv, Transition, Before, Inside, Waiting,
     Running, Ended, After
<1>7. CASE Started
  BY <1>7, PlanFacts DEF Started, IInv, TypeOK, PlaceInv, Transition, Before, Inside, Waiting,
     Running, Ended, After
<1>8. CASE Announce
  BY <1>8, PlanFacts DEF Announce, IInv, TypeOK, PlaceInv, Transition, Before, Inside, Waiting,
     Running, Ended, After, AfterAnnounce
<1>9. CASE Invoke
  BY <1>9, PlanFacts, ActionFacts DEF Invoke, IInv, TypeOK, PlaceInv, Transition, Before, Inside,
     Waiting, Running, Ended, After
<1>10. CASE PollAfter
  BY <1>10, PlanFacts DEF PollAfter, IInv, TypeOK, PlaceInv, Transition, Before, Inside, Waiting,
     Running, Ended, After
<1>11. CASE Publish
  BY <1>11, PlanFacts DEF Publish, IInv, TypeOK, PlaceInv, Transition, Before, Inside, Waiting,
     Running, Ended, After, AfterPublishError
<1>12. CASE Retain
  BY <1>12, PlanFacts DEF Retain, IInv, TypeOK, PlaceInv, Transition, Before, Inside, Waiting,
     Running, Ended, After, AfterRetain
<1>13. CASE Published
  BY <1>13, PlanFacts DEF Published, IInv, TypeOK, PlaceInv, Transition, Before, Inside, Waiting,
     Running, Ended, After
<1>14. CASE RecordArtifact
  BY <1>14, PlanFacts DEF RecordArtifact, IInv, TypeOK, PlaceInv, Transition, Before, Inside,
     Waiting, Running, Ended, After
<1>15. CASE PollPublished
  BY <1>15, PlanFacts DEF PollPublished, IInv, TypeOK, PlaceInv, Transition, Before, Inside,
     Waiting, Running, Ended, After
<1>16. CASE Stop
  BY <1>16, PlanFacts DEF Stop, IInv, TypeOK, PlaceInv, Transition, Before, Inside, Waiting,
     Running, Ended, After
<1>17. CASE Finished
  BY <1>17, PlanFacts DEF Finished, IInv, TypeOK, PlaceInv, Transition, Before, Inside, Waiting,
     Running, Ended, After
<1>18. CASE Observe
  BY <1>18, PlanFacts DEF Observe, IInv, TypeOK, PlaceInv, Transition, Before, Inside, Waiting,
     Running, Ended, After
<1>19. CASE SaveFinished
  BY <1>19, PlanFacts DEF SaveFinished, IInv, TypeOK, PlaceInv, Transition, Before, Inside,
     Waiting, Running, Ended, After
<1>20. CASE Settle
  BY <1>20, PlanFacts DEF Settle, IInv, TypeOK, PlaceInv, Transition, Before, Inside, Waiting,
     Running, Ended, After
<1>21. CASE SaveFinal
  BY <1>21, PlanFacts DEF SaveFinal, IInv, TypeOK, PlaceInv, Transition, Before, Inside, Waiting,
     Running, Ended, After
<1>22. QED
  BY <1>1, <1>2, <1>3, <1>4, <1>5, <1>6, <1>7, <1>8, <1>9, <1>10, <1>11, <1>12, <1>13, <1>14,
     <1>15, <1>16, <1>17, <1>18, <1>19, <1>20, <1>21 DEF Next


(* Inside the loop a step leaves the action and, before and after its      *)
(* callback, its completion.                                               *)
LEMMA InsideStep ==
  ASSUME IInv, Next, pc' \in Inside, ~NextAction
  PROVE  /\ pc \in Inside /\ cur' = cur
         /\ Invoke \/ completion' = completion
         /\ \E point \in Points : Noticed(point) /\ (point = "invoke" => Invoke)
         /\ local' = None => local = None /\ UNCHANGED diagnosis /\ Errors' = Errors
<1>1. pc \in Inside
  BY DEF Next, SaveIntent, Validate, SaveInitial, PollBefore, Begin, Started, Announce, Invoke,
     PollAfter, Publish, Retain, Published, RecordArtifact, PollPublished, Stop, Finished, Observe,
     SaveFinished, Settle, SaveFinal, Transition, Inside, Waiting, Running, Ended
<1>2. cur' = cur /\ (Invoke \/ completion' = completion)
  BY Frame
<1>3. ~(SaveIntent \/ Validate \/ SaveInitial \/ SaveFinished \/ Settle \/ SaveFinal)
  BY DEF SaveIntent, Validate, SaveInitial, SaveFinished, Settle, SaveFinal, Transition, Inside,
     Waiting, Running, Ended
<1>4. \E point \in Points : Noticed(point) /\ (point = "invoke" => Invoke)
  BY <1>3, ActionFacts DEF Next, IInv, Points
<1>5. QED
  BY <1>1, <1>2, <1>4 DEF Noticed

(* The completion and the error of the current action.                     *)
LEMMA CompletionStep ==
  ASSUME IInv, Next
  PROVE  CompletionInv'
<1> USE DEF IInv
<1>1. CASE NextAction
  BY <1>1 DEF NextAction, CompletionInv, Inside, Waiting, Running, Ended
<1>2. CASE ~NextAction
  <2>1. ASSUME pc' \in Inside
        PROVE  completion' \in Completions' \cup {None} /\ (local' = "rejected" => completion' = "rejected")
    <3>1. pc \in Inside /\ cur' = cur /\ (Invoke \/ completion' = completion)
      BY <1>2, <2>1, InsideStep
    <3>2. Completions' = Completions
      BY <3>1 DEF Completions
    <3>3. CASE Invoke
      BY <3>1, <3>2, <3>3, ActionFacts DEF CompletionInv, Kinds
    <3>4. CASE ~Invoke
      BY <1>2, <2>1, <3>1, <3>2, <3>4, InsideStep DEF CompletionInv, Noticed
    <3>5. QED
      BY <3>3, <3>4
  <2>2. pc' \in Waiting \cup {"started", "announce", "invoke"} => completion' = None
    <3>1. ~Invoke \/ pc' \in {"stop", "pollAfter"}
      BY ActionFacts
    <3>2. pc' \in Waiting \cup {"started", "announce", "invoke"} =>
            pc \in Waiting \cup {"started", "announce"}
      BY <1>2 DEF Next, SaveIntent, Validate, SaveInitial, PollBefore, Begin, Started, Announce,
         Invoke, Returned, Raised, PollAfter, Publish, AfterPublishError, Retain, AfterRetain,
         Published, RecordArtifact, PollPublished, Stop, Finished, Observe, SaveFinished, Settle,
         SaveFinal, Transition, Waiting
    <3>3. QED
      BY <1>2, <3>1, <3>2, Frame DEF CompletionInv, Waiting
  <2>3. pc' \in {"poll", "begin", "invoke", "publish"} => local' = None
    BY <1>2 DEF Next, SaveIntent, Validate, SaveInitial, PollBefore, Begin, Started, Announce,
       AfterAnnounce, Invoke, Returned, Raised, PollAfter, Publish, AfterPublishError, Retain,
       AfterRetain, Published, RecordArtifact, PollPublished, Stop, Finished, Observe,
       SaveFinished, Settle, SaveFinal, Transition
  <2>4. ASSUME pc' \in {"pollAfter", "publish", "retain", "published", "record", "pollPublished",
                        "stop", "finished", "observe", "saveStep"}, local' = None
        PROVE  completion' \in Clean
    <3>1. pc' \in Inside
      BY <2>4 DEF Inside, Running, Ended
    <3>2. local = None /\ (Invoke \/ completion' = completion)
      BY <1>2, <2>4, <3>1, InsideStep
    <3>3. CASE Invoke
      BY <2>4, <3>3, ActionFacts, NoneIsNew DEF Kinds, Statuses, Terminal
    <3>4. CASE ~Invoke
      <4>1. pc \in {"pollAfter", "publish", "retain", "published", "record", "pollPublished",
                    "stop", "finished", "observe"}
        BY <1>2, <2>4, <3>4 DEF Next, SaveIntent, Validate, SaveInitial, PollBefore, Begin,
           Started, Announce, AfterAnnounce, PollAfter, Publish, Retain, Published,
           RecordArtifact, PollPublished, Stop, Finished, Observe, SaveFinished, Settle,
           SaveFinal, Transition
      <4>2. QED
        BY <3>2, <3>4, <4>1 DEF CompletionInv
    <3>5. QED
      BY <3>3, <3>4
  <2>5. pc' = "saveStep" => occ'[cur'] = Occurrence(Shown(local', completion'))
    <3>1. pc' = "saveStep" => Observe
      BY <1>2 DEF Next, SaveIntent, Validate, SaveInitial, PollBefore, Begin, Started, Announce,
         AfterAnnounce, Invoke, Returned, Raised, PollAfter, Publish, AfterPublishError, Retain,
         AfterRetain, Published, RecordArtifact, PollPublished, Stop, Finished, SaveFinished,
         Settle, SaveFinal, Transition
    <3>2. Observe => cur \in 1..N
      BY InsideFacts DEF Observe, Transition, Inside, Ended
    <3>3. QED
      BY <3>1, <3>2 DEF Observe, AfterHooks, TypeOK, Occurrence, Shown
  <2>6. QED
    BY <2>1, <2>2, <2>3, <2>4, <2>5 DEF CompletionInv, Occurrence, Shown
<1>3. QED
  BY <1>1, <1>2


(* The diagnosis, whatever the step.                                       *)
LEMMA StepIsDiagnosed ==
  ASSUME IInv, Next
  PROVE  Settle \/ \E point : Diagnosed(point)
<1>1. CASE NextAction
  BY <1>1, Unchanging DEF NextAction, IInv
<1>2. CASE ~NextAction
  BY <1>2, ActionFacts DEF Next, Noticed, IInv
<1>3. QED
  BY <1>1, <1>2

LEMMA DiagnosisStep ==
  ASSUME IInv, Next
  PROVE  DiagnosisInv'
<1> USE DEF IInv
<1>1. primary' # None => status' \in {"failed", "interrupted", "rejected"}
  <2>1. CASE Settle
    BY <2>1 DEF Settle, DiagnosisInv
  <2>2. CASE \E point : Diagnosed(point)
    BY <2>2 DEF Diagnosed, DiagnosisInv
  <2>3. QED
    BY <2>1, <2>2, StepIsDiagnosed
<1>2. cancelled' => \E d \in Errors' : d.point = "cancel"
  <2>1. CASE Settle
    BY <2>1 DEF Settle, DiagnosisInv, Errors, Done
  <2>2. CASE \E point : Diagnosed(point)
    BY <2>2 DEF Diagnosed, DiagnosisInv, diagnosis
  <2>3. QED
    BY <2>1, <2>2, StepIsDiagnosed
<1>3. ASSUME primary' = None
      PROVE  /\ primary = None /\ secondary' = <<>> /\ ~cancelled' /\ local' = None
             /\ status' = IF pc' \in After THEN "completed" ELSE "running"
             /\ \A j \in 1..N : ~best'[j]
             /\ \A j \in 1..N : Plan[j].enabled /\ (j < cur' \/ (j = cur' /\ pc' \notin Inside)) =>
                  occ'[j] = "completed"
  <2>1. primary = None /\ (Settle \/ UNCHANGED diagnosis)
    <3>1. CASE Settle
      BY <1>3, <3>1 DEF Settle
    <3>2. CASE \E point : Diagnosed(point)
      BY <1>3, <3>2 DEF Diagnosed, diagnosis
    <3>3. QED
      BY <3>1, <3>2, StepIsDiagnosed
  <2>2. secondary' = <<>> /\ ~cancelled'
    BY <2>1 DEF Settle, diagnosis, DiagnosisInv
  <2>3. local' = None
    <3>1. local = None
      BY <2>1 DEF DiagnosisInv
    <3>2. CASE NextAction
      BY <3>1, <3>2 DEF NextAction
    <3>3. CASE SaveIntent \/ Validate \/ SaveInitial \/ SaveFinished \/ Settle \/ SaveFinal
      BY <3>1, <3>3 DEF SaveIntent, Validate, SaveInitial, SaveFinished, Settle, SaveFinal
    <3>4. CASE \E point : Noticed(point)
      <4>1. Errors' = {}
        BY <1>3, <2>2 DEF Errors, Done
      <4>2. QED
        BY <3>1, <3>4, <4>1 DEF Noticed
    <3>5. QED
      BY <3>2, <3>3, <3>4, ActionFacts DEF Next
  <2>4. status' = IF pc' \in After THEN "completed" ELSE "running"
    <3>1. CASE Settle
      BY <2>1, <3>1 DEF Settle, Transition, After
    <3>2. CASE ~Settle
      <4>1. status' = status
        BY <2>1, <3>2 DEF diagnosis
      <4>2. pc' \in After <=> pc \in After
        BY <3>2 DEF Next, SaveIntent, Validate, SaveInitial, NextAction, PollBefore, Begin,
           Started, Announce, AfterAnnounce, Invoke, Returned, Raised, PollAfter, Publish,
           AfterPublishError, Retain, AfterRetain, Published, RecordArtifact, PollPublished, Stop,
           Finished, Observe, SaveFinished, SaveFinal, Transition, After
      <4>3. QED
        BY <2>1, <4>1, <4>2 DEF DiagnosisInv
    <3>3. QED
      BY <3>1, <3>2
  <2>5. \A j \in 1..N : ~best'[j]
    BY <2>1, Frame DEF DiagnosisInv, NextAction, PollBefore, BestEffort, TypeOK
  <2>6. ASSUME NEW j \in 1..N, Plan[j].enabled, j < cur' \/ (j = cur' /\ pc' \notin Inside)
        PROVE  occ'[j] = "completed"
    <3>1. CASE NextAction
      <4>1. /\ pc = "next" /\ cur' = cur + 1 /\ occ' = occ /\ cur \in Nat
            /\ pc' = IF Runs(cur + 1) THEN "poll" ELSE pc
        BY <3>1 DEF NextAction, TypeOK
      <4>2. j # cur + 1
        BY <2>1, <2>6, <4>1 DEF Runs, DiagnosisInv, Inside, Waiting
      <4>3. j < cur \/ (j = cur /\ pc \notin Inside)
        BY <2>6, <4>1, <4>2 DEF Inside, Waiting, Running, Ended
      <4>4. QED
        BY <2>1, <2>6, <4>1, <4>3 DEF DiagnosisInv
    <3>2. CASE ~NextAction /\ pc \in Inside
      <4>1. cur' = cur /\ cur \in 1..N
        BY <3>2, Frame, InsideFacts
      <4>2. CASE j = cur
        <5> pc' \notin Inside
          BY <2>6, <4>1, <4>2
        <5>1. SaveFinished \/ PollBefore
          BY <3>2 DEF Next, SaveIntent, Validate, SaveInitial, Begin, Started,
             Announce, AfterAnnounce, Invoke, Returned, Raised, PollAfter, Publish,
             AfterPublishError, Retain, AfterRetain, Published, RecordArtifact, PollPublished,
             Stop, Finished, Observe, Settle, SaveFinal, Transition, Inside, Waiting, Running,
             Ended
        <5>2. CASE PollBefore
          BY <2>3, <2>6, <4>1, <4>2, <5>2 DEF PollBefore, Inside, Waiting
        <5>3. CASE SaveFinished
          <6>1. occ' = occ /\ local = None /\ pc = "saveStep"
            BY <1>3, <2>1, <5>3, ActionFacts DEF SaveFinished, Transition, DiagnosisInv
          <6>2. completion \in Clean /\ completion # None
            BY <6>1, NoneIsNew DEF CompletionInv, Clean, Statuses, Terminal
          <6>3. QED
            BY <4>2, <6>1, <6>2 DEF CompletionInv, Occurrence, Shown, Clean
        <5>4. QED
          BY <5>1, <5>2, <5>3
      <4>3. CASE j # cur
        <5>1. occ[j] = "completed"
          BY <2>1, <2>6, <4>1, <4>3 DEF DiagnosisInv
        <5>2. occ'[j] = occ[j]
          BY <4>3, Frame DEF Begin, Stop, Observe, SaveFinished, TakeBack, TypeOK
        <5>3. QED
          BY <5>1, <5>2
      <4>4. QED
        BY <4>2, <4>3
    <3>3. CASE ~NextAction /\ pc \notin Inside
      <4>1. occ' = occ /\ cur' = cur
        BY <3>3, Frame DEF Begin, Stop, Observe, SaveFinished, Transition, Inside, Waiting,
           Running, Ended
      <4>2. QED
        BY <2>1, <2>6, <3>3, <4>1 DEF DiagnosisInv, TypeOK
    <3>4. QED
      BY <3>1, <3>2, <3>3
  <2>7. QED
    BY <2>1, <2>2, <2>3, <2>4, <2>5, <2>6
<1>4. QED
  BY <1>1, <1>2, <1>3 DEF DiagnosisInv

(* An occurrence changes only in its own turn: it begins, and it ends.     *)
LEMMA OccurrenceChange ==
  ASSUME IInv, Next
  PROVE  \/ UNCHANGED occ /\ ~Begin /\ ~Stop
         \/ Begin /\ cur \in 1..N /\ occ' = [occ EXCEPT ![cur] = "running"]
         \/ /\ Stop \/ Observe \/ SaveFinished
            /\ cur \in 1..N
            /\ \E s \in Terminal : occ' = [occ EXCEPT ![cur] = s]
<1> USE DEF IInv
<1>1. CASE Begin
  BY <1>1, InsideFacts DEF Begin, Transition, Inside, Waiting
<1>2. CASE Stop
  BY <1>2, InsideFacts, ShownFacts DEF Stop, Transition, Inside, Running
<1>3. CASE Observe
  BY <1>3, InsideFacts, ShownFacts DEF Observe, AfterHooks, Transition, Inside, Ended
<1>4. CASE SaveFinished
  <2>1. cur \in 1..N /\ pc = "saveStep" /\ ~Begin /\ ~Stop
    BY <1>4, InsideFacts DEF SaveFinished, Begin, Stop, Transition, Inside, Ended
  <2>2. occ' = occ \/ \E k \in Kinds : occ' = [occ EXCEPT ![cur] = k]
    BY <1>4 DEF SaveFinished, TakeBack
  <2>3. QED
    BY <1>4, <2>1, <2>2 DEF Kinds, Terminal
<1>5. QED
  BY <1>1, <1>2, <1>3, <1>4, Frame

LEMMA OccurrenceStep ==
  ASSUME IInv, Next
  PROVE  OccurrenceInv'
<1> USE DEF IInv
<1>1. cur' = cur \/ NextAction
  BY Frame
<1>2. cur \in 0..N /\ N \in Nat /\ occ \in [1..N -> OccurrenceStates] /\ TypeOK'
  BY PlanFacts, TypeStep DEF TypeOK
<1>3. ASSUME NEW j \in 1..N
      PROVE  Plan[j].enabled <=> occ'[j] # "skipped"
  <2>1. CASE j = cur /\ ~UNCHANGED occ
    <3>1. pc \in Inside
      BY <2>1, Frame DEF Begin, Stop, Observe, SaveFinished, Transition, Inside, Waiting, Running,
         Ended
    <3>2. Plan[cur].enabled /\ occ'[cur] # "skipped"
      BY <1>2, <2>1, <3>1, OccurrenceChange, InsideFacts DEF Terminal
    <3>3. QED
      BY <2>1, <3>2
  <2>2. CASE j # cur \/ UNCHANGED occ
    BY <1>2, <2>2, OccurrenceChange DEF OccurrenceInv
  <2>3. QED
    BY <2>1, <2>2
<1>4. ASSUME NEW j \in 1..N, j > cur'
      PROVE  occ'[j] \in {"unreached", "skipped"} /\ ~best'[j]
  <2>1. j > cur /\ j # cur /\ cur' \in {cur, cur + 1}
    BY <1>1, <1>2, <1>4 DEF NextAction
  <2>2. occ'[j] = occ[j]
    BY <1>2, <2>1, OccurrenceChange
  <2>3. best'[j] = best[j]
    BY <1>2, <1>4, <2>1, Frame DEF NextAction, PollBefore, TypeOK
  <2>4. QED
    BY <2>1, <2>2, <2>3 DEF OccurrenceInv
<1>5. ASSUME NEW j \in 1..N, occ'[j] = "running"
      PROVE  j = cur' /\ pc' \in Running
  <2>1. CASE Begin
    BY <1>2, <1>5, <2>1, OccurrenceChange DEF Begin, Transition, OccurrenceInv, Waiting, Running
  <2>2. CASE ~Begin
    <3>1. occ[j] = "running" /\ ~Stop
      BY <1>2, <1>5, <2>2, OccurrenceChange DEF OccurrenceInv, Stop, Terminal, Transition
    <3>2. j = cur /\ pc \in Running
      BY <3>1 DEF OccurrenceInv
    <3>3. pc' \in Running /\ ~NextAction
      BY <2>2, <3>1, <3>2 DEF Next, SaveIntent, Validate, SaveInitial, NextAction, PollBefore,
         Started, Announce, AfterAnnounce, Invoke, Returned, Raised, PollAfter, Publish,
         AfterPublishError, Retain, AfterRetain, Published, RecordArtifact, PollPublished,
         Finished, Observe, SaveFinished, Settle, SaveFinal, Transition, Running
    <3>4. QED
      BY <1>1, <3>2, <3>3
  <2>3. QED
    BY <2>1, <2>2
<1>6. ASSUME NEW j \in 1..N, handed'[j] # None
      PROVE  j <= cur' /\ occ'[j] \notin {"unreached", "skipped"}
  <2>1. CASE Invoke
    <3>1. cur \in 1..N /\ cur' = cur /\ occ' = occ /\ occ[cur] = "running"
      BY <2>1, InsideFacts DEF Invoke, progress, Inside, Running, OccurrenceInv
    <3>2. j = cur \/ handed[j] # None
      BY <1>6, <2>1 DEF Invoke, TypeOK
    <3>3. QED
      BY <3>1, <3>2 DEF OccurrenceInv
  <2>2. CASE ~Invoke
    <3>1. j <= cur /\ occ[j] \notin {"unreached", "skipped"}
      BY <1>6, <2>2, Frame DEF OccurrenceInv
    <3>2. occ'[j] \notin {"unreached", "skipped"}
      BY <1>2, <3>1, OccurrenceChange DEF Terminal
    <3>3. QED
      BY <1>1, <1>2, <3>1, <3>2 DEF NextAction
  <2>3. QED
    BY <2>1, <2>2
<1>7. pc' \in Waiting => occ'[cur'] = "unreached"
  <2>1. CASE NextAction
    BY <1>2, <2>1, PlanFacts, OccurrenceChange DEF NextAction, OccurrenceInv, Runs, Waiting, Begin,
       Stop, Observe, SaveFinished, Transition
  <2>2. CASE PollBefore
    BY <2>2 DEF PollBefore, OccurrenceInv, Waiting
  <2>3. CASE ~NextAction /\ ~PollBefore
    BY <2>3 DEF Next, SaveIntent, Validate, SaveInitial, Begin, Started, Announce, AfterAnnounce,
       Invoke, Returned, Raised, PollAfter, Publish, AfterPublishError, Retain, AfterRetain,
       Published, RecordArtifact, PollPublished, Stop, Finished, Observe, SaveFinished, Settle,
       SaveFinal, Transition, Waiting
  <2>4. QED
    BY <2>1, <2>2, <2>3
<1>8. pc' \in Running => occ'[cur'] = "running"
  <2>1. CASE Begin
    BY <1>1, <1>2, <2>1, OccurrenceChange DEF Begin, NextAction, Transition, Terminal, Stop,
       Observe, SaveFinished
  <2>2. CASE ~Begin
    <3>1. pc' \in Running => pc \in Running /\ UNCHANGED <<cur, occ>>
      BY <2>2 DEF Next, SaveIntent, Validate, SaveInitial, NextAction, PollBefore, Started,
         Announce, Invoke, PollAfter, Publish, Retain, Published, RecordArtifact, PollPublished,
         Stop, Finished, Observe, SaveFinished, Settle, SaveFinal, Transition, Running, progress
    <3>2. QED
      BY <3>1 DEF OccurrenceInv
  <2>3. QED
    BY <2>1, <2>2
<1>9. pc' \in Ended => occ'[cur'] \in Terminal
  <2>1. ASSUME pc' \in Ended
        PROVE  /\ cur' = cur /\ cur \in 1..N
               /\ Stop \/ Observe \/ (Finished /\ UNCHANGED occ)
    BY <2>1, InsideStep, InsideFacts DEF Next, SaveIntent, Validate, SaveInitial, NextAction,
       PollBefore, Begin, Started, Announce, AfterAnnounce, Invoke, Returned, Raised, PollAfter,
       Publish, AfterPublishError, Retain, AfterRetain, Published, RecordArtifact, PollPublished,
       Finished, SaveFinished, Settle, SaveFinal, Transition, Inside, Ended, progress
  <2>2. Stop \/ Observe => pc' \in Ended /\ occ'[cur] \in Terminal
    BY <1>2, <2>1, ShownFacts DEF Stop, Observe, AfterHooks, Transition, Ended
  <2>3. Finished => pc \in Ended
    BY DEF Finished, Transition, Ended
  <2>4. QED
    BY <2>1, <2>2, <2>3 DEF OccurrenceInv
<1>10. QED
  BY <1>3, <1>4, <1>5, <1>6, <1>7, <1>8, <1>9 DEF OccurrenceInv

(* Published segments only become more, each in its own turn.              *)
LEMMA ArtifactsGrow ==
  ASSUME IInv, Next
  PROVE  /\ Done(artifacts) \subseteq Done(artifacts')
         /\ Done(artifacts') \subseteq Done(artifacts) \cup {cur}
         /\ pc' \in {"retain", "published"} /\ pc = "publish" => cur \in Done(artifacts')
         /\ artifacts' = artifacts \/ (Publish /\ local' = None)
<1>1. CASE Publish
  <2>1. cur \in 1..N /\ artifacts \in Seq(1..N)
    BY <1>1, InsideFacts DEF IInv, TypeOK, Publish, Inside, Running
  <2>2. Done(Append(artifacts, cur)) = Done(artifacts) \cup {cur}
    <3> DEFINE S == 1..N
    <3>1. artifacts \in Seq(S) /\ cur \in S
      BY <2>1
    <3> HIDE DEF S
    <3>2. QED
      BY <3>1, AppendAdds
  <2>3. local = None
    BY <1>1 DEF Publish, IInv, CompletionInv
  <2>4. QED
    BY <1>1, <2>2, <2>3 DEF Publish, Succeed, AfterPublishError
<1>2. CASE ~Publish
  <2>1. artifacts' = artifacts
    BY <1>2, Frame
  <2>2. pc' \in {"retain", "published"} => pc # "publish"
    BY <1>2 DEF Next, SaveIntent, Validate, SaveInitial, NextAction, PollBefore, Begin, Started,
       Announce, AfterAnnounce, Invoke, Returned, Raised, PollAfter, Retain, AfterRetain,
       Published, RecordArtifact, PollPublished, Stop, Finished, Observe, SaveFinished, Settle,
       SaveFinal, Transition
  <2>3. QED
    BY <2>1, <2>2
<1>3. QED
  BY <1>1, <1>2

LEMMA ArtifactStep ==
  ASSUME IInv, Next
  PROVE  ArtifactInv'
<1> USE DEF IInv
<1> DEFINE There == {"retain", "published", "record", "pollPublished"}
<1>1. cur' = cur \/ (NextAction /\ cur' = cur + 1)
  BY Frame DEF NextAction
<1>2. cur \in 0..N /\ N \in Nat
  BY PlanFacts DEF TypeOK
<1>3. \A j \in Done(artifacts') : j <= cur'
  <2>1. \A j \in Done(artifacts') : j \in 1..N /\ j <= cur
    <3>1. Done(artifacts) \subseteq 1..N
      <4> DEFINE S == 1..N
      <4>1. artifacts \in Seq(S)
        BY DEF TypeOK
      <4> HIDE DEF S
      <4>2. \A k \in DOMAIN artifacts : artifacts[k] \in S
        BY <4>1
      <4>3. QED
        BY <4>2 DEF Done, S
    <3>2. artifacts' # artifacts => cur \in 1..N
      BY ArtifactsGrow, InsideFacts DEF Publish, Inside, Running
    <3>3. QED
      BY <1>2, <3>1, <3>2, ArtifactsGrow DEF ArtifactInv
  <2>2. QED
    BY <1>1, <1>2, <2>1
<1>4. ASSUME pc' \in There
      PROVE  cur' = cur /\ cur' \in Done(artifacts')
  <2>1. pc \in There \cup {"publish"} /\ ~NextAction
    BY <1>4 DEF Next, SaveIntent, Validate, SaveInitial, NextAction, PollBefore, Begin, Started,
       Announce, AfterAnnounce, Invoke, Returned, Raised, PollAfter, Publish, AfterPublishError,
       Retain, AfterRetain, Published, RecordArtifact, PollPublished, Stop, Finished, Observe,
       SaveFinished, Settle, SaveFinal, Transition
  <2>2. CASE pc = "publish"
    <3>1. pc' \in {"retain", "published"}
      BY <1>4, <2>2 DEF Next, SaveIntent, Validate, SaveInitial, NextAction, PollBefore, Begin,
         Started, Announce, AfterAnnounce, Invoke, Returned, Raised, PollAfter, Publish,
         AfterPublishError, Retain, AfterRetain, Published, RecordArtifact, PollPublished, Stop,
         Finished, Observe, SaveFinished, Settle, SaveFinal, Transition
    <3>2. QED
      BY <1>1, <2>1, <2>2, <3>1, ArtifactsGrow
  <2>3. CASE pc \in There
    BY <1>1, <2>1, <2>3, ArtifactsGrow DEF ArtifactInv
  <2>4. QED
    BY <2>1, <2>2, <2>3
<1>5. ASSUME pc' \in {"stop"} \cup Ended, local' = None, Plan[cur'].op = "segment"
      PROVE  cur' \in Done(artifacts')
  <2>1. ~NextAction /\ pc' \in Inside
    BY <1>5 DEF NextAction, Inside, Running, Ended
  <2>2. cur' = cur /\ local = None
    BY <1>5, <2>1, InsideStep
  <2>3. pc \in {"pollPublished", "stop"} \cup Ended
    <3>1. ~Announce /\ ~Publish /\ ~PollAfter
      BY <1>5, <2>2, ActionFacts, NoneIsNew DEF Announce, AfterAnnounce, Publish, PollAfter, Fail,
         Kinds, Statuses, Terminal, Ended
    <3>2. ~Invoke
      BY <1>5, ActionFacts, NoneIsNew DEF Kinds, Statuses, Terminal, Ended
    <3>3. QED
      BY <1>5, <3>1, <3>2 DEF Next, SaveIntent, Validate, SaveInitial, NextAction, PollBefore,
         Begin, Started, Retain, AfterRetain, Published, RecordArtifact, PollPublished, Stop,
         Finished, Observe, SaveFinished, Settle, SaveFinal, Transition, Ended
  <2>4. cur \in Done(artifacts)
    BY <1>5, <2>2, <2>3 DEF ArtifactInv
  <2>5. QED
    BY <2>2, <2>4, ArtifactsGrow
<1>6. ASSUME NEW j \in 1..N, Plan[j].op = "segment", occ'[j] = "completed"
      PROVE  j \in Done(artifacts')
  <2>1. CASE occ[j] = "completed"
    BY <1>6, <2>1, ArtifactsGrow DEF ArtifactInv
  <2>2. CASE occ[j] # "completed"
    <3>1. j = cur /\ (Stop \/ Observe \/ SaveFinished)
      BY <1>6, <2>2, OccurrenceChange DEF TypeOK
    <3>2. ~SaveFinished
      <4>1. SaveFinished => occ' = occ \/ \E k \in Kinds : occ' = [occ EXCEPT ![cur] = k]
        BY DEF SaveFinished, TakeBack
      <4>2. QED
        BY <1>6, <2>2, <3>1, <4>1 DEF Kinds, TypeOK
    <3>3. local' = None /\ pc' \in Ended /\ cur' = cur
      BY <1>6, <3>1, <3>2, ShownFacts DEF Stop, Observe, AfterHooks, Transition, Ended, TypeOK
    <3>4. QED
      BY <1>5, <1>6, <3>1, <3>3
  <2>3. QED
    BY <2>1, <2>2
<1>7. announced' \subseteq Done(artifacts')
  <2>1. announced' \subseteq announced \cup {cur} /\ (announced' = announced \/ pc = "published")
    BY Frame DEF Published, Transition
  <2>2. QED
    BY <2>1, ArtifactsGrow DEF ArtifactInv
<1>8. QED
  BY <1>3, <1>4, <1>5, <1>6, <1>7 DEF ArtifactInv

(* A save writes the attempt as it stood before the save.                  *)
LEMMA SavedChange ==
  ASSUME IInv, Next
  PROVE  saved' = saved \/ (saved' = Snapshot /\ saved' # None)
  BY Frame, ActionFacts, SnapshotTyped DEF IInv

(* What could be saved now does not claim more than happened.              *)
LEMMA SnapshotIsBacked ==
  ASSUME IInv
  PROVE  /\ Done(Snapshot.artifacts) = Done(artifacts)
         /\ Snapshot.occ = occ
         /\ Snapshot.status = "completed" =>
              \A j \in 1..N : occ[j] = IF Plan[j].enabled THEN "completed" ELSE "skipped"
<1>1. Snapshot.artifacts = artifacts /\ Snapshot.occ = occ /\ Snapshot.status = status
  BY DEF Snapshot
<1>2. ASSUME status = "completed", NEW j \in 1..N
      PROVE  occ[j] = IF Plan[j].enabled THEN "completed" ELSE "skipped"
  <2>1. primary = None /\ pc \in After /\ cur = N
    BY <1>2 DEF IInv, DiagnosisInv, PlaceInv
  <2>2. pc \notin Inside /\ (j < cur \/ j = cur)
    BY <2>1, PlanFacts DEF After, Inside, Waiting, Running, Ended
  <2>3. Plan[j].enabled => occ[j] = "completed"
    BY <2>1, <2>2 DEF IInv, DiagnosisInv
  <2>4. ~Plan[j].enabled => occ[j] = "skipped"
    BY DEF IInv, OccurrenceInv
  <2>5. QED
    BY <2>3, <2>4
<1>3. QED
  BY <1>1, <1>2

LEMMA SavedStep ==
  ASSUME IInv, Next
  PROVE  SavedInv'
<1> USE DEF IInv
<1>1. DiskNeverOverclaims'
  <2>1. CASE saved' = saved
    BY <2>1, ArtifactsGrow DEF SavedInv, DiskNeverOverclaims
  <2>2. CASE saved' = Snapshot
    BY <2>2, ArtifactsGrow, SnapshotIsBacked DEF DiskNeverOverclaims, ArtifactInv
  <2>3. QED
    BY <2>1, <2>2, SavedChange
<1>2. AnnouncedBeforeWork'
  <2>1. SUFFICES ASSUME NEW j \in 1..N, handed'[j] # None
                 PROVE  saved' # None /\ saved'.occ[j] # "unreached"
    BY DEF AnnouncedBeforeWork
  <2>2. CASE handed[j] # None
    <3>1. saved # None /\ saved.occ[j] # "unreached" /\ occ[j] # "unreached"
      BY <2>2 DEF SavedInv, AnnouncedBeforeWork, OccurrenceInv
    <3>2. QED
      BY <3>1, SavedChange, SnapshotIsBacked
  <2>3. CASE handed[j] = None
    <3>1. Invoke /\ j = cur
      BY <2>1, <2>3, Frame DEF Invoke, TypeOK
    <3>2. QED
      BY <3>1 DEF Invoke, SavedInv
  <2>4. QED
    BY <2>2, <2>3
<1>3. RetainedBeforeHook'
  <2>1. SUFFICES ASSUME Named, NEW j \in announced'
                 PROVE  saved' # None /\ j \in Done(saved'.artifacts)
    BY DEF RetainedBeforeHook
  <2>2. CASE j \in announced
    <3>1. saved # None /\ j \in Done(saved.artifacts) /\ j \in Done(artifacts)
      BY <2>1, <2>2 DEF SavedInv, RetainedBeforeHook, ArtifactInv
    <3>2. QED
      BY <3>1, SavedChange, SnapshotIsBacked
  <2>3. CASE j \notin announced
    <3>1. Published /\ j = cur
      BY <2>1, <2>3, Frame DEF Published
    <3>2. QED
      BY <2>1, <3>1 DEF Published, Transition, SavedInv
  <2>4. QED
    BY <2>2, <2>3
<1>4. pc' = "invoke" => saved' # None /\ saved'.occ[cur'] # "unreached"
  <2>1. pc' = "invoke" => Announce /\ local' = None
    BY DEF Next, SaveIntent, Validate, SaveInitial, NextAction, PollBefore, Begin, Started,
       Announce, AfterAnnounce, Invoke, Returned, Raised, PollAfter, Publish, AfterPublishError,
       Retain, AfterRetain, Published, RecordArtifact, PollPublished, Stop, Finished, Observe,
       SaveFinished, Settle, SaveFinal, Transition
  <2>2. ASSUME Announce, local' = None
        PROVE  saved' # None /\ saved'.occ[cur'] # "unreached"
    <3>1. saved' = Snapshot /\ cur' = cur /\ occ[cur] = "running"
      BY <2>2, ActionFacts DEF Announce, OccurrenceInv, Running
    <3>2. QED
      BY <3>1, SnapshotTyped, SnapshotIsBacked
  <2>3. QED
    BY <2>1, <2>2
<1>5. pc' = "published" /\ Named => saved' # None /\ cur' \in Done(saved'.artifacts)
  <2>1. pc' = "published" /\ Named => Retain /\ local' = None
    BY DEF Next, SaveIntent, Validate, SaveInitial, NextAction, PollBefore, Begin, Started,
       Announce, AfterAnnounce, Invoke, Returned, Raised, PollAfter, Publish, AfterPublishError,
       Retain, AfterRetain, Published, RecordArtifact, PollPublished, Stop, Finished, Observe,
       SaveFinished, Settle, SaveFinal, Transition
  <2>2. ASSUME Retain, local' = None
        PROVE  saved' # None /\ cur' \in Done(saved'.artifacts)
    <3>1. Noticed("persist") /\ (local = None => saved' = Snapshot)
      BY <2>2, ActionFacts
    <3>2. saved' = Snapshot /\ cur' = cur /\ cur \in Done(artifacts)
      BY <2>2, <3>1 DEF Noticed, Retain, ArtifactInv
    <3>3. QED
      BY <3>2, SnapshotTyped, SnapshotIsBacked
  <2>3. QED
    BY <2>1, <2>2
<1>6. pc' = "returned" /\ status' = "completed" => saved' = Snapshot'
  <2>1. pc' = "returned" => SaveFinal
    BY DEF Next, SaveIntent, Validate, SaveInitial, NextAction, PollBefore, Begin, Started,
       Announce, AfterAnnounce, Invoke, Returned, Raised, PollAfter, Publish, AfterPublishError,
       Retain, AfterRetain, Published, RecordArtifact, PollPublished, Stop, Finished, Observe,
       SaveFinished, Settle, SaveFinal, Transition
  <2>2. ASSUME SaveFinal, status' = "completed"
        PROVE  saved' = Snapshot'
    <3>1. primary' = None
      BY <2>2, DiagnosisStep DEF DiagnosisInv
    <3>2. saved' = Snapshot /\ status' = status
      BY <2>2, <3>1, ActionFacts DEF Diagnosed, diagnosis
    <3>3. QED
      BY <2>2, <3>2 DEF SaveFinal, Snapshot, progress, results
  <2>3. QED
    BY <2>1, <2>2
<1>7. QED
  BY <1>1, <1>2, <1>3, <1>4, <1>5, <1>6 DEF SavedInv

(* What has to hold to start.                                              *)
LEMMA WorkStep ==
  ASSUME IInv, Next
  PROVE  WorkInv'
<1> USE DEF IInv
<1>1. ASSUME pc' \in Waiting \cup {"started", "announce", "invoke"}, local' = None
      PROVE  /\ ~cancelled'
             /\ primary' # None => best'[cur'] /\ Plan[cur'].gate = "run_available" /\ run'
  <2>1. CASE NextAction
    <3>1. cur + 1 \in 1..N /\ cur' = cur + 1 /\ primary' = primary /\ cancelled' = cancelled
          /\ run' = run
      BY <2>1, PlanFacts DEF NextAction, TypeOK, diagnosis, results
    <3>2. Runs(cur + 1) /\ best' = [best EXCEPT ![cur + 1] = BestEffort(cur + 1)]
      BY <1>1, <2>1 DEF NextAction, Waiting
    <3>3. best'[cur + 1] = BestEffort(cur + 1)
      BY <3>1, <3>2 DEF TypeOK
    <3>4. QED
      BY <3>1, <3>2, <3>3 DEF Runs, BestEffort
  <2>2. CASE ~NextAction
    <3>1. pc' \in Inside
      BY <1>1 DEF Inside, Running
    <3>2. cur' = cur /\ local = None /\ UNCHANGED diagnosis
      BY <1>1, <2>2, <3>1, InsideStep
    <3>3. pc \in Waiting \cup {"started", "announce"} /\ ~Invoke
      BY <1>1, <2>2, ActionFacts DEF Next, SaveIntent, Validate, SaveInitial, PollBefore, Begin,
         Started, Announce, AfterAnnounce, Invoke, PollAfter, Publish, AfterPublishError, Retain,
         AfterRetain, Published, RecordArtifact, PollPublished, Stop, Finished, Observe,
         SaveFinished, Settle, SaveFinal, Transition, Waiting
    <3>4. best' = best /\ run' = run
      BY <1>1, <2>2, <3>3, Frame DEF PollBefore
    <3>5. QED
      BY <3>2, <3>3, <3>4 DEF WorkInv, diagnosis
  <2>3. QED
    BY <2>1, <2>2
<1>2. ASSUME NEW j \in 1..N, handed'[j] # None, ~best'[j],
             NEW r \in Plan[j].requires, Plan[r].enabled
      PROVE  occ'[r] = "completed"
  <2>1. r \in 1..N /\ r < j
    BY PlanFacts
  <2>2. CASE handed[j] # None
    <3>1. j <= cur /\ occ[j] # "unreached" /\ cur \in 0..N
      BY <2>2 DEF OccurrenceInv, TypeOK
    <3>2. best'[j] = best[j]
      <4>1. best \in [1..N -> BOOLEAN] /\ j # cur + 1
        BY <3>1 DEF TypeOK
      <4>2. CASE NextAction
        BY <4>1, <4>2 DEF NextAction
      <4>3. CASE PollBefore
        <5>1. j # cur
          BY <3>1, <4>3 DEF PollBefore, OccurrenceInv, Waiting
        <5>2. QED
          BY <4>1, <4>3, <5>1 DEF PollBefore
      <4>4. QED
        BY <4>2, <4>3, Frame
    <3>3. occ[r] = "completed"
      BY <1>2, <2>2, <3>2 DEF WorkInv
    <3>4. r # cur
      BY <2>1, <3>1
    <3>5. QED
      BY <2>1, <3>3, <3>4, OccurrenceChange DEF TypeOK
  <2>3. CASE handed[j] = None
    <3>1. Invoke /\ j = cur /\ best' = best /\ occ' = occ
      BY <1>2, <2>3, Frame DEF Invoke, TypeOK, progress
    <3>2. primary = None
      BY <1>2, <3>1 DEF Invoke, CompletionInv, WorkInv
    <3>3. QED
      BY <1>2, <2>1, <3>1, <3>2 DEF DiagnosisInv
  <2>4. QED
    BY <2>2, <2>3
<1>3. QED
  BY <1>1, <1>2 DEF WorkInv

(* An error is of the current action, or of none, and none is recorded     *)
(* between two actions.                                                    *)
LEMMA ErrorsGrow ==
  ASSUME IInv, Next
  PROVE  \/ Errors' = Errors
         \/ /\ pc \in Before \cup Inside \cup {"final"}
            /\ \E d \in Diagnostics : /\ d.at = (IF pc \in Inside THEN cur ELSE 0)
                                      /\ Errors' = Errors \cup {d}
<1> USE DEF IInv
<1>1. CASE NextAction \/ Settle
  BY <1>1 DEF NextAction, Settle, diagnosis, Errors, Done
<1>2. CASE ~NextAction /\ ~Settle
  <2>1. PICK point : Diagnosed(point)
    BY <1>2, StepIsDiagnosed
  <2>2. pc \in Before \cup Inside \cup {"final"}
    BY <1>2 DEF Next, SaveIntent, Validate, SaveInitial, PollBefore, Begin, Started, Announce,
       Invoke, PollAfter, Publish, Retain, Published, RecordArtifact, PollPublished, Stop,
       Finished, Observe, SaveFinished, SaveFinal, Transition, Before, Inside, Waiting, Running,
       Ended
  <2>3. Key = IF pc \in Inside THEN cur ELSE 0
    BY <2>2, InsideFacts DEF Key, Before, Inside, Waiting, Running, Ended
  <2>4. QED
    BY <2>1, <2>2, <2>3 DEF Diagnosed
<1>3. QED
  BY <1>1, <1>2

(* The steps so far, except while the last one is saved.                   *)
LEMMA StepsKept ==
  ASSUME IInv, Next, NEW k \in DOMAIN steps, steps[k].at # cur \/ pc \notin Inside
  PROVE  /\ steps[k].status \in Clean <=> \A d \in Errors' : d.at # steps[k].at
         /\ occ'[steps[k].at] = Occurrence(steps[k].status)
<1> USE DEF IInv
<1>1. steps[k].at \in 1..N /\ cur \in 0..N
  <2> DEFINE Step == [at : 1..N, best : BOOLEAN, status : Statuses]
  <2>1. steps \in Seq(Step) /\ cur \in 0..N
    BY DEF TypeOK
  <2> HIDE DEF Step
  <2>2. steps[k] \in Step
    BY <2>1
  <2>3. QED
    BY <2>1, <2>2 DEF Step
<1>2. /\ steps[k].status \in Clean <=> \A d \in Errors : d.at # steps[k].at
      /\ occ[steps[k].at] = Occurrence(steps[k].status)
  BY DEF StepsInv
<1>3. \A d \in Errors' : d \in Errors \/ d.at # steps[k].at
  BY <1>1, ErrorsGrow
<1>4. Errors \subseteq Errors'
  BY ErrorsGrow
<1>5. occ'[steps[k].at] = occ[steps[k].at]
  <2>1. occ' # occ => pc \in Inside
    BY OccurrenceChange DEF Begin, Stop, Observe, SaveFinished, Transition, Inside, Waiting,
       Running, Ended
  <2>2. QED
    BY <1>1, <2>1, OccurrenceChange DEF TypeOK
<1>6. QED
  BY <1>2, <1>3, <1>4, <1>5

LEMMA StepsStep ==
  ASSUME IInv, Next
  PROVE  StepsInv'
<1> USE DEF IInv
<1> DEFINE Step == [at : 1..N, best : BOOLEAN, status : Statuses]
<1>1. /\ steps \in Seq(Step) /\ steps' \in Seq(Step)
      /\ cur \in 0..N /\ N \in Nat
      /\ cur' = cur \/ (NextAction /\ cur' = cur + 1)
  BY TypeStep, Frame, PlanFacts DEF TypeOK, NextAction
<1>2. \A k \in DOMAIN steps : steps[k] \in Step /\ steps[k].at \in 1..N
  <2> HIDE DEF Step
  <2>1. \A k \in DOMAIN steps : steps[k] \in Step
    BY <1>1
  <2>2. QED
    BY <2>1 DEF Step
<1>3. \A d \in Errors' : d.at <= cur'
  <2>1. \A d \in Errors : d.at \in 0..N /\ d.at <= cur
    <3>1. Errors \subseteq Diagnostics
      <4>1. \A k \in DOMAIN secondary : secondary[k] \in Diagnostics
        BY DEF TypeOK
      <4>2. QED
        BY <4>1 DEF Errors, Done, TypeOK
    <3>2. QED
      BY <3>1 DEF Diagnostics, StepsInv
  <2>2. \A d \in Errors' : d.at \in 0..N /\ d.at <= cur
    BY <1>1, <2>1, ErrorsGrow
  <2>3. QED
    BY <1>1, <2>2
<1>4. pc' \in Inside => (local' = None <=> \A d \in Errors' : d.at # cur')
  <2>1. CASE NextAction
    <3>1. \A d \in Errors' : d.at <= cur /\ d.at \in 0..N
      <4>1. Errors' = Errors
        BY <2>1 DEF NextAction, diagnosis, Errors, Done
      <4>2. Errors \subseteq Diagnostics
        <5>1. \A k \in DOMAIN secondary : secondary[k] \in Diagnostics
          BY DEF TypeOK
        <5>2. QED
          BY <5>1 DEF Errors, Done, TypeOK
      <4>3. QED
        BY <4>1, <4>2 DEF Diagnostics, StepsInv
    <3>2. pc' \in Inside => local' = None /\ cur' = cur + 1
      BY <2>1 DEF NextAction, Inside, Waiting, Running, Ended
    <3>3. QED
      BY <1>1, <3>1, <3>2
  <2>2. ASSUME ~NextAction, pc' \in Inside
        PROVE  local' = None <=> \A d \in Errors' : d.at # cur'
    <3>1. pc \in Inside /\ cur' = cur
      BY <2>2, InsideStep
    <3>2. PICK point : Noticed(point)
      BY <2>2, InsideStep
    <3>3. local = None <=> \A d \in Errors : d.at # cur
      BY <3>1 DEF StepsInv
    <3>4. Errors \subseteq Errors'
      BY ErrorsGrow
    <3>5. CASE local = None
      BY <3>1, <3>2, <3>3, <3>5 DEF Noticed
    <3>6. CASE local # None
      BY <3>1, <3>2, <3>3, <3>4, <3>6 DEF Noticed
    <3>7. QED
      BY <3>5, <3>6
  <2>3. QED
    BY <2>1, <2>2
<1>5. CASE UNCHANGED steps /\ ~SaveFinished /\ ~Observe
  <2>1. \A k \in DOMAIN steps : steps[k].at # cur \/ pc \notin Inside
    <3>1. pc # "saveStep"
      BY <1>5 DEF Next, SaveIntent, Validate, SaveInitial, NextAction, PollBefore, Begin, Started,
         Announce, Invoke, PollAfter, Publish, Retain, Published, RecordArtifact, PollPublished,
         Stop, Finished, Settle, SaveFinal, Transition
    <3>2. QED
      BY <3>1 DEF StepsInv
  <2>2. \A k \in DOMAIN steps :
          /\ steps[k].status \in Clean <=> \A d \in Errors' : d.at # steps[k].at
          /\ occ'[steps[k].at] = Occurrence(steps[k].status)
    BY <2>1, StepsKept
  <2>3. pc' # "saveStep"
    BY <1>5 DEF Next, SaveIntent, Validate, SaveInitial, NextAction, PollBefore, Begin, Started,
       Announce, AfterAnnounce, Invoke, Returned, Raised, PollAfter, Publish, AfterPublishError,
       Retain, AfterRetain, Published, RecordArtifact, PollPublished, Stop, Finished, Settle,
       SaveFinal, Transition
  <2>4. ASSUME NEW k \in DOMAIN steps
        PROVE  steps[k].at <= cur' /\ (steps[k].at = cur' => pc' \notin Inside \ {"saveStep"})
    <3>1. steps[k].at <= cur /\ (steps[k].at = cur => pc \notin Inside) /\ steps[k].at \in 1..N
      BY <1>2, <2>1 DEF StepsInv
    <3>2. CASE NextAction
      BY <1>1, <3>1, <3>2 DEF NextAction
    <3>3. CASE ~NextAction
      <4>1. cur' = cur
        BY <1>1, <3>3
      <4>2. pc' \in Inside => pc \in Inside
        BY <3>3, InsideStep
      <4>3. QED
        BY <3>1, <4>1, <4>2
    <3>4. QED
      BY <3>2, <3>3
  <2>5. \A k, l \in DOMAIN steps : k < l => steps[k].at < steps[l].at
    BY DEF StepsInv
  <2>6. steps' = steps
    BY <1>5
  <2>7. QED
    BY <1>3, <1>4, <2>2, <2>3, <2>4, <2>5, <2>6 DEF StepsInv, Clean, Occurrence
<1>6. CASE Observe
  <2> DEFINE step == [at |-> cur, best |-> best[cur], status |->
               IF occ'[cur] = "completed" THEN Shown(local', completion) ELSE occ'[cur]]
  <2>1. /\ cur \in 1..N /\ cur' = cur /\ pc = "observe" /\ pc' = "saveStep"
        /\ occ'[cur] = Occurrence(Shown(local', completion))
    BY <1>6, InsideFacts DEF Observe, AfterHooks, Transition, Inside, Ended, TypeOK
  <2>2. step.at = cur /\ step.status = Shown(local', completion)
    BY <1>6, <2>1, ShownFacts DEF Occurrence, Terminal
  <2>3. step.status \in Clean <=> \A d \in Errors' : d.at # step.at
    BY <1>4, <1>6, <2>1, <2>2, ShownFacts DEF Inside, Ended
  <2>4. step \in Step
    BY <2>1, <2>2, <1>6, ShownFacts DEF TypeOK
  <2>5. steps' = Append(steps, step)
    BY <1>6 DEF Observe
  <2> HIDE DEF step, Step
  <2>6. /\ DOMAIN steps' = 1..(Len(steps) + 1) /\ DOMAIN steps = 1..Len(steps)
        /\ Len(steps) \in Nat /\ Len(steps') = Len(steps) + 1
        /\ steps'[Len(steps) + 1] = step
        /\ \A k \in DOMAIN steps : steps'[k] = steps[k]
    BY <1>1, <2>4, <2>5
  <2>7. \A k \in DOMAIN steps : steps[k].at < cur
    BY <1>1, <1>2, <2>1 DEF StepsInv, Inside, Ended
  <2>8. \A k \in DOMAIN steps' : steps'[k].at <= cur' /\ (steps'[k].at = cur' => pc' \notin Inside \ {"saveStep"})
    <3>1. \A k \in DOMAIN steps' : k \in DOMAIN steps \/ k = Len(steps) + 1
      BY <2>6
    <3>2. \A k \in DOMAIN steps' : steps'[k].at <= cur
      BY <1>2, <2>1, <2>2, <2>6, <2>7, <3>1
    <3>3. QED
      BY <2>1, <3>2
  <2>9. \A k, l \in DOMAIN steps' : k < l => steps'[k].at < steps'[l].at
    <3>1. SUFFICES ASSUME NEW k \in DOMAIN steps', NEW l \in DOMAIN steps', k < l
                   PROVE  steps'[k].at < steps'[l].at
      OBVIOUS
    <3>2. k \in DOMAIN steps /\ (l \in DOMAIN steps \/ l = Len(steps) + 1)
      BY <2>6, <3>1
    <3>3. CASE l \in DOMAIN steps
      BY <2>6, <3>1, <3>2, <3>3 DEF StepsInv
    <3>4. CASE l = Len(steps) + 1
      BY <2>2, <2>6, <2>7, <3>2, <3>4
    <3>5. QED
      BY <3>2, <3>3, <3>4
  <2>10. steps' # <<>> /\ steps'[Len(steps')].at = cur'
    BY <2>1, <2>2, <2>6
  <2>11. ASSUME NEW k \in DOMAIN steps'
         PROVE  /\ steps'[k].status \in Clean <=> \A d \in Errors' : d.at # steps'[k].at
                /\ occ'[steps'[k].at] = Occurrence(steps'[k].status)
    <3>1. CASE k \in DOMAIN steps
      <4>1. steps[k].at # cur /\ steps'[k] = steps[k]
        BY <1>2, <2>1, <2>6, <2>7, <3>1
      <4>2. QED
        BY <3>1, <4>1, StepsKept
    <3>2. CASE k = Len(steps) + 1
      BY <2>1, <2>2, <2>3, <2>6, <3>2
    <3>3. QED
      BY <2>6, <3>1, <3>2
  <2>12. QED
    BY <1>3, <1>4, <2>1, <2>8, <2>9, <2>10, <2>11 DEF StepsInv, Clean, Occurrence
<1>7. CASE SaveFinished
  <2>1. /\ pc = "saveStep" /\ pc' = "next" /\ cur' = cur /\ cur \in 1..N /\ local' = local
        /\ Key = cur
    BY <1>7, InsideFacts, Frame DEF SaveFinished, NextAction, Transition, Inside, Ended
  <2> DEFINE last == Len(steps)
  <2>2. last \in DOMAIN steps /\ DOMAIN steps = 1..last /\ steps[last].at = cur
    <3>1. steps # <<>> /\ steps[Len(steps)].at = cur
      BY <2>1 DEF StepsInv
    <3> HIDE DEF Step
    <3>2. Len(steps) \in 1..Len(steps)
      BY <1>1, <3>1, LastOf
    <3>3. QED
      BY <1>1, <3>1, <3>2
  <2>3. \A k \in DOMAIN steps : k # last => steps[k].at < cur
    BY <2>2 DEF StepsInv
  <2>4. /\ DOMAIN steps' = DOMAIN steps
        /\ \A k \in DOMAIN steps : steps'[k].at = steps[k].at
        /\ \A k \in DOMAIN steps : k # last => steps'[k] = steps[k]
        /\ \/ UNCHANGED <<occ, steps>> /\ Errors' = Errors
           \/ /\ \E d \in Errors' : d.at = cur
              /\ local # None /\ UNCHANGED <<occ, steps>>
           \/ /\ \E d \in Errors' : d.at = cur
              /\ steps'[last].status \in Kinds /\ occ'[cur] = steps'[last].status
    <3>1. CASE Saved(TRUE) /\ UNCHANGED <<diagnosis, occ, steps>>
      <4>1. UNCHANGED <<occ, steps>> /\ Errors' = Errors
        BY <3>1 DEF diagnosis, Errors, Done
      <4>2. steps' = steps
        BY <4>1
      <4>3. QED
        BY <4>1, <4>2
    <3>2. CASE Saved(FALSE) /\ \E k \in Kinds : Record("persist", k, k, best[cur]) /\ TakeBack(k)
      <4>1. PICK k \in Kinds : Record("persist", k, k, best[cur]) /\ TakeBack(k)
        BY <3>2
      <4>2. best[cur] \in BOOLEAN /\ "persist" \in Points
        BY <2>1 DEF TypeOK, Points
      <4>3. Errors' = Errors \cup {Diagnostic("persist", k)}
        BY <4>1, <4>2, RecordFacts
      <4>4. \E d \in Errors' : d.at = cur
        <5>1. Diagnostic("persist", k).at = cur
          BY <2>1 DEF Diagnostic
        <5>2. QED
          BY <4>3, <5>1
      <4>5. CASE local = None
        <5>1. /\ occ' = [occ EXCEPT ![cur] = k]
              /\ steps' = [steps EXCEPT ![last] = [steps[last] EXCEPT !.status = k]]
          BY <4>1, <4>5 DEF TakeBack
        <5>2. steps[last] \in Step
          BY <1>2, <2>2
        <5>3. [steps[last] EXCEPT !.status = k].status = k
              /\ [steps[last] EXCEPT !.status = k].at = steps[last].at
          BY <5>2
        <5> HIDE DEF Step
        <5>4. /\ DOMAIN steps' = DOMAIN steps
              /\ \A l \in DOMAIN steps : l # last => steps'[l] = steps[l]
              /\ steps'[last] = [steps[last] EXCEPT !.status = k]
          BY <1>1, <2>2, <5>1
        <5>5. occ'[cur] = k
          BY <2>1, <5>1 DEF TypeOK
        <5>6. \A l \in DOMAIN steps : steps'[l].at = steps[l].at
          BY <5>3, <5>4
        <5>7. QED
          BY <4>1, <4>4, <5>3, <5>4, <5>5, <5>6
      <4>6. CASE local # None
        <5>1. steps' = steps /\ occ' = occ
          BY <4>1, <4>6 DEF TakeBack
        <5>2. QED
          BY <4>4, <4>6, <5>1
      <4>7. QED
        BY <4>5, <4>6
    <3>3. QED
      BY <1>7, <3>1, <3>2 DEF SaveFinished
  <2>5. \A k \in DOMAIN steps' : steps'[k].at <= cur' /\ (steps'[k].at = cur' => pc' \notin Inside \ {"saveStep"})
    BY <2>1, <2>2, <2>4 DEF StepsInv, Inside, Waiting, Running, Ended
  <2>6. \A k, l \in DOMAIN steps' : k < l => steps'[k].at < steps'[l].at
    BY <2>4 DEF StepsInv
  <2>7. ASSUME NEW k \in DOMAIN steps'
        PROVE  /\ steps'[k].status \in Clean <=> \A d \in Errors' : d.at # steps'[k].at
               /\ occ'[steps'[k].at] = Occurrence(steps'[k].status)
    <3>1. CASE k # last
      <4>1. steps[k].at # cur /\ steps'[k] = steps[k] /\ k \in DOMAIN steps
        BY <1>1, <1>2, <2>3, <2>4, <3>1
      <4>2. QED
        BY <4>1, StepsKept
    <3>2. CASE k = last
      <4>1. steps'[last].at = cur /\ last \in DOMAIN steps
        BY <2>2, <2>4
      <4>2. /\ steps[last].status \in Clean <=> \A d \in Errors : d.at # cur
            /\ occ[cur] = Occurrence(steps[last].status)
            /\ local = None <=> \A d \in Errors : d.at # cur
        BY <2>1, <2>2 DEF StepsInv, Inside, Ended
      <4>3. CASE UNCHANGED <<occ, steps>> /\ Errors' = Errors
        BY <3>2, <4>1, <4>2, <4>3
      <4>4. CASE (\E d \in Errors' : d.at = cur) /\ local # None /\ UNCHANGED <<occ, steps>>
        BY <3>2, <4>1, <4>2, <4>4
      <4>5. CASE /\ \E d \in Errors' : d.at = cur
                 /\ steps'[last].status \in Kinds /\ occ'[cur] = steps'[last].status
        BY <3>2, <4>1, <4>5 DEF Kinds, Clean, Occurrence
      <4>6. QED
        BY <2>4, <4>3, <4>4, <4>5
    <3>3. QED
      BY <3>1, <3>2
  <2>8. QED
    BY <1>3, <1>4, <2>1, <2>5, <2>6, <2>7 DEF StepsInv, Clean, Occurrence
<1>8. QED
  BY <1>5, <1>6, <1>7, Frame

-----------------------------------------------------------------------------
(* The invariant holds in the first state, and every step keeps it.        *)
LEMMA InitInv ==
  ASSUME Init
  PROVE  IInv
<1>1. cur = 0 /\ N \in Nat \ {0} /\ pc \in {"intent", "validate"}
  BY PlanFacts DEF Init
<1>2. occ \in [1..N -> OccurrenceStates] /\ \A j \in 1..N : occ[j] = IF Plan[j].enabled THEN "unreached" ELSE "skipped"
  BY DEF Init, OccurrenceStates
<1>3. <<>> \in Seq(Diagnostics) /\ <<>> \in Seq([at : 1..N, best : BOOLEAN, status : Statuses])
      /\ <<>> \in Seq(1..N)
  OBVIOUS
<1>4. TypeOK
  <2>1. secondary \in Seq(Diagnostics)
        /\ steps \in Seq([at : 1..N, best : BOOLEAN, status : Statuses])
        /\ artifacts \in Seq(1..N)
    BY <1>3 DEF Init
  <2>2. best \in [1..N -> BOOLEAN] /\ handed \in [1..N -> 0..N \cup {None}]
    BY DEF Init
  <2>3. pc \in Places /\ cur \in 0..N /\ source \in 0..N
    BY <1>1 DEF Init, Places
  <2>4. QED
    BY <1>2, <2>1, <2>2, <2>3 DEF Init, TypeOK
<1>5. Errors = {} /\ Done(artifacts) = {} /\ DOMAIN steps = {}
  BY DEF Init, Errors, Done
<1>6. PlaceInv
  BY <1>1 DEF PlaceInv, Inside, Waiting, Running, Ended, After
<1>7. DiagnosisInv
  BY <1>1, <1>5 DEF Init, DiagnosisInv, After
<1>8. OccurrenceInv
  BY <1>1, <1>2, PlanFacts DEF Init, OccurrenceInv, Waiting, Running, Ended
<1>9. CompletionInv
  BY <1>1 DEF Init, CompletionInv, Inside, Waiting, Running, Ended
<1>10. ArtifactInv
  BY <1>1, <1>2, <1>5 DEF Init, ArtifactInv, Ended
<1>11. SavedInv
  BY <1>1 DEF Init, SavedInv, DiskNeverOverclaims, AnnouncedBeforeWork, RetainedBeforeHook
<1>12. StepsInv
  BY <1>1, <1>5 DEF StepsInv, Inside, Waiting, Running, Ended
<1>13. WorkInv
  BY <1>1 DEF Init, WorkInv, Waiting
<1>14. QED
  BY <1>4, <1>6, <1>7, <1>8, <1>9, <1>10, <1>11, <1>12, <1>13 DEF IInv

LEMMA StepKeepsInv ==
  ASSUME IInv, Next
  PROVE  IInv'
  BY TypeStep, PlaceStep, DiagnosisStep, OccurrenceStep, CompletionStep, ArtifactStep, SavedStep,
     StepsStep, WorkStep DEF IInv

LEMMA StutterKeepsInv ==
  ASSUME IInv, UNCHANGED vars
  PROVE  IInv'
<1>1. UNCHANGED <<pc, cur, status, primary, secondary, cancelled, occ, best, steps, run, archive,
                  artifacts, source, local, completion, verdict, saved, handed, announced>>
  BY DEF vars
<1>2. TypeOK'
  BY <1>1 DEF IInv, TypeOK
<1>3. Errors' = Errors /\ Done(artifacts') = Done(artifacts)
  BY <1>1 DEF Errors, Done
<1>4. PlaceInv' /\ DiagnosisInv'
  BY <1>1, <1>3 DEF IInv, PlaceInv, DiagnosisInv
<1>5. OccurrenceInv' /\ CompletionInv'
  BY <1>1 DEF IInv, OccurrenceInv, CompletionInv, Completions, Occurrence, Shown
<1>6. ArtifactInv' /\ WorkInv'
  BY <1>1, <1>3 DEF IInv, ArtifactInv, WorkInv
<1>7. SavedInv'
  BY <1>1, <1>3 DEF IInv, SavedInv, DiskNeverOverclaims, AnnouncedBeforeWork, RetainedBeforeHook,
     Snapshot
<1>8. StepsInv'
  BY <1>1, <1>3 DEF IInv, StepsInv, Clean, Occurrence
<1>9. QED
  BY <1>2, <1>4, <1>5, <1>6, <1>7, <1>8 DEF IInv

(* For every plan, whatever fails and in whatever state the process dies,  *)
(* the runner's invariant holds: the loop of runner.ml:142-346.            *)
THEOREM RunnerInvariant == Spec => []IInv
<1>1. Init => IInv
  BY InitInv
<1>2. IInv /\ [Next]_vars => IInv'
  BY StepKeepsInv, StutterKeepsInv
<1>3. QED
  BY <1>1, <1>2, PTL DEF Spec

-----------------------------------------------------------------------------
(* What the invariant says of the attempt.                                 *)

LEMMA InvStarts ==
  ASSUME IInv
  PROVE  NoWorkAfterFailure
  BY DEF IInv, NoWorkAfterFailure, WorkInv, CompletionInv

LEMMA InvSaved ==
  ASSUME IInv
  PROVE  WriteAhead /\ DiskNeverOverclaims
  BY DEF IInv, SavedInv, WriteAhead

LEMMA InvSuccess ==
  ASSUME IInv
  PROVE  SuccessIsDurable
<1>1. SUFFICES ASSUME pc = "returned"
               PROVE  /\ status = "completed" <=> primary = None
                      /\ status = "completed" => saved = Snapshot /\ secondary = <<>>
  BY DEF SuccessIsDurable
<1>2. status = "completed" <=> primary = None
  BY <1>1 DEF IInv, DiagnosisInv, After
<1>3. QED
  BY <1>1, <1>2 DEF IInv, DiagnosisInv, SavedInv

LEMMA InvSteps ==
  ASSUME IInv
  PROVE  StepsTellTheTruth
<1>1. ASSUME pc = "returned"
      PROVE  \A j \in 1..N : occ[j] # "running"
  BY <1>1 DEF IInv, OccurrenceInv, Running
<1>2. TypeOK
  BY DEF IInv
<1>3. \A k \in DOMAIN steps :
        /\ steps[k].status \in {"completed", "accepted"} <=> \A d \in Errors : d.at # steps[k].at
        /\ occ[steps[k].at] = Occurrence(steps[k].status)
  BY DEF IInv, StepsInv, Clean
<1>4. QED
  BY <1>1, <1>2, <1>3 DEF StepsTellTheTruth

-----------------------------------------------------------------------------
(* The attempts.                                                           *)

(* The plans: any chain of segments, and the coarse plan of each endpoint. *)
StagesOnly == \E n \in Nat \ {0} : Plan = StagePlan(n)
CoarseOnly == \E full, arch \in BOOLEAN : Plan = Coarse(full, arch)

LEMMA StagePlanFacts ==
  ASSUME StagesOnly
  PROVE  \A j \in 1..N : /\ Plan[j].op = "segment" /\ Plan[j].enabled
                         /\ Plan[j].gate = "success"
<1>1. PICK n \in Nat \ {0} : Plan = StagePlan(n)
  BY DEF StagesOnly
<1>2. N = n
  BY <1>1 DEF N, StagePlan
<1>3. QED
  BY <1>1, <1>2 DEF StagePlan, Action

LEMMA CoarsePlanFacts ==
  ASSUME CoarseOnly
  PROVE  /\ N = 5
         /\ Plan[1].op = "run" /\ Plan[2].op = "postcheck" /\ Plan[3].op = "collect"
         /\ Plan[4].op = "report" /\ Plan[5].op = "archive"
         /\ Plan[1].enabled /\ Plan[3].enabled /\ Plan[4].enabled
         /\ Plan[3].gate = "run_available"
         /\ \A j \in {1, 2, 4, 5} : Plan[j].gate # "run_available"
  BY DEF CoarseOnly, Coarse, Action, N

(* Every step of an attempt is one of the runner, or stutters there.       *)
LEMMA AttemptStepsAreRunnerSteps ==
  ASSUME [AttemptNext]_allVars
  PROVE  [Next]_vars
<1>1. CASE Run
  BY <1>1 DEF Run, Silent, Next
<1>2. CASE ~Run
  BY <1>2 DEF AttemptNext, allVars, Planned, Prepared, Verify, RecordOutcome, Report, Interrupt,
     Handle, Die
<1>3. QED
  BY <1>1, <1>2

LEMMA CoarseStepsAreRunnerSteps ==
  ASSUME [CoarseNext]_coarseVars
  PROVE  [Next]_vars
<1>1. CASE Deliver \/ UNCHANGED coarseVars
  BY <1>1 DEF Deliver, coarseVars
<1>2. CASE Around
  BY <1>2 DEF Around, Next
<1>3. CASE Enter \/ Answer \/ Remember
  BY <1>3 DEF Enter, Answer, Remember, Raises, Completes, Throws, Next
<1>4. CASE Service
  BY <1>4 DEF Service, TakeScope, Refuse, Allocate, Launch, LastCheck, Conclude, Close, CloseFails,
     Raises, Throws, Next
<1>5. QED
  BY <1>1, <1>2, <1>3, <1>4 DEF CoarseNext

LEMMA AttemptHasInv == AttemptSpec => []IInv
<1>1. AttemptInit => IInv
  BY InitInv DEF AttemptInit
<1>2. IInv /\ [AttemptNext]_allVars => IInv'
  BY AttemptStepsAreRunnerSteps, StepKeepsInv, StutterKeepsInv
<1>3. QED
  BY <1>1, <1>2, PTL DEF AttemptSpec

LEMMA CoarseHasInv == CoarseSpec => []IInv
<1>1. CoarseInit => IInv
  BY InitInv DEF CoarseInit
<1>2. IInv /\ [CoarseNext]_coarseVars => IInv'
  BY CoarseStepsAreRunnerSteps, StepKeepsInv, StutterKeepsInv
<1>3. QED
  BY <1>1, <1>2, PTL DEF CoarseSpec

(* The summary on the disk of an attempt of any plan, in whatever state    *)
(* the process dies: it is ahead of the work, never ahead of what was      *)
(* done, and a returned success is the record on it (runner.ml:160-346).   *)
THEOREM RecordIsAlwaysDurable == AttemptSpec => []DurableRecord
<1>1. IInv => DurableRecord
  BY InvSaved, InvSuccess DEF DurableRecord
<1>2. QED
  BY <1>1, AttemptHasInv, PTL

-----------------------------------------------------------------------------
(* What is handed from stage to stage.  Until an action is published the   *)
(* source is its predecessor's, unless the attempt has failed already.     *)
Unpublished == {"poll", "begin", "started", "announce", "invoke", "pollAfter", "publish"}

HandoffInv ==
  /\ primary = None => source = IF pc \in Unpublished THEN cur - 1 ELSE cur
  /\ source # 0 => source \in Done(artifacts)
  /\ HandoffFollowsPlan

LEMMA HandoffStep ==
  ASSUME StagesOnly, IInv, HandoffInv, Next
  PROVE  HandoffInv'
<1> USE DEF IInv
<1>1. cur \in 0..N /\ N \in Nat /\ (cur' = cur \/ (NextAction /\ cur' = cur + 1))
  BY PlanFacts, Frame DEF TypeOK, NextAction
<1>2. ASSUME primary' = None
      PROVE  source' = IF pc' \in Unpublished THEN cur' - 1 ELSE cur'
  <2>1. primary = None /\ local' = None
    <3>1. Settle => primary = None
      BY <1>2 DEF Settle
    <3>2. QED
      BY <1>2, <3>1, StepIsDiagnosed, DiagnosisStep DEF Diagnosed, DiagnosisInv
  <2>2. CASE NextAction
    <3>1. cur + 1 \in 1..N /\ pc = "next"
      BY <1>1, <2>2 DEF NextAction
    <3>2. Runs(cur + 1)
      BY <2>1, <3>1, StagePlanFacts DEF Runs, DiagnosisInv
    <3>3. QED
      BY <1>1, <2>1, <2>2, <3>1, <3>2 DEF NextAction, results, HandoffInv, Unpublished
  <2>3. CASE Publish
    <3>1. pc = "publish"
      BY <2>3 DEF Publish
    <3>2. CASE source' = cur /\ pc' \in {"retain", "published"}
      BY <2>3, <3>2 DEF Publish, Unpublished
    <3>3. CASE \E k \in Kinds : Fail("publish", k)
      BY <2>1, <3>3, NoneIsNew DEF Fail, Kinds, Statuses, Terminal
    <3>4. QED
      BY <2>3, <3>2, <3>3 DEF Publish, HandOn
  <2>4. CASE ~NextAction /\ ~Publish
    <3>1. source' = source /\ cur' = cur
      BY <1>1, <2>4, Frame
    <3>2. pc' \in Unpublished <=> pc \in Unpublished
      <4>1. PollAfter => Plan[cur].op = "segment"
        BY InsideFacts, StagePlanFacts DEF PollAfter, Inside, Running
      <4>2. QED
        BY <2>1, <2>4, <4>1, ActionFacts, NoneIsNew DEF Next, SaveIntent, Validate, SaveInitial,
           PollBefore, Begin, Started, Announce, AfterAnnounce, Invoke, Returned, Raised, PollAfter,
           Retain, AfterRetain, Published, RecordArtifact, PollPublished, Stop, Finished, Observe,
           SaveFinished, Settle, SaveFinal, Transition, Unpublished, Kinds, Statuses, Terminal
    <3>3. QED
      BY <2>1, <3>1, <3>2 DEF HandoffInv
  <2>5. QED
    BY <2>2, <2>3, <2>4
<1>3. source' # 0 => source' \in Done(artifacts')
  <2>1. CASE source' = source
    BY <2>1, ArtifactsGrow DEF HandoffInv
  <2>2. CASE source' # source
    BY <2>2, Frame, ArtifactsGrow DEF Publish, HandOn, AfterPublishError
  <2>3. QED
    BY <2>1, <2>2
<1>4. HandoffFollowsPlan'
  <2>1. SUFFICES ASSUME NEW j \in 1..N, Plan[j].op = "segment", handed'[j] # None
                 PROVE  handed'[j] = j - 1 /\ (j > 1 => j - 1 \in Done(artifacts'))
    BY DEF HandoffFollowsPlan
  <2>2. CASE handed'[j] = handed[j]
    BY <2>1, <2>2, ArtifactsGrow DEF HandoffInv, HandoffFollowsPlan
  <2>3. CASE handed'[j] # handed[j]
    <3>1. Invoke /\ j = cur /\ handed'[j] = source /\ pc = "invoke"
      BY <2>3, Frame DEF Invoke, TypeOK
    <3>2. primary = None
      BY <2>1, <3>1, StagePlanFacts DEF WorkInv, CompletionInv
    <3>3. source = j - 1
      BY <3>1, <3>2 DEF HandoffInv, Unpublished
    <3>4. j > 1 => j - 1 \in Done(artifacts)
      BY <3>3 DEF HandoffInv
    <3>5. QED
      BY <3>1, <3>3, <3>4, ArtifactsGrow
  <2>4. QED
    BY <2>2, <2>3
<1>5. QED
  BY <1>2, <1>3, <1>4 DEF HandoffInv

(* Of a chain of segments each is handed what the one before it published  *)
(* in this attempt, and its step is clean exactly when nothing went wrong  *)
(* (runner.ml:206-318, stage_plan.ml).                                     *)
THEOREM StepsAreAlwaysTrue == ASSUME StagesOnly PROVE AttemptSpec => []StepsAreTrue
<1>1. AttemptInit => IInv /\ HandoffInv
  <2> SUFFICES ASSUME Init PROVE IInv /\ HandoffInv
    BY DEF AttemptInit
  <2>1. HandoffInv
    BY PlanFacts DEF Init, HandoffInv, HandoffFollowsPlan, Unpublished
  <2>2. QED
    BY <2>1, InitInv
<1>2. IInv /\ HandoffInv /\ [AttemptNext]_allVars => IInv' /\ HandoffInv'
  <2> SUFFICES ASSUME IInv, HandoffInv, [Next]_vars PROVE IInv' /\ HandoffInv'
    BY AttemptStepsAreRunnerSteps
  <2>1. CASE UNCHANGED vars
    BY <2>1, StutterKeepsInv DEF vars, HandoffInv, HandoffFollowsPlan, Done
  <2>2. QED
    BY <2>1, StepKeepsInv, HandoffStep
<1>3. IInv /\ HandoffInv => StepsAreTrue
  BY InvSteps DEF HandoffInv, StepsAreTrue
<1>4. QED
  BY <1>1, <1>2, <1>3, PTL DEF AttemptSpec

-----------------------------------------------------------------------------
(* The rules of the coarse plan.  Past its report an attempt that has not  *)
(* failed was accepted, and a run that is known is collected in its turn.  *)
Reported == cur = 5 \/ (cur = 4 /\ pc \notin Waiting \cup Running)

NoPollAnswered == \A d \in Errors : d.point # "cancel"

RulesInv ==
  /\ primary = None /\ Reported => verdict = "accepted"
  /\ \A j \in 1..N : handed[j] # None /\ ~best[j] /\ Plan[j].op = "archive" =>
       verdict = "accepted"
  /\ run /\ NoPollAnswered /\ (cur > 3 \/ (cur = 3 /\ pc \notin Waiting)) =>
       occ[3] # "unreached"

LEMMA RulesStep ==
  ASSUME CoarseOnly, IInv, RulesInv, Next
  PROVE  RulesInv'
<1> USE DEF IInv
<1>1. /\ cur \in 0..5 /\ N = 5 /\ (cur' = cur \/ (NextAction /\ cur' = cur + 1))
      /\ pc \in Inside => cur \in 1..5
  BY CoarsePlanFacts, Frame, InsideFacts DEF TypeOK, NextAction
<1>2. ASSUME primary' = None, Reported'
      PROVE  verdict' = "accepted"
  <2>1. primary = None /\ local' = None
    <3>1. Settle => primary = None
      BY <1>2 DEF Settle
    <3>2. QED
      BY <1>2, <3>1, StepIsDiagnosed, DiagnosisStep DEF Diagnosed, DiagnosisInv
  <2>2. CASE Stop
    <3>1. local = None /\ completion \in Clean /\ completion \in Completions \cup {None} /\ cur \in {4, 5}
      BY <1>1, <1>2, <2>1, <2>2, Frame DEF Stop, Transition, Reported, DiagnosisInv, CompletionInv,
         Inside, Running, NextAction
    <3>2. CASE cur = 4
      <4>1. completion = "accepted"
        BY <3>1, <3>2, CoarsePlanFacts, NoneIsNew DEF Completions, Clean, Statuses, Terminal
      <4>2. QED
        BY <2>2, <4>1 DEF Stop
    <3>3. CASE cur = 5
      <4>1. completion \notin {"accepted", "rejected", "invalid"}
        BY <3>1, <3>3, CoarsePlanFacts, NoneIsNew DEF Completions, Clean, Statuses, Terminal
      <4>2. verdict = "accepted"
        BY <2>1, <3>3 DEF Reported, RulesInv
      <4>3. QED
        BY <2>2, <4>1, <4>2 DEF Stop
    <3>4. QED
      BY <3>1, <3>2, <3>3
  <2>3. CASE ~Stop
    <3>1. verdict' = verdict
      BY <2>3, Frame
    <3>2. Reported
      <4>1. CASE NextAction
        BY <1>1, <1>2, <2>1, <4>1, CoarsePlanFacts DEF NextAction, Reported, Runs, Waiting, Running,
           DiagnosisInv
      <4>2. CASE ~NextAction
        <5>1. cur' = cur
          BY <1>1, <4>2
        <5>2. pc \in Waiting \cup Running => pc' \in Waiting \cup Running \/ local' # None
          BY <2>3, <4>2, ActionFacts DEF Next, SaveIntent, Validate, SaveInitial, PollBefore, Begin,
             Started, Announce, AfterAnnounce, Invoke, PollAfter, Publish, AfterPublishError,
             Retain, AfterRetain, Published, RecordArtifact, PollPublished, Finished, Observe,
             SaveFinished, Settle, SaveFinal, Transition, Waiting, Running
        <5>3. QED
          BY <1>2, <2>1, <5>1, <5>2 DEF Reported
      <4>3. QED
        BY <4>1, <4>2
    <3>3. QED
      BY <2>1, <3>1, <3>2 DEF RulesInv
  <2>4. QED
    BY <2>2, <2>3
<1>3. ASSUME NEW j \in 1..N, handed'[j] # None, ~best'[j], Plan[j].op = "archive"
      PROVE  verdict' = "accepted"
  <2>1. j = 5
    BY <1>1, <1>3, CoarsePlanFacts
  <2>2. CASE handed[j] # None
    <3>1. cur = 5 /\ occ[5] # "unreached"
      BY <1>1, <2>1, <2>2 DEF OccurrenceInv
    <3>2. best'[j] = best[j]
      <4>1. ~NextAction
        BY <1>1, <3>1 DEF NextAction
      <4>2. ~PollBefore
        BY <3>1 DEF PollBefore, OccurrenceInv, Waiting
      <4>3. QED
        BY <4>1, <4>2, Frame
    <3>3. verdict = "accepted"
      BY <1>3, <2>2, <3>2 DEF RulesInv
    <3>4. Stop => completion \notin {"accepted", "rejected"}
      BY <3>1, CoarsePlanFacts, NoneIsNew DEF Stop, Transition, CompletionInv, Completions, Inside,
         Running, Statuses, Terminal
    <3>5. Stop => verdict' = verdict
      BY <3>1, <3>4, CoarsePlanFacts DEF Stop
    <3>6. QED
      BY <3>3, <3>5, Frame
  <2>3. CASE handed[j] = None
    <3>1. Invoke /\ j = cur /\ best' = best /\ verdict' = verdict
      BY <1>3, <2>3, Frame DEF Invoke, TypeOK, progress
    <3>2. primary = None
      BY <1>3, <3>1 DEF Invoke, CompletionInv, WorkInv
    <3>3. QED
      BY <2>1, <3>1, <3>2 DEF RulesInv, Reported
  <2>4. QED
    BY <2>2, <2>3
<1>4. ASSUME run', NoPollAnswered', cur' > 3 \/ (cur' = 3 /\ pc' \notin Waiting)
      PROVE  occ'[3] # "unreached"
  <2>1. run
    <3>1. Invoke => Plan[cur].op # "run"
      BY <1>1, <1>4, CoarsePlanFacts, Frame DEF Invoke, Inside, Running, NextAction
    <3>2. QED
      BY <1>4, <3>1, ActionFacts, Frame
  <2>2. NoPollAnswered
    BY <1>4, ErrorsGrow DEF NoPollAnswered
  <2>3. CASE cur > 3 \/ (cur = 3 /\ pc \notin Waiting)
    BY <1>1, <2>1, <2>2, <2>3, OccurrenceChange DEF RulesInv, TypeOK, Terminal
  <2>4. CASE ~(cur > 3 \/ (cur = 3 /\ pc \notin Waiting))
    <3>1. CASE NextAction
      <4>1. ~cancelled
        BY <2>2 DEF DiagnosisInv, NoPollAnswered
      <4>2. cur = 2 /\ pc = "next" /\ cur' = 3
        BY <1>1, <1>4, <2>4, <3>1 DEF NextAction, Waiting
      <4>3. Runs(3)
        BY <2>1, <4>1, CoarsePlanFacts DEF Runs, BestEffort
      <4>4. pc' = "poll"
        BY <3>1, <4>2, <4>3 DEF NextAction
      <4>5. QED
        BY <1>4, <4>2, <4>4 DEF Waiting
    <3>2. CASE ~NextAction
      <4>1. cur = 3 /\ cur' = 3 /\ pc \in Waiting /\ pc' \notin Waiting
        BY <1>1, <1>4, <2>4, <3>2
      <4>2. Begin \/ (PollBefore /\ local' # None)
        BY <3>2, <4>1 DEF Next, SaveIntent, Validate, SaveInitial, PollBefore, Begin,
           Started, Announce, Invoke, PollAfter, Publish, Retain, Published, RecordArtifact,
           PollPublished, Stop, Finished, Observe, SaveFinished, Settle, SaveFinal, Transition,
           Waiting
      <4>3. CASE Begin
        BY <1>1, <4>1, <4>3 DEF Begin, TypeOK
      <4>4. CASE PollBefore /\ local' # None
        <5>1. local = None /\ Noticed("cancel")
          BY <4>4, ActionFacts DEF PollBefore, CompletionInv
        <5>2. \E d \in Errors' : d.point = "cancel"
          BY <4>4, <5>1 DEF Noticed
        <5>3. QED
          BY <1>4, <5>2 DEF NoPollAnswered
      <4>5. QED
        BY <4>2, <4>3, <4>4
    <3>3. QED
      BY <3>1, <3>2
  <2>5. QED
    BY <2>3, <2>4
<1>5. QED
  BY <1>2, <1>3, <1>4 DEF RulesInv, NoPollAnswered, Reported

LEMMA CoarseKeepsRules ==
  ASSUME CoarseOnly
  PROVE  CoarseSpec => [](IInv /\ RulesInv)
<1>1. CoarseInit => IInv /\ RulesInv
  <2> SUFFICES ASSUME Init PROVE IInv /\ RulesInv
    BY DEF CoarseInit
  <2>1. RulesInv
    BY DEF Init, RulesInv, Reported
  <2>2. QED
    BY <2>1, InitInv
<1>2. IInv /\ RulesInv /\ [CoarseNext]_coarseVars => (IInv /\ RulesInv)'
  <2> SUFFICES ASSUME IInv, RulesInv, [Next]_vars PROVE IInv' /\ RulesInv'
    BY CoarseStepsAreRunnerSteps
  <2>1. CASE UNCHANGED vars
    BY <2>1, StutterKeepsInv DEF vars, RulesInv, Reported, NoPollAnswered, Errors, Done
  <2>2. QED
    BY <2>1, StepKeepsInv, RulesStep
<1>3. QED
  BY <1>1, <1>2, PTL DEF CoarseSpec

(* Under the coarse plan nothing starts after a failure but collection,    *)
(* nothing without what it requires, no archive without an acceptance, and *)
(* a run that is known is collected (runner.ml:206-230, coarse.ml).        *)
THEOREM WorkAlwaysFollowsTheRules == ASSUME CoarseOnly PROVE CoarseSpec => []WorkFollowsTheRules
<1>1. IInv /\ RulesInv => WorkFollowsTheRules
  <2> SUFFICES ASSUME IInv, RulesInv PROVE WorkFollowsTheRules
    OBVIOUS
  <2>1. RequiresHonoured
    BY DEF IInv, RulesInv, WorkInv, RequiresHonoured
  <2>2. FailedRunsAreCollected
    <3>1. SUFFICES ASSUME pc = "returned", run, \A d \in Errors : d.point # "cancel",
                          NEW j \in 1..N, Plan[j].op = "collect"
                   PROVE  occ[j] # "unreached"
      BY DEF FailedRunsAreCollected
    <3>2. j = 3 /\ cur = 5
      BY <3>1, CoarsePlanFacts DEF IInv, PlaceInv, After
    <3>3. QED
      BY <3>1, <3>2 DEF RulesInv, NoPollAnswered
  <2>3. QED
    BY <2>1, <2>2, InvStarts DEF WorkFollowsTheRules, StartsAreJustified
<1>2. QED
  BY <1>1, CoarseKeepsRules, PTL

-----------------------------------------------------------------------------
(* The services of a coarse attempt, their records, and its signals.       *)

(* Where a service is, and of which action.                                *)
ServiceInv ==
  /\ svc # "idle" => pc = "invoke"
  /\ svc = "own" => Op \in {"collect", "report", "archive"}
  /\ svc = "own" /\ Op # "collect" => before = None
  /\ svc \in {"gap", "parse", "open", "tail", "closing", "back"} => Op \in Scoped
  /\ svc = "parse" => Op = "run"

(* The records of the two services against what they were told, and        *)
(* against what the runner made of it.                                     *)
RecordInv ==
  /\ svc = "open" => record[Op] \in {"starting", "running"}
  /\ svc = "tail" => record[Op] = "running"
  /\ svc = "closing" => record[Op] \in {"starting", "running"} /\ told[Op] \in Terminal
  /\ svc = "back" => /\ told[Op] \in Terminal /\ record[Op] # "none"
                     /\ told[Op] = "completed" => record[Op] = "completed"
  /\ \A s \in Scoped : record[s] \in Terminal => record[s] = told[s]
  /\ \/ svc \in {"open", "tail", "closing", "back"} /\ cur = 1
     \/ run <=> record["run"] # "none"
  /\ told["run"] = "interrupted" =>
       \/ svc \in {"closing", "back"} /\ cur = 1
       \/ primary # None /\ status = "interrupted"
  /\ primary = None =>
       \A j \in {1, 2} : /\ Plan[j].enabled
                         /\ j < cur \/ (j = cur /\ pc \notin Waiting \cup {"started", "announce", "invoke"})
                         => record[Plan[j].op] = "completed"

(* As long as nothing failed, a signal that was not delivered to a tail is *)
(* remembered where it will still be looked at, or was already told.       *)
Unheeded == \E k \in DOMAIN heard : heard[k] \notin Tails

LooksAhead ==
  \/ \E j \in (cur + 1)..N : Plan[j].enabled /\ Plan[j].op # "collect"
  \/ pc \in Waiting \cup {"started", "announce"} /\ Op # "collect"
  \/ pc = "invoke" /\ svc = "idle" /\ Op # "collect"
  \/ svc = "own" /\ before = None

HeedInv ==
  primary = None /\ Unheeded =>
    \/ own # None /\ LooksAhead
    \/ inner # None /\ svc \in {"parse", "open"}
    \/ svc \in {"closing", "back"} /\ told[Op] = "interrupted"

CoarseInv == CoarseTypeOK /\ ServiceInv /\ RecordInv /\ HeedInv

(* At its callback nothing has gone wrong in the action yet, and but for   *)
(* collection nothing at all.                                              *)
LEMMA AtInvoke ==
  ASSUME CoarseOnly, IInv, pc = "invoke"
  PROVE  /\ cur \in 1..5 /\ local = None /\ completion = None
         /\ Op # "collect" => primary = None
         /\ primary = None => ~best[cur]
         /\ Op \in Scoped <=> cur \in {1, 2}
         /\ Op = "run" <=> cur = 1
         /\ Op = "collect" <=> cur = 3
  BY CoarsePlanFacts, InsideFacts DEF IInv, Inside, Running, CompletionInv, WorkInv, DiagnosisInv,
     Op, Scoped

LEMMA RaiseFacts ==
  ASSUME CoarseOnly, IInv, NEW k \in Kinds, Raises(k)
  PROVE  /\ pc' = "stop" /\ cur' = cur /\ run' = run
         /\ primary' # None
         /\ primary = None => status' = k
         /\ primary # None => primary' = primary /\ status' = status
<1>1. Invoke /\ completion' = None /\ local' = k /\ pc = "invoke" /\ pc \in Inside
  BY DEF Raises, Invoke, Inside, Running
<1>2. cur' = cur
  BY <1>1 DEF Invoke
<1>3. PICK i \in Kinds : Raised(i)
  <2>1. ASSUME NEW c \in Completions, Returned(c)
        PROVE  FALSE
    BY <1>1, <2>1, NoneIsNew DEF Returned, Completions, Statuses
  <2>2. QED
    BY <1>1, <2>1 DEF Invoke
<1>4. Record("invoke", i, i, best[cur]) /\ pc' = "stop" /\ run' = run
  BY <1>3 DEF Raised, Fail
<1>5. i = k
  BY <1>1, <1>3, AtInvoke, NoneIsNew DEF Raised, Fail
<1>6. best[cur] \in BOOLEAN /\ "invoke" \in Points
  BY <1>1, AtInvoke, CoarsePlanFacts DEF IInv, TypeOK, Points
<1>7. /\ primary = None => primary' # None /\ status' = k
      /\ primary # None => primary' = primary /\ status' = status
  BY <1>1, <1>4, <1>5, <1>6, AtInvoke, RecordFacts DEF IInv
<1>8. QED
  BY <1>2, <1>4, <1>7

LEMMA CompleteFacts ==
  ASSUME CoarseOnly, IInv, NEW c \in Terminal \cup {"accepted", "rejected"}, Completes(c)
  PROVE  /\ pc' = "pollAfter" /\ cur' = cur /\ run' = (run \/ Op = "run")
         /\ c \in Clean => primary' = primary /\ status' = status
         /\ c \notin Clean => primary' # None
         /\ c \notin Clean /\ primary = None => status' = c
         /\ primary # None => primary' = primary /\ status' = status
<1>1. Invoke /\ completion' = c /\ pc = "invoke" /\ pc \in Inside
  BY DEF Completes, Invoke, Inside, Running
<1>2. cur' = cur /\ c # None
  BY <1>1, NoneIsNew DEF Invoke, Statuses, Terminal
<1>3. Returned(c)
  <2>1. ASSUME NEW i \in Kinds, Raised(i)
        PROVE  FALSE
    BY <1>1, <1>2, <2>1, AtInvoke DEF Raised
  <2>2. QED
    BY <1>1, <2>1 DEF Invoke, Returned
<1>4. pc' = "pollAfter" /\ run' = (run \/ Op = "run")
  BY <1>3 DEF Returned, Op, Terminal
<1>5. CASE c \in Clean
  BY <1>2, <1>3, <1>4, <1>5 DEF Returned, Succeed, diagnosis
<1>6. CASE c \notin Clean
  <2> DEFINE kind == IF c = "interrupted" THEN c ELSE "failed"
  <2>1. Record("invoke", kind, c, best[cur])
    BY <1>3, <1>6 DEF Returned, Terminal
  <2>2. kind \in Kinds /\ "invoke" \in Points
    BY DEF Kinds, Points
  <2> HIDE DEF kind
  <2>3. best[cur] \in BOOLEAN
    BY <1>1, AtInvoke, CoarsePlanFacts DEF IInv, TypeOK
  <2>4. /\ primary = None => primary' # None /\ status' = c
        /\ primary # None => primary' = primary /\ status' = status
    BY <1>1, <2>1, <2>2, <2>3, AtInvoke, RecordFacts DEF IInv
  <2>5. QED
    BY <1>2, <1>4, <1>6, <2>4
<1>7. QED
  BY <1>5, <1>6

LEMMA ThrowFacts ==
  ASSUME CoarseOnly, IInv, Throws
  PROVE  /\ pc' = "stop" /\ cur' = cur /\ run' = run
         /\ primary' # None
         /\ primary = None => status' \in Kinds
         /\ primary # None => primary' = primary /\ status' = status
  BY RaiseFacts DEF Throws, Kinds

(* A step of the runner around the services.                               *)
LEMMA AroundStep ==
  ASSUME CoarseOnly, IInv, CoarseInv, Around
  PROVE  CoarseInv'
<1> USE DEF IInv
<1>1. /\ Next /\ primary' = primary /\ UNCHANGED coarse /\ ~Invoke
  BY DEF Around, Next, Validate, SaveInitial, NextAction, PollBefore, Begin, Started, Announce,
     Invoke, PollAfter, Stop, Finished, Observe, SaveFinished, Settle, SaveFinal, Transition
<1>2. svc = "idle" /\ svc' = "idle" /\ own' = own /\ told' = told /\ record' = record
      /\ heard' = heard /\ inner' = inner /\ before' = before /\ run' = run
  <2>1. pc # "invoke"
    BY DEF Around, Validate, SaveInitial, NextAction, PollBefore, Begin, Started, Announce,
       PollAfter, Stop, Finished, Observe, SaveFinished, Settle, SaveFinal, Transition
  <2>2. QED
    BY <1>1, <2>1, Frame DEF CoarseInv, ServiceInv, coarse
<1>3. CoarseTypeOK' /\ ServiceInv'
  BY <1>2 DEF CoarseInv, CoarseTypeOK, ServiceInv
<1>4. /\ cur \in 0..5 /\ N = 5 /\ (cur' = cur \/ (NextAction /\ cur' = cur + 1))
  BY <1>1, CoarsePlanFacts, Frame DEF TypeOK, NextAction
<1>5. ASSUME primary = None
      PROVE  local' = None
  BY <1>1, <1>5, DiagnosisStep DEF DiagnosisInv
<1>6. primary # None => status' = status
  BY <1>1, StepIsDiagnosed DEF Settle, Diagnosed
<1>7. ASSUME primary = None, NEW j \in {1, 2}, Plan[j].enabled,
             j < cur' \/ (j = cur' /\ pc' \notin Waiting \cup {"started", "announce", "invoke"})
      PROVE  record[Plan[j].op] = "completed"
  <2>1. CASE NextAction
    <3>1. ~cancelled
      BY <1>7 DEF DiagnosisInv
    <3>2. Plan[cur + 1].enabled => pc' \in Waiting
      BY <1>7, <2>1, <3>1 DEF NextAction, Runs, Waiting
    <3>3. j < cur + 1 /\ pc = "next"
      BY <1>4, <1>7, <2>1, <3>2 DEF NextAction
    <3>4. QED
      BY <1>4, <1>7, <3>3 DEF CoarseInv, RecordInv, Waiting
  <2>2. CASE ~NextAction
    <3>1. cur' = cur
      BY <1>4, <2>2
    <3>2. pc \in Waiting \cup {"started", "announce"} =>
            pc' \in Waiting \cup {"started", "announce", "invoke"}
      BY <1>1, <1>5, <1>7, <2>2 DEF Around, Validate, SaveInitial, PollBefore, Begin, Started,
         Announce, AfterAnnounce, PollAfter, Stop, Finished, Observe, SaveFinished, Settle,
         SaveFinal, Transition, Waiting
    <3>3. pc # "invoke"
      BY <1>1 DEF Around, Validate, SaveInitial, NextAction, PollBefore, Begin, Started, Announce,
         PollAfter, Stop, Finished, Observe, SaveFinished, Settle, SaveFinal, Transition
    <3>4. QED
      BY <1>7, <3>1, <3>2, <3>3 DEF CoarseInv, RecordInv
  <2>3. QED
    BY <2>1, <2>2
<1>8. RecordInv'
  BY <1>1, <1>2, <1>6, <1>7 DEF CoarseInv, RecordInv, Op
<1>9. HeedInv'
  <2>1. SUFFICES ASSUME primary = None, Unheeded
                 PROVE  own # None /\ LooksAhead'
    BY <1>1, <1>2 DEF HeedInv, Unheeded
  <2>2. own # None /\ LooksAhead
    BY <1>2, <2>1 DEF CoarseInv, HeedInv
  <2>3. CASE \E j \in (cur + 1)..N : Plan[j].enabled /\ Plan[j].op # "collect"
    <3>1. PICK j \in (cur + 1)..N : Plan[j].enabled /\ Plan[j].op # "collect"
      BY <2>3
    <3>2. CASE j \in (cur' + 1)..N
      BY <2>2, <3>1, <3>2 DEF LooksAhead
    <3>3. CASE j \notin (cur' + 1)..N
      <4>1. NextAction /\ j = cur + 1 /\ cur' = cur + 1
        BY <1>4, <3>1, <3>3
      <4>2. ~cancelled
        BY <2>1 DEF DiagnosisInv
      <4>3. pc' \in Waiting
        BY <2>1, <3>1, <4>1, <4>2 DEF NextAction, Runs, Waiting
      <4>4. QED
        BY <2>2, <3>1, <4>1, <4>3 DEF LooksAhead, Op
    <3>4. QED
      BY <3>2, <3>3
  <2>4. CASE pc \in Waiting \cup {"started", "announce"} /\ Op # "collect"
    <3>1. ~NextAction
      BY <2>4 DEF NextAction, Waiting
    <3>2. pc' \in Waiting \cup {"started", "announce", "invoke"}
      BY <1>5, <2>1, <2>4, <3>1 DEF Around, Validate, SaveInitial, PollBefore, Begin, Started,
         Announce, AfterAnnounce, PollAfter, Stop, Finished, Observe, SaveFinished, Settle,
         SaveFinal, Transition, Waiting
    <3>3. Op' # "collect"
      BY <1>4, <2>4, <3>1 DEF Op
    <3>4. QED
      BY <1>2, <2>2, <3>2, <3>3 DEF LooksAhead
  <2>5. pc # "invoke" /\ svc # "own"
    BY <1>2 DEF Around, Validate, SaveInitial, NextAction, PollBefore, Begin, Started, Announce,
       PollAfter, Stop, Finished, Observe, SaveFinished, Settle, SaveFinal, Transition
  <2>6. QED
    BY <2>2, <2>3, <2>4, <2>5 DEF LooksAhead
<1>10. QED
  BY <1>3, <1>8, <1>9 DEF CoarseInv

(* A signal is delivered.                                                  *)
LEMMA DeliverStep ==
  ASSUME CoarseOnly, IInv, CoarseInv, Deliver
  PROVE  CoarseInv'
<1> USE DEF IInv
<1> DEFINE Heard == (Scoped \cup {"executor"}) \X {"parse", "open", "tail"}
<1>1. /\ UNCHANGED vars /\ before' = before /\ svc' = svc /\ record' = record /\ told' = told
      /\ heard' = Append(heard, Place) /\ heard \in Seq(Heard)
      /\ UNCHANGED <<pc, cur, primary, status, run>>
  BY DEF Deliver, vars, CoarseInv, CoarseTypeOK
<1>2. /\ own # None => own' = own
      /\ inner # None => inner' = inner
      /\ own' \in Signals \cup {None} /\ inner' \in Signals \cup {None}
      /\ InService => inner' # None
      /\ ~InService => own' # None
  BY SignalsAreNamed DEF Deliver, First, CoarseInv, CoarseTypeOK
<1>3. Place \in Heard
  <2>1. CASE InService
    BY <2>1 DEF Place, InService, CoarseInv, ServiceInv
  <2>2. CASE ~InService
    BY <2>2 DEF Place
  <2>3. QED
    BY <2>1, <2>2
<1> HIDE DEF Heard
<1>4. /\ heard' \in Seq(Heard)
      /\ \A k \in DOMAIN heard' : heard'[k] = Place \/ (k \in DOMAIN heard /\ heard'[k] = heard[k])
  <2>1. Len(heard) \in Nat /\ DOMAIN heard = 1..Len(heard)
    BY <1>1
  <2>2. Append(heard, Place) \in Seq(Heard)
    BY <1>1, <1>3
  <2>3. /\ DOMAIN Append(heard, Place) = 1..(Len(heard) + 1)
        /\ Append(heard, Place)[Len(heard) + 1] = Place
        /\ \A k \in 1..Len(heard) : Append(heard, Place)[k] = heard[k]
    BY <1>1, <1>3
  <2>4. QED
    BY <1>1, <2>1, <2>2, <2>3
<1>5. CoarseTypeOK'
  BY <1>1, <1>2, <1>4 DEF CoarseInv, CoarseTypeOK, Heard
<1>6. ServiceInv' /\ RecordInv'
  BY <1>1 DEF CoarseInv, ServiceInv, RecordInv, Op
<1>7. HeedInv'
  <2>1. SUFFICES ASSUME primary = None, Unheeded'
                 PROVE  \/ own' # None /\ LooksAhead
                        \/ inner' # None /\ svc \in {"parse", "open"}
                        \/ svc \in {"closing", "back"} /\ told[Op] = "interrupted"
    BY <1>1 DEF HeedInv, LooksAhead, Op
  <2>2. CASE Unheeded
    BY <1>2, <2>1, <2>2 DEF CoarseInv, HeedInv
  <2>3. CASE Place \notin Tails
    <3>1. CASE InService
      BY <1>2, <2>3, <3>1 DEF Place, Tails, InService, CoarseInv, ServiceInv, Scoped
    <3>2. CASE ~InService
      <4>1. own' # None /\ ~Unchecked
        BY <1>2, <2>3, <3>2 DEF Place, Tails
      <4>2. LooksAhead
        <5>1. CASE \E j \in (cur + 1)..N : Plan[j].enabled
          <6>1. PICK j \in (cur + 1)..N : Plan[j].enabled
            BY <5>1
          <6>2. cur \in 0..5 /\ N = 5
            BY CoarsePlanFacts DEF TypeOK
          <6>3. CASE j = 3
            BY <6>2, <6>3, CoarsePlanFacts DEF LooksAhead
          <6>4. CASE j # 3
            BY <6>1, <6>2, <6>4, CoarsePlanFacts DEF LooksAhead
          <6>5. QED
            BY <6>3, <6>4
        <5>2. CASE ~\E j \in (cur + 1)..N : Plan[j].enabled
          <6>1. pc \in {"poll", "begin", "started", "announce", "invoke"} /\ cur \in {4, 5}
            BY <4>1, <5>2, CoarsePlanFacts DEF Unchecked, TypeOK
          <6>2. Op # "collect" /\ Op \notin Scoped
            BY <6>1, CoarsePlanFacts DEF Op, Scoped
          <6>3. pc = "invoke" => svc \in {"idle", "own"}
            BY <6>2 DEF CoarseInv, CoarseTypeOK, ServiceInv
          <6>4. QED
            BY <6>1, <6>2, <6>3 DEF LooksAhead, Waiting, CoarseInv, ServiceInv
        <5>3. QED
          BY <5>1, <5>2
      <4>3. QED
        BY <4>1, <4>2
    <3>3. QED
      BY <3>1, <3>2
  <2>4. QED
    BY <1>4, <2>1, <2>2, <2>3 DEF Unheeded
<1>8. QED
  BY <1>5, <1>6, <1>7 DEF CoarseInv

(* An action is entered: refused because a signal is known, or not.        *)
LEMMA EnterStep ==
  ASSUME CoarseOnly, IInv, CoarseInv, Enter
  PROVE  CoarseInv'
<1> USE DEF IInv
<1>1. /\ pc = "invoke" /\ svc = "idle" /\ before' = own
      /\ own' = own /\ inner' = inner /\ record' = record /\ told' = told /\ heard' = heard
  BY DEF Enter
<1>2. CoarseTypeOK
  BY DEF CoarseInv
<1>3. CASE own # None /\ Op # "collect"
  <2>1. Raises("interrupted") /\ svc' = svc
    BY <1>3 DEF Enter
  <2>2. /\ pc' = "stop" /\ cur' = cur /\ run' = run /\ primary' # None
        /\ primary # None => primary' = primary /\ status' = status
    BY <2>1, RaiseFacts DEF Kinds
  <2>3. QED
    BY <1>1, <1>2, <2>1, <2>2
       DEF CoarseInv, CoarseTypeOK, ServiceInv, RecordInv, HeedInv, Op, Unheeded
<1>4. CASE ~(own # None /\ Op # "collect")
  <2>1. UNCHANGED vars /\ svc' = IF Op \in Scoped THEN "gap" ELSE "own"
    BY <1>4 DEF Enter
  <2>2. UNCHANGED <<pc, cur, primary, status, run>> /\ Op' = Op
    BY <2>1 DEF vars, Op
  <2>3. Op \in {"run", "postcheck", "collect", "report", "archive"}
    BY <1>1, AtInvoke, CoarsePlanFacts DEF Op
  <2>4. CoarseTypeOK' /\ ServiceInv'
    BY <1>1, <1>2, <1>4, <2>1, <2>2, <2>3 DEF CoarseTypeOK, ServiceInv, Scoped
  <2>5. RecordInv'
    BY <1>1, <2>1, <2>2 DEF CoarseInv, RecordInv
  <2>6. HeedInv'
    <3>1. SUFFICES ASSUME primary = None, Unheeded
                   PROVE  own # None /\ LooksAhead'
      BY <1>1, <2>2 DEF HeedInv, Unheeded
    <3>2. own # None /\ LooksAhead
      BY <1>1, <3>1 DEF CoarseInv, HeedInv
    <3>3. \E j \in (cur + 1)..N : Plan[j].enabled /\ Plan[j].op # "collect"
      BY <1>1, <1>4, <3>2 DEF LooksAhead, Waiting
    <3>4. QED
      BY <2>2, <3>2, <3>3 DEF LooksAhead
  <2>7. QED
    BY <2>4, <2>5, <2>6 DEF CoarseInv
<1>5. QED
  BY <1>3, <1>4

(* An action that is no service of its own ends.                           *)
LEMMA AnswerStep ==
  ASSUME CoarseOnly, IInv, CoarseInv, Answer
  PROVE  CoarseInv'
<1> USE DEF IInv
<1>1. /\ svc = "own" /\ svc' = "idle" /\ before' = before
      /\ own' = own /\ inner' = inner /\ record' = record /\ told' = told /\ heard' = heard
  BY DEF Answer
<1>2. CoarseTypeOK /\ pc = "invoke" /\ Op \in {"collect", "report", "archive"}
  BY <1>1 DEF CoarseInv, ServiceInv
<1>3. cur \in {3, 4, 5} /\ Op # "run"
  BY <1>2, AtInvoke, CoarsePlanFacts DEF Op
<1>4. CASE Throws
  <2>1. /\ pc' = "stop" /\ cur' = cur /\ run' = run /\ primary' # None
        /\ primary # None => primary' = primary /\ status' = status
    BY <1>4, ThrowFacts
  <2>2. QED
    BY <1>1, <1>2, <1>3, <2>1
       DEF CoarseInv, CoarseTypeOK, ServiceInv, RecordInv, HeedInv, Op, Unheeded
<1>5. CASE ~Cut /\ \E c \in Answers(Op) : Completes(c)
  <2>1. PICK c \in Answers(Op) : Completes(c)
    BY <1>5
  <2>2. c \in Terminal \cup {"accepted", "rejected"}
    BY <1>2, <2>1 DEF Answers, Terminal
  <2>3. /\ pc' = "pollAfter" /\ cur' = cur /\ run' = run
        /\ primary' = None => primary = None
        /\ primary # None => primary' = primary /\ status' = status
    BY <1>3, <2>1, <2>2, CompleteFacts DEF TypeOK
  <2>4. CoarseTypeOK' /\ ServiceInv'
    BY <1>1, <1>2 DEF CoarseTypeOK, ServiceInv
  <2>5. RecordInv'
    <3>1. \A j \in {1, 2} : j < cur
      BY <1>3
    <3>2. QED
      BY <1>1, <1>2, <1>3, <2>3, <3>1 DEF CoarseInv, RecordInv, Op
  <2>6. HeedInv'
    <3>1. SUFFICES ASSUME primary' = None, Unheeded
                   PROVE  own # None /\ LooksAhead'
      BY <1>1 DEF HeedInv, Unheeded
    <3>2. own # None /\ LooksAhead
      BY <1>1, <2>3, <3>1 DEF CoarseInv, HeedInv
    <3>3. before # None
      BY <1>5, <3>2 DEF Cut
    <3>4. \E j \in (cur + 1)..N : Plan[j].enabled /\ Plan[j].op # "collect"
      BY <1>1, <1>2, <3>2, <3>3 DEF LooksAhead, Waiting
    <3>5. QED
      BY <2>3, <3>2, <3>4 DEF LooksAhead
  <2>7. QED
    BY <2>4, <2>5, <2>6 DEF CoarseInv
<1>6. QED
  BY <1>4, <1>5 DEF Answer

(* The executor learns what a service told.                                *)
LEMMA RememberStep ==
  ASSUME CoarseOnly, IInv, CoarseInv, Remember
  PROVE  CoarseInv'
<1> USE DEF IInv
<1> DEFINE c == IF Op = "run" /\ told["run"] = "completed" /\ own' # None
                  THEN "interrupted" ELSE told[Op]
<1>1. /\ svc = "back" /\ svc' = "idle" /\ before' = before
      /\ inner' = inner /\ record' = record /\ told' = told /\ heard' = heard
      /\ own' = IF told[Op] = "interrupted" THEN inner ELSE own
      /\ Completes(c)
  BY DEF Remember
<1>2. /\ CoarseTypeOK /\ pc = "invoke" /\ Op \in Scoped
      /\ told[Op] \in Terminal /\ record[Op] # "none"
      /\ told[Op] = "completed" => record[Op] = "completed"
  BY <1>1 DEF CoarseInv, ServiceInv, RecordInv
<1>3. /\ cur \in {1, 2} /\ (Op = "run" <=> cur = 1) /\ primary = None
      /\ Op = Plan[cur].op /\ Op # "collect"
  BY <1>2, AtInvoke DEF Op, Scoped
<1>4. c \in Terminal
  BY <1>2 DEF Terminal
<1> HIDE DEF c
<1>5. /\ pc' = "pollAfter" /\ cur' = cur /\ run' = (run \/ Op = "run")
      /\ c \in Clean => primary' = primary /\ status' = status
      /\ c \notin Clean => primary' # None /\ status' = c
  BY <1>1, <1>3, <1>4, CompleteFacts
<1>6. CoarseTypeOK' /\ ServiceInv'
  BY <1>1, <1>2 DEF CoarseTypeOK, ServiceInv
<1>7. RecordInv'
  <2>1. run' <=> record["run"] # "none"
    BY <1>1, <1>2, <1>3, <1>5 DEF CoarseInv, RecordInv
  <2>2. told["run"] = "interrupted" => primary' # None /\ status' = "interrupted"
    <3>1. CASE cur = 1
      BY <1>3, <1>5, <3>1 DEF c, Clean
    <3>2. CASE cur = 2
      BY <1>1, <1>3, <3>2 DEF CoarseInv, RecordInv
    <3>3. QED
      BY <1>3, <3>1, <3>2
  <2>3. ASSUME primary' = None, NEW j \in {1, 2}, Plan[j].enabled, j <= cur
        PROVE  record[Plan[j].op] = "completed"
    <3>1. CASE j = cur
      BY <1>2, <1>3, <1>4, <1>5, <2>3, <3>1 DEF c, Clean, Terminal
    <3>2. CASE j < cur
      BY <1>3, <2>3, <3>2 DEF CoarseInv, RecordInv
    <3>3. QED
      BY <1>3, <2>3, <3>1, <3>2
  <2>4. QED
    BY <1>1, <1>3, <1>5, <2>1, <2>2, <2>3 DEF CoarseInv, RecordInv
<1>8. HeedInv'
  <2>1. SUFFICES ASSUME primary' = None, Unheeded
                 PROVE  own' # None /\ LooksAhead'
    BY <1>1 DEF HeedInv, Unheeded
  <2>2. told[Op] = "completed"
    BY <1>3, <1>4, <1>5, <2>1 DEF c, Clean, Terminal
  <2>3. own # None /\ own' = own
    BY <1>1, <1>3, <2>1, <2>2 DEF CoarseInv, HeedInv
  <2>4. 4 \in (cur' + 1)..N /\ Plan[4].enabled /\ Plan[4].op # "collect"
    BY <1>3, <1>5, CoarsePlanFacts
  <2>5. QED
    BY <2>3, <2>4 DEF LooksAhead
<1>9. QED
  BY <1>6, <1>7, <1>8 DEF CoarseInv

(* A service works, ends and closes.                                       *)
LEMMA QuietServiceStep ==
  ASSUME CoarseOnly, IInv, CoarseInv, UNCHANGED vars,
         TakeScope \/ Allocate \/ Launch \/ LastCheck \/ Conclude \/ Close
  PROVE  CoarseInv'
<1> USE DEF IInv
<1>1. /\ UNCHANGED <<pc, cur, primary, status, run>> /\ Op' = Op
      /\ own' = own /\ before' = before /\ heard' = heard /\ svc # "idle"
  BY DEF vars, Op, TakeScope, Allocate, Launch, LastCheck, Conclude, Close
<1>2. /\ pc = "invoke" /\ Op \in Scoped /\ Op # "collect" /\ primary = None /\ Op = Plan[cur].op
      /\ cur \in {1, 2} /\ (Op = "run" <=> cur = 1)
  <2>1. pc = "invoke" /\ Op \in Scoped
    BY <1>1 DEF TakeScope, Allocate, Launch, LastCheck, Conclude, Close, CoarseInv, ServiceInv
  <2>2. QED
    BY <2>1, AtInvoke DEF Scoped, Op
<1>3. /\ CoarseTypeOK /\ ServiceInv /\ RecordInv /\ HeedInv
      /\ record \in [Scoped -> {"none", "starting", "running"} \cup Terminal]
      /\ told \in [Scoped -> {"none"} \cup Terminal]
  BY DEF CoarseInv, CoarseTypeOK
<1>4. Unheeded' = Unheeded
  BY <1>1 DEF Unheeded
<1>5. LooksAhead <=> \E j \in (cur + 1)..N : Plan[j].enabled /\ Plan[j].op # "collect"
  <2>1. svc # "own"
    BY <1>2, <1>3 DEF ServiceInv, Scoped
  <2>2. QED
    BY <1>1, <1>2, <2>1 DEF LooksAhead, Waiting
<1>6. LooksAhead
  BY <1>2, <1>5, CoarsePlanFacts
<1>7. LooksAhead'
  BY <1>1, <1>2, CoarsePlanFacts DEF LooksAhead
<1>8. CASE TakeScope
  <2>1. /\ svc = "gap" /\ svc' = (IF Op = "run" THEN "parse" ELSE "open") /\ told' = told
        /\ inner' = None
        /\ record' = IF Op = "run" THEN record ELSE [record EXCEPT !["postcheck"] = "running"]
    BY <1>8 DEF TakeScope
  <2>2. CoarseTypeOK' /\ ServiceInv'
    BY <1>1, <1>2, <1>3, <2>1 DEF CoarseTypeOK, ServiceInv, Scoped
  <2>3. \A s \in Scoped : record'[s] = IF s = "postcheck" /\ Op # "run" THEN "running" ELSE record[s]
    BY <1>3, <2>1
  <2>4. RecordInv'
    BY <1>1, <1>2, <1>3, <2>1, <2>3, CoarsePlanFacts DEF RecordInv, Scoped, Terminal, Waiting
  <2>5. HeedInv'
    BY <1>1, <1>3, <1>4, <1>7, <2>1 DEF HeedInv
  <2>6. QED
    BY <2>2, <2>4, <2>5 DEF CoarseInv
<1>9. CASE Allocate
  <2>1. /\ svc = "parse" /\ svc' = "open" /\ told' = told /\ inner' = inner /\ inner = None
        /\ record' = [record EXCEPT !["run"] = "starting"] /\ Op = "run"
    BY <1>3, <1>9 DEF Allocate, ServiceInv
  <2>2. CoarseTypeOK' /\ ServiceInv'
    BY <1>1, <1>2, <1>3, <2>1 DEF CoarseTypeOK, ServiceInv, Scoped
  <2>3. \A s \in Scoped : record'[s] = IF s = "run" THEN "starting" ELSE record[s]
    BY <1>3, <2>1
  <2>4. RecordInv'
    BY <1>1, <1>2, <1>3, <2>1, <2>3, CoarsePlanFacts DEF RecordInv, Scoped, Terminal, Waiting
  <2>5. HeedInv'
    BY <1>1, <1>3, <1>4, <1>7, <2>1 DEF HeedInv
  <2>6. QED
    BY <2>2, <2>4, <2>5 DEF CoarseInv
<1>10. CASE Launch
  <2>1. /\ svc = "open" /\ svc' = svc /\ told' = told /\ inner' = inner
        /\ record' = [record EXCEPT !["run"] = "running"] /\ record["run"] = "starting"
    BY <1>10 DEF Launch
  <2>2. CoarseTypeOK' /\ ServiceInv'
    BY <1>1, <1>2, <1>3, <2>1 DEF CoarseTypeOK, ServiceInv, Scoped
  <2>3. \A s \in Scoped : record'[s] = IF s = "run" THEN "running" ELSE record[s]
    BY <1>3, <2>1
  <2>4. RecordInv'
    BY <1>1, <1>2, <1>3, <2>1, <2>3, CoarsePlanFacts DEF RecordInv, Scoped, Terminal, Waiting
  <2>5. HeedInv'
    BY <1>1, <1>3, <1>4, <1>7, <2>1 DEF HeedInv
  <2>6. QED
    BY <2>2, <2>4, <2>5 DEF CoarseInv
<1>11. CASE LastCheck
  <2>1. /\ svc = "open" /\ svc' = "tail" /\ told' = told /\ inner' = inner /\ inner = None
        /\ record' = record /\ record[Op] = "running"
    BY <1>11 DEF LastCheck
  <2>2. CoarseTypeOK' /\ ServiceInv'
    BY <1>1, <1>2, <1>3, <2>1 DEF CoarseTypeOK, ServiceInv
  <2>3. RecordInv'
    BY <1>1, <1>3, <2>1 DEF RecordInv
  <2>4. HeedInv'
    BY <1>1, <1>3, <1>4, <1>7, <2>1 DEF HeedInv
  <2>5. QED
    BY <2>2, <2>3, <2>4 DEF CoarseInv
<1>12. CASE Conclude
  <2>1. /\ svc \in {"open", "tail"} /\ svc' = "closing" /\ inner' = inner /\ record' = record
        /\ \E t \in Terminal : /\ told' = [told EXCEPT ![Op] = t]
                               /\ svc = "open" => t = Broken
    BY <1>12 DEF Conclude, Broken, Terminal
  <2>2. PICK t \in Terminal : told' = [told EXCEPT ![Op] = t] /\ (svc = "open" => t = Broken)
    BY <2>1
  <2>3. \A s \in Scoped : told'[s] = IF s = Op THEN t ELSE told[s]
    BY <1>3, <2>2
  <2>4. CoarseTypeOK' /\ ServiceInv'
    BY <1>1, <1>2, <1>3, <2>1, <2>2 DEF CoarseTypeOK, ServiceInv
  <2>5. record[Op] \in {"starting", "running"}
    BY <1>3, <2>1 DEF RecordInv
  <2>6. RecordInv'
    BY <1>1, <1>2, <1>3, <2>1, <2>3, <2>5 DEF RecordInv, Scoped, Terminal
  <2>7. HeedInv'
    BY <1>1, <1>2, <1>3, <1>4, <1>7, <2>1, <2>2, <2>3 DEF HeedInv, Broken
  <2>8. QED
    BY <2>4, <2>6, <2>7 DEF CoarseInv
<1>13. CASE Close
  <2>1. /\ svc = "closing" /\ svc' = "back" /\ inner' = inner
        /\ told[Op] \in Terminal /\ record[Op] \in {"starting", "running"}
    BY <1>3, <1>13 DEF Close, RecordInv
  <2>2. CASE record' = [record EXCEPT ![Op] = told[Op]] /\ told' = told
    <3>1. \A s \in Scoped : record'[s] = IF s = Op THEN told[Op] ELSE record[s]
      BY <1>3, <2>2
    <3>2. CoarseTypeOK' /\ ServiceInv'
      BY <1>1, <1>2, <1>3, <2>1, <2>2 DEF CoarseTypeOK, ServiceInv
    <3>3. RecordInv'
      BY <1>1, <1>2, <1>3, <2>1, <2>2, <3>1, CoarsePlanFacts DEF RecordInv, Scoped, Terminal, Waiting
    <3>4. HeedInv'
      BY <1>1, <1>3, <1>4, <1>7, <2>1, <2>2 DEF HeedInv
    <3>5. QED
      BY <3>2, <3>3, <3>4 DEF CoarseInv
  <2>3. CASE Op = "run" /\ told' = [told EXCEPT !["run"] = Retained(told["run"])] /\ record' = record
    <3>1. \A s \in Scoped : told'[s] = IF s = "run" THEN Retained(told["run"]) ELSE told[s]
      BY <1>3, <2>3
    <3>2. /\ Retained(told["run"]) \in Terminal /\ Retained(told["run"]) # "completed"
          /\ Retained(told["run"]) = "interrupted" <=> told["run"] = "interrupted"
      BY <2>1, <2>3 DEF Retained, Terminal
    <3>3. CoarseTypeOK' /\ ServiceInv'
      BY <1>1, <1>2, <1>3, <2>1, <2>3, <3>2 DEF CoarseTypeOK, ServiceInv
    <3>4. RecordInv'
      BY <1>1, <1>2, <1>3, <2>1, <2>3, <3>1, <3>2, CoarsePlanFacts
         DEF RecordInv, Scoped, Terminal, Waiting
    <3>5. HeedInv'
      BY <1>1, <1>3, <1>4, <1>7, <2>1, <2>3, <3>1, <3>2 DEF HeedInv
    <3>6. QED
      BY <3>3, <3>4, <3>5 DEF CoarseInv
  <2>4. QED
    BY <1>13, <2>2, <2>3 DEF Close
<1>14. QED
  BY <1>8, <1>9, <1>10, <1>11, <1>12, <1>13

(* A service ends without an outcome.                                      *)
LEMMA ThrowStep ==
  ASSUME CoarseOnly, IInv, CoarseInv, Refuse \/ CloseFails
  PROVE  CoarseInv'
<1> USE DEF IInv
<1>1. /\ svc \in {"parse", "gap", "closing"} /\ svc' = "idle" /\ before' = before
      /\ own' = own /\ inner' = inner /\ record' = record /\ told' = told /\ heard' = heard
      /\ svc = "closing" => Op = "postcheck"
      /\ Throws \/ Raises("interrupted")
  BY DEF Refuse, CloseFails
<1>2. CoarseTypeOK /\ pc = "invoke" /\ Op \in Scoped /\ ServiceInv /\ RecordInv
  BY <1>1 DEF CoarseInv, ServiceInv
<1>3. cur \in {1, 2} /\ (Op = "run" <=> cur = 1) /\ primary = None
  BY <1>2, AtInvoke DEF Scoped, Op
<1>4. /\ pc' = "stop" /\ cur' = cur /\ run' = run /\ primary' # None
  BY <1>1, ThrowFacts, RaiseFacts DEF Kinds
<1>5. CoarseTypeOK' /\ ServiceInv' /\ HeedInv'
  BY <1>1, <1>2, <1>4 DEF CoarseTypeOK, ServiceInv, HeedInv
<1>6. RecordInv'
  <2>1. told["run"] # "interrupted"
    BY <1>1, <1>2, <1>3 DEF RecordInv, Scoped
  <2>2. QED
    BY <1>1, <1>2, <1>3, <1>4, <2>1 DEF RecordInv, Op
<1>7. QED
  BY <1>5, <1>6 DEF CoarseInv

LEMMA CoarseKeepsInv ==
  ASSUME CoarseOnly
  PROVE  CoarseSpec => [](IInv /\ CoarseInv)
<1>1. CoarseInit => IInv /\ CoarseInv
  <2> SUFFICES ASSUME CoarseInit PROVE IInv /\ CoarseInv
    OBVIOUS
  <2>1. IInv
    BY InitInv DEF CoarseInit
  <2>2. pc # "invoke" /\ cur = 0 /\ ~run /\ heard = <<>> /\ svc = "idle"
    BY DEF CoarseInit, Init
  <2>3. CoarseTypeOK
    BY DEF CoarseInit, CoarseTypeOK
  <2>4. ServiceInv /\ HeedInv
    BY <2>2 DEF ServiceInv, HeedInv, Unheeded
  <2>5. RecordInv
    BY <2>2 DEF CoarseInit, RecordInv, Scoped, Terminal
  <2>6. QED
    BY <2>1, <2>3, <2>4, <2>5 DEF CoarseInv
<1>2. IInv /\ CoarseInv /\ [CoarseNext]_coarseVars => (IInv /\ CoarseInv)'
  <2> SUFFICES ASSUME IInv, CoarseInv, [CoarseNext]_coarseVars PROVE IInv' /\ CoarseInv'
    OBVIOUS
  <2>1. SUFFICES CoarseInv'
    BY CoarseStepsAreRunnerSteps, StepKeepsInv, StutterKeepsInv
  <2>2. CASE UNCHANGED coarseVars
    BY <2>2 DEF coarseVars, vars, coarse, CoarseInv, CoarseTypeOK, ServiceInv, RecordInv, HeedInv,
       Unheeded, LooksAhead, Op
  <2>3. CASE TakeScope \/ Allocate \/ Launch \/ LastCheck \/ Conclude \/ Close
    <3>1. UNCHANGED vars
      BY <2>3 DEF TakeScope, Allocate, Launch, LastCheck, Conclude, Close
    <3>2. QED
      BY <2>3, <3>1, QuietServiceStep
  <2>4. CASE Refuse \/ CloseFails
    BY <2>4, ThrowStep
  <2>5. QED
    BY <2>2, <2>3, <2>4, DeliverStep, AroundStep, EnterStep, AnswerStep, RememberStep
       DEF CoarseNext, Service
<1>3. QED
  BY <1>1, <1>2, PTL DEF CoarseSpec

(* What a coarse attempt returns, what its services told it and what their *)
(* records say agree, and it completes only if every signal came after the *)
(* last check of the scope that heard it (coarse_execution_service.ml,     *)
(* coarse_run_service.ml, postcheck_service.ml).                           *)
THEOREM OutcomesAreAlwaysHonest == ASSUME CoarseOnly PROVE CoarseSpec => []OutcomesAreHonest
<1>1. IInv /\ CoarseInv => OutcomesAreHonest
  <2> SUFFICES ASSUME IInv, CoarseInv PROVE OutcomesAreHonest
    OBVIOUS
  <2>1. /\ pc = "returned" => svc = "idle" /\ cur = N
        /\ pc = "returned" /\ status = "completed" => primary = None
    BY DEF IInv, PlaceInv, DiagnosisInv, After, CoarseInv, ServiceInv
  <2>2. RecordsAgree
    <3>1. CoarseTypeOK
      BY DEF CoarseInv
    <3>2. svc = "idle" => \A s \in Scoped : record[s] \in Terminal => record[s] = told[s]
      BY DEF CoarseInv, RecordInv
    <3>3. pc = "returned" => (run <=> record["run"] # "none")
      BY <2>1 DEF CoarseInv, RecordInv
    <3>4. ASSUME pc = "returned", status = "completed", NEW j \in 1..N, Plan[j].op \in Scoped,
                 Plan[j].enabled
          PROVE  record[Plan[j].op] = "completed"
      <4>1. j \in {1, 2} /\ j < cur
        BY <2>1, <3>4, CoarsePlanFacts DEF Scoped
      <4>2. QED
        BY <2>1, <3>4, <4>1 DEF CoarseInv, RecordInv
    <3>5. pc = "returned" /\ told["run"] = "interrupted" => status = "interrupted"
      BY <2>1 DEF CoarseInv, RecordInv
    <3>6. QED
      BY <3>1, <3>2, <3>3, <3>4, <3>5 DEF RecordsAgree
  <2>3. SignalsAreHeeded
    <3>1. SUFFICES ASSUME pc = "returned", status = "completed", Unheeded
                   PROVE  FALSE
      BY DEF SignalsAreHeeded, Unheeded
    <3>2. primary = None /\ svc = "idle" /\ cur = 5 /\ N = 5
      BY <2>1, <3>1, CoarsePlanFacts
    <3>3. ~LooksAhead
      BY <3>1, <3>2 DEF LooksAhead, Waiting
    <3>4. QED
      BY <3>1, <3>2, <3>3 DEF CoarseInv, HeedInv
  <2>4. QED
    BY <2>2, <2>3 DEF OutcomesAreHonest
<1>2. QED
  BY <1>1, CoarseKeepsInv, PTL

-----------------------------------------------------------------------------
(* The stream of a chain of segments.  Where main is, and what it recorded *)
(* of the outcome.                                                         *)
MainInv ==
  /\ main \in {"plan", "prepare", "run", "outcome", "report", "handler", "exited", "dead"}
  /\ stream \in O!States
  /\ writer \in {"ready", "poisoned", "closed"}
  /\ exit \in {"zero", "nonzero", None}
  /\ main \in {"plan", "prepare"} => Init /\ writer = "ready"
  /\ main = "plan" => stream = O!Allocated
  /\ main = "prepare" => stream.occ # <<>> /\ stream.phase = "preparing"
  /\ main \in {"outcome", "report"} => pc = "returned" /\ saved = Snapshot
  /\ main = "report" => stream.outcome # None /\ stream.outcome.status = status
  /\ stream.outcome # None => main \in {"report", "handler", "exited", "dead"}
  /\ RecordedSuccess => pc = "returned" /\ status = "completed" /\ saved = Snapshot
  /\ exit = "zero" => RecordedSuccess

(* As long as the writer can append, the stream is abreast of the action   *)
(* that runs, and knows nothing of those ahead.                            *)
AbreastInv ==
  writer = "ready" /\ main \in {"run", "outcome"} =>
    /\ stream.phase = "executing"
    /\ stream.occ # <<>>
    /\ \A j \in 1..N : j > cur \/ (j = cur /\ pc \in Waiting \cup {"started"}) =>
         stream.occ[j].status = "unreached"
    /\ pc \in (Running \ {"started"}) \cup {"finished"} =>
         stream.occ[cur] = [status |-> "running", exit |-> "none", mark |-> "mark"]

(* What was announced without an error is in the stream, whatever became   *)
(* of the writer afterwards.                                               *)
Streamed(j) == stream.occ # <<>> /\ stream.occ[j].status = "completed"

AnnouncedInv ==
  /\ pc \in {"record", "pollPublished", "stop", "finished"} /\ local = None =>
       \E k \in DOMAIN stream.artifacts : stream.artifacts[k].boundary = cur
  /\ pc = "observe" /\ local = None => Streamed(cur)
  /\ \A j \in 1..N : occ[j] = "completed" /\ (j = cur => pc \notin {"finished", "observe"}) =>
       Streamed(j)
  /\ SummaryIsObserved

(* The stream is not ahead; an action's artifact is announced only once.   *)
BehindInv ==
  /\ StreamNeverAhead
  /\ pc \in Unpublished \cup {"retain", "published"} =>
       \A k \in DOMAIN stream.artifacts : stream.artifacts[k].boundary # cur
  /\ stream.occ = <<>> => stream.artifacts = <<>>

(* What a chain of segments makes of the runner: nothing runs behind a     *)
(* failure, and what is finished shows its error or its completion.        *)
ChainInv ==
  /\ pc \in Inside => \A j \in 1..(cur - 1) : occ[j] = "completed"
  /\ pc = "finished" => (occ[cur] = "completed" <=> local = None)
  /\ status # "rejected"

StreamInv == MainInv /\ AbreastInv /\ AnnouncedInv /\ BehindInv /\ ChainInv

LEMMA StatusStep ==
  ASSUME StagesOnly, IInv, status # "rejected", Next
  PROVE  status' # "rejected"
<1>1. CASE Invoke
  <2>1. Plan[cur].op = "segment"
    BY <1>1, InsideFacts, StagePlanFacts DEF IInv, Invoke, Inside, Running
  <2>2. QED
    BY <1>1, <2>1 DEF Invoke, Returned, Raised, Completions, Terminal, Fail, Record, Succeed, diagnosis,
       Kinds
<1>2. CASE ~Invoke
  BY <1>2 DEF Next, SaveIntent, Validate, SaveInitial, NextAction, PollBefore, Begin, Started,
     Announce, PollAfter, Publish, Retain, Published, RecordArtifact, PollPublished, Stop, Finished,
     Observe, SaveFinished, Settle, SaveFinal, SaveAttempt, SaveStep, Call, Fail, Record, Succeed,
     diagnosis, Kinds
<1>3. QED
  BY <1>1, <1>2

LEMMA ChainStep ==
  ASSUME StagesOnly, IInv, ChainInv, Next
  PROVE  ChainInv'
<1> USE DEF IInv
<1>1. /\ cur \in 0..N /\ N \in Nat /\ (cur' = cur \/ (NextAction /\ cur' = cur + 1))
      /\ occ \in [1..N -> OccurrenceStates]
  BY PlanFacts, Frame DEF TypeOK, NextAction
<1>2. ASSUME pc' \in Inside, NEW j \in 1..(cur' - 1)
      PROVE  occ'[j] = "completed"
  <2>1. CASE NextAction
    <3>1. pc = "next" /\ cur + 1 \in 1..N /\ occ' = occ /\ cur' = cur + 1 /\ Runs(cur + 1)
      BY <1>1, <1>2, <2>1 DEF NextAction, Inside, Waiting, Running, Ended
    <3>2. primary = None
      BY <3>1, StagePlanFacts DEF Runs, BestEffort
    <3>3. j \in 1..N /\ j <= cur /\ Plan[j].enabled
      BY <1>1, <1>2, <3>1, StagePlanFacts
    <3>4. QED
      BY <1>1, <3>1, <3>2, <3>3 DEF DiagnosisInv, Inside, Waiting, Running, Ended
  <2>2. CASE ~NextAction
    <3>1. pc \in Inside /\ cur' = cur
      BY <1>2, <2>2, InsideStep
    <3>2. occ[j] = "completed" /\ j # cur
      BY <1>1, <1>2, <3>1 DEF ChainInv
    <3>3. QED
      BY <1>1, <3>2, OccurrenceChange
  <2>3. QED
    BY <2>1, <2>2
<1>3. ASSUME pc' = "finished"
      PROVE  occ'[cur'] = "completed" <=> local' = None
  <2>1. Stop
    BY <1>3 DEF Next, SaveIntent, Validate, SaveInitial, NextAction, PollBefore, Begin, Started,
       Announce, AfterAnnounce, Invoke, Returned, Raised, PollAfter, Publish, AfterPublishError,
       Retain, AfterRetain, Published, RecordArtifact, PollPublished, Finished, Observe,
       SaveFinished, Settle, SaveFinal, Transition
  <2>2. cur \in 1..N /\ cur' = cur /\ Plan[cur].op = "segment"
    BY <2>1, InsideFacts, StagePlanFacts DEF Stop, Transition, Inside, Running
  <2>3. occ'[cur] = Occurrence(Shown(local', completion))
    BY <1>1, <2>1, <2>2 DEF Stop
  <2>4. QED
    BY <2>1, <2>2, <2>3, ShownFacts DEF Occurrence, Clean
<1>4. QED
  BY <1>2, <1>3, StatusStep DEF ChainInv

(* Where the loop of a chain comes from.                                   *)
Begun == (Running \ {"started"}) \cup {"finished"}
Behind == {"record", "pollPublished", "stop", "finished"}
Ahead == Unpublished \cup {"retain", "published"}

LEMMA Flow ==
  ASSUME StagesOnly, IInv, Next
  PROVE  /\ cur' = cur \/ (NextAction /\ cur' = cur + 1)
         /\ cur \in 0..N /\ N \in Nat \ {0}
         /\ pc' \in Begun => cur' = cur /\ (Started \/ pc \in Begun)
         /\ pc' \in Waiting \cup {"started"} => NextAction \/ (cur' = cur /\ pc \in Waiting)
         /\ pc' \in Behind => cur' = cur /\ (local' = None => local = None /\ (Published \/ pc \in Behind))
         /\ pc' = "observe" => Finished /\ cur' = cur /\ (local' = None => local = None)
         /\ pc' \in Ahead => NextAction \/ (cur' = cur /\ pc \in Ahead)
<1> USE DEF IInv
<1>1. /\ cur' = cur \/ (NextAction /\ cur' = cur + 1)
      /\ cur \in 0..N /\ N \in Nat \ {0}
      /\ NextAction => pc' \in {"next", "poll"}
  BY PlanFacts, Frame DEF TypeOK, NextAction
<1>2. pc' \in Inside /\ local' = None /\ ~NextAction => local = None
  BY InsideStep
<1>3. pc = "pollAfter" => Plan[cur].op = "segment"
  BY InsideFacts, StagePlanFacts DEF Inside, Running
<1>4. CASE NextAction
  BY <1>1, <1>4 DEF Begun, Behind, Ahead, Running, Waiting, Unpublished
<1>5. CASE ~NextAction
  <2>1. pc' \in Begun => Started \/ pc \in Begun
    BY <1>5, ActionFacts DEF Next, SaveIntent, Validate, SaveInitial, PollBefore, Begin, Announce,
       AfterAnnounce, Invoke, PollAfter, Publish, AfterPublishError, Retain, AfterRetain,
       Published, RecordArtifact, PollPublished, Stop, Finished, Observe, SaveFinished, Settle,
       SaveFinal, Transition, Begun, Running
  <2>2. pc' \in Waiting \cup {"started"} => pc \in Waiting
    BY <1>5, ActionFacts DEF Next, SaveIntent, Validate, SaveInitial, PollBefore, Begin, Started,
       Announce, AfterAnnounce, Invoke, PollAfter, Publish, AfterPublishError, Retain, AfterRetain,
       Published, RecordArtifact, PollPublished, Stop, Finished, Observe, SaveFinished, Settle,
       SaveFinal, Transition, Waiting
  <2>3. pc' \in Behind /\ local' = None => Published \/ pc \in Behind
    BY <1>3, <1>5, ActionFacts, NoneIsNew DEF Next, SaveIntent, Validate, SaveInitial, PollBefore,
       Begin, Started, Announce, AfterAnnounce, Invoke, PollAfter, Publish, Fail, AfterPublishError, Retain,
       AfterRetain, RecordArtifact, PollPublished, Stop, Finished, Observe, SaveFinished, Settle,
       SaveFinal, Transition, Behind, Kinds, Statuses, Terminal
  <2>4. pc' = "observe" => Finished
    BY <1>5, ActionFacts DEF Next, SaveIntent, Validate, SaveInitial, PollBefore, Begin, Started,
       Announce, AfterAnnounce, Invoke, PollAfter, Publish, AfterPublishError, Retain, AfterRetain,
       Published, RecordArtifact, PollPublished, Stop, Observe, SaveFinished, Settle,
       SaveFinal, Transition
  <2>5. pc' \in Ahead => pc \in Ahead
    BY <1>5, ActionFacts DEF Next, SaveIntent, Validate, SaveInitial, PollBefore, Begin, Started,
       Announce, AfterAnnounce, Invoke, PollAfter, Publish, AfterPublishError, Retain, AfterRetain,
       Published, RecordArtifact, PollPublished, Stop, Finished, Observe, SaveFinished, Settle,
       SaveFinal, Transition, Ahead, Unpublished
  <2>6. QED
    BY <1>1, <1>2, <1>5, <2>1, <2>2, <2>3, <2>4, <2>5
       DEF Inside, Running, Ended, Behind
<1>6. QED
  BY <1>4, <1>5

(* What an occurrence that is completed after a step was before it.        *)
LEMMA CompletedStep ==
  ASSUME StagesOnly, IInv, Next, NEW j \in 1..N, occ'[j] = "completed",
         j = cur' => pc' \notin {"finished", "observe"}
  PROVE  \/ occ[j] = "completed" /\ (j = cur => pc \notin {"finished", "observe"})
         \/ j = cur /\ pc = "observe" /\ local = None
<1> USE DEF IInv
<1>1. occ \in [1..N -> OccurrenceStates] /\ cur \in 0..N /\ N \in Nat
  BY PlanFacts DEF TypeOK
<1>2. CASE Observe
  <2>1. cur' = cur /\ cur \in 1..N /\ Plan[cur].op = "segment" /\ pc = "observe"
    BY <1>2, InsideFacts, StagePlanFacts DEF Observe, Transition, Inside, Ended
  <2>2. occ' = [occ EXCEPT ![cur] = Occurrence(Shown(local', completion))]
    BY <1>2 DEF Observe, AfterHooks
  <2>3. CASE j = cur
    <3>1. local' = None
      BY <1>1, <1>2, <2>1, <2>2, <2>3, ShownFacts
    <3>2. pc' \in Inside /\ ~NextAction
      BY <1>2 DEF Observe, Transition, Inside, Ended, NextAction
    <3>3. QED
      BY <2>1, <2>3, <3>1, <3>2, InsideStep
  <2>4. CASE j # cur
    BY <1>1, <2>2, <2>4
  <2>5. QED
    BY <2>3, <2>4
<1>3. CASE Begin \/ Stop
  BY <1>1, <1>3 DEF Begin, Stop, Transition
<1>4. CASE SaveFinished
  BY <1>1, <1>4 DEF SaveFinished, Transition, TakeBack, Kinds
<1>5. CASE ~(Observe \/ Begin \/ Stop \/ SaveFinished)
  <2>1. occ' = occ
    BY <1>5, Frame
  <2>2. Finished \/ pc \notin {"finished", "observe"}
    BY <1>5 DEF Next, SaveIntent, Validate, SaveInitial, NextAction, PollBefore, Started, Announce,
       Invoke, PollAfter, Publish, Retain, Published, RecordArtifact, PollPublished, Settle,
       SaveFinal, Transition
  <2>3. QED
    BY <2>1, <2>2 DEF Finished, Transition
<1>6. QED
  BY <1>2, <1>3, <1>4, <1>5

LEMMA SavingFacts ==
  ASSUME IInv, Next
  PROVE  saved' = saved \/ (saved' = Snapshot /\ pc \notin {"finished", "observe"})
<1>1. CASE Finished \/ Observe
  BY <1>1 DEF Finished, Observe
<1>2. CASE ~(Finished \/ Observe)
  <2>1. pc \notin {"finished", "observe"}
    BY <1>2 DEF Next, SaveIntent, Validate, SaveInitial, NextAction, PollBefore, Begin, Started,
       Announce, Invoke, PollAfter, Publish, Retain, Published, RecordArtifact, PollPublished, Stop,
       SaveFinished, Settle, SaveFinal, Transition
  <2>2. QED
    BY <2>1, SavedChange
<1>3. QED
  BY <1>1, <1>2

(* An append of a hook: the stream moves by its event, or not at all.      *)
Moved(name) ==
  /\ writer = "ready"
  /\ O!Accepts(stream, Event(name))
  /\ stream.occ \in [1..N -> O!Occurrences] /\ stream.occ # <<>>
  /\ stream'.occ = [stream.occ EXCEPT ![cur] = Occurred]
  /\ stream'.artifacts = IF name = "published" THEN Append(stream.artifacts, Artifact)
                         ELSE stream.artifacts

LEMMA HookFacts ==
  ASSUME IInv, StreamInv, main = "run", NEW name \in O!Lifecycle, pc = name, Hook(name), Next
  PROVE  /\ stream' \in O!States /\ stream'.phase = stream.phase /\ stream'.outcome = stream.outcome
         /\ stream'.occ # <<>> <=> stream.occ # <<>>
         /\ writer' \in {"ready", "poisoned"}
         /\ stream' = stream \/ Moved(name)
         /\ writer' = "ready" => Moved(name)
         /\ local' = None => Moved(name)
<1> USE DEF IInv
<1>1. cur \in 1..N /\ N \in Nat \ {0} /\ name \in {"started", "published", "finished"}
  BY InsideFacts, PlanFacts DEF O!Lifecycle, Inside, Running, Ended
<1>2. Occurred \in O!Occurrences /\ Artifact \in O!Artifacts
  <2>1. occ[cur] \in {"running"} \cup Terminal
    BY <1>1 DEF OccurrenceInv, Running, Ended
  <2>2. QED
    BY <1>1, <2>1 DEF Occurred, Artifact, Exit, O!Occurrences, O!Artifacts, O!Statuses, O!Exits, Terminal
<1>3. ASSUME O!Accepts(stream, Event(name)), stream' = O!Reduce(stream, Event(name)), writer = "ready"
      PROVE  /\ Moved(name) /\ stream' \in O!States /\ stream'.occ # <<>>
             /\ stream'.phase = stream.phase /\ stream'.outcome = stream.outcome
  <2>1. stream \in O!States /\ stream # None
    BY NoneIsNoStream DEF StreamInv, MainInv
  <2>2. Event(name).name = name /\ Event(name).at = cur /\ Event(name).occ = Occurred
    BY <1>1 DEF Event
  <2>3. name = "published" => Event(name).artifact = Artifact
    BY DEF Event
  <2> HIDE DEF Event, Occurred, Artifact
  <2>4. cur \in DOMAIN stream.occ
    BY <1>1, <1>3, <2>1, <2>2 DEF O!Accepts, O!Lifecycle
  <2>5. stream.occ \in [1..N -> O!Occurrences] /\ stream.occ # <<>>
    BY <2>1, <2>4 DEF O!States
  <2>6. stream' = IF name = "published"
                    THEN [stream EXCEPT !.occ[cur] = Occurred, !.artifacts = Append(@, Artifact)]
                    ELSE [stream EXCEPT !.occ[cur] = Occurred]
    BY <1>1, <1>3, <2>2, <2>3 DEF O!Reduce
  <2>7. /\ stream'.occ = [stream.occ EXCEPT ![cur] = Occurred]
        /\ stream'.phase = stream.phase /\ stream'.outcome = stream.outcome
        /\ stream'.artifacts = IF name = "published" THEN Append(stream.artifacts, Artifact)
                               ELSE stream.artifacts
    BY <2>1, <2>6 DEF O!States
  <2>8. [stream.occ EXCEPT ![cur] = Occurred] \in [1..N -> O!Occurrences]
    BY <1>1, <1>2, <2>5
  <2>9. Append(stream.artifacts, Artifact) \in Seq(O!Artifacts)
    BY <1>2, <2>1 DEF O!States
  <2>10. stream' \in O!States
    <3>1. CASE name = "published"
      BY <2>1, <2>6, <2>8, <2>9, <3>1 DEF O!States
    <3>2. CASE name # "published"
      BY <2>1, <2>6, <2>8, <3>2 DEF O!States
    <3>3. QED
      BY <3>1, <3>2
  <2>11. stream'.occ # <<>>
    <3>1. DOMAIN stream'.occ = 1..N
      BY <2>7, <2>8
    <3>2. QED
      BY <1>1, <3>1
  <2>12. QED
    BY <1>3, <2>5, <2>7, <2>10, <2>11 DEF Moved
<1>4. local' = None => ~HookFailed
  <2>1. pc' \in Inside /\ ~NextAction
    BY <1>1 DEF Next, SaveIntent, Validate, SaveInitial, NextAction, PollBefore, Begin, Started,
       Announce, Invoke, PollAfter, Publish, Retain, Published, RecordArtifact, PollPublished, Stop,
       Finished, Observe, SaveFinished, Settle, SaveFinal, Transition, Inside, Running, Ended
  <2>2. QED
    BY <2>1, InsideStep DEF HookFailed, diagnosis
<1>5. stream \in O!States
  BY DEF StreamInv, MainInv
<1>6. CASE Appended(Event(name))
  BY <1>3, <1>6 DEF Appended, Moved
<1>7. CASE HookFailed /\ AppendFailed(Event(name))
  <2>1. /\ writer' = "poisoned" /\ local' # None
        /\ \/ stream' = stream
           \/ writer = "ready" /\ O!Accepts(stream, Event(name)) /\ stream' = O!Reduce(stream, Event(name))
    BY <1>4, <1>7 DEF AppendFailed
  <2>2. QED
    BY <1>3, <1>5, <2>1 DEF Moved
<1>8. QED
  BY <1>6, <1>7 DEF Hook

(* A step of the runner that the stream does not hear of.                  *)
LEMMA SilentStep ==
  ASSUME StagesOnly, IInv, StreamInv, Next, main = "run", UNCHANGED attempt,
         ~Started, ~Published, ~Finished
  PROVE  StreamInv'
<1> USE DEF IInv
<1>1. main' = main /\ stream' = stream /\ writer' = writer /\ exit' = exit
  BY DEF attempt
<1>2. MainInv'
  <2>1. stream.outcome = None /\ exit # "zero"
    BY DEF StreamInv, MainInv, RecordedSuccess
  <2>2. QED
    BY <1>1, <2>1 DEF StreamInv, MainInv, RecordedSuccess
<1>3. AbreastInv'
  <2>1. ASSUME NEW j \in 1..N, j > cur' \/ (j = cur' /\ pc' \in Waiting \cup {"started"})
        PROVE  j > cur \/ (j = cur /\ pc \in Waiting \cup {"started"})
    BY <2>1, Flow DEF NextAction
  <2>2. pc' \in Begun => cur' = cur /\ pc \in Begun
    BY Flow
  <2>3. QED
    BY <1>1, <2>1, <2>2 DEF StreamInv, AbreastInv, Begun
<1>4. AnnouncedInv'
  <2>1. ASSUME NEW j \in 1..N, occ'[j] = "completed", j = cur' => pc' \notin {"finished", "observe"}
        PROVE  Streamed(j)
    BY <2>1, CompletedStep DEF StreamInv, AnnouncedInv
  <2>2. SummaryIsObserved'
    <3>1. CASE saved' = saved
      BY <1>1, <3>1 DEF StreamInv, AnnouncedInv, SummaryIsObserved
    <3>2. CASE saved' = Snapshot /\ pc \notin {"finished", "observe"}
      BY <1>1, <3>2 DEF StreamInv, AnnouncedInv, SummaryIsObserved, Snapshot, Streamed
    <3>3. QED
      BY <3>1, <3>2, SavingFacts
  <2>3. QED
    BY <1>1, <2>1, <2>2, Flow DEF StreamInv, AnnouncedInv, Streamed, Behind
<1>5. BehindInv'
  <2>1. StreamNeverAhead'
    <3>1. \A j \in 1..N : occ[j] # "unreached" => occ'[j] # "unreached"
      BY OccurrenceChange DEF TypeOK, Terminal
    <3>2. QED
      BY <1>1, <3>1, ArtifactsGrow DEF StreamInv, BehindInv, StreamNeverAhead
  <2>2. ASSUME pc' \in Ahead, NEW k \in DOMAIN stream.artifacts
        PROVE  stream.artifacts[k].boundary # cur'
    <3>1. CASE NextAction /\ cur' = cur + 1
      <4>1. stream.artifacts[k].boundary \in Done(artifacts)
        BY DEF StreamInv, BehindInv, StreamNeverAhead
      <4>2. stream.artifacts[k].boundary <= cur
        BY <4>1 DEF ArtifactInv
      <4>3. QED
        BY <3>1, <4>2, Flow
    <3>2. CASE cur' = cur /\ pc \in Ahead
      BY <3>2 DEF StreamInv, BehindInv, Ahead
    <3>3. QED
      BY <2>2, <3>1, <3>2, Flow DEF NextAction
  <2>3. QED
    BY <1>1, <2>1, <2>2 DEF StreamInv, BehindInv, Ahead
<1>6. QED
  BY <1>2, <1>3, <1>4, <1>5, ChainStep DEF StreamInv

(* A step of the runner that the stream is told of.                        *)
LEMMA HookStep ==
  ASSUME StagesOnly, IInv, StreamInv, Next, main = "run", main' = main, exit' = exit,
         \/ Started /\ Hook("started")
         \/ Published /\ Hook("published")
         \/ Finished /\ Hook("finished")
  PROVE  StreamInv'
<1> USE DEF IInv
<1>1. PICK name \in O!Lifecycle :
        /\ pc = name /\ Hook(name)
        /\ \/ name = "started" /\ pc' = "announce"
           \/ name = "published" /\ pc' = "record"
           \/ name = "finished" /\ pc' = "observe"
  <2>1. /\ Started => pc = "started" /\ pc' = "announce"
        /\ Published => pc = "published" /\ pc' = "record"
        /\ Finished => pc = "finished" /\ pc' = "observe"
    BY DEF Started, Published, Finished, Transition
  <2>2. {"started", "published", "finished"} = O!Lifecycle
    BY DEF O!Lifecycle
  <2>3. QED
    BY <2>1, <2>2
<1>2. /\ cur' = cur /\ occ' = occ /\ artifacts' = artifacts /\ saved' = saved
      /\ cur \in 1..N /\ Plan[cur].op = "segment" /\ N \in Nat \ {0}
      /\ occ \in [1..N -> OccurrenceStates]
  BY InsideFacts, PlanFacts, StagePlanFacts DEF Started, Published, Finished, Transition, progress, results,
     TypeOK, Inside, Running, Ended
<1>3. /\ stream' \in O!States /\ stream'.phase = stream.phase /\ stream'.outcome = stream.outcome
      /\ stream'.occ # <<>> <=> stream.occ # <<>>
      /\ writer' \in {"ready", "poisoned"}
      /\ stream' = stream \/ Moved(name)
      /\ writer' = "ready" => Moved(name)
      /\ local' = None => Moved(name)
  BY <1>1, HookFacts
<1>4. /\ Occurred.status = occ[cur] /\ Artifact.boundary = cur
      /\ pc \in {"started", "published"} => occ[cur] = "running"
      /\ pc = "finished" => occ[cur] \in Terminal
      /\ occ[cur] = "running" => Occurred = [status |-> "running", exit |-> "none", mark |-> "mark"]
  BY DEF Occurred, Exit, Artifact, OccurrenceInv, Running, Ended
<1>5. Moved(name) =>
        /\ \A j \in 1..N : stream'.occ[j] = IF j = cur THEN Occurred ELSE stream.occ[j]
        /\ stream.occ[cur].status \in {"unreached", "running"}
  <2> SUFFICES ASSUME Moved(name)
               PROVE  /\ \A j \in 1..N : stream'.occ[j] = IF j = cur THEN Occurred ELSE stream.occ[j]
                      /\ stream.occ[cur].status \in {"unreached", "running"}
    OBVIOUS
  <2>1. stream.occ \in [1..N -> O!Occurrences] /\ stream'.occ = [stream.occ EXCEPT ![cur] = Occurred]
    BY DEF Moved
  <2>2. O!Accepts(stream, Event(name)) /\ Event(name).name = name /\ Event(name).at = cur
    BY <1>1 DEF Moved, Event, O!Lifecycle
  <2>3. stream # None
    BY NoneIsNoStream DEF StreamInv, MainInv
  <2> HIDE DEF Event
  <2>4. stream.occ[cur].status \in {"unreached", "running"}
    BY <1>1, <2>2, <2>3 DEF O!Accepts, O!Lifecycle, O!StartOK, O!PublishOK, O!FinishOK, O!Finishes
  <2>5. QED
    BY <2>1, <2>4
<1>6. stream.outcome = None /\ exit # "zero"
  BY DEF StreamInv, MainInv, RecordedSuccess
<1>7. MainInv'
  BY <1>3, <1>6 DEF StreamInv, MainInv, RecordedSuccess
<1>8. AbreastInv'
  <2>1. SUFFICES ASSUME writer' = "ready"
                 PROVE  AbreastInv'
    BY DEF AbreastInv
  <2>2. Moved(name) /\ writer = "ready"
    BY <1>3, <2>1 DEF Moved
  <2>3. ASSUME NEW j \in 1..N, j > cur
        PROVE  stream'.occ[j].status = "unreached"
    BY <1>5, <2>2, <2>3 DEF StreamInv, AbreastInv
  <2>4. pc' \in Begun => stream'.occ[cur] = [status |-> "running", exit |-> "none", mark |-> "mark"]
    BY <1>1, <1>2, <1>4, <1>5, <2>2 DEF Begun, Running
  <2>5. pc' \notin Waiting \cup {"started"}
    BY <1>1 DEF Waiting
  <2>6. QED
    BY <1>2, <1>3, <2>2, <2>3, <2>4, <2>5 DEF StreamInv, AbreastInv, Begun
<1>9. AnnouncedInv'
  <2>1. ASSUME pc' \in Behind, local' = None
        PROVE  \E k \in DOMAIN stream'.artifacts : stream'.artifacts[k].boundary = cur
    <3>1. name = "published" /\ stream'.artifacts = Append(stream.artifacts, Artifact)
      BY <1>1, <1>3, <2>1 DEF Moved, Behind
    <3>2. stream.artifacts \in Seq(O!Artifacts)
      BY DEF StreamInv, MainInv, O!States
    <3>3. /\ Len(stream.artifacts) + 1 \in DOMAIN Append(stream.artifacts, Artifact)
          /\ Append(stream.artifacts, Artifact)[Len(stream.artifacts) + 1] = Artifact
      BY <3>2
    <3>4. QED
      BY <1>4, <3>1, <3>3
  <2>2. ASSUME pc' = "observe", local' = None
        PROVE  Streamed(cur)'
    <3>1. pc = "finished" /\ local = None /\ Moved(name)
      BY <1>1, <1>3, <2>2, Flow DEF Finished, Transition
    <3>2. occ[cur] = "completed"
      BY <3>1 DEF StreamInv, ChainInv
    <3>3. QED
      BY <1>2, <1>3, <1>4, <1>5, <3>1, <3>2 DEF Streamed, Moved
  <2>3. ASSUME NEW j \in 1..N, Streamed(j)
        PROVE  Streamed(j)'
    BY <1>2, <1>3, <1>5, <2>3 DEF Streamed
  <2>4. ASSUME NEW j \in 1..N, occ'[j] = "completed", j = cur' => pc' \notin {"finished", "observe"}
        PROVE  Streamed(j)'
    BY <1>1, <1>2, <2>3, <2>4, CompletedStep DEF StreamInv, AnnouncedInv
  <2>5. SummaryIsObserved'
    BY <1>2, <2>3 DEF StreamInv, AnnouncedInv, SummaryIsObserved, Streamed
  <2>6. QED
    BY <1>2, <2>1, <2>2, <2>4, <2>5 DEF AnnouncedInv, Behind, Streamed
<1>10. BehindInv'
  <2>1. ASSUME NEW k \in DOMAIN stream'.artifacts
        PROVE  \/ k \in DOMAIN stream.artifacts /\ stream'.artifacts[k] = stream.artifacts[k]
               \/ name = "published" /\ stream'.artifacts[k] = Artifact
    <3>1. stream.artifacts \in Seq(O!Artifacts)
      BY DEF StreamInv, MainInv, O!States
    <3>2. \/ stream'.artifacts = stream.artifacts
          \/ name = "published" /\ stream'.artifacts = Append(stream.artifacts, Artifact)
      BY <1>3 DEF Moved
    <3>3. /\ DOMAIN Append(stream.artifacts, Artifact) = 1..(Len(stream.artifacts) + 1)
          /\ DOMAIN stream.artifacts = 1..Len(stream.artifacts) /\ Len(stream.artifacts) \in Nat
          /\ Append(stream.artifacts, Artifact)[Len(stream.artifacts) + 1] = Artifact
          /\ \A l \in 1..Len(stream.artifacts) :
               Append(stream.artifacts, Artifact)[l] = stream.artifacts[l]
      BY <3>1
    <3>4. QED
      BY <2>1, <3>2, <3>3
  <2>2. name = "published" => cur \in Done(artifacts)
    BY <1>1 DEF ArtifactInv
  <2>3. \A k \in DOMAIN stream'.artifacts : stream'.artifacts[k].boundary \in Done(artifacts)
    BY <1>4, <2>1, <2>2 DEF StreamInv, BehindInv, StreamNeverAhead
  <2>4. ASSUME stream'.occ # <<>>, NEW j \in 1..N
        PROVE  /\ stream'.occ[j].status # "unreached" => occ[j] # "unreached"
               /\ stream'.occ[j].status = "completed" => j \in Done(artifacts)
    <3>1. CASE stream'.occ[j] = stream.occ[j]
      BY <1>3, <2>4, <3>1 DEF StreamInv, BehindInv, StreamNeverAhead
    <3>2. CASE j = cur /\ stream'.occ[j] = Occurred
      BY <1>1, <1>2, <1>4, <3>2 DEF ArtifactInv, Terminal, O!Lifecycle
    <3>3. QED
      BY <1>3, <1>5, <3>1, <3>2
  <2>5. StreamNeverAhead'
    BY <1>2, <2>3, <2>4 DEF StreamNeverAhead, Done
  <2>6. ASSUME pc' \in Ahead, NEW k \in DOMAIN stream'.artifacts
        PROVE  stream'.artifacts[k].boundary # cur
    <3>1. name = "started"
      BY <1>1, <2>6 DEF Ahead, Unpublished
    <3>2. QED
      BY <1>1, <2>1, <3>1 DEF StreamInv, BehindInv, Unpublished
  <2>7. stream'.occ = <<>> => stream'.artifacts = <<>>
    BY <1>3 DEF StreamInv, BehindInv, Moved
  <2>8. QED
    BY <1>2, <2>5, <2>6, <2>7 DEF BehindInv, Ahead
<1>11. QED
  BY <1>7, <1>8, <1>9, <1>10, ChainStep DEF StreamInv

(* The runner stands still, and so do the stream's occurrences.            *)
LEMMA StandStill ==
  ASSUME UNCHANGED vars, stream'.occ = stream.occ, stream'.artifacts = stream.artifacts
  PROVE  /\ AnnouncedInv => AnnouncedInv'
         /\ BehindInv => BehindInv'
         /\ ChainInv => ChainInv'
<1>1. UNCHANGED <<pc, cur, occ, local, saved, artifacts, status>>
  BY DEF vars
<1>2. QED
  BY <1>1 DEF AnnouncedInv, Streamed, SummaryIsObserved, BehindInv, StreamNeverAhead, Done, ChainInv

(* An outcome only ends the stream.                                        *)
LEMMA OutcomeFacts ==
  ASSUME stream \in O!States, NEW s \in Terminal, stream' = O!Reduce(stream, Outcome(s))
  PROVE  /\ stream' \in O!States /\ stream'.occ = stream.occ /\ stream'.artifacts = stream.artifacts
         /\ stream'.outcome # None /\ stream'.outcome.status = s
<1>1. Outcome(s).outcome \in O!Outcomes /\ Outcome(s).outcome.status = s
  BY DEF Outcome, O!Outcomes, O!Terminal, Terminal
<1>2. stream' = [stream EXCEPT !.phase = "finished", !.outcome = Outcome(s).outcome]
  BY DEF O!Reduce, Outcome
<1> HIDE DEF Outcome
<1>3. Outcome(s).outcome # None
  BY <1>1, NoneIsNoStream
<1>4. /\ stream'.occ = stream.occ /\ stream'.artifacts = stream.artifacts
      /\ stream'.outcome = Outcome(s).outcome /\ stream' \in O!States
  BY <1>1, <1>2 DEF O!States
<1>5. QED
  BY <1>1, <1>3, <1>4

(* main plans and prepares before the runner starts.                       *)
LEMMA OpeningStep ==
  ASSUME StagesOnly, IInv, StreamInv, Planned \/ Prepared
  PROVE  StreamInv'
<1> USE DEF IInv
<1>1. /\ UNCHANGED vars /\ exit' = exit /\ exit # "zero" /\ Init /\ stream.outcome = None
      /\ stream \in O!States /\ stream # None /\ main \in {"plan", "prepare"} /\ writer = "ready"
  BY NoneIsNoStream DEF Planned, Prepared, StreamInv, MainInv, RecordedSuccess
<1>2. /\ UNCHANGED <<pc, cur, occ, local, saved, artifacts, status, primary>>
      /\ pc \notin Inside /\ cur = 0 /\ saved = None /\ \A j \in 1..N : occ[j] = "unreached"
      /\ N \in Nat \ {0}
  BY <1>1, StagePlanFacts, PlanFacts DEF vars, Init, Inside, Waiting, Running, Ended
<1>3. Init => Init'
  BY <1>1 DEF vars, Init
<1>4. CASE Planned
  <2>1. /\ main = "plan" /\ stream = O!Allocated
        /\ main' \in {"prepare", "handler"} /\ writer' \in {"ready", "poisoned"}
        /\ main' = "prepare" => writer' = "ready"
                                /\ stream' = O!Reduce(stream, [name |-> "planned"])
        /\ stream' \in {stream, O!Reduce(stream, [name |-> "planned"])}
    BY <1>1, <1>4 DEF Planned, MainAppend, Appended, AppendFailed, Raise, StreamInv, MainInv
  <2> DEFINE Blank == [j \in 1..N |-> O!Unreached]
             Fresh == [phase |-> "preparing", occ |-> Blank, artifacts |-> <<>>, outcome |-> None]
  <2>2. O!Reduce(stream, [name |-> "planned"]) = Fresh
    <3> HIDE DEF Blank
    <3>1. O!Reduce(stream, [name |-> "planned"]) = [stream EXCEPT !.occ = Blank]
      BY DEF O!Reduce, Blank
    <3>2. QED
      BY <2>1, <3>1 DEF O!Allocated
  <2>3. /\ Blank \in [1..N -> O!Occurrences] /\ Blank # <<>>
        /\ \A j \in 1..N : Blank[j].status = "unreached"
    <3>1. O!Unreached \in O!Occurrences /\ O!Unreached.status = "unreached"
      BY DEF O!Unreached, O!Occurrences, O!Statuses, O!Exits
    <3>2. DOMAIN Blank = 1..N /\ 1 \in 1..N
      BY <1>2
    <3>3. \A j \in 1..N : Blank[j] = O!Unreached
      OBVIOUS
    <3> HIDE DEF Blank
    <3>4. Blank # <<>>
      BY <1>2, <3>2
    <3>5. \A j \in 1..N : Blank[j].status = "unreached"
      BY <3>1, <3>3
    <3>6. Blank \in [1..N -> O!Occurrences]
      BY <3>1 DEF Blank
    <3>7. QED
      BY <3>4, <3>5, <3>6
  <2> HIDE DEF Blank
  <2>4. /\ Fresh \in O!States /\ Fresh.occ = Blank /\ Fresh.artifacts = <<>>
        /\ Fresh.outcome = None /\ Fresh.phase = "preparing"
    BY <2>3 DEF O!States
  <2> HIDE DEF Fresh
  <2>5. MainInv'
    BY <1>1, <1>3, <2>1, <2>2, <2>3, <2>4 DEF StreamInv, MainInv, RecordedSuccess
  <2>6. /\ stream'.artifacts = <<>>
        /\ stream'.occ # <<>> => \A j \in 1..N : stream'.occ[j].status = "unreached"
    <3>1. CASE stream' = O!Allocated
      BY <3>1 DEF O!Allocated
    <3>2. CASE stream' = Fresh
      BY <2>3, <2>4, <3>2
    <3>3. QED
      BY <2>1, <2>2, <3>1, <3>2
  <2>7. AnnouncedInv' /\ BehindInv' /\ ChainInv'
    BY <1>1, <1>2, <2>6 DEF AnnouncedInv, SummaryIsObserved, BehindInv, StreamNeverAhead, ChainInv,
       StreamInv, Inside, Running, Ended, Unpublished, Waiting, Init
  <2>8. QED
    BY <2>1, <2>5, <2>7 DEF StreamInv, AbreastInv
<1>5. CASE Prepared
  <2>1. /\ main = "prepare" /\ stream.occ # <<>> /\ stream.phase = "preparing"
        /\ main' \in {"run", "handler"} /\ writer' \in {"ready", "poisoned"}
        /\ main' = "run" => stream' = O!Reduce(stream, [name |-> "prepared"])
        /\ stream' \in {stream, O!Reduce(stream, [name |-> "prepared"])}
    BY <1>1, <1>5 DEF Prepared, MainAppend, Appended, AppendFailed, Raise, StreamInv, MainInv
  <2>2. O!Reduce(stream, [name |-> "prepared"]) = [stream EXCEPT !.phase = "executing"]
    BY DEF O!Reduce
  <2>3. /\ stream' \in O!States /\ stream'.occ = stream.occ /\ stream'.artifacts = stream.artifacts
        /\ stream'.outcome = stream.outcome
        /\ main' = "run" => stream'.phase = "executing"
    BY <1>1, <2>1, <2>2 DEF O!States
  <2>4. MainInv'
    BY <1>1, <2>1, <2>3 DEF StreamInv, MainInv, RecordedSuccess
  <2>5. AbreastInv'
    <3>1. \A j \in 1..N : stream.occ[j].status = "unreached"
      BY <1>2, <2>1 DEF StreamInv, BehindInv, StreamNeverAhead
    <3>2. QED
      BY <1>2, <2>1, <2>3, <3>1 DEF AbreastInv, Inside, Running, Ended
  <2>6. QED
    BY <1>1, <2>3, <2>4, <2>5, StandStill DEF StreamInv
<1>6. QED
  BY <1>4, <1>5

(* main ends, from wherever it comes.                                      *)
LEMMA EndingStep ==
  ASSUME StagesOnly, IInv, StreamInv,
         Verify \/ RecordOutcome \/ Report \/ Interrupt \/ Handle \/ Die
  PROVE  StreamInv'
<1> USE DEF IInv
<1>1. UNCHANGED vars /\ UNCHANGED <<pc, cur, status, saved>> /\ Snapshot' = Snapshot
  BY DEF Verify, RecordOutcome, Report, Interrupt, Handle, Die, vars, Snapshot
<1>2. stream \in O!States /\ MainInv
  BY DEF StreamInv, MainInv
<1>3. CASE Verify
  <2>1. /\ main = "run" /\ pc = "returned" /\ stream' = stream /\ writer' = writer /\ exit' = exit
        /\ main' = IF saved = Snapshot THEN "outcome" ELSE "handler"
    BY <1>3 DEF Verify, Verified
  <2>2. MainInv' /\ AbreastInv'
    BY <1>1, <1>2, <2>1 DEF MainInv, RecordedSuccess, StreamInv, AbreastInv
  <2>3. QED
    BY <1>1, <2>1, <2>2, StandStill DEF StreamInv
<1>4. CASE RecordOutcome
  <2>1. /\ main = "outcome" /\ exit' = exit /\ main' \in {"report", "handler"}
        /\ writer' \in {"ready", "poisoned"}
        /\ main' = "report" => stream' = O!Reduce(stream, Outcome(status))
        /\ stream' \in {stream, O!Reduce(stream, Outcome(status))}
    BY <1>2, <1>4 DEF RecordOutcome, Ending, MainAppend, Appended, AppendFailed, Raise, MainInv
  <2>2. status \in Terminal
    <3>1. pc = "returned"
      BY <1>2, <2>1 DEF MainInv
    <3>2. status # "running"
      BY <3>1 DEF DiagnosisInv, After
    <3>3. QED
      BY <3>2 DEF TypeOK, StreamInv, ChainInv
  <2>3. /\ stream' \in O!States /\ stream'.occ = stream.occ /\ stream'.artifacts = stream.artifacts
        /\ main' = "report" => stream'.outcome # None /\ stream'.outcome.status = status
        /\ stream' = stream \/ (stream'.outcome # None /\ stream'.outcome.status = status)
    BY <1>2, <2>1, <2>2, OutcomeFacts
  <2>4. MainInv' /\ AbreastInv'
    BY <1>1, <1>2, <2>1, <2>3 DEF MainInv, RecordedSuccess, AbreastInv
  <2>5. QED
    BY <1>1, <2>3, <2>4, StandStill DEF StreamInv
<1>5. CASE Handle
  <2>1. /\ main = "handler" /\ main' = "exited" /\ writer' = "closed" /\ exit' = "nonzero"
        /\ \/ stream' = stream
           \/ /\ stream.outcome = None
              /\ \E s \in Kinds : stream' = O!Reduce(stream, Outcome(s))
    BY <1>5 DEF Handle, OutcomeMissing
  <2>2. \/ stream' = stream
        \/ /\ stream' \in O!States /\ stream'.occ = stream.occ /\ stream'.artifacts = stream.artifacts
           /\ stream'.outcome.status # "completed"
    BY <1>2, <2>1, OutcomeFacts DEF Kinds, Terminal
  <2>3. MainInv' /\ AbreastInv'
    BY <1>1, <1>2, <2>1, <2>2 DEF MainInv, RecordedSuccess, AbreastInv
  <2>4. QED
    BY <1>1, <2>2, <2>3, StandStill DEF StreamInv
<1>6. CASE Report \/ Interrupt \/ Die
  <2>1. /\ stream' = stream /\ writer' \in {writer, "closed"}
        /\ main' \in {"exited", "handler", "dead"}
        /\ exit' # "zero" \/ exit' = exit \/ (main = "report" /\ status = "completed")
        /\ exit' \in {"zero", "nonzero", exit}
    BY <1>6 DEF Report, Interrupt, Die, Raise
  <2>2. MainInv' /\ AbreastInv'
    BY <1>1, <1>2, <2>1 DEF MainInv, RecordedSuccess, AbreastInv
  <2>3. QED
    BY <1>1, <2>1, <2>2, StandStill DEF StreamInv
<1>7. QED
  BY <1>3, <1>4, <1>5, <1>6

LEMMA AttemptKeepsStream ==
  ASSUME StagesOnly
  PROVE  AttemptSpec => [](IInv /\ StreamInv)
<1>1. AttemptInit => IInv /\ StreamInv
  <2> SUFFICES ASSUME AttemptInit PROVE IInv /\ StreamInv
    OBVIOUS
  <2>1. /\ Init /\ main = "plan" /\ stream = O!Allocated /\ writer = "ready" /\ exit = None
        /\ pc \notin Inside /\ cur = 0 /\ saved = None /\ status = "running"
        /\ \A j \in 1..N : occ[j] = "unreached"
    BY StagePlanFacts DEF AttemptInit, Init, Inside, Waiting, Running, Ended
  <2>2. /\ stream.occ = <<>> /\ stream.artifacts = <<>> /\ stream.outcome = None
        /\ stream \in O!States
    BY <2>1 DEF O!Allocated, O!States
  <2>3. MainInv /\ AbreastInv
    BY <2>1, <2>2, NoneIsNoStream DEF MainInv, AbreastInv, RecordedSuccess
  <2>4. AnnouncedInv /\ BehindInv /\ ChainInv
    BY <2>1, <2>2 DEF AnnouncedInv, SummaryIsObserved, BehindInv, StreamNeverAhead, ChainInv, Inside,
       Running, Ended, Unpublished, Waiting
  <2>5. QED
    BY <2>1, <2>3, <2>4, InitInv DEF StreamInv
<1>2. IInv /\ StreamInv /\ [AttemptNext]_allVars => (IInv /\ StreamInv)'
  <2> SUFFICES ASSUME IInv, StreamInv, [AttemptNext]_allVars PROVE IInv' /\ StreamInv'
    OBVIOUS
  <2>1. SUFFICES StreamInv'
    BY AttemptStepsAreRunnerSteps, StepKeepsInv, StutterKeepsInv
  <2>2. CASE UNCHANGED allVars
    BY <2>2 DEF allVars, vars, attempt, StreamInv, MainInv, Init, RecordedSuccess, Snapshot, AbreastInv,
       AnnouncedInv, Streamed, SummaryIsObserved, BehindInv, StreamNeverAhead, Done, ChainInv
  <2>3. CASE Run
    <3>1. main = "run" /\ main' = main /\ exit' = exit
      BY <2>3 DEF Run
    <3>2. CASE Silent /\ UNCHANGED <<stream, writer>>
      <4>1. Next
        BY <3>2 DEF Silent, Next
      <4>2. ~Started /\ ~Published /\ ~Finished
        BY <3>2 DEF Silent, SaveIntent, Validate, SaveInitial, NextAction, PollBefore, Begin, Announce,
           Invoke, PollAfter, Publish, Retain, RecordArtifact, PollPublished, Stop, Observe,
           SaveFinished, Settle, SaveFinal, Transition, Started, Published, Finished
      <4>3. QED
        BY <3>1, <3>2, <4>1, <4>2, SilentStep DEF attempt
    <3>3. CASE ~(Silent /\ UNCHANGED <<stream, writer>>)
      BY <2>3, <3>1, <3>3, HookStep DEF Run, Next
    <3>4. QED
      BY <3>2, <3>3
  <2>4. QED
    BY <2>2, <2>3, OpeningStep, EndingStep DEF AttemptNext
<1>3. QED
  BY <1>1, <1>2, PTL DEF AttemptSpec

(* What a segment's attempt is about to append the grammar accepts, and    *)
(* what it has appended was done (stage_preparation.ml:60-140,             *)
(* experimental_stages.ml, observation.ml).                                *)
THEOREM StreamAlwaysTellsTheTruth ==
  ASSUME StagesOnly PROVE AttemptSpec => []StreamTellsTheTruth
<1>1. ASSUME IInv, StreamInv
      PROVE  HonestEventsAreAccepted
  <2> USE <1>1 DEF IInv
  <2>1. SUFFICES ASSUME writer = "ready"
                 PROVE  /\ main = "run" /\ pc \in O!Lifecycle => O!Accepts(stream, Event(pc))
                        /\ main = "outcome" => O!Accepts(stream, Outcome(status))
    BY DEF HonestEventsAreAccepted
  <2>2. stream \in O!States /\ stream # None
    BY NoneIsNoStream DEF StreamInv, MainInv
  <2>3. ASSUME main = "run", pc \in O!Lifecycle
        PROVE  O!Accepts(stream, Event(pc))
    <3>1. /\ cur \in 1..N /\ Plan[cur].op = "segment" /\ N \in Nat \ {0}
          /\ pc \in {"started", "published", "finished"} /\ pc \in Inside
      BY <2>3, InsideFacts, StagePlanFacts, PlanFacts DEF O!Lifecycle, Inside, Running, Ended
    <3>2. /\ stream.outcome = None /\ stream.phase = "executing" /\ stream.occ # <<>>
          /\ cur \in DOMAIN stream.occ
      BY <2>1, <2>2, <2>3, <3>1 DEF StreamInv, MainInv, AbreastInv, O!States
    <3>3. /\ pc \in {"started", "published"} => occ[cur] = "running"
          /\ pc = "finished" => occ[cur] \in Terminal
      BY DEF OccurrenceInv, Running, Ended
    <3>4. CASE pc = "started"
      <4>1. /\ Event(pc).name = "started" /\ Event(pc).at = cur
            /\ Event(pc).occ.status = "running" /\ Event(pc).occ.exit = "none"
        BY <3>3, <3>4 DEF Event, Occurred, Exit
      <4>2. stream.occ[cur].status = "unreached"
        BY <2>1, <2>3, <3>1, <3>4 DEF StreamInv, AbreastInv
      <4>3. ASSUME NEW i \in 1..(cur - 1)
            PROVE  stream.occ[i].status = "completed"
        BY <3>1, <4>3 DEF StreamInv, ChainInv, AnnouncedInv, Streamed
      <4> HIDE DEF Event
      <4>4. QED
        BY <2>2, <3>2, <3>4, <4>1, <4>2, <4>3
           DEF O!Accepts, O!Open, O!Lifecycle, O!StartOK, O!StartsInOrder
    <3>5. CASE pc = "published"
      <4>1. /\ Event(pc).name = "published" /\ Event(pc).at = cur
            /\ Event(pc).occ = [status |-> "running", exit |-> "none", mark |-> "mark"]
            /\ Event(pc).artifact.boundary = cur
        BY <3>3, <3>5 DEF Event, Occurred, Exit, Artifact
      <4>2. stream.occ[cur] = [status |-> "running", exit |-> "none", mark |-> "mark"]
        BY <2>1, <2>3, <3>5 DEF StreamInv, AbreastInv, Running
      <4>3. O!Published(stream, cur) = {}
        BY <3>5 DEF StreamInv, BehindInv, O!Published
      <4> HIDE DEF Event
      <4>4. O!PublishOK(stream, Event(pc))
        <5>1. /\ Event(pc).occ = stream.occ[Event(pc).at]
              /\ stream.occ[Event(pc).at].status = "running"
          BY <4>1, <4>2
        <5>2. QED
          BY <4>1, <4>3, <5>1 DEF O!PublishOK, O!PublishOnce
      <4>5. QED
        BY <2>2, <3>2, <3>5, <4>1, <4>4 DEF O!Accepts, O!Open, O!Lifecycle
    <3>6. CASE pc = "finished"
      <4>1. /\ Event(pc).name = "finished" /\ Event(pc).at = cur
            /\ Event(pc).occ.status = occ[cur] /\ Event(pc).occ.exit = Exit(occ[cur])
            /\ Event(pc).artifact = IF Names THEN Artifact ELSE None
        BY <3>6 DEF Event, Occurred
      <4>2. stream.occ[cur].status = "running"
        BY <2>1, <2>3, <3>6 DEF StreamInv, AbreastInv, Running
      <4> HIDE DEF Event
      <4>3. CASE occ[cur] = "completed"
        <5>1. local = None
          BY <3>6, <4>3 DEF StreamInv, ChainInv
        <5>2. PICK k \in DOMAIN stream.artifacts : stream.artifacts[k].boundary = cur
          BY <3>6, <5>1 DEF StreamInv, AnnouncedInv
        <5>3. stream.artifacts[k] = Artifact /\ k \in O!Published(stream, cur)
          <6>1. stream.artifacts[k] \in O!Artifacts
            BY <2>2, <5>2 DEF O!States
          <6>2. QED
            BY <5>2, <6>1 DEF O!Artifacts, Artifact, O!Published
        <5>4. Names
          BY <3>1, <4>3 DEF ArtifactInv, Names
        <5>5. O!Earned(stream, Event(pc))
          BY <4>1, <4>3, <5>3, <5>4 DEF O!Earned, Exit
        <5>6. QED
          BY <2>2, <3>2, <3>6, <4>1, <4>2, <4>3, <5>5
             DEF O!Accepts, O!Open, O!Lifecycle, O!FinishOK, O!Finishes, O!Terminal, Exit
      <4>4. CASE occ[cur] # "completed"
        <5>1. O!Unearned(stream, Event(pc))
          BY <3>3, <3>6, <4>1, <4>4 DEF O!Unearned, Exit, Names, Terminal
        <5>2. O!FinishOK(stream, Event(pc))
          BY <3>3, <3>6, <4>1, <4>2, <5>1
             DEF O!FinishOK, O!Finishes, O!Terminal, Terminal, Exit
        <5>3. QED
          BY <2>2, <3>2, <3>6, <4>1, <5>2 DEF O!Accepts, O!Open, O!Lifecycle
      <4>5. QED
        BY <4>3, <4>4
    <3>7. QED
      BY <3>1, <3>4, <3>5, <3>6
  <2>4. ASSUME main = "outcome"
        PROVE  O!Accepts(stream, Outcome(status))
    <3>1. pc = "returned" /\ stream.outcome = None /\ stream.phase = "executing" /\ stream.occ # <<>>
      BY <2>1, <2>4 DEF StreamInv, MainInv, AbreastInv
    <3>2. ASSUME status = "completed", NEW j \in 1..N
          PROVE  stream.occ[j].status = "completed"
      <4>1. primary = None /\ cur = N /\ Plan[j].enabled
        BY <3>1, <3>2, StagePlanFacts DEF DiagnosisInv, PlaceInv, After
      <4>2. occ[j] = "completed"
        BY <3>1, <4>1, PlanFacts DEF DiagnosisInv, Inside, Waiting, Running, Ended
      <4>3. QED
        BY <3>1, <4>2 DEF StreamInv, AnnouncedInv, Streamed
    <3>3. DOMAIN stream.occ = 1..N
      BY <2>2, <3>1 DEF O!States
    <3>4. QED
      BY <2>2, <3>1, <3>2, <3>3 DEF Outcome, O!Accepts, O!Open, O!OutcomeOK
  <2>5. QED
    BY <2>3, <2>4
<1>2. IInv /\ StreamInv => StreamTellsTheTruth
  BY <1>1 DEF StreamInv, BehindInv, StreamTellsTheTruth
<1>3. QED
  BY <1>2, AttemptKeepsStream, PTL

(* A recorded outer success is in the outcome, in the summary that was     *)
(* returned and on the disk, exit code 0 only stands for one, and what the *)
(* summary calls completed the stream does too (experimental_stages.ml,    *)
(* runner.ml, stage_preparation.ml).                                       *)
THEOREM BothRecordsAlwaysBackSuccess ==
  ASSUME StagesOnly PROVE AttemptSpec => []BothRecordsBackSuccess
<1>1. ASSUME IInv, StreamInv
      PROVE  OuterSuccessIsBacked
  <2> USE <1>1 DEF IInv
  <2>1. AttemptTypeOK
    <3>1. stream \in O!States /\ stream # None
      BY NoneIsNoStream DEF StreamInv, MainInv
    <3>2. O!TypeOK
      BY <3>1 DEF O!TypeOK, O!States
    <3>3. QED
      BY <3>1, <3>2 DEF StreamInv, MainInv, AttemptTypeOK
  <2>2. ASSUME RecordedSuccess, NEW j \in 1..N
        PROVE  saved.occ[j] = "completed" /\ j \in Done(saved.artifacts)
    <3>1. pc = "returned" /\ status = "completed" /\ saved = Snapshot
      BY <2>2 DEF StreamInv, MainInv
    <3>2. primary = None /\ cur = N /\ Plan[j].enabled /\ Plan[j].op = "segment"
      BY <3>1, StagePlanFacts DEF DiagnosisInv, PlaceInv, After
    <3>3. occ[j] = "completed"
      BY <3>1, <3>2, PlanFacts DEF DiagnosisInv, Inside, Waiting, Running, Ended
    <3>4. j \in Done(artifacts)
      BY <3>2, <3>3 DEF ArtifactInv
    <3>5. saved.occ = occ /\ saved.artifacts = artifacts
      BY <3>1 DEF Snapshot
    <3>6. QED
      BY <3>3, <3>4, <3>5
  <2>3. QED
    BY <2>1, <2>2 DEF OuterSuccessIsBacked, StreamInv, MainInv
<1>2. IInv /\ StreamInv => BothRecordsBackSuccess
  BY <1>1 DEF StreamInv, AnnouncedInv, BothRecordsBackSuccess
<1>3. QED
  BY <1>2, AttemptKeepsStream, PTL
=============================================================================
