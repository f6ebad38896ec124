--------------------------- MODULE EvidenceProofs ---------------------------
(***************************************************************************)
(* Proofs about the evidence that the Python provider makes and reads: the *)
(* checkpoints of a run, the segments and plans behind them, its timing    *)
(* and physical analyses and what Magic's findings are taken for, its      *)
(* collection and its journal.  Each module has a part: its inductive      *)
(* invariant, that the invariant holds at the start and is kept by every   *)
(* step, and what it implies.  ProviderProofs puts them together with the  *)
(* rest.                                                                   *)
(***************************************************************************)
EXTENDS MCProvider, Integers, FiniteSetTheorems, SequenceTheorems, TLAPS
-----------------------------------------------------------------------------
(* Checkpoints (checkpoint.publish, validate). What a reader accepts is    *)
(* what the last validation cleared: the private directory does not change *)
(* between that and the rename.                                            *)

(* Where there is a private directory and what is in it: a manifest names  *)
(* the final location, and a view that was copied.                         *)
CheckpointPreparing == {"parse", "copy", "compare", "validate", "revalidate", "runtime", "seal", "rename"}

(* The private directory is there from mkdir to the rename, and holds what *)
(* a directory may.                                                        *)
CheckpointPlaceInv ==
  /\ pc \in {"report", "make", "flag", "return", "clean", "over"} \cup CheckpointPreparing
  /\ candidate \in [Checkpoint!Parts -> Nat \ {0}] /\ report \in Nat /\ parsed \in Nat /\ copied \in 0..4
  /\ imageOnly \in BOOLEAN /\ validator \in BOOLEAN /\ host \in BOOLEAN /\ promoted \in BOOLEAN
  /\ cleared \in [files : Checkpoint!Versions, image : BOOLEAN] /\ sent \in Nat
  /\ staging \in Checkpoint!Directories \cup {None} /\ final \in Checkpoint!Directories \cup {None}
  /\ pc \in CheckpointPreparing => staging \in Checkpoint!Directories
  /\ pc \in {"report", "make", "flag", "return"} => staging = None
  /\ pc \in {"report", "make", "parse"} => copied = 0
  /\ pc = "compare" => copied < 4

(* The view is copied first: a manifest of a directory without one         *)
(* describes nothing a candidate has.                                      *)
CheckpointFilesInv ==
  /\ pc = "copy" /\ copied > 0 => staging.files["view"] # 0
  /\ pc = "compare" => staging.files["view"] # 0
  /\ staging # None /\ staging.manifest # None => staging.manifest.inventory["view"] # 0
  /\ final # None => (Checkpoint!Validates(final, "final") /\ final.files["view"] # 0) \/ ~Checkpoint!Inventoried(final)

(* Ready is what the reader accepts, sealed and cleared as it stands.      *)
CheckpointCleared(directory) ==
  /\ cleared.files = directory.files
  /\ imageOnly => validator /\ cleared.image

(* From the last validation to the rename nothing writes to the private    *)
(* directory.                                                              *)
CheckpointReadyInv ==
  /\ pc \in {"revalidate"} => validator /\ cleared.image
  /\ pc \in {"seal", "rename"} => Checkpoint!Validates(staging, "final") /\ CheckpointCleared(staging)
  /\ pc = "rename" => staging.mode = "sealed"
  /\ Checkpoint!Validates(final, "final") => CheckpointCleared(final) /\ final.mode = "sealed"

(* The final name is taken by the rename alone, and given up only by the   *)
(* clean-up of a promoted one.                                             *)
CheckpointLeftInv ==
  /\ pc \in {"report", "make"} \cup CheckpointPreparing => final = None
  /\ pc \in {"flag", "return"} => Checkpoint!Validates(final, "final")
  /\ promoted => pc \in {"return", "clean", "over"}
  /\ pc = "clean" /\ final # None => sent > 0 /\ Checkpoint!Validates(final, "final")
  /\ pc # "over" => outcome = None
  /\ outcome = "published" => Checkpoint!Validates(final, "final")
  /\ Checkpoint!FailureLeavesNothing

CheckpointInv == CheckpointPlaceInv /\ CheckpointFilesInv /\ CheckpointReadyInv /\ CheckpointLeftInv

(* A publication that has read nothing.                                    *)
LEMMA CheckpointStarts ==
  ASSUME Checkpoint!NoneIsNew, Checkpoint!Init
  PROVE  CheckpointInv
<1> USE DEF Checkpoint!Init
<1>1. CheckpointPlaceInv
  <2>1. candidate \in [Checkpoint!Parts -> Nat \ {0}] /\ cleared \in [files : Checkpoint!Versions, image : BOOLEAN]
    BY DEF Checkpoint!Versions, Checkpoint!Parts, Checkpoint!Nothing
  <2>2. imageOnly \in BOOLEAN /\ validator \in BOOLEAN /\ host \in BOOLEAN /\ promoted \in BOOLEAN
    OBVIOUS
  <2>3. QED
    BY <2>1, <2>2 DEF CheckpointPlaceInv, CheckpointPreparing
<1>2. CheckpointFilesInv
  BY DEF CheckpointFilesInv
<1>3. CheckpointReadyInv
  BY DEF CheckpointReadyInv, Checkpoint!Validates
<1>4. CheckpointLeftInv
  BY DEF Checkpoint!NoneIsNew, CheckpointLeftInv, Checkpoint!FailureLeavesNothing,
     CheckpointPreparing
<1>5. QED
  BY <1>1, <1>2, <1>3, <1>4 DEF CheckpointInv

(* Every step of a publication keeps its invariant.                        *)
LEMMA CheckpointKept ==
  ASSUME Checkpoint!NoneIsNew, CheckpointInv, [Checkpoint!Next]_(Checkpoint!vars)
  PROVE  CheckpointInv'
<1> USE DEF Checkpoint!NoneIsNew, CheckpointInv, Checkpoint!Fail, Checkpoint!Go, Checkpoint!Raise,
         Checkpoint!given, Checkpoint!read, Checkpoint!world, Checkpoint!done, Checkpoint!Nothing,
         CheckpointPlaceInv, CheckpointPreparing, CheckpointFilesInv, Checkpoint!Versions,
         Checkpoint!Manifests, Checkpoint!Directories, Checkpoint!Parts, CheckpointLeftInv,
         CheckpointReadyInv, Checkpoint!Validates, Checkpoint!Inventoried, CheckpointCleared,
         Checkpoint!FailureLeavesNothing
<1>1. CASE Checkpoint!ReadReport
  BY <1>1 DEF Checkpoint!ReadReport
<1>2. CASE Checkpoint!MakePrivate
  BY <1>2 DEF Checkpoint!MakePrivate
<1>3. CASE Checkpoint!ReadState
  <2>1. CheckpointPlaceInv'
    BY <1>3 DEF Checkpoint!ReadState
  <2>2. CheckpointFilesInv'
    <3>1. pc' = "copy" => copied' = 0
      BY <1>3 DEF Checkpoint!ReadState
    <3>2. QED
      BY <1>3, <3>1 DEF Checkpoint!ReadState
  <2>3. CheckpointReadyInv'
    BY <1>3 DEF Checkpoint!ReadState
  <2>4. CheckpointLeftInv'
    BY <1>3 DEF Checkpoint!ReadState
  <2>5. QED
    BY <2>1, <2>2, <2>3, <2>4
<1>4. CASE Checkpoint!Copy
  BY <1>4 DEF Checkpoint!Copy, Checkpoint!Order, Checkpoint!Parts
<1>5. CASE Checkpoint!Compare
  BY <1>5 DEF Checkpoint!Compare, Checkpoint!Order
<1>6. CASE Checkpoint!WriteManifest
  BY <1>6 DEF Checkpoint!WriteManifest, Checkpoint!Order
<1>7. CASE Checkpoint!Validate
  BY <1>7 DEF Checkpoint!Validate
<1>8. CASE Checkpoint!AskRuntime
  <2>1. CheckpointPlaceInv'
    <3>1. staging \in Checkpoint!Directories /\ [staging EXCEPT !.files["state"] = 0] \in Checkpoint!Directories
      BY <1>8 DEF Checkpoint!AskRuntime
    <3>2. /\ staging' \in {staging, [staging EXCEPT !.files["state"] = 0]} /\ pc' \in {"revalidate", "clean"}
          /\ UNCHANGED <<copied, Checkpoint!read, final, Checkpoint!given, promoted, Checkpoint!world, Checkpoint!done>>
      BY <1>8 DEF Checkpoint!AskRuntime
    <3>3. cleared' \in [files : Checkpoint!Versions, image : BOOLEAN]
      BY <1>8 DEF Checkpoint!AskRuntime
    <3>4. QED
      BY <1>8, <3>1, <3>2, <3>3 DEF Checkpoint!AskRuntime
  <2>2. CheckpointFilesInv'
    BY <1>8 DEF Checkpoint!AskRuntime
  <2>3. CheckpointReadyInv'
    BY <1>8 DEF Checkpoint!AskRuntime
  <2>4. CheckpointLeftInv'
    BY <1>8 DEF Checkpoint!AskRuntime
  <2>5. QED
    BY <2>1, <2>2, <2>3, <2>4
<1>9. CASE Checkpoint!Seal
  BY <1>9 DEF Checkpoint!Seal
<1>10. CASE Checkpoint!Rename
  BY <1>10 DEF Checkpoint!Rename
<1>11. CASE Checkpoint!Flag
  BY <1>11 DEF Checkpoint!Flag
<1>12. CASE Checkpoint!Return
  BY <1>12 DEF Checkpoint!Return
<1>13. CASE Checkpoint!Clean
  BY <1>13 DEF Checkpoint!Clean
<1>14. CASE Checkpoint!InterruptEarly
  BY <1>14 DEF Checkpoint!InterruptEarly
<1>15. CASE Checkpoint!Interrupt
  BY <1>15 DEF Checkpoint!Interrupt
<1>16. CASE Checkpoint!InterruptClean
  <2>1. CheckpointPlaceInv'
    <3>1. final \in Checkpoint!Directories => [final EXCEPT !.files["view"] = 0, !.mode = "private"] \in Checkpoint!Directories
      OBVIOUS
    <3>2. final' \in Checkpoint!Directories \cup {None} /\ staging' \in Checkpoint!Directories \cup {None}
      BY <1>16, <3>1 DEF Checkpoint!InterruptClean
    <3>3. QED
      BY <1>16, <3>2 DEF Checkpoint!InterruptClean
  <2>2. CheckpointFilesInv'
    <3> HIDE DEF CheckpointCleared, Checkpoint!FailureLeavesNothing
    <3> QED
      BY <1>16 DEF Checkpoint!InterruptClean
  <2>3. CheckpointReadyInv'
    <3>1. CASE final' = final
      BY <1>16, <3>1 DEF Checkpoint!InterruptClean
    <3>2. CASE final' = None
      BY <1>16, <3>2 DEF Checkpoint!InterruptClean
    <3>3. CASE final # None /\ final' = [final EXCEPT !.files["view"] = 0, !.mode = "private"]
      <4>1. final \in Checkpoint!Directories /\ final.files = final.manifest.inventory /\ final.files["view"] # 0
        BY <1>16, <3>3 DEF Checkpoint!InterruptClean
      <4>2. final'.files["view"] = 0 /\ final'.manifest = final.manifest
        BY <3>3, <4>1
      <4>3. ~Checkpoint!Inventoried(final')
        BY <4>1, <4>2
      <4>4. QED
        BY <1>16, <4>3 DEF Checkpoint!InterruptClean
    <3>4. QED
      BY <1>16, <3>1, <3>2, <3>3 DEF Checkpoint!InterruptClean
  <2>4. CheckpointLeftInv'
    BY <1>16 DEF Checkpoint!InterruptClean
  <2>5. QED
    BY <2>1, <2>2, <2>3, <2>4
<1>17. CASE Checkpoint!Disturb
  <2>1. CheckpointPlaceInv'
    <3>1. \A p \in Checkpoint!Parts : [candidate EXCEPT ![p] = @ + 1] \in [Checkpoint!Parts -> Nat \ {0}]
      OBVIOUS
    <3>2. candidate' \in [Checkpoint!Parts -> Nat \ {0}]
      BY <1>17, <3>1 DEF Checkpoint!Disturb
    <3>3. host' \in BOOLEAN
      BY <1>17 DEF Checkpoint!Disturb
    <3>4. QED
      BY <1>17, <3>2, <3>3 DEF Checkpoint!Disturb
  <2>2. CheckpointFilesInv'
    BY <1>17 DEF Checkpoint!Disturb
  <2>3. CheckpointReadyInv'
    BY <1>17 DEF Checkpoint!Disturb
  <2>4. CheckpointLeftInv'
    BY <1>17 DEF Checkpoint!Disturb
  <2>5. QED
    BY <2>1, <2>2, <2>3, <2>4
<1>18. CASE UNCHANGED Checkpoint!vars
  BY <1>18 DEF Checkpoint!vars
<1>19. QED
  BY <1>1, <1>2, <1>3, <1>4, <1>5, <1>6, <1>7, <1>8, <1>9, <1>10, <1>11, <1>12, <1>13,
     <1>14, <1>15, <1>16, <1>17, <1>18 DEF Checkpoint!Next

(* What a reader accepts was cleared, and a failure leaves nothing a       *)
(* reader was told of.                                                     *)
LEMMA CheckpointHolds ==
  ASSUME Checkpoint!NoneIsNew, CheckpointInv
  PROVE  Checkpoint!ReadyIsCleared /\ Checkpoint!FailureLeavesNothing
<1>1. ~Checkpoint!Validates(staging, "staging")
  BY DEF Checkpoint!NoneIsNew, CheckpointInv, CheckpointPlaceInv, Checkpoint!Validates,
     Checkpoint!Inventoried, Checkpoint!Directories, Checkpoint!Manifests
<1>2. Checkpoint!ReadyIsCleared
  BY <1>1 DEF CheckpointInv, CheckpointReadyInv, CheckpointLeftInv, CheckpointCleared,
     Checkpoint!ReadyIsCleared
<1>3. QED
  BY <1>2 DEF CheckpointInv, CheckpointLeftInv

-----------------------------------------------------------------------------
(* Segments (stages.SegmentAdapter, librelane_bridge). A reply that is     *)
(* read belongs to the metadata that is copied, unless somebody wrote to   *)
(* it meanwhile; it is in no evidence what the views are, so these are     *)
(* followed by who wrote to them. Every candidate after the first was      *)
(* computed from the closure of the checkpoint before it, or its metadata  *)
(* was written to: then the reply no longer answers for it, or was given   *)
(* afterwards, or it was being copied.                                     *)

SegmentTouched == SUBSET {"unanswered", "copying", "views"}

SegmentPublished == [files : Nat, views : Nat, closure : Nat, answer : Nat, touched : SegmentTouched, asked : BOOLEAN]

(* Whom the host waits for, and what it has of that.                       *)
SegmentCallInv ==
  /\ pc \in {"run", "launch", "wait", "read", "report", "publish", "copy", "validate", "revalidate", "rename",
            "handoff", "over"}
  /\ call \in {"execute", "validate"} /\ inputs \in Nat /\ dependencies \in Nat
  /\ intact \in BOOLEAN /\ imageOnly \in BOOLEAN /\ touched \in SegmentTouched
  /\ pc \in {"launch", "wait", "read"} => (staging = None <=> call = "execute")
  /\ pc \in {"run", "report", "publish", "copy", "handoff"} => staging = None
  /\ pc \in {"validate", "revalidate", "rename"} => staging # None
  /\ pc \in {"report", "publish", "copy", "validate"} => call = "execute"
  /\ pc = "wait" /\ bridge \in {"flow", "recheck", "write"} => call = "execute"

SegmentFilesInv ==
  /\ candidate \in Segment!Candidates \cup {None} /\ staging \in Segment!Copies \cup {None}
  /\ pc = "wait" /\ call = "execute" /\ bridge \in {"reply", "succeeded"} => candidate # None
  /\ pc = "read" /\ call = "execute" => candidate # None
  /\ pc \in {"report", "publish", "copy"} => candidate # None

(* What is copied is what was answered, or it was written to meanwhile.    *)
SegmentAnswerInv ==
  /\ DOMAIN reply = {"execute", "validate"}
  /\ pc = "copy" \/ staging # None => reply["execute"].evidence \in Nat
  /\ pc = "copy" => reply["execute"] # None /\ reply["execute"].kind = "whole"
  /\ pc = "copy" => reply["execute"].evidence = candidate.files \/ "copying" \in touched
  /\ staging # None => reply["execute"].evidence = staging.files \/ "copying" \in touched
  /\ candidate # None => candidate.views = 1 \/ "views" \in touched
  /\ staging # None => staging.views = 1 \/ "views" \in touched
  /\ pc \in {"revalidate", "rename"} /\ imageOnly => reply["validate"] # None

(* A reply is given once, of the candidate as it is then.                  *)
SegmentUnanswered ==
  \/ pc = "launch"
  \/ pc = "wait" /\ bridge \in {"load", "closure", "flow", "recheck", "write", "reply"}

SegmentReplyInv ==
  /\ call = "execute" /\ SegmentUnanswered => reply["execute"] = None
  /\ candidate # None /\ reply["execute"] # None /\ reply["execute"].kind = "whole" =>
       reply["execute"].evidence \in Nat /\ reply["execute"].evidence <= candidate.files

(* Everything of a chain after its first segment is of the closure its     *)
(* last checkpoint names, or it was written to: then the reply no longer   *)
(* answers for it, or was given afterwards.                                *)
SegmentRewritten == "unanswered" \in touched \/ "copying" \in touched

SegmentOutdated ==
  /\ reply["execute"] # None
  /\ reply["execute"].kind = "whole" => reply["execute"].evidence # candidate.files

SegmentClosureInv ==
  /\ segment > 1 /\ pc = "wait" /\ bridge \in {"flow", "recheck", "write"} => dependencies = checkpoint.closure
  /\ segment > 1 /\ candidate # None
       /\ ((pc \in {"launch", "wait", "read"} /\ call = "execute") \/ pc \in {"report", "publish", "copy"}) =>
       candidate.closure = checkpoint.closure \/ SegmentRewritten \/ SegmentOutdated
  /\ segment > 1 /\ pc # "over" /\ staging # None => staging.closure = checkpoint.closure \/ SegmentRewritten

(* The store: one checkpoint of every segment behind, the last handed on.  *)
SegmentStoreInv ==
  /\ store \in Seq(SegmentPublished) /\ segment \in Nat \ {0}
  /\ pc \notin {"handoff", "over"} => Len(store) = segment - 1
  /\ pc = "handoff" => Len(store) = segment
  /\ segment > 1 /\ pc # "over" => checkpoint = store[segment - 1]
  /\ Segment!PublishedIsAnswered /\ Segment!ChainIsOneClosure

SegmentInv == SegmentCallInv /\ SegmentFilesInv /\ SegmentAnswerInv /\ SegmentReplyInv /\ SegmentClosureInv /\ SegmentStoreInv

(* A chain without segments.                                               *)
LEMMA SegmentStarts ==
  ASSUME Segment!NoneIsNew, Segment!Init
  PROVE  SegmentInv
<1> USE DEF Segment!NoneIsNew, Segment!Init
<1>1. SegmentCallInv
  BY DEF SegmentCallInv, SegmentTouched
<1>2. SegmentFilesInv
  BY DEF SegmentFilesInv
<1>3. SegmentAnswerInv
  BY DEF SegmentAnswerInv, Segment!NoReply
<1>4. SegmentReplyInv
  BY DEF SegmentReplyInv, SegmentUnanswered, Segment!NoReply
<1>5. SegmentClosureInv
  BY DEF SegmentClosureInv
<1>6. SegmentStoreInv
  BY DEF SegmentStoreInv, Segment!PublishedIsAnswered, Segment!ChainIsOneClosure
<1>7. QED
  BY <1>1, <1>2, <1>3, <1>4, <1>5, <1>6 DEF SegmentInv

(* What was published stays, and so does what is said of it.               *)
LEMMA SegmentStoreStays ==
  ASSUME SegmentStoreInv, UNCHANGED <<segment, checkpoint, store>>,
         pc' \in {pc, "over"} \/ {pc, pc'} \cap {"handoff", "over"} = {}
  PROVE  SegmentStoreInv'
BY DEF SegmentStoreInv, Segment!PublishedIsAnswered, Segment!ChainIsOneClosure

(* A copy that is renamed was answered for, and is of the closure of the   *)
(* checkpoint before it, or was written to.                                *)
LEMMA SegmentStoreGrows ==
  ASSUME Segment!NoneIsNew, SegmentInv, Segment!Rename, pc' = "handoff"
  PROVE  SegmentStoreInv'
<1> DEFINE made == [files |-> staging.files, views |-> staging.views, closure |-> staging.closure,
                    answer |-> reply["execute"].evidence, touched |-> touched,
                    asked |-> imageOnly => reply["validate"] # None]
<1>1. /\ pc = "rename" /\ staging # None /\ store' = Append(store, made)
      /\ UNCHANGED <<segment, checkpoint>>
  BY DEF Segment!Rename, Segment!Raise, SegmentInv, SegmentCallInv
<1>2. made \in SegmentPublished
  BY <1>1 DEF Segment!NoneIsNew, SegmentInv, SegmentCallInv, SegmentFilesInv, Segment!Copies,
     SegmentAnswerInv, SegmentPublished
<1>3. /\ made.files = made.answer \/ "copying" \in made.touched
      /\ made.views = 1 \/ "views" \in made.touched
      /\ made.asked
  BY <1>1 DEF SegmentInv, SegmentAnswerInv
<1>4. segment > 1 => made.closure = checkpoint.closure \/ made.touched \cap {"unanswered", "copying"} # {}
  BY <1>1 DEF SegmentInv, SegmentClosureInv, SegmentRewritten
<1> HIDE DEF made
<1>5. /\ store \in Seq(SegmentPublished) /\ Len(store) = segment - 1 /\ segment \in Nat \ {0}
      /\ segment > 1 => checkpoint = store[segment - 1]
  BY <1>1 DEF SegmentInv, SegmentStoreInv
<1>6. /\ store' \in Seq(SegmentPublished) /\ Len(store') = segment /\ store'[segment] = made
      /\ \A i \in DOMAIN store : store'[i] = store[i]
      /\ DOMAIN store' = DOMAIN store \cup {segment} /\ DOMAIN store = 1 .. (segment - 1)
  <2> HIDE DEF SegmentPublished
  <2>1. store' = Append(store, made) /\ made \in SegmentPublished /\ store \in Seq(SegmentPublished)
    BY <1>1, <1>2, <1>5
  <2>2. store' \in Seq(SegmentPublished) /\ Len(store') = Len(store) + 1 /\ store'[Len(store) + 1] = made
    BY <2>1
  <2>3. DOMAIN store = 1 .. Len(store) /\ DOMAIN store' = 1 .. Len(store')
    BY <2>1, <2>2
  <2>4. \A i \in DOMAIN store : store'[i] = store[i]
    BY <2>1, <2>3
  <2>5. Len(store) + 1 = segment /\ Len(store) \in Nat
    BY <1>5
  <2>6. QED
    BY <2>2, <2>3, <2>4, <2>5
<1>7. Segment!PublishedIsAnswered'
  BY <1>3, <1>6 DEF SegmentInv, SegmentStoreInv, Segment!PublishedIsAnswered
<1>8. Segment!ChainIsOneClosure'
  <2>1. ASSUME NEW i \in DOMAIN store' \ {1}
        PROVE  store'[i].closure = store'[i - 1].closure \/ store'[i].touched \cap {"unanswered", "copying"} # {}
    <3>1. i \in 2 .. segment /\ store'[i - 1] = store[i - 1]
      BY <1>5, <1>6, <2>1
    <3>2. CASE i = segment
      <4>1. segment - 1 \in DOMAIN store /\ segment > 1
        BY <1>5, <1>6, <3>1, <3>2
      <4>2. store'[i] = made /\ store'[i - 1] = checkpoint
        BY <1>5, <1>6, <3>2, <4>1
      <4>3. QED
        BY <1>4, <4>1, <4>2
    <3>3. CASE i # segment
      BY <1>6, <3>1, <3>3 DEF SegmentInv, SegmentStoreInv, Segment!ChainIsOneClosure
    <3>4. QED
      BY <3>2, <3>3
  <2>2. QED
    BY <2>1 DEF Segment!ChainIsOneClosure
<1>9. segment > 1 => store'[segment - 1] = store[segment - 1]
  BY <1>5, <1>6
<1>10. QED
  BY <1>1, <1>5, <1>6, <1>7, <1>8, <1>9 DEF SegmentStoreInv

(* A candidate somebody wrote to is a candidate of a later version.        *)
LEMMA SegmentRewrites ==
  ASSUME NEW c \in Segment!Candidates, NEW n \in Nat
  PROVE  /\ [c EXCEPT !.files = @ + 1, !.closure = n] \in Segment!Candidates
         /\ [c EXCEPT !.files = @ + 1, !.closure = n].files = c.files + 1
         /\ [c EXCEPT !.views = @ + 1] \in Segment!Candidates /\ [c EXCEPT !.views = @ + 1].files = c.files
<1>1. c.files \in Nat /\ c.views \in Nat /\ c.files + 1 \in Nat /\ c.views + 1 \in Nat
  BY DEF Segment!Candidates
<1>2. [c EXCEPT !.files = @ + 1, !.closure = n] \in Segment!Candidates
  BY <1>1 DEF Segment!Candidates
<1>3. [c EXCEPT !.views = @ + 1] \in Segment!Candidates
  BY <1>1 DEF Segment!Candidates
<1>4. [c EXCEPT !.files = @ + 1, !.closure = n].files = c.files + 1
  BY DEF Segment!Candidates
<1>5. [c EXCEPT !.views = @ + 1].files = c.files
  BY DEF Segment!Candidates
<1>6. QED
  BY <1>2, <1>3, <1>4, <1>5

(* Every step of a chain keeps its invariant.                              *)
LEMMA SegmentKept ==
  ASSUME Segment!NoneIsNew, SegmentInv, [Segment!Next]_(Segment!vars)
  PROVE  SegmentInv'
<1> USE DEF Segment!NoneIsNew, SegmentInv, Segment!Raise, Segment!GoOr, Segment!BridgeFails,
         Segment!process, Segment!world, Segment!chain, Segment!fixed, Segment!host, SegmentCallInv,
         Segment!Copies, SegmentFilesInv, Segment!Candidates, SegmentAnswerInv, SegmentReplyInv,
         SegmentUnanswered, SegmentRewritten, SegmentOutdated, SegmentClosureInv, SegmentTouched
<1>1. CASE Segment!Request
  BY <1>1, SegmentStoreStays DEF Segment!Request, Segment!NoReply
<1>2. CASE Segment!Launch
  BY <1>2, SegmentStoreStays DEF Segment!Launch
<1>3. CASE Segment!Reap
  BY <1>3, SegmentStoreStays DEF Segment!Reap
<1>4. CASE Segment!GiveUp
  BY <1>4, SegmentStoreStays DEF Segment!GiveUp
<1>5. CASE Segment!ReadReply
  BY <1>5, SegmentStoreStays DEF Segment!ReadReply, Segment!Answers
<1>6. CASE Segment!ReadReport
  BY <1>6, SegmentStoreStays DEF Segment!ReadReport
<1>7. CASE Segment!Publish
  BY <1>7, SegmentStoreStays DEF Segment!Publish, Segment!Answers
<1>8. CASE Segment!CopyCandidate
  <2>1. pc = "copy" /\ candidate \in Segment!Candidates /\ pc' \in {"validate", "over"}
    BY <1>8 DEF Segment!CopyCandidate
  <2>2. staging' \in Segment!Copies \cup {None} /\ (pc' = "validate" => staging' # None)
    BY <1>8, <2>1 DEF Segment!CopyCandidate
  <2>3. SegmentCallInv'
    BY <1>8, <2>2 DEF Segment!CopyCandidate
  <2>4. SegmentFilesInv'
    BY <1>8, <2>2 DEF Segment!CopyCandidate
  <2>5. SegmentAnswerInv'
    BY <1>8, <2>1 DEF Segment!CopyCandidate
  <2>6. SegmentReplyInv'
    BY <1>8 DEF Segment!CopyCandidate
  <2>7. SegmentClosureInv'
    BY <1>8, <2>1 DEF Segment!CopyCandidate
  <2>8. SegmentStoreInv'
    BY <1>8, SegmentStoreStays DEF Segment!CopyCandidate
  <2>9. QED
    BY <2>3, <2>4, <2>5, <2>6, <2>7, <2>8
<1>9. CASE Segment!Validate
  BY <1>9, SegmentStoreStays DEF Segment!Validate, Segment!Current
<1>10. CASE Segment!Revalidate
  BY <1>10, SegmentStoreStays DEF Segment!Revalidate, Segment!Current
<1>11. CASE Segment!Rename
  <2>1. CASE pc' = "handoff"
    <3>1. SegmentStoreInv'
      BY <1>11, <2>1, SegmentStoreGrows
    <3>2. QED
      BY <1>11, <2>1, <3>1 DEF Segment!Rename
  <2>2. CASE pc' # "handoff"
    BY <1>11, <2>2, SegmentStoreStays DEF Segment!Rename
  <2>3. QED
    BY <2>1, <2>2
<1>12. CASE Segment!Handoff
  <2>1. SegmentStoreInv'
    BY <1>12 DEF Segment!Handoff, SegmentStoreInv, Segment!PublishedIsAnswered,
       Segment!ChainIsOneClosure
  <2>2. QED
    BY <1>12, <2>1 DEF Segment!Handoff
<1>13. CASE Segment!BridgeLoads
  BY <1>13, SegmentStoreStays DEF Segment!BridgeLoads
<1>14. CASE Segment!BridgeReadsClosure
  BY <1>14, SegmentStoreStays DEF Segment!BridgeReadsClosure, Segment!ExpectedClosure
<1>15. CASE Segment!BridgeRuns
  BY <1>15, SegmentStoreStays DEF Segment!BridgeRuns
<1>16. CASE Segment!BridgeRechecks
  BY <1>16, SegmentStoreStays DEF Segment!BridgeRechecks
<1>17. CASE Segment!BridgeWrites
  BY <1>17, SegmentStoreStays DEF Segment!BridgeWrites
<1>18. CASE Segment!BridgeReplies
  BY <1>18, SegmentStoreStays DEF Segment!BridgeReplies
<1>19. CASE Segment!BridgeReports
  BY <1>19, SegmentStoreStays DEF Segment!BridgeReports
<1>20. CASE Segment!Interrupt
  BY <1>20, SegmentStoreStays DEF Segment!Interrupt
<1>21. CASE Segment!Disturb
  <2>1. candidate = None => candidate' = None /\ touched' = touched
    BY <1>21 DEF Segment!Disturb
  <2>2. candidate # None => candidate' \in Segment!Candidates /\ candidate'.files >= candidate.files /\ candidate' # None
    <3>1. SUFFICES ASSUME candidate # None PROVE candidate' \in Segment!Candidates /\ candidate'.files >= candidate.files
      OBVIOUS
    <3>2. candidate \in Segment!Candidates /\ inputs \in Nat /\ candidate.closure \in Nat /\ candidate.files \in Nat
      BY <3>1
    <3>3. CASE UNCHANGED candidate
      BY <3>2, <3>3
    <3>4. CASE candidate' = [candidate EXCEPT !.views = @ + 1]
      <4> HIDE DEF SegmentInv, Segment!Candidates
      <4>1. candidate' \in Segment!Candidates /\ candidate'.files = candidate.files
        BY <3>2, <3>4, SegmentRewrites
      <4>2. QED
        BY <3>2, <4>1
    <3>5. CASE \E closure \in {candidate.closure, inputs} :
                 candidate' = [candidate EXCEPT !.files = @ + 1, !.closure = closure]
      <4> HIDE DEF SegmentInv, Segment!Candidates
      <4>1. PICK closure \in Nat : candidate' = [candidate EXCEPT !.files = @ + 1, !.closure = closure]
        BY <3>2, <3>5
      <4>2. candidate' \in Segment!Candidates /\ candidate'.files = candidate.files + 1
        BY <3>2, <4>1, SegmentRewrites
      <4>3. QED
        BY <3>2, <4>2
    <3>6. QED
      BY <1>21, <3>3, <3>4, <3>5 DEF Segment!Disturb
  <2>3. touched \subseteq touched' /\ touched' \in SegmentTouched
    <3>1. touched' \in {touched, touched \cup {"copying"}, touched \cup {"unanswered"},
                       touched \cup {"copying", "unanswered"}, touched \cup {"views"}}
      BY <1>21 DEF Segment!Disturb
    <3>2. QED
      BY <3>1
  <2>4. SegmentCallInv'
    <3>1. inputs' \in Nat /\ intact' \in BOOLEAN
      <4>1. inputs' = inputs \/ inputs' = inputs + 1
        BY <1>21 DEF Segment!Disturb
      <4>2. intact' = intact \/ intact' = FALSE
        BY <1>21 DEF Segment!Disturb
      <4>3. inputs \in Nat /\ intact \in BOOLEAN
        OBVIOUS
      <4> HIDE DEF SegmentInv
      <4>4. inputs' \in Nat
        BY <4>1, <4>3
      <4>5. intact' \in BOOLEAN
        BY <4>2, <4>3
      <4>6. QED
        BY <4>4, <4>5
    <3>2. UNCHANGED <<pc, staging, call, bridge, dependencies, imageOnly>>
      BY <1>21 DEF Segment!Disturb, Segment!chain, Segment!fixed
    <3>3. SegmentCallInv
      OBVIOUS
    <3> HIDE DEF SegmentInv, SegmentFilesInv, SegmentAnswerInv, SegmentReplyInv, SegmentClosureInv, SegmentTouched
    <3>4. QED
      BY <2>3, <3>1, <3>2, <3>3
  <2>5. SegmentFilesInv'
    BY <1>21, <2>1, <2>2 DEF Segment!Disturb
  <2>6. SegmentAnswerInv'
    BY <1>21, <2>1, <2>2, <2>3 DEF Segment!Disturb
  <2>7. SegmentReplyInv'
    BY <1>21, <2>1, <2>2 DEF Segment!Disturb
  <2>8. SegmentClosureInv'
    <3>1. UNCHANGED <<pc, staging, call, bridge, dependencies, reply, segment, checkpoint>>
      BY <1>21 DEF Segment!Disturb, Segment!chain, Segment!fixed
    <3>2. CASE candidate = None
      BY <2>1, <2>3, <3>1, <3>2
    <3>3. CASE candidate # None /\ candidate'.files = candidate.files /\ candidate'.closure = candidate.closure
      BY <2>3, <3>1, <3>3
    <3>4. CASE candidate # None /\ candidate'.files = candidate.files + 1
                 /\ (reply["execute"] = None => "unanswered" \in touched')
      <4>1. SegmentRewritten' \/ SegmentOutdated'
        BY <2>2, <3>1, <3>4
      <4>2. QED
        BY <2>3, <3>1, <3>4, <4>1
    <3>5. QED
      BY <1>21, <3>2, <3>3, <3>4 DEF Segment!Disturb
  <2>9. SegmentStoreInv'
    BY <1>21, SegmentStoreStays DEF Segment!Disturb
  <2>10. QED
    BY <2>4, <2>5, <2>6, <2>7, <2>8, <2>9
<1>22. CASE UNCHANGED Segment!vars
  BY <1>22, SegmentStoreStays DEF Segment!vars
<1>23. QED
  BY <1>1, <1>2, <1>3, <1>4, <1>5, <1>6, <1>7, <1>8, <1>9, <1>10, <1>11, <1>12, <1>13, <1>14, <1>15,
     <1>16, <1>17, <1>18, <1>19, <1>20, <1>21, <1>22 DEF Segment!Next

(* All that is published was answered for and is of one closure.           *)
LEMMA SegmentHolds ==
  ASSUME SegmentInv
  PROVE  Segment!PublishedIsAnswered /\ Segment!ChainIsOneClosure
BY DEF SegmentInv, SegmentStoreInv

-----------------------------------------------------------------------------
(* Stage plans (execution_plan, checkpoint, backend_protocol,              *)
(* librelane_bridge). An accepted recipe is a stretch of its order, so     *)
(* each of its transitions is from one stage of the order to the next;     *)
(* that the three gates let these pass, and no others, is read off their   *)
(* tables.                                                                 *)

(* Each transition the bridge started is a step of the order.              *)
PlanFollows(a, b) ==
  IF a = None THEN b = "synthesis" ELSE \E k \in 1..6 : a = Plan!STAGE_ORDER[k] /\ b = Plan!STAGE_ORDER[k + 1]

PlanRanInv ==
  /\ ran \in Seq((Plan!BOUNDARIES \cup {None}) \X Plan!BOUNDARIES)
  /\ \A i \in DOMAIN ran : PlanFollows(ran[i][1], ran[i][2])

PlanRecipeInv ==
  /\ recipe.schema \in {2, 3, 4}
  /\ recipe.initial \in Plan!BOUNDARIES \cup {None}
  /\ recipe.schema = 2 => Len(recipe.stages) = 1 /\ recipe.initial \in {"synthesis", None}

PlanPlaceInv ==
  /\ pc \in {"resolve", "handoff", "run", "over"}
  /\ pc = "resolve" => at = 1 /\ ran = <<>> /\ refused = None
  /\ pc \in {"handoff", "run"} => Plan!Accepted /\ at \in 1..Len(Plan!Sequence) /\ refused = None
  /\ pc = "handoff" => Len(ran) = at - 1
  /\ pc = "run" => Len(ran) = at
  /\ pc = "over" /\ refused = None => Len(ran) = Len(Plan!Sequence)
  /\ recipe.schema = 4 /\ ~historical => refused \in {None, "plan"}

PlanInv == PlanRecipeInv /\ PlanRanInv /\ PlanPlaceInv

(* No stage is in the order twice.                                         *)
LEMMA PlanOrderIsOneToOne ==
  ASSUME NEW i \in 1..7, NEW j \in 1..7, Plan!STAGE_ORDER[i] = Plan!STAGE_ORDER[j]
  PROVE  i = j
BY DEF Plan!STAGE_ORDER

(* A stage of the order is at one place of it.                             *)
LEMMA PlanPositionOfStage ==
  ASSUME NEW k \in 1..7
  PROVE  Plan!Position(Plan!STAGE_ORDER, Plan!STAGE_ORDER[k]) = k
<1>1. DOMAIN Plan!STAGE_ORDER = 1..7
  BY DEF Plan!STAGE_ORDER
<1>2. PICK i \in 1..7 : i = Plan!Position(Plan!STAGE_ORDER, Plan!STAGE_ORDER[k]) /\ Plan!STAGE_ORDER[i] = Plan!STAGE_ORDER[k]
  BY <1>1 DEF Plan!Position
<1>3. QED
  BY <1>2, PlanOrderIsOneToOne

(* What is in an order is at its position.                                 *)
LEMMA PlanPositionInOrder ==
  ASSUME NEW s, \E i \in DOMAIN Plan!Order : Plan!Order[i] = s
  PROVE  Plan!Position(Plan!Order, s) \in DOMAIN Plan!Order /\ Plan!Order[Plan!Position(Plan!Order, s)] = s
BY DEF Plan!Position

(* Either order is a sequence of boundaries that begins with synthesis.    *)
LEMMA PlanOrderIsOf ==
  /\ Plan!Order \in Seq(Plan!BOUNDARIES) /\ Len(Plan!Order) \in Nat /\ DOMAIN Plan!Order = 1..Len(Plan!Order)
  /\ Plan!Order[1] = "synthesis" /\ "synthesis" \in Plan!BOUNDARIES
  /\ recipe.schema = 4 => Plan!Order = Plan!STAGE_ORDER /\ Len(Plan!Order) = 7
  /\ recipe.schema # 4 => Plan!Order = Plan!LEGACY_STAGE_ORDER /\ Len(Plan!Order) = 6
<1>1. "synthesis" \in Plan!BOUNDARIES /\ "floorplan" \in Plan!BOUNDARIES /\ "placement" \in Plan!BOUNDARIES /\ "cts" \in Plan!BOUNDARIES
      /\ "routing" \in Plan!BOUNDARIES /\ "timing" \in Plan!BOUNDARIES /\ "signoff" \in Plan!BOUNDARIES
  <2>1. \A k \in 1..7 : Plan!STAGE_ORDER[k] \in Plan!BOUNDARIES
    BY DEF Plan!BOUNDARIES
  <2>2. QED
    BY <2>1 DEF Plan!STAGE_ORDER
<1>2. Plan!STAGE_ORDER \in Seq(Plan!BOUNDARIES) /\ Plan!LEGACY_STAGE_ORDER \in Seq(Plan!BOUNDARIES)
  BY <1>1 DEF Plan!STAGE_ORDER, Plan!LEGACY_STAGE_ORDER
<1>3. Len(Plan!STAGE_ORDER) = 7 /\ DOMAIN Plan!STAGE_ORDER = 1..7 /\ Plan!STAGE_ORDER[1] = "synthesis"
  BY DEF Plan!STAGE_ORDER
<1>4. Len(Plan!LEGACY_STAGE_ORDER) = 6 /\ DOMAIN Plan!LEGACY_STAGE_ORDER = 1..6 /\ Plan!LEGACY_STAGE_ORDER[1] = "synthesis"
  BY DEF Plan!LEGACY_STAGE_ORDER
<1>5. CASE recipe.schema = 4
  <2>1. Plan!Order = Plan!STAGE_ORDER
    BY <1>5 DEF Plan!Order
  <2>2. /\ Plan!Order \in Seq(Plan!BOUNDARIES) /\ Len(Plan!Order) = 7 /\ DOMAIN Plan!Order = 1..7
        /\ Plan!Order[1] = "synthesis"
    BY <1>2, <1>3, <2>1
  <2>3. Len(Plan!Order) \in Nat /\ DOMAIN Plan!Order = 1..Len(Plan!Order)
    BY <2>2
  <2>4. QED
    BY <1>1, <1>5, <2>1, <2>2, <2>3
<1>6. CASE recipe.schema # 4
  <2>1. Plan!Order = Plan!LEGACY_STAGE_ORDER
    BY <1>6 DEF Plan!Order
  <2>2. /\ Plan!Order \in Seq(Plan!BOUNDARIES) /\ Len(Plan!Order) = 6 /\ DOMAIN Plan!Order = 1..6
        /\ Plan!Order[1] = "synthesis"
    BY <1>2, <1>4, <2>1
  <2>3. Len(Plan!Order) \in Nat /\ DOMAIN Plan!Order = 1..Len(Plan!Order)
    BY <2>2
  <2>4. QED
    BY <1>1, <1>6, <2>1, <2>2, <2>3
<1>7. QED
  BY <1>5, <1>6

(* Where a recipe starts in its order.                                     *)
PlanStart == IF recipe.initial = None THEN 0 ELSE Plan!Position(Plan!Order, recipe.initial)

(* The sequence of an accepted recipe is the stretch of its order after    *)
(* the start, for a schema 2 recipe as for one that lists its stages.      *)
LEMMA PlanSequenceIsOfTheOrder ==
  ASSUME Plan!NoneIsNew, PlanRecipeInv, Plan!Accepted
  PROVE  /\ PlanStart \in 0..Len(Plan!Order)
         /\ recipe.initial # None => PlanStart >= 1 /\ Plan!Order[PlanStart] = recipe.initial
         /\ Plan!Sequence \in Seq(Plan!BOUNDARIES) /\ Len(Plan!Sequence) >= 1 /\ PlanStart + Len(Plan!Sequence) <= Len(Plan!Order)
         /\ \A i \in 1..Len(Plan!Sequence) : Plan!Sequence[i] = Plan!Order[PlanStart + i]
<1> USE PlanOrderIsOf DEF PlanStart
<1>1. CASE recipe.schema # 2
  <2>1. Plan!Sequence = recipe.stages
    BY <1>1 DEF Plan!Sequence
  <2>2. CASE recipe.initial = None
    BY <1>1, <2>1, <2>2 DEF Plan!Accepted, Plan!Contiguous
  <2>3. CASE recipe.initial # None
    <3>1. PlanStart \in DOMAIN Plan!Order /\ Plan!Order[PlanStart] = recipe.initial
      BY <1>1, <2>3, PlanPositionInOrder DEF Plan!Accepted
    <3>2. QED
      BY <1>1, <2>1, <2>3, <3>1 DEF Plan!Accepted, Plan!Contiguous
  <2>4. QED
    BY <2>2, <2>3
<1>2. CASE recipe.schema = 2
  <2> DEFINE from == IF recipe.initial = None THEN 1 ELSE 2
             to == Plan!Position(Plan!Order, Plan!Endpoint)
  <2>1. Plan!Endpoint \in Plan!BOUNDARIES /\ Plan!Endpoint # "timing"
    BY <1>2 DEF Plan!Accepted, Plan!Endpoint, PlanRecipeInv
  <2>2. \E i \in DOMAIN Plan!Order : Plan!Order[i] = Plan!Endpoint
    <3>1. Plan!Order = Plan!LEGACY_STAGE_ORDER
      BY <1>2
    <3>2. Plan!Endpoint \in {"synthesis", "floorplan", "placement", "cts", "routing", "signoff"}
      BY <2>1 DEF Plan!BOUNDARIES, Plan!STAGE_ORDER
    <3>3. QED
      BY <3>1, <3>2 DEF Plan!LEGACY_STAGE_ORDER
  <2>3. to \in 1..Len(Plan!Order) /\ Plan!Order[to] = Plan!Endpoint
    BY <2>2, PlanPositionInOrder
  <2>4. Plan!Sequence = SubSeq(Plan!Order, from, to)
    BY <1>2 DEF Plan!Sequence
  <2>5. \A i \in from..to : Plan!Order[i] \in Plan!BOUNDARIES
    <3>1. from >= 1 /\ from \in Nat /\ to <= Len(Plan!Order) /\ to \in Nat
      BY <2>3
    <3>2. QED
      BY <3>1
  <2>6. /\ Plan!Sequence \in Seq(Plan!BOUNDARIES) /\ Len(Plan!Sequence) = IF from <= to THEN to - from + 1 ELSE 0
        /\ \A i \in 1..to - from + 1 : Plan!Sequence[i] = Plan!Order[from + i - 1]
    BY <2>3, <2>4, <2>5, SubSeqProperties
  <2>7. PlanStart = from - 1 /\ (recipe.initial # None => Plan!Order[1] = recipe.initial)
    <3>1. CASE recipe.initial = None
      BY <3>1
    <3>2. CASE recipe.initial # None
      <4>1. recipe.initial = "synthesis" /\ \E i \in DOMAIN Plan!Order : Plan!Order[i] = recipe.initial
        BY <1>2, <3>2 DEF PlanRecipeInv
      <4>2. PlanStart \in 1..6 /\ Plan!LEGACY_STAGE_ORDER[PlanStart] = "synthesis"
        BY <1>2, <3>2, <4>1, PlanPositionInOrder
      <4>3. PlanStart = 1
        BY <4>2 DEF Plan!LEGACY_STAGE_ORDER
      <4>4. QED
        BY <3>2, <4>1, <4>3
    <3>3. QED
      BY <3>1, <3>2
  <2>8. from <= to
    BY <1>2, <2>3, <2>7 DEF Plan!Accepted
  <2>9. from \in Nat /\ to \in Nat /\ PlanStart = from - 1 /\ Len(Plan!Sequence) = to - from + 1
    BY <2>3, <2>6, <2>7, <2>8
  <2> HIDE DEF PlanStart, to
  <2>10. (recipe.initial # None => PlanStart = 1) /\ PlanStart \in 0..1
    BY <2>9
  <2> HIDE DEF from
  <2>11. PlanStart + Len(Plan!Sequence) = to /\ Len(Plan!Sequence) >= 1
    BY <2>8, <2>9
  <2>12. ASSUME NEW i \in 1..Len(Plan!Sequence)
         PROVE  Plan!Sequence[i] = Plan!Order[PlanStart + i]
    <3>1. Plan!Sequence[i] = Plan!Order[from + i - 1] /\ from + i - 1 = PlanStart + i
      BY <2>6, <2>9
    <3>2. QED
      BY <3>1
  <2>13. QED
    BY <2>3, <2>6, <2>7, <2>10, <2>11, <2>12
<1>3. QED
  BY <1>1, <1>2

(* A segment of an accepted recipe begins where the order has the end of   *)
(* the one before it.                                                      *)
LEMMA PlanSegmentsAreAdjacent ==
  ASSUME Plan!NoneIsNew, PlanRecipeInv, Plan!Accepted, at \in 1..Len(Plan!Sequence)
  PROVE  /\ Plan!Stage \in Plan!BOUNDARIES /\ Plan!Source \in Plan!BOUNDARIES \cup {None}
         /\ Plan!Source = None => Plan!Stage = "synthesis"
         /\ Plan!Source # None => \E k \in 1..Len(Plan!Order) - 1 : Plan!Source = Plan!Order[k] /\ Plan!Stage = Plan!Order[k + 1]
         /\ recipe.schema = 4 => Len(Plan!Sequence) = Len(recipe.stages)
<1> USE PlanOrderIsOf
<1>1. /\ PlanStart \in 0..Len(Plan!Order)
      /\ recipe.initial # None => PlanStart >= 1 /\ Plan!Order[PlanStart] = recipe.initial
      /\ Plan!Sequence \in Seq(Plan!BOUNDARIES) /\ Len(Plan!Sequence) >= 1 /\ PlanStart + Len(Plan!Sequence) <= Len(Plan!Order)
      /\ \A i \in 1..Len(Plan!Sequence) : Plan!Sequence[i] = Plan!Order[PlanStart + i]
  BY PlanSequenceIsOfTheOrder
<1>2. Plan!Stage = Plan!Order[PlanStart + at] /\ Plan!Stage \in Plan!BOUNDARIES /\ (recipe.schema = 4 => Plan!Sequence = recipe.stages)
  <2>1. Plan!Stage = Plan!Order[PlanStart + at] /\ Plan!Stage \in Plan!BOUNDARIES
    BY <1>1 DEF Plan!Stage
  <2>2. recipe.schema = 4 => Plan!Sequence = recipe.stages
    BY DEF Plan!Sequence
  <2>3. QED
    BY <2>1, <2>2
<1>3. CASE at = 1
  <2>1. Plan!Source = recipe.initial
    BY <1>3 DEF Plan!Source
  <2>2. CASE recipe.initial = None
    BY <1>1, <1>2, <1>3, <2>1, <2>2 DEF PlanStart
  <2>3. CASE recipe.initial # None
    <3>1. PlanStart \in 1..Len(Plan!Order) - 1 /\ Plan!Source = Plan!Order[PlanStart] /\ Plan!Stage = Plan!Order[PlanStart + 1]
      BY <1>1, <1>2, <1>3, <2>1, <2>3
    <3>2. Plan!Source # None /\ Plan!Source \in Plan!BOUNDARIES
      BY <2>1, <2>3 DEF PlanRecipeInv
    <3>3. QED
      BY <1>1, <1>2, <3>1, <3>2
  <2>4. QED
    BY <2>2, <2>3
<1>4. CASE at # 1
  <2>1. Plan!Source = Plan!Sequence[at - 1] /\ at - 1 \in 1..Len(Plan!Sequence)
    BY <1>1, <1>4 DEF Plan!Source
  <2>2. Plan!Source = Plan!Order[PlanStart + at - 1] /\ Plan!Source \in Plan!BOUNDARIES /\ PlanStart + at - 1 \in 1..Len(Plan!Order) - 1
    <3>1. PlanStart + (at - 1) \in 1..Len(Plan!Order) - 1 /\ Plan!Sequence[at - 1] = Plan!Order[PlanStart + (at - 1)]
      BY <1>1, <1>4, <2>1
    <3>2. QED
      BY <1>1, <2>1, <3>1
  <2>3. Plan!Source # None
    BY <2>2 DEF Plan!NoneIsNew
  <2>4. Plan!Stage = Plan!Order[(PlanStart + at - 1) + 1]
    BY <1>1, <1>2
  <2>5. \E k \in 1..Len(Plan!Order) - 1 : Plan!Source = Plan!Order[k] /\ Plan!Stage = Plan!Order[k + 1]
    BY <2>2, <2>4
  <2>6. QED
    BY <1>1, <1>2, <2>2, <2>3, <2>5
<1>5. QED
  BY <1>3, <1>4

(* A recipe that was only asked for.                                       *)
LEMMA PlanStarts ==
  ASSUME Plan!Init
  PROVE  PlanInv
<1>1. PlanRecipeInv
  <2>1. \/ recipe.schema \in {3, 4} /\ recipe.initial \in Plan!BOUNDARIES \cup {None}
        \/ recipe.schema = 2 /\ recipe.initial \in {"synthesis", None} /\ \E b \in Plan!BOUNDARIES : recipe.stages = <<b>>
    BY DEF Plan!Init
  <2>2. "synthesis" \in Plan!BOUNDARIES
    BY PlanOrderIsOf
  <2>3. QED
    BY <2>1, <2>2 DEF PlanRecipeInv
<1>2. PlanRanInv /\ PlanPlaceInv
  BY DEF Plan!Init, PlanRanInv, PlanPlaceInv
<1>3. QED
  BY <1>1, <1>2 DEF PlanInv

(* Resolution accepts a recipe with a sequence, or refuses it.             *)
LEMMA PlanResolveKeeps ==
  ASSUME Plan!NoneIsNew, PlanInv, Plan!Resolve
  PROVE  PlanInv'
<1> USE DEF Plan!Resolve
<1>1. PlanRecipeInv' /\ PlanRanInv'
  BY DEF PlanInv, PlanRecipeInv, PlanRanInv
<1>2. Plan!Accepted' = Plan!Accepted /\ Plan!Sequence' = Plan!Sequence
  BY DEF Plan!Accepted, Plan!Contiguous, Plan!Endpoint, Plan!Order, Plan!Sequence
<1>3. CASE Plan!Accepted
  <2>1. Len(Plan!Sequence) \in Nat \ {0}
    BY <1>3, PlanSequenceIsOfTheOrder DEF PlanInv
  <2>2. QED
    BY <1>1, <1>2, <1>3, <2>1 DEF PlanInv, PlanPlaceInv
<1>4. CASE ~Plan!Accepted
  BY <1>1, <1>2, <1>4 DEF PlanInv, PlanPlaceInv, Plan!NoneIsNew
<1>5. QED
  BY <1>3, <1>4

(* The gates refuse a transition that skips a stage, and none of a current *)
(* recipe.                                                                 *)
LEMMA PlanGatesFollowTheOrder ==
  ASSUME Plan!NoneIsNew, PlanInv, Plan!Handoff
  PROVE  /\ refused' = None => PlanFollows(Plan!Source, Plan!Stage)
         /\ recipe.schema = 4 /\ ~historical => refused' = None
         /\ refused' \in {None, "adapter", "checkpoint", "protocol", "bridge"}
         /\ Plan!Source \in Plan!BOUNDARIES \cup {None} /\ Plan!Stage \in Plan!BOUNDARIES
<1>1. /\ PlanRecipeInv /\ Plan!Accepted /\ at \in 1..Len(Plan!Sequence) /\ pc = "handoff"
  BY DEF PlanInv, PlanPlaceInv, Plan!Handoff
<1>2. /\ Plan!Stage \in Plan!BOUNDARIES /\ Plan!Source \in Plan!BOUNDARIES \cup {None}
      /\ Plan!Source = None => Plan!Stage = "synthesis"
      /\ Plan!Source # None => \E k \in 1..Len(Plan!Order) - 1 : Plan!Source = Plan!Order[k] /\ Plan!Stage = Plan!Order[k + 1]
  BY <1>1, PlanSegmentsAreAdjacent
<1>3. refused' = IF Plan!Source = None THEN IF Plan!Stage = "synthesis" THEN None ELSE "adapter"
                 ELSE IF Plan!Stage = "synthesis" THEN "adapter"
                 ELSE IF ~Plan!Restartable THEN "checkpoint"
                 ELSE IF ~Plan!Requestable THEN "protocol"
                 ELSE IF ~Plan!Continuable THEN "bridge" ELSE None
  BY DEF Plan!Handoff
<1>4. CASE Plan!Source = None
  BY <1>2, <1>3, <1>4 DEF PlanFollows
<1>5. CASE Plan!Source # None
  <2>1. PICK k \in 1..Len(Plan!Order) - 1 : Plan!Source = Plan!Order[k] /\ Plan!Stage = Plan!Order[k + 1]
    BY <1>2, <1>5
  <2>2. CASE Plan!Order = Plan!STAGE_ORDER /\ Len(Plan!Order) = 7
    <3>1. k \in 1..6 /\ Plan!Source = Plan!STAGE_ORDER[k] /\ Plan!Stage = Plan!STAGE_ORDER[k + 1]
      BY <2>1, <2>2
    <3>2. PlanFollows(Plan!Source, Plan!Stage)
      BY <1>5, <3>1 DEF PlanFollows
    <3>3. Plan!Stage \in Plan!RESTART_TARGETS[Plan!Source] /\ Plan!Stage # "synthesis"
      BY <3>1 DEF Plan!STAGE_ORDER, Plan!RESTART_TARGETS
    <3>4. Plan!Stage \in Plan!TRANSITIONS[Plan!Source]
      BY <3>1, <3>3 DEF Plan!STAGE_ORDER, Plan!RESTART_TARGETS, Plan!TRANSITIONS
    <3>5. Plan!Restartable /\ Plan!Requestable /\ Plan!Continuable
      BY <3>3, <3>4 DEF Plan!Restartable, Plan!Requestable, Plan!Continuable, Plan!BridgeTargets
    <3>6. QED
      BY <1>2, <1>3, <1>5, <3>2, <3>3, <3>5
  <2>3. CASE Plan!Order = Plan!LEGACY_STAGE_ORDER /\ Len(Plan!Order) = 6 /\ recipe.schema # 4
    <3>1. k \in 1..5 /\ Plan!Source = Plan!LEGACY_STAGE_ORDER[k] /\ Plan!Stage = Plan!LEGACY_STAGE_ORDER[k + 1]
      BY <2>1, <2>3
    <3>2. CASE k = 5
      <4>1. Plan!Source = "routing" /\ Plan!Stage = "signoff"
        BY <3>1, <3>2 DEF Plan!LEGACY_STAGE_ORDER
      <4>2. ~Plan!Continuable
        BY <4>1 DEF Plan!Continuable, Plan!BridgeTargets, Plan!RESTART_TARGETS
      <4>3. QED
        BY <1>2, <1>3, <1>5, <2>3, <4>2 DEF Plan!NoneIsNew
    <3>3. CASE k # 5
      <4>1. k \in 1..6 /\ Plan!Source = Plan!STAGE_ORDER[k] /\ Plan!Stage = Plan!STAGE_ORDER[k + 1]
        BY <3>1, <3>3 DEF Plan!STAGE_ORDER, Plan!LEGACY_STAGE_ORDER
      <4>2. PlanFollows(Plan!Source, Plan!Stage)
        BY <1>5, <4>1 DEF PlanFollows
      <4>3. QED
        BY <1>2, <1>3, <2>3, <4>2
    <3>4. QED
      BY <3>2, <3>3
  <2>4. QED
    BY <2>2, <2>3, PlanOrderIsOf
<1>6. QED
  BY <1>4, <1>5

(* A transition that is started is noted, a refusal ends the plan.         *)
LEMMA PlanHandoffKeeps ==
  ASSUME Plan!NoneIsNew, PlanInv, Plan!Handoff
  PROVE  PlanInv'
<1>1. PlanRecipeInv' /\ Plan!Accepted' = Plan!Accepted /\ Plan!Sequence' = Plan!Sequence
  BY DEF Plan!Handoff, PlanInv, PlanRecipeInv, Plan!Accepted, Plan!Contiguous, Plan!Endpoint,
     Plan!Order, Plan!Sequence
<1>2. /\ Plan!Accepted /\ at \in 1..Len(Plan!Sequence) /\ pc = "handoff" /\ Len(ran) = at - 1
      /\ UNCHANGED <<recipe, historical, at>>
      /\ ran \in Seq((Plan!BOUNDARIES \cup {None}) \X Plan!BOUNDARIES) /\ \A i \in DOMAIN ran : PlanFollows(ran[i][1], ran[i][2])
  BY DEF Plan!Handoff, PlanInv, PlanPlaceInv, PlanRanInv
<1>3. CASE refused' = None
  <2>1. pc' = "run" /\ ran' = Append(ran, <<Plan!Source, Plan!Stage>>)
    BY <1>3 DEF Plan!Handoff
  <2>2. <<Plan!Source, Plan!Stage>> \in (Plan!BOUNDARIES \cup {None}) \X Plan!BOUNDARIES /\ PlanFollows(Plan!Source, Plan!Stage)
    BY <1>3, PlanGatesFollowTheOrder
  <2>3. PlanRanInv' /\ Len(ran') = at
    <3>1. ran' \in Seq((Plan!BOUNDARIES \cup {None}) \X Plan!BOUNDARIES) /\ Len(ran') = at
      BY <1>2, <2>1, <2>2
    <3>2. ASSUME NEW i \in DOMAIN ran'
          PROVE  PlanFollows(ran'[i][1], ran'[i][2])
      <4>1. (i \in DOMAIN ran /\ ran'[i] = ran[i]) \/ ran'[i] = <<Plan!Source, Plan!Stage>>
        BY <1>2, <2>1, <2>2
      <4>2. QED
        BY <1>2, <2>2, <4>1
    <3>3. QED
      BY <3>1, <3>2 DEF PlanRanInv, PlanFollows
  <2>4. QED
    BY <1>1, <1>2, <1>3, <2>1, <2>3 DEF PlanInv, PlanPlaceInv
<1>4. CASE refused' # None
  <2>1. pc' = "over" /\ UNCHANGED ran
    BY <1>4 DEF Plan!Handoff
  <2>2. PlanRanInv'
    BY <1>2, <2>1 DEF PlanRanInv, PlanFollows
  <2>3. PlanPlaceInv'
    BY <1>1, <1>2, <1>4, <2>1, PlanGatesFollowTheOrder DEF PlanPlaceInv, Plan!NoneIsNew
  <2>4. QED
    BY <1>1, <2>2, <2>3 DEF PlanInv
<1>5. QED
  BY <1>3, <1>4

(* After a segment the next one is due, or the plan is over.               *)
LEMMA PlanAdvanceKeeps ==
  ASSUME PlanInv, Plan!Advance
  PROVE  PlanInv'
<1>1. PlanRecipeInv' /\ PlanRanInv' /\ Plan!Accepted' = Plan!Accepted /\ Plan!Sequence' = Plan!Sequence
  BY DEF Plan!Advance, PlanInv, PlanRecipeInv, PlanRanInv, PlanFollows, Plan!Accepted,
     Plan!Contiguous, Plan!Endpoint, Plan!Order, Plan!Sequence
<1>2. QED
  BY <1>1 DEF Plan!Advance, PlanInv, PlanPlaceInv

(* Every step of a plan keeps its invariant.                               *)
LEMMA PlanKept ==
  ASSUME Plan!NoneIsNew, PlanInv, [Plan!Next]_(Plan!vars)
  PROVE  PlanInv'
<1>1. CASE UNCHANGED Plan!vars
  <2>1. Plan!Accepted' = Plan!Accepted /\ Plan!Sequence' = Plan!Sequence
    BY <1>1 DEF Plan!vars, Plan!Accepted, Plan!Contiguous, Plan!Endpoint, Plan!Order, Plan!Sequence
  <2>2. QED
    BY <1>1, <2>1 DEF Plan!vars, PlanInv, PlanRecipeInv, PlanRanInv, PlanFollows, PlanPlaceInv
<1>2. QED
  BY <1>1, PlanResolveKeeps, PlanHandoffKeeps, PlanAdvanceKeeps DEF Plan!Next

(* No stage is skipped, and what was accepted is served.                   *)
LEMMA PlanHolds ==
  ASSUME Plan!NoneIsNew, PlanInv
  PROVE  Plan!NoStageIsSkipped /\ Plan!AcceptedIsServed
<1>1. Plan!NoStageIsSkipped
  <2>1. ASSUME NEW i \in DOMAIN ran, ran[i][1] # None
        PROVE  Plan!Position(Plan!STAGE_ORDER, ran[i][2]) = Plan!Position(Plan!STAGE_ORDER, ran[i][1]) + 1
    <3>1. PICK k \in 1..6 : ran[i][1] = Plan!STAGE_ORDER[k] /\ ran[i][2] = Plan!STAGE_ORDER[k + 1]
      BY <2>1 DEF PlanInv, PlanRanInv, PlanFollows
    <3>2. Plan!Position(Plan!STAGE_ORDER, Plan!STAGE_ORDER[k]) = k /\ Plan!Position(Plan!STAGE_ORDER, Plan!STAGE_ORDER[k + 1]) = k + 1
      BY PlanPositionOfStage
    <3>3. QED
      BY <3>1, <3>2
  <2>2. QED
    BY <2>1 DEF Plan!NoStageIsSkipped, PlanInv, PlanRanInv, PlanFollows
<1>2. Plan!AcceptedIsServed
  BY DEF Plan!AcceptedIsServed, PlanInv, PlanPlaceInv, PlanRecipeInv, Plan!Sequence
<1>3. QED
  BY <1>1, <1>2

-----------------------------------------------------------------------------
(* Timing evidence (timing_intent_runtime, timing_physical_runtime). The   *)
(* thread's corners are apart: what holds of one corner's directory,       *)
(* records and claims is left alone by the steps on every other, and       *)
(* progress is written of corners that have all come to an end.            *)

TimingEarly == {"request", "select", "close", "configure", "step"}

TimingTypeInv ==
  /\ pc \in TimingEarly \cup {"await", "drain", "progress", "judge", "result", "over"}
  /\ route \in Timing!Routes /\ chain \in {"causal", "reordered", "mixed"} /\ equal \in BOOLEAN
  /\ changes \in Nat /\ netlist = changes + 1 /\ selected \in Nat \cup {None}
  /\ futures \subseteq Timing!Configured /\ audits \subseteq futures
  /\ worker \in Timing!Workers \cup {None} /\ progress \in Timing!Progresses \cup {None}
  /\ copies \in [1..MaxCorner -> Nat \cup {None}] /\ process \in [1..MaxCorner -> {None, "ok", "error", "unknown"}]
  /\ ended \in [1..MaxCorner -> {None, "ok", "error"}]
  /\ outcome \in {None, "completed", "refused"} /\ (pc # "over" => outcome = None)

(* What is analysed is selected, of producers in order, before a corner is. *)
TimingSelectionInv ==
  /\ selected # None => selected \in 1..netlist
  /\ pc \in {"request", "select"} => chain = "causal" \/ route = "physical"
  /\ pc = "close" => route \notin Timing!Intent /\ chain # "mixed"
  /\ pc \in {"configure", "step", "await", "drain", "progress", "judge", "result"} => chain = "causal"
  /\ pc \notin {"request", "select", "over"} \/ futures # {} => selected # None
  /\ pc \in TimingEarly => futures = {} /\ worker = None
  /\ pc \in TimingEarly \cup {"await", "drain", "progress"} => progress = None

(* A corner by its records, and the one the thread is at.                  *)
TimingCornerInv ==
  /\ \A c \in 1..MaxCorner :
       /\ c \notin futures => copies[c] = None /\ process[c] = None /\ ended[c] = None
       /\ c \in audits <=> ended[c] = "ok"
       /\ c \in audits => process[c] = "ok" /\ copies[c] # None
       /\ copies[c] # None => selected # None /\ copies[c] \in selected..netlist
  /\ worker # None =>
       /\ worker.corner \in futures /\ ended[worker.corner] = None /\ selected # None
       /\ worker.at # "retain" => copies[worker.corner] # None
       /\ worker.at \in {"filter", "audit"} => process[worker.corner] = "ok"

(* Progress is written of corners that have all ended, and stays true.     *)
TimingFinalInv ==
  /\ pc \in {"drain", "progress"} => route \notin Timing!Intent
  /\ pc = "progress" => Timing!Idle
  /\ pc \in {"judge", "result"} /\ route \notin Timing!Intent => progress # None /\ Timing!Failed = {}
  /\ progress # None =>
       /\ Timing!Idle /\ progress.executed = Timing!Executed /\ progress.audited = audits
       /\ progress.equivalent = Timing!Equivalent /\ (Timing!Failed = {} => progress.completed)

TimingResultInv ==
  pc = "result" \/ outcome = "completed" =>
    /\ audits = Timing!Configured /\ chain = "causal" /\ selected # None
    /\ route \notin Timing!Intent => progress # None /\ Timing!Failed = {}
    /\ \A c \in Timing!Configured : copies[c] = selected \/ (route \notin Timing!Intent /\ changes > 0)

TimingInv == TimingTypeInv /\ TimingSelectionInv /\ TimingCornerInv /\ TimingFinalInv /\ TimingResultInv

(* The thread's step on its corner, whatever it comes to.                  *)
TimingWorked(c, v, p, e) ==
  /\ worker \in Timing!Workers /\ worker.corner = c
  /\ UNCHANGED <<pc, route, chain, equal, netlist, changes, selected, futures, progress, outcome>>
  /\ v \in Nat \cup {None} /\ (v # None => v \in selected..netlist) /\ copies' = [copies EXCEPT ![c] = v]
  /\ p \in {None, "ok", "error", "unknown"} /\ process' = [process EXCEPT ![c] = p]
  /\ e \in {None, "ok", "error"} /\ ended' = [ended EXCEPT ![c] = e] /\ (e = "ok" => p = "ok" /\ v # None)
  /\ audits' = IF e = "ok" THEN audits \cup {c} ELSE audits
  /\ \/ worker' = None
     \/ /\ worker' \in Timing!Workers /\ worker'.corner = c /\ e = None
        /\ worker'.at # "retain" => v # None
        /\ worker'.at \in {"filter", "audit"} => p = "ok"

(* A step of the thread on one corner leaves what holds of the others.     *)
LEMMA TimingWorkIsKept ==
  ASSUME Timing!NoneIsNew, MaxCorner \in Nat \ {0}, TimingInv, NEW c \in 1..MaxCorner, NEW v, NEW p, NEW e, TimingWorked(c, v, p, e)
  PROVE  TimingInv'
<1> USE DEF Timing!NoneIsNew, TimingInv, TimingWorked
<1>1. c \in futures /\ ended[c] = None /\ selected # None /\ c \notin audits /\ c \in Timing!Configured
  BY DEF TimingCornerInv, TimingTypeInv
<1>2. pc \notin TimingEarly \cup {"progress", "result"} /\ outcome # "completed" /\ progress = None
      /\ (pc = "judge" => route \in Timing!Intent)
  <2>1. ~Timing!Idle
    BY <1>1 DEF Timing!Idle
  <2>2. progress = None /\ pc \notin TimingEarly \cup {"progress"} /\ (pc = "judge" => route \in Timing!Intent)
    BY <1>1, <2>1 DEF TimingFinalInv, TimingSelectionInv, TimingEarly
  <2>3. pc # "result" /\ outcome # "completed"
    BY <1>1 DEF TimingResultInv
  <2>4. QED
    BY <2>2, <2>3
<1>3. Timing!Configured' = Timing!Configured
  BY DEF Timing!Configured
<1>4. TimingTypeInv'
  <2>1. /\ copies' \in [1..MaxCorner -> Nat \cup {None}] /\ process' \in [1..MaxCorner -> {None, "ok", "error", "unknown"}]
        /\ ended' \in [1..MaxCorner -> {None, "ok", "error"}]
    BY DEF TimingTypeInv
  <2>2. audits' \subseteq futures' /\ worker' \in Timing!Workers \cup {None}
    BY <1>1 DEF TimingTypeInv
  <2>3. QED
    BY <1>3, <2>1, <2>2 DEF TimingTypeInv
<1>5. TimingSelectionInv'
  BY <1>2 DEF TimingSelectionInv, TimingEarly
<1>6. TimingCornerInv'
  <2>1. ASSUME NEW d \in 1..MaxCorner, d # c
        PROVE  copies'[d] = copies[d] /\ process'[d] = process[d] /\ ended'[d] = ended[d] /\ (d \in audits' <=> d \in audits)
    BY <2>1 DEF TimingTypeInv
  <2>2. copies'[c] = v /\ process'[c] = p /\ ended'[c] = e
    BY DEF TimingTypeInv
  <2>3. c \in audits' <=> e = "ok"
    BY <1>1
  <2>4. QED
    BY <1>1, <2>1, <2>2, <2>3 DEF TimingCornerInv, Timing!Workers
<1>7. TimingFinalInv'
  BY <1>2 DEF TimingFinalInv, TimingSelectionInv
<1>8. TimingResultInv'
  BY <1>2 DEF TimingResultInv
<1>9. QED
  BY <1>4, <1>5, <1>6, <1>7, <1>8

(* An analysis that was only asked for.                                    *)
LEMMA TimingStarts ==
  ASSUME Timing!NoneIsNew, MaxCorner \in Nat \ {0}, Timing!Init
  PROVE  TimingInv
<1> USE DEF Timing!NoneIsNew, Timing!Init
<1>1. TimingTypeInv
  BY DEF TimingTypeInv, TimingEarly, Timing!Routes, Timing!Configured
<1>2. TimingSelectionInv /\ TimingCornerInv
  BY DEF TimingSelectionInv, TimingCornerInv, TimingEarly
<1>3. TimingFinalInv /\ TimingResultInv
  BY DEF TimingFinalInv, TimingResultInv
<1>4. QED
  BY <1>1, <1>2, <1>3 DEF TimingInv

(* Every step of an analysis keeps its invariant.                          *)
LEMMA TimingKept ==
  ASSUME Timing!NoneIsNew, MaxCorner \in Nat \ {0}, TimingInv, [Timing!Next]_(Timing!vars)
  PROVE  TimingInv'
<1> USE DEF Timing!NoneIsNew, TimingInv, TimingEarly, Timing!Workers, Timing!Progresses,
         Timing!Routes, Timing!Intent, Timing!Configured, TimingTypeInv, TimingSelectionInv,
         Timing!Idle, Timing!Failed, Timing!Executed, Timing!Equivalent, TimingCornerInv,
         TimingFinalInv, TimingResultInv
<1>1. CASE Timing!AdmitIntent
  BY <1>1 DEF Timing!AdmitIntent, Timing!Either, Timing!Refuse, Timing!Go, Timing!given,
     Timing!source, Timing!corners
<1>2. CASE Timing!AdmitPhysical
  BY <1>2 DEF Timing!AdmitPhysical, Timing!Either, Timing!Refuse, Timing!Go, Timing!given,
     Timing!source, Timing!corners
<1>3. CASE Timing!SelectLinked
  BY <1>3 DEF Timing!SelectLinked, Timing!Either, Timing!Refuse, Timing!Go, Timing!given,
     Timing!source, Timing!corners
<1>4. CASE Timing!SelectNamed
  BY <1>4 DEF Timing!SelectNamed, Timing!Either, Timing!Refuse, Timing!Pinned, Timing!Go,
     Timing!given, Timing!source, Timing!corners
<1>5. CASE Timing!SelectPhysical
  BY <1>5 DEF Timing!SelectPhysical, Timing!Either, Timing!Refuse, Timing!Matched, Timing!Go,
     Timing!given, Timing!source, Timing!corners
<1>6. CASE Timing!CloseInputs
  <2>1. TimingTypeInv'
    <3> HIDE DEF TimingSelectionInv, Timing!Idle, Timing!Failed, Timing!Executed, Timing!Equivalent, TimingCornerInv, TimingFinalInv, TimingResultInv
    <3> QED
      BY <1>6 DEF Timing!CloseInputs, Timing!Either, Timing!Refuse, Timing!Causal, Timing!Go,
         Timing!given, Timing!source, Timing!corners
  <2>2. TimingSelectionInv'
    <3> HIDE DEF Timing!Idle, Timing!Failed, Timing!Executed, Timing!Equivalent, TimingCornerInv, TimingFinalInv, TimingResultInv
    <3> QED
      BY <1>6 DEF Timing!CloseInputs, Timing!Either, Timing!Refuse, Timing!Causal, Timing!Go,
         Timing!given, Timing!source, Timing!corners
  <2>3. TimingCornerInv'
    <3> HIDE DEF Timing!Idle, Timing!Failed, Timing!Executed, Timing!Equivalent, TimingFinalInv, TimingResultInv
    <3> QED
      BY <1>6 DEF Timing!CloseInputs, Timing!Either, Timing!Refuse, Timing!Causal, Timing!Go,
         Timing!given, Timing!source, Timing!corners
  <2>4. TimingFinalInv'
    <3> HIDE DEF TimingResultInv
    <3> QED
      BY <1>6 DEF Timing!CloseInputs, Timing!Either, Timing!Refuse, Timing!Causal, Timing!Go,
         Timing!given, Timing!source, Timing!corners
  <2>5. TimingResultInv'
    <3> HIDE DEF Timing!Executed, Timing!Equivalent
    <3> QED
      BY <1>6 DEF Timing!CloseInputs, Timing!Either, Timing!Refuse, Timing!Causal, Timing!Go,
         Timing!given, Timing!source, Timing!corners
  <2>6. QED
    BY <2>1, <2>2, <2>3, <2>4, <2>5
<1>7. CASE Timing!ConfigureIntent
  BY <1>7 DEF Timing!ConfigureIntent, Timing!Either, Timing!Refuse, Timing!Go, Timing!given,
     Timing!source, Timing!corners
<1>8. CASE Timing!ConfigurePhysical
  BY <1>8 DEF Timing!ConfigurePhysical, Timing!Either, Timing!Refuse, Timing!Go, Timing!given,
     Timing!source, Timing!corners
<1>9. CASE Timing!Schedule
  BY <1>9 DEF Timing!Schedule, Timing!Go, Timing!given, Timing!source
<1>10. ASSUME NEW c \in 1..MaxCorner, Timing!Take(c)
      PROVE  TimingInv'
  <2>1. TimingTypeInv'
    <3> HIDE DEF TimingSelectionInv, Timing!Idle, Timing!Failed, Timing!Executed, Timing!Equivalent, TimingCornerInv, TimingFinalInv, TimingResultInv
    <3> QED
      BY <1>10 DEF Timing!Take, Timing!given, Timing!source
  <2>2. TimingSelectionInv'
    <3> HIDE DEF Timing!Idle, Timing!Failed, Timing!Executed, Timing!Equivalent, TimingCornerInv, TimingFinalInv, TimingResultInv
    <3> QED
      BY <1>10 DEF Timing!Take, Timing!given, Timing!source
  <2>3. TimingCornerInv'
    <3>1. /\ worker' = [corner |-> c, at |-> "retain"] /\ c \in futures /\ ended[c] = None
          /\ UNCHANGED <<selected, netlist, futures, copies, process, ended, audits>>
      BY <1>10 DEF Timing!Take, Timing!given, Timing!source
    <3>2. worker'.corner = c /\ worker'.at = "retain"
      BY <3>1
    <3>3. selected # None
      BY <3>1 DEF TimingSelectionInv
    <3>4. QED
      BY <3>1, <3>2, <3>3 DEF TimingCornerInv
  <2>4. TimingFinalInv'
    <3> HIDE DEF TimingResultInv
    <3> QED
      BY <1>10 DEF Timing!Take, Timing!given, Timing!source
  <2>5. TimingResultInv'
    <3> HIDE DEF Timing!Executed, Timing!Equivalent
    <3> QED
      BY <1>10 DEF Timing!Take, Timing!given, Timing!source
  <2>6. QED
    BY <2>1, <2>2, <2>3, <2>4, <2>5
<1>11. ASSUME NEW c \in 1..MaxCorner, Timing!RetainIntent(c)
      PROVE  TimingInv'
  <2> HIDE DEF TimingEarly, Timing!Routes, Timing!Configured, TimingFinalInv, TimingResultInv, Timing!Idle, Timing!Failed, Timing!Executed, Timing!Equivalent, Timing!Intent, Timing!Progresses
  <2>1. worker \in Timing!Workers /\ worker.corner = c /\ c \in futures /\ ended[c] = None /\ selected # None
    BY <1>11 DEF Timing!RetainIntent, Timing!Working
  <2>2. [process EXCEPT ![c] = process[c]] = process /\ [ended EXCEPT ![c] = ended[c]] = ended
        /\ [copies EXCEPT ![c] = copies[c]] = copies /\ process[c] \in {None, "ok", "error", "unknown"}
    OBVIOUS
  <2>3. CASE copies' = [copies EXCEPT ![c] = netlist] /\ Timing!Step("run") /\ UNCHANGED ended
    <3>1. TimingWorked(c, netlist, process[c], None)
      BY <1>11, <2>1, <2>2, <2>3 DEF Timing!RetainIntent, Timing!Working, Timing!given,
         Timing!source, Timing!Step, TimingWorked
    <3>2. QED
      BY <3>1, TimingWorkIsKept
  <2>4. CASE UNCHANGED copies /\ Timing!Ends(c, "error")
    <3>1. TimingWorked(c, copies[c], process[c], "error")
      BY <1>11, <2>1, <2>2, <2>4 DEF Timing!RetainIntent, Timing!Working, Timing!given,
         Timing!source, Timing!Ends, TimingWorked
    <3>2. QED
      BY <3>1, TimingWorkIsKept
  <2>5. QED
    BY <1>11, <2>3, <2>4 DEF Timing!RetainIntent, Timing!Copied
<1>12. ASSUME NEW c \in 1..MaxCorner, Timing!RetainPhysical(c)
      PROVE  TimingInv'
  <2> HIDE DEF TimingEarly, Timing!Routes, Timing!Configured, TimingFinalInv, TimingResultInv, Timing!Idle, Timing!Failed, Timing!Executed, Timing!Equivalent, Timing!Intent, Timing!Progresses
  <2>1. worker \in Timing!Workers /\ worker.corner = c /\ c \in futures /\ ended[c] = None /\ selected # None
    BY <1>12 DEF Timing!RetainPhysical, Timing!Working
  <2>2. [process EXCEPT ![c] = process[c]] = process /\ [ended EXCEPT ![c] = ended[c]] = ended
        /\ [copies EXCEPT ![c] = copies[c]] = copies /\ process[c] \in {None, "ok", "error", "unknown"}
    OBVIOUS
  <2>3. CASE copies' = [copies EXCEPT ![c] = netlist] /\ Timing!Step("run") /\ UNCHANGED ended
    <3>1. TimingWorked(c, netlist, process[c], None)
      BY <1>12, <2>1, <2>2, <2>3 DEF Timing!RetainPhysical, Timing!Working, Timing!given,
         Timing!source, Timing!Step, TimingWorked
    <3>2. QED
      BY <3>1, TimingWorkIsKept
  <2>4. CASE UNCHANGED copies /\ Timing!Ends(c, "error")
    <3>1. TimingWorked(c, copies[c], process[c], "error")
      BY <1>12, <2>1, <2>2, <2>4 DEF Timing!RetainPhysical, Timing!Working, Timing!given,
         Timing!source, Timing!Ends, TimingWorked
    <3>2. QED
      BY <3>1, TimingWorkIsKept
  <2>5. QED
    BY <1>12, <2>3, <2>4 DEF Timing!RetainPhysical, Timing!Copied
<1>13. ASSUME NEW c \in 1..MaxCorner, Timing!Native(c)
      PROVE  TimingInv'
  <2> HIDE DEF TimingEarly, Timing!Routes, Timing!Configured, TimingFinalInv, TimingResultInv, Timing!Idle, Timing!Failed, Timing!Executed, Timing!Equivalent, Timing!Intent, Timing!Progresses
  <2>1. worker \in Timing!Workers /\ worker.corner = c /\ c \in futures /\ ended[c] = None /\ selected # None /\ copies[c] # None
    BY <1>13 DEF Timing!Native, Timing!Working
  <2>2. [process EXCEPT ![c] = process[c]] = process /\ [ended EXCEPT ![c] = ended[c]] = ended
        /\ [copies EXCEPT ![c] = copies[c]] = copies /\ process[c] \in {None, "ok", "error", "unknown"}
        /\ copies[c] \in Nat /\ copies[c] \in selected..netlist
    BY <2>1

  <2>3. \/ TimingWorked(c, copies[c], "ok", None)
        \/ \E how \in {"error", "unknown"} : TimingWorked(c, copies[c], how, "error")
    <3>1. CASE process' = [process EXCEPT ![c] = "ok"] /\ Timing!Step(IF route = "physical" THEN "filter" ELSE "audit") /\ UNCHANGED ended
      BY <1>13, <2>1, <2>2, <3>1 DEF Timing!Native, Timing!Working, Timing!given, Timing!source,
         Timing!Step, TimingWorked
    <3>2. CASE process' \in {[process EXCEPT ![c] = how] : how \in {"error", "unknown"}} /\ Timing!Ends(c, "error")
      BY <1>13, <2>1, <2>2, <3>2 DEF Timing!Native, Timing!Working, Timing!given, Timing!source,
         Timing!Ends, TimingWorked
    <3>3. QED
      BY <1>13, <3>1, <3>2 DEF Timing!Native
  <2>4. QED
    BY <2>3, TimingWorkIsKept
<1>14. ASSUME NEW c \in 1..MaxCorner, Timing!Filter(c)
      PROVE  TimingInv'
  <2> HIDE DEF TimingEarly, Timing!Routes, Timing!Configured, TimingFinalInv, TimingResultInv, Timing!Idle, Timing!Failed, Timing!Executed, Timing!Equivalent, Timing!Intent, Timing!Progresses
  <2>1. worker \in Timing!Workers /\ worker.corner = c /\ c \in futures /\ ended[c] = None /\ selected # None /\ copies[c] # None
    BY <1>14 DEF Timing!Filter, Timing!Working
  <2>2. [process EXCEPT ![c] = process[c]] = process /\ [ended EXCEPT ![c] = ended[c]] = ended
        /\ [copies EXCEPT ![c] = copies[c]] = copies /\ process[c] \in {None, "ok", "error", "unknown"}
        /\ copies[c] \in Nat /\ copies[c] \in selected..netlist
    BY <2>1

  <2>3. worker.at = "filter" /\ process[c] = "ok"
    BY <1>14, <2>1 DEF Timing!Filter, Timing!Working
  <2>4. TimingWorked(c, copies[c], "ok", None) \/ TimingWorked(c, copies[c], "ok", "error")
    BY <1>14, <2>1, <2>2, <2>3 DEF Timing!Filter, Timing!Working, Timing!given, Timing!source,
       Timing!Step, Timing!Ends, TimingWorked
  <2>5. QED
    BY <2>4, TimingWorkIsKept
<1>15. ASSUME NEW c \in 1..MaxCorner, Timing!Audit(c)
      PROVE  TimingInv'
  <2> HIDE DEF TimingEarly, Timing!Routes, Timing!Configured, TimingFinalInv, TimingResultInv, Timing!Idle, Timing!Failed, Timing!Executed, Timing!Equivalent, Timing!Intent, Timing!Progresses
  <2>1. worker \in Timing!Workers /\ worker.corner = c /\ c \in futures /\ ended[c] = None /\ selected # None /\ copies[c] # None
    BY <1>15 DEF Timing!Audit, Timing!Working
  <2>2. [process EXCEPT ![c] = process[c]] = process /\ [ended EXCEPT ![c] = ended[c]] = ended
        /\ [copies EXCEPT ![c] = copies[c]] = copies /\ process[c] \in {None, "ok", "error", "unknown"}
        /\ copies[c] \in Nat /\ copies[c] \in selected..netlist
    BY <2>1

  <2>3. worker.at = "audit" /\ process[c] = "ok"
    BY <1>15, <2>1 DEF Timing!Audit, Timing!Working
  <2>4. TimingWorked(c, copies[c], "ok", "ok") \/ TimingWorked(c, copies[c], "ok", "error")
    BY <1>15, <2>1, <2>2, <2>3 DEF Timing!Audit, Timing!Working, Timing!given, Timing!source,
       Timing!Ends, TimingWorked
  <2>5. QED
    BY <2>4, TimingWorkIsKept
<1>16. CASE Timing!Await
  BY <1>16 DEF Timing!Await, Timing!Go, Timing!given, Timing!source, Timing!corners
<1>17. CASE Timing!Drain
  BY <1>17 DEF Timing!Drain, Timing!Drained, Timing!Go, Timing!given, Timing!source, Timing!corners
<1>18. CASE Timing!WriteProgress
  <2>1. TimingTypeInv'
    <3>1. progress' \in Timing!Progresses
      <4>1. Timing!Executed \subseteq 1..MaxCorner /\ Timing!Equivalent \subseteq 1..MaxCorner /\ audits \subseteq 1..MaxCorner /\ (Timing!Failed = {}) \in BOOLEAN
        BY DEF Timing!Executed, Timing!Equivalent
      <4>2. QED
        BY <1>18, <4>1 DEF Timing!WriteProgress
    <3>2. QED
      BY <1>18, <3>1 DEF Timing!WriteProgress, Timing!Refuse, Timing!Go, Timing!given,
         Timing!source, Timing!corners
  <2>2. TimingSelectionInv'
    <3> HIDE DEF Timing!Idle, Timing!Failed, Timing!Executed, Timing!Equivalent, TimingCornerInv, TimingFinalInv, TimingResultInv
    <3> QED
      BY <1>18 DEF Timing!WriteProgress, Timing!Refuse, Timing!Go, Timing!given, Timing!source,
         Timing!corners
  <2>3. TimingCornerInv'
    <3> HIDE DEF Timing!Idle, Timing!Failed, Timing!Executed, Timing!Equivalent, TimingFinalInv, TimingResultInv
    <3> QED
      BY <1>18 DEF Timing!WriteProgress, Timing!Refuse, Timing!Go, Timing!given, Timing!source,
         Timing!corners
  <2>4. TimingFinalInv'
    <3>1. Timing!Idle' /\ Timing!Executed' = Timing!Executed /\ Timing!Equivalent' = Timing!Equivalent /\ Timing!Failed' = Timing!Failed
      BY <1>18 DEF Timing!WriteProgress, Timing!given, Timing!source, Timing!corners,
         TimingFinalInv, Timing!Idle, Timing!Executed, Timing!Equivalent, Timing!Failed
    <3>2. /\ progress' = [executed |-> Timing!Executed, equivalent |-> Timing!Equivalent, audited |-> audits, completed |-> Timing!Failed = {}]
          /\ audits' = audits /\ pc' \in {"judge", "over"} /\ (pc' = "judge" => Timing!Failed = {})
      BY <1>18 DEF Timing!WriteProgress, Timing!Refuse, Timing!Go, Timing!corners
    <3>3. progress' # None
      <4>1. Timing!Executed \subseteq 1..MaxCorner /\ Timing!Equivalent \subseteq 1..MaxCorner /\ audits \subseteq 1..MaxCorner /\ (Timing!Failed = {}) \in BOOLEAN
        BY DEF Timing!Executed, Timing!Equivalent
      <4>2. progress' \in Timing!Progresses
        BY <3>2, <4>1
      <4>3. QED
        BY <4>2
    <3> HIDE DEF Timing!Idle, Timing!Executed, Timing!Equivalent, Timing!Failed
    <3>4. QED
      BY <3>1, <3>2, <3>3 DEF TimingFinalInv
  <2>5. TimingResultInv'
    <3> HIDE DEF Timing!Executed, Timing!Equivalent
    <3> QED
      BY <1>18 DEF Timing!WriteProgress, Timing!Refuse, Timing!Go, Timing!given, Timing!source,
         Timing!corners
  <2>6. QED
    BY <2>1, <2>2, <2>3, <2>4, <2>5
<1>19. CASE Timing!JudgeIntent
  BY <1>19 DEF Timing!JudgeIntent, Timing!Either, Timing!Refuse, Timing!Unchanged, Timing!Go,
     Timing!given, Timing!source, Timing!corners
<1>20. CASE Timing!JudgePhysical
  <2>1. TimingTypeInv'
    <3> HIDE DEF TimingSelectionInv, Timing!Idle, Timing!Failed, Timing!Executed, Timing!Equivalent, TimingCornerInv, TimingFinalInv, TimingResultInv
    <3> QED
      BY <1>20 DEF Timing!JudgePhysical, Timing!Either, Timing!Refuse, Timing!EveryCorner,
         Timing!Go, Timing!given, Timing!source, Timing!corners
  <2>2. TimingSelectionInv'
    <3> HIDE DEF Timing!Idle, Timing!Failed, Timing!Executed, Timing!Equivalent, TimingCornerInv, TimingFinalInv, TimingResultInv
    <3> QED
      BY <1>20 DEF Timing!JudgePhysical, Timing!Either, Timing!Refuse, Timing!EveryCorner,
         Timing!Go, Timing!given, Timing!source, Timing!corners
  <2>3. TimingCornerInv'
    <3> HIDE DEF Timing!Idle, Timing!Failed, Timing!Executed, Timing!Equivalent, TimingFinalInv, TimingResultInv
    <3> QED
      BY <1>20 DEF Timing!JudgePhysical, Timing!Either, Timing!Refuse, Timing!EveryCorner,
         Timing!Go, Timing!given, Timing!source, Timing!corners
  <2>4. TimingFinalInv'
    <3> HIDE DEF TimingResultInv
    <3> QED
      BY <1>20 DEF Timing!JudgePhysical, Timing!Either, Timing!Refuse, Timing!EveryCorner,
         Timing!Go, Timing!given, Timing!source, Timing!corners
  <2>5. TimingResultInv'
    <3> HIDE DEF Timing!Executed, Timing!Equivalent
    <3> QED
      BY <1>20 DEF Timing!JudgePhysical, Timing!Either, Timing!Refuse, Timing!EveryCorner,
         Timing!Go, Timing!given, Timing!source, Timing!corners
  <2>6. QED
    BY <2>1, <2>2, <2>3, <2>4, <2>5
<1>21. CASE Timing!WriteResult
  BY <1>21 DEF Timing!WriteResult, Timing!given, Timing!source, Timing!corners
<1>22. CASE Timing!Disturb
  BY <1>22 DEF Timing!Disturb, Timing!given, Timing!corners
<1>23. CASE UNCHANGED Timing!vars
  BY <1>23 DEF Timing!vars
<1>24. QED
  BY <1>1, <1>2, <1>3, <1>4, <1>5, <1>6, <1>7, <1>8, <1>9, <1>10, <1>11, <1>12, <1>13,
     <1>14, <1>15, <1>16, <1>17, <1>18, <1>19, <1>20, <1>21, <1>22, <1>23 DEF Timing!Next

(* What progress says stays true, and a completed analysis is of every     *)
(* corner.                                                                 *)
LEMMA TimingHolds ==
  ASSUME Timing!NoneIsNew, MaxCorner \in Nat \ {0}, TimingInv
  PROVE  Timing!ProgressIsFinal /\ Timing!CompletedIsEveryCorner
<1> USE DEF Timing!NoneIsNew, TimingInv
<1>1. Timing!ProgressIsFinal
  <2> SUFFICES ASSUME progress # None
               PROVE  Timing!ProgressIsFinal
    BY DEF Timing!ProgressIsFinal
  <2>1. Timing!Idle /\ progress.executed = Timing!Executed /\ progress.audited = audits /\ progress.equivalent = Timing!Equivalent
    BY DEF TimingFinalInv
  <2>2. worker = None
    BY <2>1 DEF Timing!Idle, TimingCornerInv
  <2>3. audits \subseteq Timing!Executed
    BY DEF TimingCornerInv, TimingTypeInv, Timing!Executed, Timing!Configured
  <2>4. QED
    BY <2>1, <2>2, <2>3 DEF Timing!ProgressIsFinal, Timing!Equivalent
<1>2. Timing!CompletedIsEveryCorner
  <2> SUFFICES ASSUME outcome = "completed"
               PROVE  Timing!CompletedIsEveryCorner
    BY DEF Timing!CompletedIsEveryCorner
  <2>1. /\ audits = Timing!Configured /\ chain = "causal" /\ selected # None
        /\ route \notin Timing!Intent => progress # None /\ Timing!Failed = {}
        /\ \A c \in Timing!Configured : copies[c] = selected \/ (route \notin Timing!Intent /\ changes > 0)
    BY DEF TimingResultInv
  <2>2. Timing!Configured \subseteq 1..MaxCorner /\ \A c \in Timing!Configured : process[c] = "ok"
    BY <2>1 DEF TimingCornerInv, Timing!Configured
  <2>3. Timing!Executed = Timing!Configured
    BY <2>2 DEF Timing!Executed
  <2>4. route \notin Timing!Intent => progress.completed /\ progress.equivalent = {}
    BY <2>1, <2>3 DEF TimingFinalInv, Timing!Equivalent
  <2>5. QED
    BY <2>1, <2>2, <2>4 DEF Timing!CompletedIsEveryCorner
<1>3. QED
  BY <1>1, <1>2

-----------------------------------------------------------------------------
(* Physical evidence (physical_runtime). Where a check is says which of    *)
(* its questions were answered well, and what was hashed at first is       *)
(* compared again after every program that was given the file.             *)

(* The questions that were answered well, by where a check is.             *)
PhysicalAsked ==
  [plan |-> {}, digest |-> {"plan"}, options |-> {"plan"}, layout |-> {"plan", "options"}, stock |-> {"plan", "options"},
   power |-> {"plan", "options", "stock"}, input |-> {"plan", "options", "stock", "power"},
   deck |-> {"plan", "options", "stock", "power"}, reports |-> {"plan", "options", "stock", "power", "deck"},
   zero |-> {"plan", "options", "stock", "power", "deck"}, magic |-> {"plan", "options", "stock", "power", "deck", "zero"},
   lvs |-> {"plan", "options", "stock", "power", "deck", "zero", "magic"}, recheck |-> Physical!Questions, evidence |-> Physical!Questions]

PhysicalParsed == {"zero", "magic", "lvs", "recheck", "evidence"}
PhysicalCompared == {"deck", "reports"} \cup PhysicalParsed
PhysicalRead == {"stock", "power", "input"} \cup PhysicalCompared
PhysicalHashed == {"options", "layout"} \cup PhysicalRead
PhysicalDeriving == {"derive", "retain", "inventory"}

PhysicalTypeInv ==
  /\ pc \in {"plan", "digest", "attempts", "recorded", "snapshot", "over"} \cup PhysicalHashed \cup PhysicalDeriving
  /\ gds \in Nat /\ input \in Nat /\ report \in Nat /\ models \in Nat /\ changes \in Nat
  /\ wrong \subseteq Physical!Questions /\ digest \in Nat \cup {None}
  /\ seen \in [layout : Nat \cup {None}, input : Nat \cup {None}, report : Nat \cup {None}]
  /\ pc \in {"plan", "attempts"} => op \in {"check", "audit"}
  /\ pc \in {"digest"} \cup PhysicalHashed => op = "check"
  /\ pc \in {"recorded", "snapshot"} \cup PhysicalDeriving => op \in {"timing", "macro"}
  /\ pc # "over" => outcome = None

PhysicalAskedInv == pc \in {"plan", "digest"} \cup PhysicalHashed => wrong \cap PhysicalAsked[pc] = {}

(* A check's looks, against what was hashed and what is there now.         *)
PhysicalLookedInv ==
  /\ pc \in PhysicalHashed => digest \in Nat /\ digest <= gds
  /\ pc \in PhysicalRead => seen.layout \in Nat /\ digest <= seen.layout /\ seen.layout <= gds
  /\ pc \in PhysicalCompared => seen.input = digest
  /\ pc \in PhysicalParsed => seen.report = report \/ changes > 0
  /\ pc = "evidence" => seen.layout = digest
  /\ Physical!EvidenceIsOfOneLayout

PhysicalRecorded(version) == version = 1 \/ (op = "macro" /\ changes > 0)

(* A derivation's versions.                                                *)
PhysicalReplayInv ==
  /\ pc \in {"snapshot"} \cup PhysicalDeriving => models = 1 \/ changes > 0
  /\ pc \in PhysicalDeriving => snapshot = IF op = "timing" THEN 1 ELSE None
  /\ pc \in {"retain", "inventory"} => written \in [derived : Nat, retained : Nat \cup {None}] /\ PhysicalRecorded(written.derived)
  /\ pc = "inventory" => PhysicalRecorded(written.retained)
  /\ outcome = "models" => PhysicalRecorded(evidence.derived) /\ PhysicalRecorded(evidence.retained)

PhysicalInv == PhysicalTypeInv /\ PhysicalAskedInv /\ PhysicalLookedInv /\ PhysicalReplayInv

(* A check that has looked at nothing.                                     *)
LEMMA PhysicalStarts ==
  ASSUME Physical!NoneIsNew, Physical!Init
  PROVE  PhysicalInv
<1> USE DEF Physical!NoneIsNew, Physical!Init
<1>1. PhysicalTypeInv
  BY DEF PhysicalTypeInv, PhysicalHashed, PhysicalDeriving, PhysicalRead, PhysicalCompared,
     PhysicalParsed
<1>2. PhysicalAskedInv
  BY DEF PhysicalAskedInv, PhysicalAsked, PhysicalHashed, PhysicalRead, PhysicalCompared,
     PhysicalParsed
<1>3. PhysicalLookedInv
  BY DEF PhysicalLookedInv, Physical!EvidenceIsOfOneLayout, PhysicalHashed, PhysicalRead,
     PhysicalCompared, PhysicalParsed
<1>4. PhysicalReplayInv
  BY DEF PhysicalReplayInv, PhysicalDeriving
<1>5. QED
  BY <1>1, <1>2, <1>3, <1>4 DEF PhysicalInv

(* Every step of a check keeps its invariant.                              *)
LEMMA PhysicalKept ==
  ASSUME Physical!NoneIsNew, PhysicalInv, [Physical!Next]_(Physical!vars)
  PROVE  PhysicalInv'
<1> USE DEF Physical!NoneIsNew, PhysicalInv, PhysicalHashed, PhysicalRead, PhysicalCompared,
         PhysicalParsed, PhysicalDeriving, Physical!Go, Physical!Over, Physical!world,
         Physical!replay, PhysicalTypeInv, PhysicalAsked, Physical!Questions,
         Physical!EvidenceIsOfOneLayout, PhysicalAskedInv, PhysicalRecorded, PhysicalLookedInv,
         PhysicalReplayInv
<1>1. CASE Physical!ValidatePlan
  BY <1>1 DEF Physical!ValidatePlan, Physical!Question, Physical!After
<1>2. CASE Physical!Options
  BY <1>2 DEF Physical!Options, Physical!Question, Physical!After
<1>3. CASE Physical!VerifyStockGeometry
  BY <1>3 DEF Physical!VerifyStockGeometry, Physical!Question, Physical!After
<1>4. CASE Physical!GeometryEvidence
  BY <1>4 DEF Physical!GeometryEvidence, Physical!Question, Physical!After
<1>5. CASE Physical!DeckLogs
  BY <1>5 DEF Physical!DeckLogs, Physical!Question, Physical!After
<1>6. CASE Physical!RequiredZero
  BY <1>6 DEF Physical!RequiredZero, Physical!Question, Physical!After
<1>7. CASE Physical!DispositionMagic
  BY <1>7 DEF Physical!DispositionMagic, Physical!Question, Physical!After
<1>8. CASE Physical!ValidateLvsReader
  BY <1>8 DEF Physical!ValidateLvsReader, Physical!Question, Physical!After
<1>9. CASE Physical!Digest
  BY <1>9 DEF Physical!Digest
<1>10. CASE Physical!ReadLayout
  BY <1>10 DEF Physical!ReadLayout
<1>11. CASE Physical!CompareInput
  BY <1>11 DEF Physical!CompareInput
<1>12. CASE Physical!ParseReports
  BY <1>12 DEF Physical!ParseReports
<1>13. CASE Physical!Recheck
  BY <1>13 DEF Physical!Recheck, Physical!StillThere
<1>14. CASE Physical!WriteEvidence
  BY <1>14 DEF Physical!WriteEvidence
<1>15. CASE Physical!Attempt
  BY <1>15 DEF Physical!Attempt
<1>16. CASE Physical!AuditEnds
  BY <1>16 DEF Physical!AuditEnds
<1>17. CASE Physical!CheckRecorded
  BY <1>17 DEF Physical!CheckRecorded
<1>18. CASE Physical!Snapshot
  BY <1>18 DEF Physical!Snapshot, Physical!SnapshotIsRecorded
<1>19. CASE Physical!ReviewedCells
  BY <1>19 DEF Physical!ReviewedCells, Physical!Source
<1>20. CASE Physical!RetainModels
  BY <1>20 DEF Physical!RetainModels, Physical!Source
<1>21. CASE Physical!WriteInventory
  BY <1>21 DEF Physical!WriteInventory
<1>22. CASE Physical!Disturb
  BY <1>22 DEF Physical!Disturb
<1>23. CASE UNCHANGED Physical!vars
  BY <1>23 DEF Physical!vars
<1>24. QED
  BY <1>1, <1>2, <1>3, <1>4, <1>5, <1>6, <1>7, <1>8, <1>9, <1>10, <1>11, <1>12, <1>13,
     <1>14, <1>15, <1>16, <1>17, <1>18, <1>19, <1>20, <1>21, <1>22, <1>23 DEF Physical!Next

(* A check is of one layout, and a replay of what was recorded.            *)
LEMMA PhysicalHolds ==
  ASSUME Physical!NoneIsNew, PhysicalInv
  PROVE  Physical!EvidenceIsOfOneLayout /\ Physical!ReplayIsTheRecorded
BY DEF PhysicalInv, PhysicalLookedInv, PhysicalReplayInv, PhysicalRecorded,
   Physical!ReplayIsTheRecorded

-----------------------------------------------------------------------------
(* Collection and reports (phase4.collect, report). A record of a run that *)
(* had ended tells what the files tell, which nobody writes after; what is *)
(* said of a stored record is what its counts, slacks and postchecks earn. *)

CollectionVerdicts == {"started", "pass", "fail"}

(* What a record says of the postchecks still stands where it had ended.   *)
CollectionEarlier(p) ==
  /\ p \in Seq(CollectionVerdicts) /\ Len(p) <= Len(postchecks)
  /\ \A i \in 1..Len(p) : p[i] = "started" \/ postchecks[i] = p[i]

(* A record says what the files do.                                        *)
CollectionTold(r) ==
  /\ r.errors = Collection!Errors /\ (\A k \in Collection!Checked : r.checked[k] = Collection!Number(k))
  /\ \A g \in DOMAIN Collection!Group : r.checks[g] = Collection!Check(g)
  /\ \A m \in Collection!Modes : \E s \in Collection!Slacks : r.slacks[m] = Collection!SlackOf(m, s) /\ (Collection!Valid(m) # {} => s \in Collection!Worst(m))

CollectionTypeInv == status \in {"started", "completed", "failed"} /\ postchecks \in Seq(CollectionVerdicts)

(* A stored record of a run that had ended is of its files.                *)
CollectionStoredInv ==
  /\ results # None => CollectionEarlier(results.postchecks)
  /\ results # None /\ results.status = "completed" => status = "completed" /\ CollectionTold(results)

CollectionSaidInv ==
  /\ said # None /\ said.pass => CollectionEarlier(said.postchecks)
  /\ Collection!PassIsEarned

CollectionInv == CollectionTypeInv /\ CollectionStoredInv /\ CollectionSaidInv

(* What is collected of the files tells what they tell.                    *)
LEMMA CollectionCollectedIsTold ==
  ASSUME CollectionTypeInv, NEW r \in Collection!Collected
  PROVE  r.status = status /\ CollectionTold(r) /\ CollectionEarlier(r.postchecks)
<1>1. PICK pick \in [Collection!Modes -> Collection!Slacks] :
        /\ \A m \in Collection!Modes : Collection!Valid(m) # {} => pick[m] \in Collection!Worst(m)
        /\ r = Collection!Record([m \in Collection!Modes |-> Collection!SlackOf(m, pick[m])])
  BY DEF Collection!Collected
<1>2. /\ r.status = status /\ r.errors = Collection!Errors /\ r.checked = [k \in Collection!Checked |-> Collection!Number(k)]
      /\ r.checks = [g \in DOMAIN Collection!Group |-> Collection!Check(g)] /\ r.slacks = [m \in Collection!Modes |-> Collection!SlackOf(m, pick[m])]
      /\ r.postchecks = postchecks
  BY <1>1 DEF Collection!Record
<1>3. CollectionTold(r)
  BY <1>1, <1>2 DEF CollectionTold
<1>4. QED
  BY <1>2, <1>3 DEF CollectionTypeInv, CollectionEarlier

(* A mode with a positive slack at a corner has no negative one.           *)
LEMMA CollectionSlacksAreTheWorst ==
  ASSUME Collection!NoneIsNew, NEW m \in Collection!Modes, NEW s \in Collection!Slacks, Collection!Valid(m) # {} => s \in Collection!Worst(m),
         Collection!SlackOf(m, s).reason = None, Collection!SlackOf(m, s).value = "ok", Collection!SlackOf(m, s).corner # None
  PROVE  Collection!At(<<m, "corner">>) = "ok" /\ \A t \in Collection!Slacks : t[1] = m => Collection!At(t) # "neg"
<1>1. Collection!Valid(m) # {}
  BY DEF Collection!SlackOf, Collection!NoneIsNew
<1>2. Collection!At(s) # "none"
  BY <1>1 DEF Collection!SlackOf, Collection!NoneIsNew
<1>3. Collection!At(s) = "ok" /\ s[2] = "corner"
  BY <1>1, <1>2 DEF Collection!SlackOf
<1>4. s \in Collection!Valid(m) /\ s[1] = m /\ \A t \in Collection!Valid(m) : Collection!Rank(s) <= Collection!Rank(t)
  BY <1>1 DEF Collection!Worst, Collection!Valid
<1>5. s = <<m, "corner">>
  BY <1>3, <1>4 DEF Collection!Slacks
<1>6. ASSUME NEW t \in Collection!Slacks, t[1] = m, Collection!At(t) = "neg"
      PROVE  FALSE
  <2>1. t \in Collection!Valid(m)
    BY <1>6 DEF Collection!Valid
  <2>2. Collection!Rank(t) = 0 /\ Collection!Rank(s) = 1
    BY <1>3, <1>6 DEF Collection!Rank
  <2>3. QED
    BY <1>4, <2>1, <2>2
<1>7. QED
  BY <1>3, <1>5, <1>6

(* A record that is sound is of clean files.                               *)
LEMMA CollectionSoundIsEarned ==
  ASSUME Collection!NoneIsNew, NEW r, CollectionTold(r), CollectionEarlier(r.postchecks), Collection!Sound(r)
  PROVE  /\ status = "completed" /\ completed = requested
         /\ \A f \in Collection!Files : file[f] # "malformed"
         /\ \A k \in Collection!Checked : Collection!Of(k) = "zero"
         /\ requested = "full" =>
              /\ \A s \in Collection!Slacks : Collection!At(s) \notin {"neg", "bad"}
              /\ \A m \in Collection!Modes : Collection!At(<<m, "corner">>) = "ok"
              /\ \A k \in Collection!Counts : Collection!Of(k) = "zero"
              /\ r.postchecks # <<>> /\ \A i \in DOMAIN r.postchecks : postchecks[i] = "pass"
<1>1. status = "completed" /\ completed = requested /\ Collection!Errors = {}
  BY DEF Collection!Sound, Collection!RunIsSound, CollectionTold
<1>2. (\A f \in Collection!Files : file[f] # "malformed") /\ \A s \in Collection!Slacks : Collection!At(s) # "bad"
  BY <1>1 DEF Collection!Errors
<1>3. \A k \in Collection!Named : Collection!Number(k) = "zero" => Collection!Of(k) = "zero"
  BY DEF Collection!Number, Collection!NoneIsNew
<1>4. \A k \in Collection!Checked : Collection!Of(k) = "zero"
  BY <1>3 DEF Collection!Sound, Collection!SynthesisIsSound, CollectionTold, Collection!Named
<1>5. ASSUME requested = "full"
      PROVE  /\ \A s \in Collection!Slacks : Collection!At(s) \notin {"neg", "bad"}
             /\ \A m \in Collection!Modes : Collection!At(<<m, "corner">>) = "ok"
             /\ \A k \in Collection!Counts : Collection!Of(k) = "zero"
             /\ r.postchecks # <<>> /\ \A i \in DOMAIN r.postchecks : postchecks[i] = "pass"
  <2>1. Collection!TimingIsSound(r) /\ (\A g \in DOMAIN Collection!Group : r.checks[g] = "pass") /\ Collection!PostchecksPass(r)
    BY <1>5 DEF Collection!Sound
  <2>2. ASSUME NEW m \in Collection!Modes
        PROVE  Collection!At(<<m, "corner">>) = "ok" /\ \A t \in Collection!Slacks : t[1] = m => Collection!At(t) # "neg"
    <3>1. PICK s \in Collection!Slacks : r.slacks[m] = Collection!SlackOf(m, s) /\ (Collection!Valid(m) # {} => s \in Collection!Worst(m))
      BY DEF CollectionTold
    <3>2. r.slacks[m].reason = None /\ r.slacks[m].value = "ok" /\ r.slacks[m].corner # None
      BY <2>1 DEF Collection!TimingIsSound
    <3>3. QED
      BY <3>1, <3>2, CollectionSlacksAreTheWorst
  <2>3. \A s \in Collection!Slacks : Collection!At(s) \notin {"neg", "bad"}
    <3>1. \A s \in Collection!Slacks : s[1] \in Collection!Modes
      BY DEF Collection!Slacks
    <3>2. QED
      BY <1>2, <2>2, <3>1
  <2>4. ASSUME NEW k \in Collection!Counts
        PROVE  Collection!Of(k) = "zero"
    <3>1. PICK g \in DOMAIN Collection!Group : k \in Collection!Group[g]
      BY DEF Collection!Counts
    <3>2. Collection!Check(g) = "pass"
      BY <2>1 DEF CollectionTold
    <3>3. Collection!Number(k) = "zero"
      BY <3>1, <3>2 DEF Collection!Check
    <3>4. QED
      BY <1>3, <3>3 DEF Collection!Named
  <2>5. \A i \in DOMAIN r.postchecks : postchecks[i] = "pass"
    BY <2>1 DEF Collection!PostchecksPass, CollectionEarlier
  <2>6. QED
    BY <2>1, <2>2, <2>3, <2>4, <2>5 DEF Collection!PostchecksPass
<1>6. QED
  BY <1>1, <1>2, <1>4, <1>5

(* A run of which nothing was collected.                                   *)
LEMMA CollectionStarts ==
  ASSUME Collection!Init
  PROVE  CollectionInv
BY DEF Collection!Init, CollectionInv, CollectionTypeInv, CollectionStoredInv, CollectionSaidInv,
   Collection!PassIsEarned

(* Postchecks that had ended stand, when one begins or ends.               *)
CollectionContinued ==
  /\ postchecks' \in Seq(CollectionVerdicts) /\ Len(postchecks) <= Len(postchecks')
  /\ \A i \in 1..Len(postchecks) : postchecks[i] = "started" \/ postchecks'[i] = postchecks[i]

(* The same files have the same values.                                    *)
LEMMA CollectionEvidenceStays ==
  ASSUME UNCHANGED Collection!evidence
  PROVE  /\ Collection!Errors' = Collection!Errors /\ (\A k : Collection!Number(k)' = Collection!Number(k)) /\ (\A g : Collection!Check(g)' = Collection!Check(g))
         /\ \A m : Collection!Valid(m)' = Collection!Valid(m) /\ Collection!Worst(m)' = Collection!Worst(m) /\ \A s : Collection!SlackOf(m, s)' = Collection!SlackOf(m, s)
<1>1. (\A k : Collection!Of(k)' = Collection!Of(k)) /\ (\A s : Collection!At(s)' = Collection!At(s)) /\ file' = file
  BY DEF Collection!evidence, Collection!Of, Collection!At
<1>2. \A k : Collection!Number(k)' = Collection!Number(k)
  BY <1>1 DEF Collection!Number
<1>3. Collection!Errors' = Collection!Errors
  BY <1>1 DEF Collection!Errors
<1>4. \A g : Collection!Check(g)' = Collection!Check(g)
  BY <1>2 DEF Collection!Check
<1>5. \A m : Collection!Valid(m)' = Collection!Valid(m)
  BY <1>1 DEF Collection!Valid
<1>6. \A s : Collection!Rank(s)' = Collection!Rank(s)
  BY <1>1 DEF Collection!Rank
<1>7. \A m : Collection!Worst(m)' = Collection!Worst(m)
  BY <1>5, <1>6 DEF Collection!Worst
<1>8. \A m, s : Collection!SlackOf(m, s)' = Collection!SlackOf(m, s)
  BY <1>1, <1>5 DEF Collection!SlackOf
<1>9. QED
  BY <1>2, <1>3, <1>4, <1>5, <1>7, <1>8

(* A record goes on telling what the files tell while neither changes.     *)
LEMMA CollectionToldStays ==
  ASSUME UNCHANGED <<Collection!evidence, results>>, CollectionTold(results)
  PROVE  CollectionTold(results)'
BY CollectionEvidenceStays DEF CollectionTold

(* A postcheck that begins or ends leaves the stored record true.          *)
LEMMA CollectionStoredStays ==
  ASSUME CollectionTypeInv, CollectionStoredInv, CollectionContinued, UNCHANGED <<results, Collection!evidence, status>>
  PROVE  CollectionStoredInv'
<1>1. results # None => CollectionEarlier(results.postchecks)'
  BY DEF CollectionStoredInv, CollectionEarlier, CollectionContinued, CollectionTypeInv
<1>2. QED
  BY <1>1, CollectionToldStays DEF CollectionStoredInv

(* A postcheck that begins or ends leaves what was said true.              *)
LEMMA CollectionSaidStays ==
  ASSUME CollectionTypeInv, CollectionSaidInv, CollectionContinued, UNCHANGED <<said, Collection!evidence, status, requested, completed>>
  PROVE  CollectionSaidInv'
<1>1. CASE said # None /\ said.pass
  <2>1. CollectionEarlier(said.postchecks)'
    BY <1>1 DEF CollectionSaidInv, CollectionEarlier, CollectionContinued, CollectionTypeInv
  <2>2. ASSUME NEW i \in DOMAIN said.postchecks, postchecks[i] = "pass"
        PROVE  postchecks'[i] = "pass"
    BY <1>1, <2>2 DEF CollectionSaidInv, CollectionEarlier, CollectionContinued, CollectionTypeInv
  <2>3. (\A k : Collection!Of(k)' = Collection!Of(k)) /\ \A s : Collection!At(s)' = Collection!At(s)
    BY DEF Collection!evidence, Collection!Of, Collection!At
  <2>4. UNCHANGED <<file, status, completed, requested, said>>
    BY DEF Collection!evidence
  <2>5. Collection!PassIsEarned'
    BY <1>1, <2>2, <2>3, <2>4 DEF CollectionSaidInv, Collection!PassIsEarned
  <2>6. QED
    BY <2>1, <2>5 DEF CollectionSaidInv
<1>2. CASE ~(said # None /\ said.pass)
  BY <1>2 DEF CollectionSaidInv, Collection!PassIsEarned
<1>3. QED
  BY <1>1, <1>2

(* Every step of a collection or a report keeps the invariant.             *)
LEMMA CollectionKept ==
  ASSUME Collection!NoneIsNew, CollectionInv, [Collection!Next]_(Collection!vars)
  PROVE  CollectionInv'
<1> USE DEF CollectionInv
<1>1. CASE Collection!FlowReports \/ Collection!RunEnds
  <2>1. status = "started" /\ UNCHANGED <<postchecks, results, said, requested>>
    BY <1>1 DEF Collection!FlowReports, Collection!RunEnds
  <2>2. ~(said # None /\ said.pass) /\ ~(results # None /\ results.status = "completed")
    BY <2>1 DEF CollectionStoredInv, CollectionSaidInv, Collection!PassIsEarned
  <2>3. CollectionTypeInv'
    BY <1>1, <2>1 DEF Collection!FlowReports, Collection!RunEnds, CollectionTypeInv
  <2>4. CollectionStoredInv' /\ CollectionSaidInv'
    BY <2>1, <2>2 DEF CollectionStoredInv, CollectionSaidInv, Collection!PassIsEarned,
       CollectionEarlier
  <2>5. QED
    BY <2>3, <2>4
<1>2. CASE Collection!PostcheckStarts \/ Collection!PostcheckEnds \/ UNCHANGED Collection!vars
  <2>1. CollectionContinued /\ CollectionTypeInv'
    <3>1. CASE Collection!PostcheckStarts
      BY <3>1 DEF Collection!PostcheckStarts, CollectionContinued, CollectionTypeInv,
         CollectionVerdicts
    <3>2. CASE Collection!PostcheckEnds
      BY <3>2 DEF Collection!PostcheckEnds, CollectionContinued, CollectionTypeInv,
         CollectionVerdicts
    <3>3. CASE UNCHANGED Collection!vars
      BY <3>3 DEF Collection!vars, CollectionContinued, CollectionTypeInv
    <3>4. QED
      BY <1>2, <3>1, <3>2, <3>3
  <2>2. UNCHANGED <<results, said, Collection!evidence, status, requested, completed>>
    BY <1>2 DEF Collection!PostcheckStarts, Collection!PostcheckEnds, Collection!vars,
       Collection!evidence
  <2>3. QED
    BY <2>1, <2>2, CollectionStoredStays, CollectionSaidStays
<1>3. CASE Collection!Collect
  <2>1. results' \in Collection!Collected /\ UNCHANGED <<status, requested, completed, Collection!evidence, postchecks, said>>
    BY <1>3 DEF Collection!Collect
  <2>2. CollectionTypeInv' /\ CollectionContinued
    BY <2>1 DEF CollectionTypeInv, CollectionContinued
  <2>3. CollectionStoredInv'
    <3>1. PICK r \in Collection!Collected : r = results'
      BY <2>1
    <3>2. r.status = status /\ CollectionTold(r) /\ CollectionEarlier(r.postchecks)
      BY CollectionCollectedIsTold
    <3>3. CollectionTold(results)' /\ CollectionEarlier(results.postchecks)' /\ results'.status = status'
      BY <2>1, <3>1, <3>2, CollectionEvidenceStays DEF CollectionTold, CollectionEarlier
    <3>4. QED
      BY <3>3 DEF CollectionStoredInv
  <2>4. QED
    BY <2>1, <2>2, <2>3, CollectionSaidStays
<1>4. CASE Collection!Report
  <2>1. UNCHANGED <<status, requested, completed, Collection!evidence, postchecks, results>>
    BY <1>4 DEF Collection!Report
  <2>2. CollectionTypeInv' /\ CollectionContinued
    BY <2>1 DEF CollectionTypeInv, CollectionContinued
  <2>3. PICK r \in IF results = None THEN Collection!Collected ELSE {results} :
          said' = [pass |-> Collection!Sound(r), postchecks |-> r.postchecks, stored |-> results # None]
    BY <1>4 DEF Collection!Report
  <2>4. CollectionSaidInv'
    <3>1. CASE ~Collection!Sound(r)
      BY <2>3, <3>1 DEF CollectionSaidInv, Collection!PassIsEarned
    <3>2. CASE Collection!Sound(r)
      <4>1. CollectionTold(r) /\ CollectionEarlier(r.postchecks)
        <5>1. CASE results = None
          BY <2>3, <5>1, CollectionCollectedIsTold
        <5>2. CASE results # None
          BY <2>3, <3>2, <5>2 DEF CollectionStoredInv, Collection!Sound, Collection!RunIsSound
        <5>3. QED
          BY <5>1, <5>2
      <4>2. (\A k : Collection!Of(k)' = Collection!Of(k)) /\ \A s : Collection!At(s)' = Collection!At(s)
        BY <2>1 DEF Collection!evidence, Collection!Of, Collection!At
      <4>3. UNCHANGED <<file, status, completed, requested, postchecks>> /\ said'.postchecks = r.postchecks
        BY <2>1, <2>3 DEF Collection!evidence
      <4>4. Collection!PassIsEarned'
        BY <3>2, <4>1, <4>2, <4>3, CollectionSoundIsEarned DEF Collection!PassIsEarned
      <4>5. QED
        BY <4>1, <4>3, <4>4 DEF CollectionSaidInv, CollectionEarlier
    <3>3. QED
      BY <3>1, <3>2
  <2>5. QED
    BY <2>1, <2>2, <2>4, CollectionStoredStays
<1>5. QED
  BY <1>1, <1>2, <1>3, <1>4 DEF Collection!Next

(* A report passes only what is clean.                                     *)
LEMMA CollectionHolds ==
  ASSUME CollectionInv
  PROVE  Collection!PassIsEarned
BY DEF CollectionInv, CollectionSaidInv

-----------------------------------------------------------------------------
(* The Magic decision (physical_runtime). The markers of one rule and      *)
(* place differ by their cause alone, so a finding that is counted as      *)
(* often in the stock's control as in the whole is that of the stock's own *)
(* marker.                                                                 *)

MagicMarkersInv == raw \subseteq Magic!Intrinsic \cup Magic!Influence \cup Magic!Integration /\ stock \subseteq Magic!Intrinsic

(* A control that ended well has the markers that its abstract leaves.     *)
MagicControlsInv ==
  /\ DOMAIN observed \subseteq Magic!Controls /\ failed \subseteq Magic!Controls
  /\ \A c \in DOMAIN observed : observed[c] = Magic!Without(c)

(* Nothing is decided but by the last step, from what it looked at.        *)
MagicDecisionInv ==
  /\ pc # "over" => result = None
  /\ pc \in {"controls"} => Magic!Influenced(raw)
  /\ result = "zero_findings" => raw = {}
  /\ result = "stock_baseline" => Magic!Unmatched = {}
  /\ result = "obstruction_controls" =>
       Magic!Influenced(raw) /\ failed = {} /\ DOMAIN observed = Magic!Controls /\ Magic!Explained

MagicInv == MagicMarkersInv /\ MagicControlsInv /\ MagicDecisionInv

(* The markers of one rule and place differ by their cause alone.          *)
LEMMA MagicFindingsAreFew ==
  ASSUME NEW marks, marks \subseteq Magic!Intrinsic \cup Magic!Influence \cup Magic!Integration, NEW f \in Magic!Seen(marks)
  PROVE  IsFiniteSet({mk \in marks : mk.rule = f.rule /\ mk.place = f.place})
<1> DEFINE M(why) == [rule |-> f.rule, place |-> f.place, cause |-> why]
           few == {M("intrinsic"), M("obstruction"), M("integration")}
           S == {mk \in marks : mk.rule = f.rule /\ mk.place = f.place}
<1>1. IsFiniteSet(few)
  <2>1. IsFiniteSet({M("intrinsic")})
    BY FS_Singleton
  <2>2. IsFiniteSet({M("intrinsic")} \cup {M("obstruction")})
    BY <2>1, FS_AddElement
  <2>3. IsFiniteSet(({M("intrinsic")} \cup {M("obstruction")}) \cup {M("integration")})
    BY <2>2, FS_AddElement
  <2>4. few = ({M("intrinsic")} \cup {M("obstruction")}) \cup {M("integration")}
    OBVIOUS
  <2>5. QED
    BY <2>3, <2>4
<1>2. S \subseteq few
  <2>1. ASSUME NEW mk \in S
        PROVE  mk \in few
    <3>1. mk \in Magic!Intrinsic \/ mk \in Magic!Influence \/ mk \in Magic!Integration
      OBVIOUS
    <3>2. mk = [rule |-> mk.rule, place |-> mk.place, cause |-> mk.cause] /\ mk.cause \in {"intrinsic", "obstruction", "integration"}
      BY <3>1 DEF Magic!Intrinsic, Magic!Influence, Magic!Integration, Magic!Marker
    <3>3. QED
      BY <3>2
  <2>2. QED
    BY <2>1
<1> HIDE DEF few
<1>3. QED
  BY <1>1, <1>2, FS_Subset

(* The module counts as everybody does.                                    *)
LEMMA MagicCounts ==
  ASSUME NEW S
  PROVE  Magic!Cardinality(S) = Cardinality(S)
BY DEF Magic!Cardinality, Cardinality

(* A finding that is not unmatched is the one of the stock's own marker    *)
(* there.                                                                  *)
LEMMA MagicMatchedIsStock ==
  ASSUME MagicMarkersInv, Magic!Unmatched = {}, NEW mk \in raw
  PROVE  /\ mk.rule = "other" /\ mk.place = "inside" /\ mk.cause \in {"intrinsic", "integration"}
         /\ \A other \in raw \ {mk} : Magic!Seen({other}) # Magic!Seen({mk})
<1> DEFINE f == [rule |-> mk.rule, place |-> mk.place]
           R == {x \in raw : x.rule = f.rule /\ x.place = f.place}
           S == {x \in Magic!Available : x.rule = f.rule /\ x.place = f.place}
<1>1. /\ f \in Magic!Seen(raw) /\ mk \in R
      /\ Magic!Times(raw, f) = Cardinality(R) /\ Magic!Times(Magic!Available, f) = Cardinality(S)
  <2>1. f \in Magic!Seen(raw)
    BY DEF Magic!Seen
  <2>2. Magic!Times(raw, f) = Cardinality(R) /\ Magic!Times(Magic!Available, f) = Cardinality(S)
    BY MagicCounts DEF Magic!Times
  <2>3. QED
    BY <2>1, <2>2
<1>2. IsFiniteSet(R) /\ Cardinality(R) \in Nat /\ Cardinality(R) >= 1
  <2>1. IsFiniteSet(R)
    BY <1>1, MagicFindingsAreFew DEF MagicMarkersInv
  <2> HIDE DEF R
  <2>2. QED
    BY <1>1, <2>1, FS_CardinalityType, FS_EmptySet
<1>3. S \subseteq {[rule |-> "other", place |-> "inside", cause |-> "intrinsic"]}
  BY DEF MagicMarkersInv, Magic!Available, Magic!Intrinsic, Magic!Marker
<1>4. IsFiniteSet(S) /\ Cardinality(S) \in Nat /\ Cardinality(S) <= 1
  <2> DEFINE one == {[rule |-> "other", place |-> "inside", cause |-> "intrinsic"]}
  <2>1. S \in SUBSET one
    BY <1>3
  <2>2. IsFiniteSet(one) /\ Cardinality(one) = 1
    BY FS_Singleton
  <2> HIDE DEF S, one
  <2>3. IsFiniteSet(S) /\ Cardinality(S) <= Cardinality(one)
    BY <2>1, <2>2, FS_Subset
  <2>4. Cardinality(S) \in Nat
    BY <2>3, FS_CardinalityType
  <2>5. QED
    BY <2>2, <2>3, <2>4
<1>5. Cardinality(R) <= Cardinality(S)
  <2>1. ~(Cardinality(R) > Cardinality(S))
    BY <1>1 DEF Magic!Unmatched
  <2> HIDE DEF R, S
  <2>2. QED
    BY <1>2, <1>4, <2>1
<1>6. Cardinality(S) = 1 /\ Cardinality(R) = 1
  <2> HIDE DEF R, S
  <2>1. QED
    BY <1>2, <1>4, <1>5
<1>7. mk.rule = "other" /\ mk.place = "inside"
  <2>1. S # {}
    <3> HIDE DEF S
    <3>1. QED
      BY <1>6, FS_EmptySet
  <2>2. PICK x \in S : x = [rule |-> "other", place |-> "inside", cause |-> "intrinsic"]
    BY <1>3, <2>1
  <2>3. QED
    BY <2>2
<1>8. mk.cause \in {"intrinsic", "integration"}
  BY <1>7 DEF MagicMarkersInv, Magic!Intrinsic, Magic!Influence, Magic!Integration, Magic!Marker,
     Magic!Layers
<1>9. ASSUME NEW other \in raw \ {mk}, Magic!Seen({other}) = Magic!Seen({mk})
      PROVE  FALSE
  <2>1. [rule |-> other.rule, place |-> other.place] = f
    BY <1>9 DEF Magic!Seen
  <2>2. other \in R
    BY <2>1
  <2>3. \E x : R = {x}
    <3> HIDE DEF R
    <3>1. QED
      BY <1>2, <1>6, FS_Singleton
  <2>4. QED
    BY <1>1, <2>2, <2>3
<1>10. QED
  BY <1>7, <1>8, <1>9

(* A decision of which no control has run.                                 *)
LEMMA MagicStarts ==
  ASSUME Magic!NoneIsNew, Magic!Init
  PROVE  MagicInv
BY DEF Magic!NoneIsNew, Magic!Init, MagicInv, MagicMarkersInv, MagicControlsInv, MagicDecisionInv

(* Every step towards a decision keeps the invariant.                      *)
LEMMA MagicKept ==
  ASSUME Magic!NoneIsNew, MagicInv, [Magic!Next]_(Magic!vars)
  PROVE  MagicInv'
<1> USE DEF Magic!NoneIsNew, MagicInv
<1>1. UNCHANGED Magic!given
  BY DEF Magic!Next, Magic!ReadReport, Magic!RunBaseline, Magic!Classify, Magic!Screen,
     Magic!RunControl, Magic!Collect, Magic!vars, Magic!given
<1>2. /\ MagicMarkersInv' /\ Magic!Influenced(raw)' = Magic!Influenced(raw) /\ Magic!Unmatched' = Magic!Unmatched /\ Magic!Controls' = Magic!Controls
      /\ \A c : Magic!Without(c)' = Magic!Without(c)
  BY <1>1 DEF Magic!given, MagicMarkersInv, Magic!Influenced, Magic!Seen, Magic!Unmatched,
     Magic!Times, Magic!Available, Magic!Controls, Magic!LayersOf, Magic!Without
<1>3. UNCHANGED <<observed, raw>> => (Magic!Explained' <=> Magic!Explained)
  BY DEF Magic!Explained, Magic!SameFindings, Magic!LayersOf, Magic!Seen, Magic!Times
<1>4. CASE Magic!ReadReport \/ Magic!RunBaseline \/ Magic!Classify \/ Magic!Screen \/ UNCHANGED Magic!vars
  <2>1. UNCHANGED <<raw, observed, failed>>
    BY <1>4 DEF Magic!ReadReport, Magic!RunBaseline, Magic!Classify, Magic!Screen, Magic!vars,
       Magic!given
  <2>2. MagicControlsInv'
    BY <1>2, <2>1 DEF MagicControlsInv
  <2>3. MagicDecisionInv'
    BY <1>2, <1>3, <1>4, <2>1 DEF MagicDecisionInv, Magic!ReadReport, Magic!RunBaseline,
       Magic!Classify, Magic!Screen, Magic!vars, Magic!Decide
  <2>4. QED
    BY <1>2, <2>2, <2>3
<1>5. ASSUME NEW c \in SUBSET Magic!Layers, Magic!RunControl(c)
      PROVE  MagicInv'
  <2>1. MagicControlsInv'
    BY <1>2, <1>5 DEF MagicControlsInv, Magic!RunControl
  <2>2. MagicDecisionInv'
    BY <1>2, <1>5 DEF MagicDecisionInv, Magic!RunControl
  <2>3. QED
    BY <1>2, <2>1, <2>2
<1>6. CASE Magic!Collect
  <2>1. UNCHANGED <<raw, observed, failed>> /\ pc = "controls" /\ pc' = "over" /\ DOMAIN observed \cup failed = Magic!Controls
        /\ result' = IF failed = {} /\ Magic!Explained THEN "obstruction_controls" ELSE "refused"
    BY <1>6 DEF Magic!Collect, Magic!Decide, Magic!given
  <2>2. MagicControlsInv'
    BY <1>2, <2>1 DEF MagicControlsInv
  <2>3. MagicDecisionInv'
    BY <1>2, <1>3, <2>1 DEF MagicDecisionInv
  <2>4. QED
    BY <1>2, <2>2, <2>3
<1>7. QED
  BY <1>4, <1>5, <1>6 DEF Magic!Next

(* A layout that is accepted has the stock's own findings alone.           *)
LEMMA MagicHolds ==
  ASSUME Magic!NoneIsNew, MagicInv
  PROVE  Magic!AcceptedIsStock
<1> USE DEF MagicInv
<1>1. CASE result = "stock_baseline"
  <2>1. \A mk \in raw :
          /\ mk.rule = "other" /\ mk.place = "inside" /\ mk.cause \in {"intrinsic", "integration"}
          /\ \A other \in raw \ {mk} : Magic!Seen({other}) # Magic!Seen({mk})
    BY <1>1, MagicMatchedIsStock DEF MagicDecisionInv
  <2>2. QED
    BY <1>1, <2>1 DEF Magic!AcceptedIsStock
<1>2. CASE result = "obstruction_controls"
  <2>1. Magic!Influenced(raw) /\ failed = {} /\ observed[Magic!LayersOf(raw)] = {} /\ Magic!LayersOf(raw) \in DOMAIN observed
    BY <1>2 DEF MagicDecisionInv, Magic!Explained, Magic!Controls
  <2>2. Magic!Without(Magic!LayersOf(raw)) = {}
    BY <2>1 DEF MagicControlsInv
  <2>3. ASSUME NEW mk \in raw
        PROVE  mk.cause = "obstruction" /\ mk.place # "shared"
    <3>1. [rule |-> mk.rule, place |-> mk.place] \in Magic!Seen(raw)
      BY DEF Magic!Seen
    <3>2. mk.place = Magic!Band(mk.rule)
      BY <2>1, <3>1 DEF Magic!Influenced
    <3>3. QED
      BY <2>2, <3>2 DEF Magic!Without, Magic!Band
  <2>4. QED
    BY <1>2, <2>1, <2>3 DEF Magic!AcceptedIsStock
<1>3. CASE result \notin {"stock_baseline", "obstruction_controls"}
  BY <1>3 DEF Magic!AcceptedIsStock, MagicDecisionInv
<1>4. QED
  BY <1>1, <1>2, <1>3

-----------------------------------------------------------------------------
(* Observation (flow_observation). A writer knows all of its journal, but  *)
(* for the one record it was interrupted after, and then the next name is  *)
(* taken; while it knows all, the record that is due is one the grammar    *)
(* accepts. The outcome is the last record, so a watch that saw it, or saw *)
(* the lock free first and read once more, saw everything.                 *)

ObservationBad == {"failed", "interrupted"}
ObservationStatuses == {"completed"} \cup ObservationBad
ObservationNames == {"allocated", "planned", "prepared", "started", "published", "finished", "outcome"}
ObservationStates ==
  [phase : {None, "allocated", "planned", "executing", "finished"},
   occ : [1..Stages -> {"unreached", "running"} \cup ObservationStatuses],
   artifacts : SUBSET (1..Stages), outcome : ObservationStatuses \cup {None}]

ObservationTypeInv ==
  /\ pc \in {"append", "adopt", "plan", "prepare", "next", "invoke", "publish", "announce", "finish", "stop",
             "finalize", "return", "reraise", "over"}
  /\ scope \in {"action", "run", "handler", "none"} /\ stage \in 0..Stages
  /\ event \in [name : ObservationNames, at : 0..Stages, status : ObservationStatuses \cup {None}]
  /\ next \in {"plan", "prepare", "next", "invoke", "finish", "stop", "return", "reraise"}
  /\ seq \in Nat /\ state \in ObservationStates
  /\ journal \in Seq([name : ObservationNames, at : 0..Stages, status : ObservationStatuses \cup {None}])
  /\ lock \in BOOLEAN /\ (lock <=> pc # "over") /\ (pc # "over" <=> ended = None)
  /\ ended \in {None, "returned", "raised", "killed"}
  /\ execution \in ObservationStatuses /\ falls \in Nat /\ store \subseteq 1..Stages

(* What the writer remembers is what it journalled, but for a record that  *)
(* it was interrupted after.                                               *)
ObservationMemoryInv ==
  /\ Len(journal) \in {seq, seq + 1}
  /\ pc = "adopt" => Len(journal) = seq + 1 /\ journal[seq + 1] = event
  /\ pc \notin {"append", "adopt", "over"} => Len(journal) = seq
  /\ pc = "append" /\ Len(journal) # seq => falls >= 1
  /\ \A a \in state.artifacts :
       /\ a \in store /\ state.occ[a] # "unreached"
       /\ \E k \in 1..seq : journal[k].name = "published" /\ journal[k].at = a
  /\ \A j \in 1..Stages : state.occ[j] = "completed" => j \in state.artifacts
  /\ state.outcome # None => state.phase # None /\ seq > 0 /\ journal[seq].name = "outcome"
  /\ seq > 0 /\ journal[seq].name = "outcome" => state.outcome # None
  /\ scope = "handler" => falls >= 1

ObservationReached(i, how) ==
  /\ i \in 1..Stages /\ state.phase = "executing" /\ state.outcome = None /\ state.occ[i] = how
  /\ \A j \in 1..Stages : (j < i => state.occ[j] = "completed") /\ (j > i => state.occ[j] = "unreached")

ObservationEarly(phase) ==
  /\ state.phase = phase /\ state.outcome = None /\ stage = 0 /\ execution = "completed"
  /\ \A j \in 1..Stages : state.occ[j] = "unreached"

ObservationAllDone == \A j \in 1..Stages : state.occ[j] = "completed"

(* The records that may be due, and what the writer has come to then.      *)
ObservationAllocatedIsDue == event.name = "allocated" /\ next = "plan" /\ scope = "none" /\ ObservationEarly(None)
ObservationPlannedIsDue == event.name = "planned" /\ next = "prepare" /\ scope = "run" /\ ObservationEarly("allocated")
ObservationPreparedIsDue == event.name = "prepared" /\ next = "next" /\ scope = "run" /\ ObservationEarly("planned")
ObservationStartedIsDue ==
  /\ event.name = "started" /\ event.at = stage /\ next = "invoke" /\ scope = "run" /\ execution = "completed"
  /\ ObservationReached(stage, "unreached")
ObservationPublishedIsDue ==
  /\ event.name = "published" /\ event.at = stage /\ next = "finish" /\ scope = "action" /\ execution = "completed"
  /\ ObservationReached(stage, "running") /\ stage \notin state.artifacts /\ stage \in store
ObservationFinishedIsDue ==
  /\ event.name = "finished" /\ event.at = stage /\ event.status = "completed" /\ next = "next" /\ scope = "run"
  /\ execution = "completed" /\ ObservationReached(stage, "running") /\ stage \in state.artifacts
ObservationFailedIsDue ==
  /\ event.name = "finished" /\ event.at = stage /\ event.status \in ObservationBad /\ next = "stop" /\ scope = "run"
  /\ execution \in ObservationBad /\ ObservationReached(stage, "running")
ObservationVerdictIsDue ==
  /\ event.name = "outcome" /\ event.status = execution /\ next = "return" /\ scope = "run"
  /\ state.phase = "executing" /\ state.outcome = None /\ (execution = "completed" => ObservationAllDone)
ObservationOutcomeIsDue ==
  /\ event.name = "outcome" /\ event.status \in ObservationBad /\ next = "reraise" /\ scope = "handler"
  /\ state.phase # None /\ (pc = "adopt" => state.outcome = None)

ObservationEventInv ==
  pc = "adopt" \/ (pc = "append" /\ Len(journal) = seq) =>
    \/ ObservationAllocatedIsDue \/ ObservationPlannedIsDue \/ ObservationPreparedIsDue \/ ObservationStartedIsDue \/ ObservationPublishedIsDue
    \/ ObservationFinishedIsDue \/ ObservationFailedIsDue \/ ObservationVerdictIsDue \/ ObservationOutcomeIsDue

(* Where there is no record to append.                                     *)
ObservationPlaceInv ==
  /\ pc = "plan" => scope = "none" /\ ObservationEarly("allocated")
  /\ pc = "prepare" => scope = "run" /\ ObservationEarly("planned")
  /\ pc = "next" =>
       /\ scope = "run" /\ execution = "completed" /\ state.phase = "executing" /\ state.outcome = None
       /\ \A j \in 1..Stages : state.occ[j] = IF j <= stage THEN "completed" ELSE "unreached"
  /\ pc = "invoke" => scope = "run"
  /\ pc \in {"publish", "announce", "finish"} => scope = "action"
  /\ pc \in {"invoke", "publish", "announce", "finish"} => execution = "completed" /\ ObservationReached(stage, "running")
  /\ pc \in {"invoke", "publish", "announce"} => stage \notin state.artifacts
  /\ pc = "announce" => stage \in store
  /\ pc = "finish" => stage \in state.artifacts
  /\ pc = "stop" => execution \in ObservationBad
  /\ pc \in {"stop", "finalize"} => scope = "run" /\ state.phase = "executing" /\ state.outcome = None
  /\ pc = "finalize" => (execution = "completed" => ObservationAllDone)
  /\ pc = "return" => scope = "run" /\ seq > 0 /\ journal[seq].name = "outcome" /\ journal[seq].status = execution
  /\ pc = "reraise" => scope = "handler" /\ seq > 0 /\ journal[seq].name = "outcome"

ObservationJournalInv == Watched!JournalTellsTheRun /\ Watched!RaisedIsRecorded

(* What was seen with the lock free is all there will be.                  *)
ObservationReaderInv ==
  /\ rpc \in {"refresh", "probe", "drain", "done"} /\ seen \in Seq([name : ObservationNames, at : 0..Stages, status : ObservationStatuses \cup {None}])
  /\ rpc = "drain" => active \in BOOLEAN /\ (active \/ ~lock)
  /\ told = "final" => Watched!Final(seen)
  /\ Watched!WatchEndsComplete

ObservationInv == ObservationTypeInv /\ ObservationMemoryInv /\ ObservationEventInv /\ ObservationPlaceInv /\ ObservationJournalInv /\ ObservationReaderInv

(* A writer that is to journal its allocation.                             *)
LEMMA ObservationStarts ==
  ASSUME Watched!NoneIsNew, Stages \in Nat, Watched!Init
  PROVE  ObservationInv
<1> USE DEF Watched!Init, Watched!Empty, Watched!Event, Watched!NoneIsNew
<1>1. ObservationTypeInv
  BY DEF ObservationTypeInv, ObservationStates, ObservationNames, ObservationStatuses,
     ObservationBad
<1>2. ObservationMemoryInv
  BY DEF ObservationMemoryInv
<1>3. ObservationEventInv
  BY DEF ObservationEventInv, ObservationAllocatedIsDue, ObservationEarly
<1>4. ObservationPlaceInv
  BY DEF ObservationPlaceInv
<1>5. ObservationJournalInv
  BY DEF ObservationJournalInv, Watched!JournalTellsTheRun, Watched!RaisedIsRecorded
<1>6. ObservationReaderInv
  BY DEF ObservationReaderInv, Watched!WatchEndsComplete, Watched!Retained
<1>7. QED
  BY <1>1, <1>2, <1>3, <1>4, <1>5, <1>6 DEF ObservationInv

(* Of the records a writer in step with its journal comes to append, the   *)
(* grammar turns down only an outcome after the outcome.                   *)
LEMMA ObservationDueIsAccepted ==
  ASSUME Watched!NoneIsNew, Stages \in Nat, ObservationInv, pc = "append", Len(journal) = seq
  PROVE  Watched!Accepts(state, event) \/ (scope = "handler" /\ state.outcome # None)
<1> USE DEF Watched!Accepts, Watched!NoneIsNew
<1>1. \/ ObservationAllocatedIsDue
      \/ ObservationPlannedIsDue
      \/ ObservationPreparedIsDue
      \/ ObservationStartedIsDue
      \/ ObservationPublishedIsDue
      \/ ObservationFinishedIsDue
      \/ ObservationFailedIsDue
      \/ ObservationVerdictIsDue
      \/ ObservationOutcomeIsDue
  BY DEF ObservationInv, ObservationEventInv
<1>2. CASE ObservationAllocatedIsDue
  BY <1>2 DEF ObservationAllocatedIsDue, ObservationEarly
<1>3. CASE ObservationPlannedIsDue
  BY <1>3 DEF ObservationPlannedIsDue, ObservationEarly
<1>4. CASE ObservationPreparedIsDue
  BY <1>4 DEF ObservationPreparedIsDue, ObservationEarly
<1>5. CASE ObservationStartedIsDue
  BY <1>5 DEF ObservationStartedIsDue, ObservationReached
<1>6. CASE ObservationPublishedIsDue
  BY <1>6 DEF ObservationPublishedIsDue, ObservationReached
<1>7. CASE ObservationFinishedIsDue
  BY <1>7 DEF ObservationFinishedIsDue, ObservationReached, Watched!Earned
<1>8. CASE ObservationFailedIsDue
  BY <1>8 DEF ObservationFailedIsDue, ObservationReached, Watched!Earned, ObservationBad
<1>9. CASE ObservationVerdictIsDue
  BY <1>9 DEF ObservationVerdictIsDue, Watched!OutcomeOK, ObservationAllDone
<1>10. CASE ObservationOutcomeIsDue
  BY <1>10 DEF ObservationOutcomeIsDue, Watched!OutcomeOK, ObservationBad
<1>11. QED
  BY <1>1, <1>2, <1>3, <1>4, <1>5, <1>6, <1>7, <1>8, <1>9, <1>10

(* Nothing is appended after an outcome, nor to a name that is taken.      *)
LEMMA ObservationOutcomeIsLast ==
  ASSUME Watched!NoneIsNew, Stages \in Nat, ObservationInv, pc = "append", Watched!Accepts(state, event), Watched!NameIsFree
  PROVE  /\ Len(journal) = seq /\ state.outcome = None
         /\ ~Watched!Final(journal) /\ \A i \in DOMAIN journal : journal[i].name # "outcome"
<1>1. Len(journal) = seq /\ state.outcome = None
  BY DEF Watched!NameIsFree, Watched!Accepts, ObservationInv, ObservationTypeInv,
     ObservationEventInv, ObservationAllocatedIsDue, ObservationPlannedIsDue,
     ObservationPreparedIsDue, ObservationStartedIsDue, ObservationPublishedIsDue,
     ObservationFinishedIsDue, ObservationFailedIsDue, ObservationVerdictIsDue,
     ObservationOutcomeIsDue, ObservationEarly, Watched!NoneIsNew
<1>2. ~Watched!Final(journal)
  BY <1>1 DEF ObservationInv, ObservationMemoryInv, Watched!Final, ObservationTypeInv
<1>3. \A i \in DOMAIN journal : journal[i].name # "outcome"
  BY <1>1, <1>2 DEF ObservationInv, ObservationJournalInv, Watched!JournalTellsTheRun,
     Watched!Final, ObservationTypeInv
<1>4. QED
  BY <1>1, <1>2, <1>3

(* An exception wherever the writer is, or a record it may not append.     *)
LEMMA ObservationHandleKeeps ==
  ASSUME Watched!NoneIsNew, Stages \in Nat, ObservationInv, pc # "over", NEW why \in ObservationBad, Watched!Handle(why),
         UNCHANGED <<stage, seq, state, journal, store, rpc, seen, active, told>>,
         \/ falls' = falls + 1
         \/ falls' = falls /\ pc = "append" /\ ~(Watched!Accepts(state, event) /\ Watched!NameIsFree)
  PROVE  ObservationInv'
<1> USE DEF ObservationInv, Watched!Handle, Watched!AppendThen, Watched!Event, ObservationBad
<1>1. falls' \in Nat /\ falls' >= falls
  BY DEF ObservationTypeInv
<1>2. Len(journal) # seq => falls' >= 1
  BY DEF ObservationTypeInv, ObservationMemoryInv
<1>3. scope' = "handler" => falls' >= 1
  BY <1>1, <1>2, ObservationDueIsAccepted DEF ObservationTypeInv, ObservationMemoryInv,
     Watched!NameIsFree
<1>4. ObservationTypeInv'
  <2>1. event' = event \/ event' \in [name : ObservationNames, at : 0..Stages, status : ObservationStatuses \cup {None}]
    BY DEF ObservationTypeInv, ObservationNames, ObservationStatuses
  <2>2. QED
    BY <1>1, <2>1 DEF ObservationTypeInv, ObservationStatuses, Watched!NoneIsNew
<1>5. ObservationMemoryInv'
  BY <1>1, <1>2, <1>3 DEF ObservationMemoryInv, ObservationTypeInv
<1>6. ObservationEventInv'
  <2>1. CASE Len(journal) # seq
    BY <2>1 DEF ObservationEventInv, ObservationAllocatedIsDue, ObservationPlannedIsDue,
       ObservationPreparedIsDue, ObservationStartedIsDue, ObservationPublishedIsDue,
       ObservationFinishedIsDue, ObservationFailedIsDue, ObservationVerdictIsDue,
       ObservationOutcomeIsDue
  <2>2. CASE Len(journal) = seq /\ scope = "action"
    <3>1. ObservationReached(stage, "running")
      BY <2>2 DEF ObservationTypeInv, ObservationEventInv, ObservationAllocatedIsDue,
         ObservationPlannedIsDue, ObservationPreparedIsDue, ObservationStartedIsDue,
         ObservationPublishedIsDue, ObservationFinishedIsDue, ObservationFailedIsDue,
         ObservationVerdictIsDue, ObservationOutcomeIsDue, ObservationPlaceInv, ObservationMemoryInv
    <3>2. QED
      BY <2>2, <3>1 DEF ObservationEventInv, ObservationAllocatedIsDue, ObservationPlannedIsDue,
         ObservationPreparedIsDue, ObservationStartedIsDue, ObservationPublishedIsDue,
         ObservationFinishedIsDue, ObservationFailedIsDue, ObservationVerdictIsDue,
         ObservationOutcomeIsDue, ObservationReached
  <2>3. CASE Len(journal) = seq /\ scope = "run"
    <3>1. state.phase # None
      BY <2>3 DEF ObservationTypeInv, ObservationEventInv, ObservationAllocatedIsDue,
         ObservationPlannedIsDue, ObservationPreparedIsDue, ObservationStartedIsDue,
         ObservationPublishedIsDue, ObservationFinishedIsDue, ObservationFailedIsDue,
         ObservationVerdictIsDue, ObservationOutcomeIsDue, ObservationPlaceInv,
         ObservationMemoryInv, ObservationEarly, ObservationReached, Watched!NoneIsNew
    <3>2. QED
      BY <2>3, <3>1 DEF ObservationEventInv, ObservationAllocatedIsDue, ObservationPlannedIsDue,
         ObservationPreparedIsDue, ObservationStartedIsDue, ObservationPublishedIsDue,
         ObservationFinishedIsDue, ObservationFailedIsDue, ObservationVerdictIsDue,
         ObservationOutcomeIsDue
  <2>4. CASE Len(journal) = seq /\ scope \in {"handler", "none"}
    BY <2>4 DEF ObservationEventInv, ObservationAllocatedIsDue, ObservationPlannedIsDue,
       ObservationPreparedIsDue, ObservationStartedIsDue, ObservationPublishedIsDue,
       ObservationFinishedIsDue, ObservationFailedIsDue, ObservationVerdictIsDue,
       ObservationOutcomeIsDue
  <2>5. QED
    BY <2>1, <2>2, <2>3, <2>4 DEF ObservationTypeInv
<1>7. ObservationPlaceInv'
  BY DEF ObservationPlaceInv
<1>8. ObservationJournalInv'
  <2>1. Watched!JournalTellsTheRun'
    BY DEF ObservationJournalInv, Watched!JournalTellsTheRun, ObservationTypeInv, Watched!Final,
       Watched!NoneIsNew
  <2>2. Watched!RaisedIsRecorded'
    <3>1. SUFFICES ASSUME ended' = "raised", falls' <= 1, seq = Len(journal), scope # "none"
                   PROVE  Watched!Final(journal)
      BY DEF Watched!RaisedIsRecorded, Watched!Final
    <3>2. scope = "handler" /\ falls >= 1
      BY <3>1 DEF ObservationTypeInv, ObservationMemoryInv, Watched!NoneIsNew
    <3>3. state.outcome # None
      BY <1>1, <3>1, <3>2, ObservationDueIsAccepted DEF ObservationTypeInv, Watched!NameIsFree
    <3>4. QED
      BY <3>1, <3>3 DEF ObservationMemoryInv, Watched!Final
  <2>3. QED
    BY <2>1, <2>2 DEF ObservationJournalInv
<1>9. ObservationReaderInv'
  BY DEF ObservationReaderInv, Watched!WatchEndsComplete, Watched!Retained, Watched!Final,
     ObservationTypeInv
<1>10. QED
  BY <1>4, <1>5, <1>6, <1>7, <1>8, <1>9

(* A record the grammar accepts and whose name is free is promoted; any    *)
(* other raises.                                                           *)
LEMMA ObservationPromoteKeeps ==
  ASSUME Watched!NoneIsNew, Stages \in Nat, ObservationInv, Watched!Promote
  PROVE  ObservationInv'
<1>1. CASE /\ Watched!Accepts(state, event) /\ Watched!NameIsFree
           /\ journal' = Append(SubSeq(journal, 1, seq), event) /\ pc' = "adopt"
           /\ UNCHANGED <<scope, event, next, execution, falls, lock, ended, broken>>
           /\ UNCHANGED <<stage, Watched!memory, store, sent, Watched!reader>>
  <2> USE DEF ObservationInv, Watched!memory, Watched!reader
  <2>1. pc = "append" /\ Len(journal) = seq /\ ~Watched!Final(journal) /\ state.outcome = None
        /\ \A i \in DOMAIN journal : journal[i].name # "outcome"
    BY <1>1, ObservationOutcomeIsLast DEF Watched!Promote
  <2>2. /\ journal \in Seq([name : ObservationNames, at : 0..Stages, status : ObservationStatuses \cup {None}]) /\ seq \in Nat
        /\ event \in [name : ObservationNames, at : 0..Stages, status : ObservationStatuses \cup {None}]
    BY DEF ObservationTypeInv
  <2>3. journal' = Append(journal, event)
    BY <1>1, <2>1, <2>2
  <2>4. Len(journal') = seq + 1 /\ journal'[seq + 1] = event /\ \A i \in 1..seq : journal'[i] = journal[i]
    BY <2>1, <2>2, <2>3
  <2>5. ObservationTypeInv'
    <3>1. journal' \in Seq([name : ObservationNames, at : 0..Stages, status : ObservationStatuses \cup {None}])
      BY <2>2, <2>3
    <3>2. QED
      BY <1>1, <2>1, <3>1 DEF ObservationTypeInv
  <2>6. ObservationMemoryInv'
    BY <1>1, <2>1, <2>2, <2>4 DEF ObservationMemoryInv
  <2>7. ObservationEventInv'
    BY <1>1, <2>1 DEF ObservationEventInv, ObservationAllocatedIsDue, ObservationPlannedIsDue,
       ObservationPreparedIsDue, ObservationStartedIsDue, ObservationPublishedIsDue,
       ObservationFinishedIsDue, ObservationFailedIsDue, ObservationVerdictIsDue,
       ObservationOutcomeIsDue, ObservationEarly, ObservationReached, ObservationAllDone
  <2>8. ObservationPlaceInv'
    BY <1>1 DEF ObservationPlaceInv
  <2>9. ObservationJournalInv'
    <3>1. event.name = "published" => event.at \in store
      BY <2>1 DEF ObservationEventInv, ObservationAllocatedIsDue, ObservationPlannedIsDue,
         ObservationPreparedIsDue, ObservationStartedIsDue, ObservationPublishedIsDue,
         ObservationFinishedIsDue, ObservationFailedIsDue, ObservationVerdictIsDue,
         ObservationOutcomeIsDue
    <3>2. event.name = "outcome" /\ event.status = "completed" => store = 1..Stages
      <4>1. SUFFICES ASSUME event.name = "outcome", event.status = "completed"
                     PROVE  store = 1..Stages
        OBVIOUS
      <4>2. ObservationAllDone
        BY <1>1, <2>1, <4>1 DEF ObservationEventInv, ObservationAllocatedIsDue,
           ObservationPlannedIsDue, ObservationPreparedIsDue, ObservationStartedIsDue,
           ObservationPublishedIsDue, ObservationFinishedIsDue, ObservationFailedIsDue,
           ObservationVerdictIsDue, ObservationOutcomeIsDue, ObservationBad
      <4>3. QED
        BY <4>2 DEF ObservationAllDone, ObservationMemoryInv, ObservationTypeInv
    <3>3. event.name = "finished" /\ event.status = "completed" => event.at \in state.artifacts
      BY <2>1 DEF ObservationEventInv, ObservationAllocatedIsDue, ObservationPlannedIsDue,
         ObservationPreparedIsDue, ObservationStartedIsDue, ObservationPublishedIsDue,
         ObservationFinishedIsDue, ObservationFailedIsDue, ObservationVerdictIsDue,
         ObservationOutcomeIsDue, ObservationBad
    <3>4. DOMAIN journal' = 1..(seq + 1) /\ DOMAIN journal = 1..seq
      BY <2>1, <2>2, <2>3
    <3>5. Watched!JournalTellsTheRun'
      <4>1. ASSUME NEW i \in 1..(seq + 1)
            PROVE  /\ journal'[i].name = "published" => journal'[i].at \in store
                   /\ journal'[i].name = "outcome" =>
                        i = seq + 1 /\ (journal'[i].status = "completed" => store = 1..Stages)
                   /\ journal'[i].name = "finished" /\ journal'[i].status = "completed" =>
                        \E k \in 1..(i - 1) : journal'[k].name = "published" /\ journal'[k].at = journal'[i].at
        <5>1. CASE i = seq + 1
          BY <5>1, <2>2, <2>4, <3>1, <3>2, <3>3 DEF ObservationMemoryInv
        <5>2. CASE i \in 1..seq
          <6>1. i \in DOMAIN journal /\ journal'[i] = journal[i] /\ journal[i].name # "outcome"
            BY <5>2, <2>1, <2>2, <2>4, <3>4
          <6>2. \A k \in 1..(i - 1) : journal'[k] = journal[k]
            BY <5>2, <2>2, <2>4
          <6>3. QED
            BY <6>1, <6>2 DEF ObservationJournalInv, Watched!JournalTellsTheRun
        <5>3. QED
          BY <2>2, <5>1, <5>2
      <4>2. ended' # "returned"
        BY <1>1, <2>1 DEF ObservationTypeInv, Watched!NoneIsNew
      <4>3. QED
        BY <1>1, <2>2, <2>4, <3>4, <4>1, <4>2 DEF Watched!JournalTellsTheRun
    <3>6. Watched!RaisedIsRecorded'
      BY <1>1, <2>1 DEF Watched!RaisedIsRecorded, ObservationTypeInv, Watched!NoneIsNew
    <3>7. QED
      BY <3>5, <3>6 DEF ObservationJournalInv
  <2>10. ObservationReaderInv'
    <3>1. told \notin {"final", "lost"}
      BY <2>1 DEF ObservationReaderInv, Watched!WatchEndsComplete, Watched!Retained, Watched!Final,
         ObservationTypeInv
    <3>2. QED
      BY <1>1, <2>1, <2>2, <2>4, <3>1 DEF ObservationReaderInv, Watched!WatchEndsComplete,
         Watched!Retained
  <2>11. QED
    BY <2>5, <2>6, <2>7, <2>8, <2>9, <2>10
<1>2. CASE ~(Watched!Accepts(state, event) /\ Watched!NameIsFree) /\ Watched!Handle("failed") /\ UNCHANGED <<journal, broken, falls>>
  BY <1>2, ObservationHandleKeeps DEF Watched!Promote, Watched!memory, Watched!reader,
     ObservationBad
<1>3. CASE broken' = TRUE /\ Watched!Raise("failed") /\ UNCHANGED journal
  BY <1>3, ObservationHandleKeeps DEF Watched!Promote, Watched!Raise, Watched!memory,
     Watched!reader, ObservationBad
<1>4. QED
  BY <1>1, <1>2, <1>3 DEF Watched!Promote

(* The writer takes note of a record it promoted.                          *)
LEMMA ObservationAdoptKeeps ==
  ASSUME Watched!NoneIsNew, Stages \in Nat, ObservationInv, Watched!Adopt
  PROVE  ObservationInv'
<1> USE DEF ObservationInv, Watched!Adopt, Watched!disk, Watched!faults, Watched!reader
<1>1. /\ seq \in Nat /\ Len(journal) = seq + 1 /\ journal[seq + 1] = event /\ state.outcome = None /\ state \in ObservationStates
      /\ event \in [name : ObservationNames, at : 0..Stages, status : ObservationStatuses \cup {None}] /\ pc = "adopt"
  BY DEF ObservationTypeInv, ObservationMemoryInv, ObservationEventInv, ObservationAllocatedIsDue,
     ObservationPlannedIsDue, ObservationPreparedIsDue, ObservationStartedIsDue,
     ObservationPublishedIsDue, ObservationFinishedIsDue, ObservationFailedIsDue,
     ObservationVerdictIsDue, ObservationOutcomeIsDue, ObservationEarly, ObservationReached
<1>2. state' \in ObservationStates
  BY <1>1 DEF Watched!Reduce, ObservationEventInv, ObservationAllocatedIsDue,
     ObservationPlannedIsDue, ObservationPreparedIsDue, ObservationStartedIsDue,
     ObservationPublishedIsDue, ObservationFinishedIsDue, ObservationFailedIsDue,
     ObservationVerdictIsDue, ObservationOutcomeIsDue, ObservationEarly, ObservationReached,
     ObservationStates, ObservationNames, ObservationStatuses, ObservationBad
<1>3. /\ event.name = "outcome" => state'.outcome = event.status /\ state'.phase = "finished"
      /\ event.name # "outcome" => state'.outcome = None
      /\ event.name = "allocated" => state'.phase = "allocated"
      /\ event.name = "planned" => state'.phase = "planned"
      /\ event.name = "prepared" => state'.phase = "executing"
      /\ event.name \in {"started", "published", "finished"} => state'.phase = state.phase
      /\ event.name = "published" => state'.artifacts = state.artifacts \cup {event.at}
      /\ event.name # "published" => state'.artifacts = state.artifacts
  BY <1>1 DEF Watched!Reduce, ObservationStates, ObservationNames
<1>4. /\ event.name = "started" /\ event.at \in 1..Stages =>
           \A j \in 1..Stages : state'.occ[j] = IF j = event.at THEN "running" ELSE state.occ[j]
      /\ event.name = "finished" /\ event.at \in 1..Stages =>
           \A j \in 1..Stages : state'.occ[j] = IF j = event.at THEN event.status ELSE state.occ[j]
      /\ event.name \notin {"started", "finished"} => state'.occ = state.occ
  BY <1>1 DEF Watched!Reduce, ObservationStates, ObservationNames
<1>5. state.artifacts \subseteq 1..Stages /\ \A j \in 1..Stages : state.occ[j] \in {"unreached", "running"} \cup ObservationStatuses
  BY <1>1 DEF ObservationStates
<1>6. execution \in ObservationStatuses /\ seq' = seq + 1 /\ journal' = journal
  BY DEF ObservationTypeInv
<1>7. event.name = "started" => stage \notin state.artifacts
  BY <1>1 DEF ObservationEventInv, ObservationAllocatedIsDue, ObservationPlannedIsDue,
     ObservationPreparedIsDue, ObservationStartedIsDue, ObservationPublishedIsDue,
     ObservationFinishedIsDue, ObservationFailedIsDue, ObservationVerdictIsDue,
     ObservationOutcomeIsDue, ObservationReached, ObservationMemoryInv
<1>8. ObservationTypeInv'
  BY <1>1, <1>2 DEF ObservationTypeInv, ObservationEventInv, ObservationAllocatedIsDue,
     ObservationPlannedIsDue, ObservationPreparedIsDue, ObservationStartedIsDue,
     ObservationPublishedIsDue, ObservationFinishedIsDue, ObservationFailedIsDue,
     ObservationVerdictIsDue, ObservationOutcomeIsDue
<1>9. ObservationMemoryInv'
  <2> USE DEF ObservationMemoryInv, ObservationStatuses, Watched!NoneIsNew
  <2>1. CASE ObservationAllocatedIsDue
    BY <1>1, <1>3, <1>4, <1>5, <2>1 DEF ObservationAllocatedIsDue, ObservationEarly
  <2>2. CASE ObservationPlannedIsDue
    BY <1>1, <1>3, <1>4, <1>5, <2>2 DEF ObservationPlannedIsDue, ObservationEarly
  <2>3. CASE ObservationPreparedIsDue
    BY <1>1, <1>3, <1>4, <1>5, <2>3 DEF ObservationPreparedIsDue, ObservationEarly
  <2>4. CASE ObservationStartedIsDue
    BY <1>1, <1>3, <1>4, <1>5, <2>4 DEF ObservationStartedIsDue, ObservationReached
  <2>5. CASE ObservationPublishedIsDue
    BY <1>1, <1>3, <1>4, <1>5, <2>5 DEF ObservationPublishedIsDue, ObservationReached
  <2>6. CASE ObservationFinishedIsDue
    <3>1. /\ pc' = "next" /\ journal' = journal /\ seq' = seq + 1 /\ scope' = "run" /\ store' = store
          /\ state'.artifacts = state.artifacts /\ state'.outcome = None /\ state.outcome = None
          /\ stage \in state.artifacts /\ event.name = "finished" /\ falls' = falls
      BY <1>1, <1>3, <2>6 DEF ObservationFinishedIsDue
    <3>2. \A j \in 1..Stages : state'.occ[j] = IF j = stage THEN "completed" ELSE state.occ[j]
      BY <1>4, <2>6 DEF ObservationFinishedIsDue, ObservationReached
    <3>3. QED
      BY <1>1, <1>5, <3>1, <3>2
  <2>7. CASE ObservationFailedIsDue
    BY <1>1, <1>3, <1>4, <1>5, <2>7 DEF ObservationFailedIsDue, ObservationBad, ObservationReached
  <2>8. CASE ObservationVerdictIsDue
    BY <1>1, <1>3, <1>4, <1>5, <1>6, <2>8 DEF ObservationVerdictIsDue, ObservationAllDone,
       ObservationBad
  <2>9. CASE ObservationOutcomeIsDue
    BY <1>1, <1>3, <1>4, <1>5, <2>9 DEF ObservationOutcomeIsDue, ObservationBad
  <2>10. QED
    BY <1>1, <2>1, <2>2, <2>3, <2>4, <2>5, <2>6, <2>7, <2>8, <2>9 DEF ObservationEventInv
<1>10. ObservationEventInv'
  BY <1>1 DEF ObservationEventInv, ObservationAllocatedIsDue, ObservationPlannedIsDue,
     ObservationPreparedIsDue, ObservationStartedIsDue, ObservationPublishedIsDue,
     ObservationFinishedIsDue, ObservationFailedIsDue, ObservationVerdictIsDue,
     ObservationOutcomeIsDue
<1>11. ObservationPlaceInv'
  <2> USE DEF ObservationPlaceInv, ObservationStatuses, Watched!NoneIsNew
  <2>1. CASE ObservationAllocatedIsDue
    BY <1>1, <1>3, <1>4, <1>5, <2>1 DEF ObservationAllocatedIsDue, ObservationAllDone,
       ObservationBad, ObservationEarly, ObservationReached
  <2>2. CASE ObservationPlannedIsDue
    BY <1>1, <1>3, <1>4, <1>5, <2>2 DEF ObservationPlannedIsDue, ObservationAllDone, ObservationBad,
       ObservationEarly, ObservationReached
  <2>3. CASE ObservationPreparedIsDue
    BY <1>1, <1>3, <1>4, <1>5, <2>3 DEF ObservationPreparedIsDue, ObservationAllDone,
       ObservationBad, ObservationEarly, ObservationReached
  <2>4. CASE ObservationStartedIsDue
    BY <1>1, <1>3, <1>4, <1>5, <1>7, <2>4 DEF ObservationStartedIsDue, ObservationReached
  <2>5. CASE ObservationPublishedIsDue
    BY <1>1, <1>3, <1>4, <1>5, <2>5 DEF ObservationPublishedIsDue, ObservationAllDone,
       ObservationBad, ObservationEarly, ObservationReached
  <2>6. CASE ObservationFinishedIsDue
    BY <1>1, <1>3, <1>4, <1>5, <2>6 DEF ObservationFinishedIsDue, ObservationAllDone,
       ObservationBad, ObservationEarly, ObservationReached
  <2>7. CASE ObservationFailedIsDue
    BY <1>1, <1>3, <1>4, <1>5, <2>7 DEF ObservationFailedIsDue, ObservationAllDone, ObservationBad,
       ObservationEarly, ObservationReached
  <2>8. CASE ObservationVerdictIsDue
    BY <1>1, <1>3, <1>4, <1>5, <1>6, <2>8 DEF ObservationVerdictIsDue, ObservationAllDone,
       ObservationBad, ObservationBad, ObservationEarly, ObservationReached
  <2>9. CASE ObservationOutcomeIsDue
    BY <1>1, <1>3, <1>4, <1>5, <2>9 DEF ObservationOutcomeIsDue, ObservationAllDone, ObservationBad,
       ObservationEarly, ObservationReached
  <2>10. QED
    BY <1>1, <2>1, <2>2, <2>3, <2>4, <2>5, <2>6, <2>7, <2>8, <2>9 DEF ObservationEventInv
<1>12. ObservationJournalInv'
  BY <1>1 DEF ObservationJournalInv, Watched!JournalTellsTheRun, Watched!RaisedIsRecorded,
     Watched!Final, ObservationTypeInv, Watched!NoneIsNew, ObservationEventInv,
     ObservationAllocatedIsDue, ObservationPlannedIsDue, ObservationPreparedIsDue,
     ObservationStartedIsDue, ObservationPublishedIsDue, ObservationFinishedIsDue,
     ObservationFailedIsDue, ObservationVerdictIsDue, ObservationOutcomeIsDue
<1>13. ObservationReaderInv'
  BY <1>1 DEF ObservationReaderInv, Watched!WatchEndsComplete, Watched!Retained, Watched!Final
<1>14. QED
  BY <1>8, <1>9, <1>10, <1>11, <1>12, <1>13

(* Steps of the writer that touch neither its journal nor its memory.      *)
LEMMA ObservationAloneKeeps ==
  ASSUME Watched!NoneIsNew, Stages \in Nat, ObservationInv, pc \notin {"append", "adopt", "over"}, pc' # "adopt",
         UNCHANGED <<seq, state, journal, falls, rpc, seen, active, told>>,
         store \subseteq store', store' \subseteq 1..Stages, scope' = scope \/ scope' \in {"run", "action"},
         lock' = lock \/ ~lock', ended' = ended \/ ended' = "killed"
  PROVE  ObservationMemoryInv' /\ ObservationJournalInv' /\ ObservationReaderInv' /\ Len(journal) = seq
<1> USE DEF ObservationInv
<1>1. ObservationMemoryInv' /\ Len(journal) = seq
  BY DEF ObservationMemoryInv, ObservationTypeInv
<1>2. ended' # "returned" /\ ended' # "raised"
  BY DEF ObservationTypeInv, Watched!NoneIsNew
<1>3. ObservationJournalInv'
  <2>1. Watched!RaisedIsRecorded'
    BY <1>2 DEF Watched!RaisedIsRecorded
  <2>2. \A i \in DOMAIN journal : journal[i].name = "outcome" /\ journal[i].status = "completed" => store' = 1..Stages
    <3>1. SUFFICES ASSUME NEW i \in DOMAIN journal, journal[i].name = "outcome", journal[i].status = "completed"
                   PROVE  store' = 1..Stages
      OBVIOUS
    <3>2. store = 1..Stages /\ store' \subseteq 1..Stages
      BY <3>1 DEF ObservationJournalInv, Watched!JournalTellsTheRun
    <3>3. QED
      BY <3>2
  <2>3. QED
    BY <1>2, <2>1, <2>2 DEF ObservationJournalInv, Watched!JournalTellsTheRun
<1>4. ObservationReaderInv'
  BY DEF ObservationReaderInv, Watched!WatchEndsComplete, Watched!Retained, Watched!Final,
     ObservationTypeInv
<1>5. QED
  BY <1>1, <1>3, <1>4

(* The reader's steps leave the writer alone, what it keeps is the         *)
(* journal's beginning, and what is told is of all there is.               *)
LEMMA ObservationReaderKeeps ==
  ASSUME Watched!NoneIsNew, Stages \in Nat, ObservationInv, Watched!Refresh \/ Watched!Probe \/ Watched!Tell
  PROVE  ObservationInv'
<1> USE DEF ObservationInv
<1>1. UNCHANGED Watched!writer
  BY DEF Watched!Refresh, Watched!Probe, Watched!Tell
<1>2. ObservationTypeInv'
  BY <1>1 DEF ObservationTypeInv, Watched!writer, Watched!memory, Watched!disk, Watched!faults
<1>3. ObservationMemoryInv' /\ ObservationEventInv' /\ ObservationPlaceInv'
  BY <1>1 DEF ObservationMemoryInv, ObservationEventInv, ObservationPlaceInv,
     ObservationAllocatedIsDue, ObservationPlannedIsDue, ObservationPreparedIsDue,
     ObservationStartedIsDue, ObservationPublishedIsDue, ObservationFinishedIsDue,
     ObservationFailedIsDue, ObservationVerdictIsDue, ObservationOutcomeIsDue, ObservationEarly,
     ObservationReached, ObservationAllDone, Watched!writer, Watched!memory, Watched!disk
<1>4. ObservationJournalInv'
  BY <1>1 DEF ObservationJournalInv, Watched!JournalTellsTheRun, Watched!RaisedIsRecorded,
     Watched!Final, Watched!writer, Watched!memory, Watched!disk
<1>5. journal' = journal /\ lock' = lock /\ Len(journal) \in Nat
  BY <1>1 DEF Watched!writer, Watched!disk, ObservationTypeInv
<1>6. CASE Watched!Refresh
  BY <1>2, <1>3, <1>4, <1>5, <1>6 DEF Watched!Refresh, ObservationReaderInv,
     Watched!WatchEndsComplete, Watched!Retained, Watched!Final, ObservationTypeInv
<1>7. CASE Watched!Probe
  BY <1>2, <1>3, <1>4, <1>5, <1>7 DEF Watched!Probe, ObservationReaderInv,
     Watched!WatchEndsComplete, Watched!Retained, Watched!Final, ObservationTypeInv
<1>8. CASE Watched!Tell
  <2>1. Watched!Retained' /\ (Watched!Final(seen') => Len(seen') = Len(journal))
    BY <1>8, <1>5 DEF Watched!Tell, Watched!DrainTail, ObservationReaderInv,
       Watched!WatchEndsComplete, Watched!Retained, Watched!Final, ObservationJournalInv,
       Watched!JournalTellsTheRun, ObservationTypeInv
  <2>2. ObservationReaderInv'
    BY <1>5, <1>8, <2>1 DEF Watched!Tell, Watched!DrainTail, ObservationReaderInv,
       Watched!WatchEndsComplete, Watched!Retained, Watched!Final, ObservationTypeInv
  <2>3. QED
    BY <1>2, <1>3, <1>4, <2>2
<1>9. QED
  BY <1>6, <1>7, <1>8

(* Every step of writer and reader keeps the invariant.                    *)
LEMMA ObservationKept ==
  ASSUME Watched!NoneIsNew, Stages \in Nat, ObservationInv, [Watched!Next]_(Watched!vars)
  PROVE  ObservationInv'
<1> USE DEF ObservationInv, Watched!AppendThen, Watched!Event
<1>1. CASE Watched!PlanAttempt
  <2>1. ObservationMemoryInv' /\ ObservationJournalInv' /\ ObservationReaderInv' /\ Len(journal) = seq
    BY <1>1, ObservationAloneKeeps DEF Watched!PlanAttempt, Watched!memory, Watched!disk,
       Watched!faults, Watched!reader, ObservationTypeInv
  <2>2. ObservationTypeInv'
    BY <1>1 DEF ObservationTypeInv, Watched!PlanAttempt, Watched!memory, Watched!disk,
       Watched!faults, Watched!reader, ObservationNames
  <2>3. ObservationEventInv' /\ ObservationPlaceInv'
    BY <1>1 DEF Watched!PlanAttempt, Watched!memory, Watched!disk, ObservationPlaceInv,
       ObservationEventInv, ObservationPlannedIsDue, ObservationEarly
  <2>4. QED
    BY <2>1, <2>2, <2>3
<1>2. CASE Watched!Prepare
  <2>1. CASE Watched!Raise("failed")
    BY <1>2, <2>1, ObservationHandleKeeps DEF Watched!Prepare, Watched!Raise, Watched!memory,
       Watched!faults, Watched!reader, ObservationBad
  <2>2. CASE Watched!AppendThen(Watched!Event("prepared", 0, None), "next") /\ UNCHANGED <<scope, execution, falls, lock, ended>>
    <3>1. ObservationMemoryInv' /\ ObservationJournalInv' /\ ObservationReaderInv' /\ Len(journal) = seq
      BY <1>2, <2>2, ObservationAloneKeeps DEF Watched!Prepare, Watched!memory, Watched!disk,
         Watched!faults, Watched!reader, ObservationTypeInv
    <3>2. ObservationTypeInv'
      BY <1>2, <2>2 DEF ObservationTypeInv, Watched!Prepare, Watched!memory, Watched!faults,
         Watched!reader, ObservationNames
    <3>3. ObservationEventInv' /\ ObservationPlaceInv'
      BY <1>2, <2>2 DEF Watched!Prepare, Watched!memory, Watched!disk, ObservationPlaceInv,
         ObservationEventInv, ObservationPreparedIsDue, ObservationEarly
    <3>4. QED
      BY <3>1, <3>2, <3>3
  <2>3. QED
    BY <1>2, <2>1, <2>2 DEF Watched!Prepare
<1>3. CASE Watched!StartNext
  <2>1. ObservationMemoryInv' /\ ObservationJournalInv' /\ ObservationReaderInv' /\ Len(journal) = seq
    BY <1>3, ObservationAloneKeeps DEF Watched!StartNext, Watched!memory, Watched!disk,
       Watched!faults, Watched!reader, ObservationTypeInv
  <2>2. ObservationTypeInv'
    BY <1>3 DEF ObservationTypeInv, Watched!StartNext, Watched!memory, Watched!disk, Watched!faults,
       Watched!reader, ObservationNames
  <2>3. ObservationEventInv'
    BY <1>3 DEF Watched!StartNext, Watched!memory, Watched!disk, ObservationPlaceInv,
       ObservationEventInv, ObservationStartedIsDue, ObservationReached, ObservationTypeInv
  <2>4. ObservationPlaceInv'
    BY <1>3 DEF Watched!StartNext, Watched!memory, Watched!disk, ObservationPlaceInv,
       ObservationAllDone, ObservationTypeInv
  <2>5. QED
    BY <2>1, <2>2, <2>3, <2>4
<1>4. CASE Watched!Invoke
  <2>1. ObservationMemoryInv' /\ ObservationJournalInv' /\ ObservationReaderInv' /\ Len(journal) = seq
    BY <1>4, ObservationAloneKeeps DEF Watched!Invoke, Watched!memory, Watched!disk, Watched!faults,
       Watched!reader, ObservationTypeInv
  <2>2. ObservationTypeInv'
    BY <1>4 DEF ObservationTypeInv, Watched!Invoke, Watched!memory, Watched!disk, Watched!faults,
       Watched!reader, ObservationNames, ObservationStatuses, ObservationBad
  <2>3. ObservationEventInv' /\ ObservationPlaceInv'
    BY <1>4 DEF Watched!Invoke, Watched!memory, Watched!disk, ObservationPlaceInv,
       ObservationEventInv, ObservationFailedIsDue, ObservationReached, ObservationBad
  <2>4. QED
    BY <2>1, <2>2, <2>3
<1>5. CASE Watched!Publish
  <2>1. CASE Watched!Raise("failed") /\ UNCHANGED store
    BY <1>5, <2>1, ObservationHandleKeeps DEF Watched!Publish, Watched!Raise, Watched!memory,
       Watched!faults, Watched!reader, ObservationBad
  <2>2. CASE store' = store \cup {stage} /\ pc' = "announce" /\ UNCHANGED <<scope, event, next, execution, falls, lock, ended>>
    <3>1. stage \in 1..Stages
      BY <1>5 DEF Watched!Publish, ObservationPlaceInv, ObservationReached
    <3>2. ObservationMemoryInv' /\ ObservationJournalInv' /\ ObservationReaderInv' /\ Len(journal) = seq
      BY <1>5, <2>2, <3>1, ObservationAloneKeeps DEF Watched!Publish, Watched!memory, Watched!disk,
         Watched!faults, Watched!reader, ObservationTypeInv
    <3>3. ObservationTypeInv'
      BY <1>5, <2>2, <3>1 DEF ObservationTypeInv, Watched!Publish, Watched!memory, Watched!faults,
         Watched!reader
    <3>4. ObservationEventInv' /\ ObservationPlaceInv'
      BY <1>5, <2>2 DEF Watched!Publish, Watched!memory, Watched!disk, ObservationPlaceInv,
         ObservationEventInv, ObservationReached
    <3>5. QED
      BY <3>2, <3>3, <3>4
  <2>3. QED
    BY <1>5, <2>1, <2>2 DEF Watched!Publish
<1>6. CASE Watched!Announce
  <2>1. ObservationMemoryInv' /\ ObservationJournalInv' /\ ObservationReaderInv' /\ Len(journal) = seq
    BY <1>6, ObservationAloneKeeps DEF Watched!Announce, Watched!memory, Watched!disk,
       Watched!faults, Watched!reader, ObservationTypeInv
  <2>2. ObservationTypeInv'
    BY <1>6 DEF ObservationTypeInv, Watched!Announce, Watched!memory, Watched!disk, Watched!faults,
       Watched!reader, ObservationNames
  <2>3. ObservationEventInv' /\ ObservationPlaceInv'
    BY <1>6 DEF Watched!Announce, Watched!memory, Watched!disk, ObservationPlaceInv,
       ObservationEventInv, ObservationPublishedIsDue, ObservationReached
  <2>4. QED
    BY <2>1, <2>2, <2>3
<1>7. CASE Watched!Finish
  <2>1. ObservationMemoryInv' /\ ObservationJournalInv' /\ ObservationReaderInv' /\ Len(journal) = seq
    BY <1>7, ObservationAloneKeeps DEF Watched!Finish, Watched!memory, Watched!disk, Watched!faults,
       Watched!reader, ObservationTypeInv
  <2>2. ObservationTypeInv'
    BY <1>7 DEF ObservationTypeInv, Watched!Finish, Watched!memory, Watched!disk, Watched!faults,
       Watched!reader, ObservationNames, ObservationStatuses
  <2>3. ObservationEventInv' /\ ObservationPlaceInv'
    BY <1>7 DEF Watched!Finish, Watched!memory, Watched!disk, ObservationPlaceInv,
       ObservationEventInv, ObservationFinishedIsDue, ObservationReached
  <2>4. QED
    BY <2>1, <2>2, <2>3
<1>8. CASE Watched!Stop
  <2>1. ObservationMemoryInv' /\ ObservationJournalInv' /\ ObservationReaderInv' /\ Len(journal) = seq
    BY <1>8, ObservationAloneKeeps DEF Watched!Stop, Watched!memory, Watched!disk, Watched!faults,
       Watched!reader, ObservationTypeInv
  <2>2. ObservationTypeInv'
    BY <1>8 DEF ObservationTypeInv, Watched!Stop, Watched!memory, Watched!disk, Watched!faults,
       Watched!reader
  <2>3. ObservationEventInv' /\ ObservationPlaceInv'
    BY <1>8 DEF Watched!Stop, Watched!memory, Watched!disk, ObservationPlaceInv,
       ObservationEventInv, ObservationBad
  <2>4. QED
    BY <2>1, <2>2, <2>3
<1>9. CASE Watched!Finalize
  <2>1. CASE Watched!Raise("failed")
    BY <1>9, <2>1, ObservationHandleKeeps DEF Watched!Finalize, Watched!Raise, Watched!memory,
       Watched!faults, Watched!reader, ObservationBad
  <2>2. CASE Watched!AppendThen(Watched!Event("outcome", 0, execution), "return") /\ UNCHANGED <<scope, execution, falls, lock, ended>>
    <3>1. ObservationMemoryInv' /\ ObservationJournalInv' /\ ObservationReaderInv' /\ Len(journal) = seq
      BY <1>9, <2>2, ObservationAloneKeeps DEF Watched!Finalize, Watched!memory, Watched!disk,
         Watched!faults, Watched!reader, ObservationTypeInv
    <3>2. ObservationTypeInv'
      BY <1>9, <2>2 DEF ObservationTypeInv, Watched!Finalize, Watched!memory, Watched!faults,
         Watched!reader, ObservationNames
    <3>3. ObservationEventInv' /\ ObservationPlaceInv'
      BY <1>9, <2>2 DEF Watched!Finalize, Watched!memory, Watched!disk, ObservationPlaceInv,
         ObservationEventInv, ObservationVerdictIsDue, ObservationAllDone
    <3>4. QED
      BY <3>1, <3>2, <3>3
  <2>3. QED
    BY <1>9, <2>1, <2>2 DEF Watched!Finalize
<1>10. CASE Watched!Return
  <2>1. ObservationTypeInv'
    BY <1>10 DEF ObservationTypeInv, Watched!Return, Watched!memory, Watched!faults, Watched!reader,
       Watched!NoneIsNew
  <2>2. ObservationMemoryInv' /\ ObservationEventInv' /\ ObservationPlaceInv'
    BY <1>10 DEF ObservationMemoryInv, ObservationEventInv, ObservationPlaceInv, Watched!Return,
       Watched!memory
  <2>3. Len(journal) = seq
    BY <1>10 DEF ObservationMemoryInv, Watched!Return, ObservationTypeInv
  <2>4. ObservationJournalInv'
    BY <1>10, <2>3 DEF ObservationJournalInv, Watched!JournalTellsTheRun, Watched!RaisedIsRecorded,
       Watched!Final, ObservationPlaceInv, Watched!Return, Watched!memory
  <2>5. ObservationReaderInv'
    BY <1>10 DEF ObservationReaderInv, Watched!WatchEndsComplete, Watched!Retained, Watched!Final,
       Watched!Return, Watched!memory, Watched!reader
  <2>6. QED
    BY <2>1, <2>2, <2>4, <2>5
<1>11. CASE Watched!Interrupt
  BY <1>11, ObservationHandleKeeps DEF Watched!Interrupt, Watched!Raise, Watched!memory,
     Watched!reader, ObservationBad
<1>12. CASE Watched!Kill
  <2>1. ObservationTypeInv'
    BY <1>12 DEF ObservationTypeInv, Watched!Kill, Watched!memory, Watched!faults, Watched!reader,
       Watched!NoneIsNew
  <2>2. ObservationMemoryInv' /\ ObservationEventInv' /\ ObservationPlaceInv'
    BY <1>12 DEF ObservationMemoryInv, ObservationEventInv, ObservationPlaceInv, Watched!Kill,
       Watched!memory
  <2>3. ObservationJournalInv'
    BY <1>12 DEF ObservationJournalInv, Watched!JournalTellsTheRun, Watched!RaisedIsRecorded,
       Watched!Final, Watched!Kill, Watched!memory
  <2>4. ObservationReaderInv'
    BY <1>12 DEF ObservationReaderInv, Watched!WatchEndsComplete, Watched!Retained, Watched!Final,
       Watched!Kill, Watched!memory, Watched!reader
  <2>5. QED
    BY <2>1, <2>2, <2>3, <2>4
<1>13. CASE UNCHANGED Watched!vars
  <2>1. ObservationTypeInv' /\ ObservationMemoryInv' /\ ObservationPlaceInv'
    BY <1>13 DEF Watched!vars, ObservationTypeInv, ObservationMemoryInv, ObservationPlaceInv,
       ObservationEarly, ObservationReached, ObservationAllDone
  <2>2. ObservationEventInv'
    BY <1>13 DEF Watched!vars, ObservationEventInv, ObservationAllocatedIsDue,
       ObservationPlannedIsDue, ObservationPreparedIsDue, ObservationStartedIsDue,
       ObservationPublishedIsDue, ObservationFinishedIsDue, ObservationFailedIsDue,
       ObservationVerdictIsDue, ObservationOutcomeIsDue, ObservationEarly, ObservationReached,
       ObservationAllDone
  <2>3. ObservationJournalInv' /\ ObservationReaderInv'
    BY <1>13 DEF Watched!vars, ObservationJournalInv, Watched!JournalTellsTheRun,
       Watched!RaisedIsRecorded, Watched!Final, ObservationReaderInv, Watched!WatchEndsComplete,
       Watched!Retained, Watched!Final
  <2>4. QED
    BY <2>1, <2>2, <2>3
<1>14. QED
  BY <1>1, <1>2, <1>3, <1>4, <1>5, <1>6, <1>7, <1>8, <1>9, <1>10, <1>11, <1>12, <1>13,
     ObservationPromoteKeeps, ObservationAdoptKeeps, ObservationReaderKeeps DEF Watched!Next

(* The invariant has what is said of the watch, the journal and the        *)
(* exceptions.                                                             *)
LEMMA ObservationHolds ==
  ASSUME ObservationInv
  PROVE  Watched!WatchEndsComplete /\ Watched!JournalTellsTheRun /\ Watched!RaisedIsRecorded
BY DEF ObservationInv, ObservationReaderInv, ObservationJournalInv

=============================================================================
