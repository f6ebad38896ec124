-------------------------- MODULE OperationsProofs --------------------------
(***************************************************************************)
(* Proofs about the operations that a command runs on their own, for any   *)
(* signals, publishers, evidence, entries, plan length, scopes, policies,  *)
(* technologies, widths and depths.  Each operation has a part: its        *)
(* inductive invariant, that the invariant holds at the start and is kept  *)
(* by every step, and what it implies.  The last part puts them together.  *)
(***************************************************************************)
EXTENDS MCOperations, FiniteSetTheorems, SequenceTheorems, TLAPS
-----------------------------------------------------------------------------
(* Finalization.  A signal was delivered where a check still followed it.  *)
HeardEarly == \E k \in DOMAIN heard : heard[k] = "early"

(* What a completed status rests on.                                       *)
CompletionHolds ==
  rec.status = "completed" =>
    /\ rec.results /\ ~HeardEarly
    /\ accept <=> rec.acceptance = "pass"
    /\ accept => check.status = "completed" /\ check.passed

(* Of the receipts: the one in memory says running until it is closed, and *)
(* no verdict is in it when it is saved.                                   *)
ReceiptsInv ==
  /\ F!TypeOK
  /\ F!Decodes(disk) /\ (disk.ended => disk.external # "running")
  /\ pc \notin {"close", "decode", "returned", "raised"} =>
       rec.status = "running" /\ ~rec.ended /\ rec.exit = None
  /\ pc \notin {"last", "caught", "close", "decode", "returned", "raised"} =>
       rec.acceptance = "not_evaluated"
  /\ pc = "close" =>
       /\ rec.status # "running" /\ ~rec.ended /\ rec.exit = None
       /\ rec.external # "running"
       /\ rec.acceptance = "pass" => accept /\ rec.status = "completed" /\ rec.external = "completed"
       /\ CompletionHolds
  /\ pc \in {"decode", "returned"} => F!Decodes(rec) /\ CompletionHolds

(* Of the way there: what has been checked by then.                        *)
EvidenceInv ==
  /\ pc \in {"external", "postcheck", "postTail", "postClose", "posted", "acceptance", "judge"} => accept
  /\ pc \in {"select", "hash", "validate"} => rec.external = "not_evaluated"
  /\ pc \in {"postClose", "posted"} => check.status \in {"completed", "failed", "interrupted"}
  /\ pc \in {"verify", "acceptance", "judge", "last"} =>
       rec.external # "running" /\ (accept => rec.external = check.status)
  /\ pc \in {"acceptance", "judge", "last"} => rec.results
  /\ pc = "last" =>
       /\ accept <=> rec.acceptance # "not_evaluated"
       /\ rec.acceptance = "pass" => check.status = "completed" /\ check.passed

(* Of the signals: who remembers an early one, wherever the run is.        *)
SignalsInv ==
  /\ heard \in Seq({"early", "late"})
  /\ HeardEarly =>
       /\ pc \in {"select", "hash", "validate", "external", "verify", "acceptance", "judge", "last"} => sig # None
       /\ pc = "postcheck" => inner # None
       /\ pc # "postTail"
       /\ pc = "postClose" => check.status = "interrupted"
       /\ pc = "posted" => sig # None \/ check.status = "interrupted"
  /\ pc = "postcheck" => sig = None

FinalizationInv == ReceiptsInv /\ EvidenceInv /\ SignalsInv

LEMMA FinalizationStarts ==
  ASSUME F!Init
  PROVE  FinalizationInv
<1>1. heard = <<>> /\ ~HeardEarly /\ heard \in Seq({"early", "late"})
  BY DEF F!Init, HeardEarly
<1>2. ReceiptsInv
  BY NoneIsNew, BoundsAreNumbers DEF F!Init, F!Running, F!TypeOK, F!Receipts, F!Decodes, ReceiptsInv
<1>3. EvidenceInv
  BY DEF F!Init, F!Running, EvidenceInv
<1>4. QED
  BY <1>1, <1>2, <1>3 DEF F!Init, SignalsInv, FinalizationInv

(* A signal is remembered by the scope it was delivered in.                *)
LEMMA DeliveryKeeps ==
  ASSUME FinalizationInv, F!Deliver
  PROVE  FinalizationInv'
<1> DEFINE when == IF F!Late THEN "late" ELSE "early"
<1>1. /\ heard' = Append(heard, when) /\ heard \in Seq({"early", "late"})
      /\ UNCHANGED <<pc, accept, rec, disk, cause, check, hashed, exec>> /\ ~F!Over
  BY DEF F!Deliver, F!evidence, FinalizationInv, SignalsInv
<1>2. heard' \in Seq({"early", "late"}) /\ (HeardEarly' => HeardEarly \/ ~F!Late)
  BY <1>1 DEF HeardEarly
<1>3. PICK n \in Signals : IF F!InPostcheck THEN inner' = F!First(inner, n) /\ UNCHANGED sig
                                           ELSE sig' = F!First(sig, n) /\ UNCHANGED inner
  BY DEF F!Deliver
<1>4. n # None /\ F!First(inner, n) # None /\ F!First(sig, n) # None
      /\ {sig, inner} \subseteq Signals \cup {None}
      /\ {F!First(inner, n), F!First(sig, n)} \subseteq Signals \cup {None}
  BY SignalsAreNamed DEF F!First, FinalizationInv, ReceiptsInv, F!TypeOK
<1>5. ReceiptsInv'
  <2>1. F!TypeOK'
    BY <1>1, <1>3, <1>4 DEF FinalizationInv, ReceiptsInv, F!TypeOK
  <2>2. pc \in {"close", "decode", "returned"} => HeardEarly' = HeardEarly
    <3>1. HeardEarly => HeardEarly'
      BY <1>1 DEF HeardEarly
    <3>2. QED
      BY <1>1, <1>2, <3>1 DEF F!Late, F!Over, HeardEarly
  <2>3. QED
    BY <1>1, <2>1, <2>2 DEF FinalizationInv, ReceiptsInv, CompletionHolds, F!Decodes
<1>6. EvidenceInv'
  BY <1>1 DEF FinalizationInv, EvidenceInv
<1>7. SignalsInv'
  BY <1>1, <1>2, <1>3, <1>4 DEF FinalizationInv, SignalsInv, F!Late, F!InPostcheck
<1>8. QED
  BY <1>5, <1>6, <1>7 DEF FinalizationInv

(* The finalization's own steps, one at a time.                            *)
LEMMA FinalizationStep ==
  ASSUME FinalizationInv, F!Next, ~F!Deliver
  PROVE  FinalizationInv'
<1> USE DEF FinalizationInv
<1>1. CASE F!Replace
  <2>1. HeardEarly' = HeardEarly
    BY <1>1 DEF F!Replace, F!At, F!env, HeardEarly
  <2>2. ReceiptsInv'
    BY <1>1, <2>1, NoneIsNew, BoundsAreNumbers DEF ReceiptsInv, EvidenceInv, SignalsInv, CompletionHolds, F!TypeOK, F!Receipts, F!Decodes, F!Replace, F!At, F!env, F!evidence
  <2>3. EvidenceInv'
    BY <1>1 DEF ReceiptsInv, EvidenceInv, F!TypeOK, F!Receipts, F!Replace, F!At, F!env, F!evidence
  <2>4. SignalsInv'
    BY <1>1, <2>1 DEF SignalsInv, F!Replace, F!At, F!env, F!evidence
  <2>5. QED
    BY <2>2, <2>3, <2>4
<1>2. CASE F!Raise
  <2>1. HeardEarly' = HeardEarly
    BY <1>2 DEF F!Raise, F!At, F!env, HeardEarly
  <2>2. ReceiptsInv'
    BY <1>2, <2>1, NoneIsNew, BoundsAreNumbers DEF ReceiptsInv, EvidenceInv, SignalsInv, CompletionHolds, F!TypeOK, F!Receipts, F!Decodes, F!Raise, F!At, F!env, F!evidence, F!Over
  <2>3. EvidenceInv'
    BY <1>2 DEF ReceiptsInv, EvidenceInv, F!TypeOK, F!Receipts, F!Raise, F!At, F!env, F!evidence, F!Over
  <2>4. SignalsInv'
    BY <1>2, <2>1 DEF SignalsInv, F!Raise, F!At, F!env, F!evidence, F!Over
  <2>5. QED
    BY <2>2, <2>3, <2>4
<1>3. CASE F!Select
  <2>1. HeardEarly' = HeardEarly
    BY <1>3 DEF F!Select, F!At, F!env, HeardEarly
  <2>2. ReceiptsInv'
    BY <1>3, <2>1, NoneIsNew, BoundsAreNumbers DEF ReceiptsInv, EvidenceInv, SignalsInv, CompletionHolds, F!TypeOK, F!Receipts, F!Decodes, F!Select, F!At, F!env, F!evidence, F!Unsignalled
  <2>3. EvidenceInv'
    BY <1>3 DEF ReceiptsInv, EvidenceInv, F!TypeOK, F!Receipts, F!Select, F!At, F!env, F!evidence, F!Unsignalled
  <2>4. SignalsInv'
    BY <1>3, <2>1 DEF SignalsInv, F!Select, F!At, F!env, F!evidence, F!Unsignalled
  <2>5. QED
    BY <2>2, <2>3, <2>4
<1>4. CASE F!HashExecution
  <2>1. HeardEarly' = HeardEarly
    BY <1>4 DEF F!HashExecution, F!At, F!env, HeardEarly
  <2>2. ReceiptsInv'
    BY <1>4, <2>1, NoneIsNew, BoundsAreNumbers DEF ReceiptsInv, EvidenceInv, SignalsInv, CompletionHolds, F!TypeOK, F!Receipts, F!Decodes, F!HashExecution, F!At, F!env, F!evidence
  <2>3. EvidenceInv'
    BY <1>4 DEF ReceiptsInv, EvidenceInv, F!TypeOK, F!Receipts, F!HashExecution, F!At, F!env, F!evidence
  <2>4. SignalsInv'
    BY <1>4, <2>1 DEF SignalsInv, F!HashExecution, F!At, F!env, F!evidence
  <2>5. QED
    BY <2>2, <2>3, <2>4
<1>5. CASE F!ValidateAndMap
  <2>1. HeardEarly' = HeardEarly
    BY <1>5 DEF F!ValidateAndMap, F!At, F!env, HeardEarly
  <2>2. ReceiptsInv'
    BY <1>5, <2>1, NoneIsNew, BoundsAreNumbers DEF ReceiptsInv, EvidenceInv, SignalsInv, CompletionHolds, F!TypeOK, F!Receipts, F!Decodes, F!ValidateAndMap, F!At, F!env, F!evidence, F!Unsignalled, F!Save
  <2>3. EvidenceInv'
    BY <1>5 DEF ReceiptsInv, EvidenceInv, F!TypeOK, F!Receipts, F!ValidateAndMap, F!At, F!env, F!evidence, F!Unsignalled, F!Save
  <2>4. SignalsInv'
    BY <1>5, <2>1 DEF SignalsInv, F!ValidateAndMap, F!At, F!env, F!evidence, F!Unsignalled, F!Save
  <2>5. QED
    BY <2>2, <2>3, <2>4
<1>6. CASE F!EnterPostcheck
  <2>1. HeardEarly' = HeardEarly
    BY <1>6 DEF F!EnterPostcheck, F!At, F!env, HeardEarly
  <2>2. ReceiptsInv'
    <3>1. rec \in F!Receipts /\ cause \in {"failed", "interrupted"}
      BY DEF ReceiptsInv, F!TypeOK
    <3>2. /\ rec' \in F!Receipts
          /\ rec'.status = rec.status /\ rec'.ended = rec.ended /\ rec'.exit = rec.exit
          /\ rec'.acceptance = rec.acceptance
          /\ UNCHANGED <<accept, check, hashed, exec, cause, sig, inner>>
      BY <1>6, <3>1 DEF F!EnterPostcheck, F!Receipts, F!At, F!env, F!evidence, F!Unsignalled, F!Save
    <3>3. QED
      <4>1. pc = "external" /\ ((disk' = rec' /\ pc' = "postcheck") \/ (disk' = disk /\ pc' = "caught"))
        BY <1>6 DEF F!EnterPostcheck, F!At, F!Save
      <4>2. F!TypeOK'
        BY <3>1, <3>2, <4>1 DEF ReceiptsInv, F!TypeOK
      <4>3. F!Decodes(disk)' /\ ~(disk'.ended /\ disk'.external = "running")
        BY <3>1, <3>2, <4>1 DEF ReceiptsInv, F!Decodes
      <4>4. QED
        BY <3>2, <4>1, <4>2, <4>3 DEF ReceiptsInv
  <2>3. EvidenceInv'
    BY <1>6 DEF ReceiptsInv, EvidenceInv, F!TypeOK, F!Receipts, F!EnterPostcheck, F!At, F!env, F!evidence, F!Unsignalled, F!Save
  <2>4. SignalsInv'
    BY <1>6, <2>1 DEF SignalsInv, F!EnterPostcheck, F!At, F!env, F!evidence, F!Unsignalled, F!Save
  <2>5. QED
    BY <2>2, <2>3, <2>4
<1>7. CASE F!LastLaunch
  <2>1. HeardEarly' = HeardEarly
    BY <1>7 DEF F!LastLaunch, F!At, F!env, HeardEarly
  <2>2. ReceiptsInv'
    BY <1>7, <2>1, NoneIsNew, BoundsAreNumbers DEF ReceiptsInv, EvidenceInv, SignalsInv, CompletionHolds, F!TypeOK, F!Receipts, F!Decodes, F!LastLaunch, F!At, F!env, F!evidence
  <2>3. EvidenceInv'
    BY <1>7 DEF ReceiptsInv, EvidenceInv, F!TypeOK, F!Receipts, F!LastLaunch, F!At, F!env, F!evidence
  <2>4. SignalsInv'
    BY <1>7, <2>1 DEF SignalsInv, F!LastLaunch, F!At, F!env, F!evidence
  <2>5. QED
    BY <2>2, <2>3, <2>4
<1>8. CASE F!BreakPostcheck
  <2>1. HeardEarly' = HeardEarly
    BY <1>8 DEF F!BreakPostcheck, F!At, F!env, HeardEarly
  <2>2. ReceiptsInv'
    BY <1>8, <2>1, NoneIsNew, BoundsAreNumbers DEF ReceiptsInv, EvidenceInv, SignalsInv, CompletionHolds, F!TypeOK, F!Receipts, F!Decodes, F!BreakPostcheck, F!At, F!env, F!evidence
  <2>3. EvidenceInv'
    BY <1>8 DEF ReceiptsInv, EvidenceInv, F!TypeOK, F!Receipts, F!BreakPostcheck, F!At, F!env, F!evidence
  <2>4. SignalsInv'
    BY <1>8, <2>1 DEF SignalsInv, F!BreakPostcheck, F!At, F!env, F!evidence
  <2>5. QED
    BY <2>2, <2>3, <2>4
<1>9. CASE F!FinishPostcheck
  <2>1. HeardEarly' = HeardEarly
    BY <1>9 DEF F!FinishPostcheck, F!At, F!env, HeardEarly
  <2>2. ReceiptsInv'
    BY <1>9, <2>1, NoneIsNew, BoundsAreNumbers DEF ReceiptsInv, EvidenceInv, SignalsInv, CompletionHolds, F!TypeOK, F!Receipts, F!Decodes, F!FinishPostcheck, F!At, F!env, F!evidence
  <2>3. EvidenceInv'
    BY <1>9 DEF ReceiptsInv, EvidenceInv, F!TypeOK, F!Receipts, F!FinishPostcheck, F!At, F!env, F!evidence
  <2>4. SignalsInv'
    BY <1>9, <2>1 DEF SignalsInv, F!FinishPostcheck, F!At, F!env, F!evidence
  <2>5. QED
    BY <2>2, <2>3, <2>4
<1>10. CASE F!ClosePostcheck
  <2>1. HeardEarly' = HeardEarly
    BY <1>10 DEF F!ClosePostcheck, F!At, F!env, HeardEarly
  <2>2. ReceiptsInv'
    BY <1>10, <2>1, NoneIsNew, BoundsAreNumbers DEF ReceiptsInv, EvidenceInv, SignalsInv, CompletionHolds, F!TypeOK, F!Receipts, F!Decodes, F!ClosePostcheck, F!At, F!env, F!evidence
  <2>3. EvidenceInv'
    BY <1>10 DEF ReceiptsInv, EvidenceInv, F!TypeOK, F!Receipts, F!ClosePostcheck, F!At, F!env, F!evidence
  <2>4. SignalsInv'
    BY <1>10, <2>1 DEF SignalsInv, F!ClosePostcheck, F!At, F!env, F!evidence
  <2>5. QED
    BY <2>2, <2>3, <2>4
<1>11. CASE F!TakePostcheck
  <2>1. HeardEarly' = HeardEarly
    BY <1>11 DEF F!TakePostcheck, F!At, F!env, HeardEarly
  <2>2. ReceiptsInv'
    BY <1>11, <2>1, NoneIsNew, BoundsAreNumbers DEF ReceiptsInv, EvidenceInv, SignalsInv, CompletionHolds, F!TypeOK, F!Receipts, F!Decodes, F!TakePostcheck, F!At, F!env, F!evidence, F!Save, F!AfterPostcheck
  <2>3. EvidenceInv'
    BY <1>11 DEF ReceiptsInv, EvidenceInv, F!TypeOK, F!Receipts, F!TakePostcheck, F!At, F!env, F!evidence, F!Save, F!AfterPostcheck
  <2>4. SignalsInv'
    BY <1>11, <2>1 DEF SignalsInv, F!TakePostcheck, F!At, F!env, F!evidence, F!Save, F!AfterPostcheck
  <2>5. QED
    BY <2>2, <2>3, <2>4
<1>12. CASE F!PostcheckInterrupted
  <2>1. HeardEarly' = HeardEarly
    BY <1>12 DEF F!PostcheckInterrupted, F!At, F!env, HeardEarly
  <2>2. ReceiptsInv'
    BY <1>12, <2>1, NoneIsNew, BoundsAreNumbers DEF ReceiptsInv, EvidenceInv, SignalsInv, CompletionHolds, F!TypeOK, F!Receipts, F!Decodes, F!PostcheckInterrupted, F!At, F!env, F!evidence
  <2>3. EvidenceInv'
    BY <1>12 DEF ReceiptsInv, EvidenceInv, F!TypeOK, F!Receipts, F!PostcheckInterrupted, F!At, F!env, F!evidence
  <2>4. SignalsInv'
    BY <1>12, <2>1 DEF SignalsInv, F!PostcheckInterrupted, F!At, F!env, F!evidence
  <2>5. QED
    BY <2>2, <2>3, <2>4
<1>13. CASE F!VerifyUnchanged
  <2>1. HeardEarly' = HeardEarly
    BY <1>13 DEF F!VerifyUnchanged, F!At, F!env, HeardEarly
  <2>2. ReceiptsInv'
    <3>1. rec \in F!Receipts /\ cause \in {"failed", "interrupted"}
      BY DEF ReceiptsInv, F!TypeOK
    <3>2. /\ rec' \in F!Receipts
          /\ rec'.status = rec.status /\ rec'.ended = rec.ended /\ rec'.exit = rec.exit
          /\ rec'.acceptance = rec.acceptance
          /\ UNCHANGED <<accept, disk, check, hashed, exec, cause, sig, inner>>
      BY <1>13, <3>1 DEF F!VerifyUnchanged, F!Receipts, F!At, F!env, F!evidence, F!Unsignalled
    <3>3. QED
      BY <1>13, <2>1, <3>1, <3>2, NoneIsNew, BoundsAreNumbers DEF ReceiptsInv, EvidenceInv, CompletionHolds, F!TypeOK, F!Decodes, F!VerifyUnchanged, F!At, F!Unsignalled
  <2>3. EvidenceInv'
    BY <1>13 DEF ReceiptsInv, EvidenceInv, F!TypeOK, F!Receipts, F!VerifyUnchanged, F!At, F!env, F!evidence, F!Unsignalled
  <2>4. SignalsInv'
    BY <1>13, <2>1 DEF SignalsInv, F!VerifyUnchanged, F!At, F!env, F!evidence, F!Unsignalled
  <2>5. QED
    BY <2>2, <2>3, <2>4
<1>14. CASE F!EnterAcceptance
  <2>1. HeardEarly' = HeardEarly
    BY <1>14 DEF F!EnterAcceptance, F!At, F!env, HeardEarly
  <2>2. ReceiptsInv'
    BY <1>14, <2>1, NoneIsNew, BoundsAreNumbers DEF ReceiptsInv, EvidenceInv, SignalsInv, CompletionHolds, F!TypeOK, F!Receipts, F!Decodes, F!EnterAcceptance, F!At, F!env, F!evidence, F!Save
  <2>3. EvidenceInv'
    BY <1>14 DEF ReceiptsInv, EvidenceInv, F!TypeOK, F!Receipts, F!EnterAcceptance, F!At, F!env, F!evidence, F!Save
  <2>4. SignalsInv'
    BY <1>14, <2>1 DEF SignalsInv, F!EnterAcceptance, F!At, F!env, F!evidence, F!Save
  <2>5. QED
    BY <2>2, <2>3, <2>4
<1>15. CASE F!Judge
  <2>1. HeardEarly' = HeardEarly
    BY <1>15 DEF F!Judge, F!At, F!env, HeardEarly
  <2>2. ReceiptsInv'
    BY <1>15, <2>1, NoneIsNew, BoundsAreNumbers DEF ReceiptsInv, EvidenceInv, SignalsInv, CompletionHolds, F!TypeOK, F!Receipts, F!Decodes, F!Judge, F!At, F!env, F!evidence, F!Unsignalled, F!Verdicts
  <2>3. EvidenceInv'
    BY <1>15 DEF ReceiptsInv, EvidenceInv, F!TypeOK, F!Receipts, F!Judge, F!At, F!env, F!evidence, F!Unsignalled, F!Verdicts
  <2>4. SignalsInv'
    BY <1>15, <2>1 DEF SignalsInv, F!Judge, F!At, F!env, F!evidence, F!Unsignalled, F!Verdicts
  <2>5. QED
    BY <2>2, <2>3, <2>4
<1>16. CASE F!LastCheck
  <2>1. HeardEarly' = HeardEarly
    BY <1>16 DEF F!LastCheck, F!At, F!env, HeardEarly
  <2>2. ReceiptsInv'
    BY <1>16, <2>1, NoneIsNew, BoundsAreNumbers DEF ReceiptsInv, EvidenceInv, SignalsInv, CompletionHolds, F!TypeOK, F!Receipts, F!Decodes, F!LastCheck, F!At, F!env, F!evidence, F!LastLook
  <2>3. EvidenceInv'
    BY <1>16 DEF ReceiptsInv, EvidenceInv, F!TypeOK, F!Receipts, F!LastCheck, F!At, F!env, F!evidence, F!LastLook
  <2>4. SignalsInv'
    BY <1>16, <2>1 DEF SignalsInv, F!LastCheck, F!At, F!env, F!evidence, F!LastLook
  <2>5. QED
    BY <2>2, <2>3, <2>4
<1>17. CASE F!Catch
  <2>1. HeardEarly' = HeardEarly
    BY <1>17 DEF F!Catch, F!At, F!env, HeardEarly
  <2>2. ReceiptsInv'
    <3>1. rec \in F!Receipts /\ cause \in {"failed", "interrupted"}
      BY DEF ReceiptsInv, F!TypeOK
    <3>2. /\ rec' \in F!Receipts
          /\ rec'.status = (IF sig # None THEN "interrupted" ELSE cause)
          /\ rec'.ended = rec.ended /\ rec'.exit = rec.exit
          /\ rec'.acceptance # "pass" /\ rec'.external # "running"
          /\ UNCHANGED <<accept, disk, check, hashed, exec, cause, sig, inner>>
      <4> DEFINE status_ == IF sig # None THEN "interrupted" ELSE cause
                 acceptance_ == F!Withdrawn(rec.acceptance)
                 external_ == IF rec.external = "running" THEN status_ ELSE rec.external
      <4>1. rec' = [rec EXCEPT !.status = status_, !.acceptance = acceptance_, !.external = external_]
        BY <1>17 DEF F!Catch
      <4>2. status_ \in {"failed", "interrupted"} /\ acceptance_ \in {"not_evaluated", "fail"}
        BY <3>1 DEF F!Receipts, F!Withdrawn
      <4>3. external_ \in {"not_evaluated", "completed", "failed", "interrupted"}
        BY <3>1, <4>2 DEF F!Receipts
      <4> HIDE DEF status_, acceptance_, external_
      <4>4. rec' \in F!Receipts /\ rec'.status = status_ /\ rec'.ended = rec.ended /\ rec'.exit = rec.exit
            /\ rec'.acceptance = acceptance_ /\ rec'.external = external_
        BY <3>1, <4>1, <4>2, <4>3 DEF F!Receipts
      <4>5. QED
        BY <1>17, <4>2, <4>3, <4>4 DEF status_, F!Catch, F!At, F!env, F!evidence
    <3>3. QED
      BY <1>17, <2>1, <3>1, <3>2, NoneIsNew, BoundsAreNumbers DEF ReceiptsInv, EvidenceInv, CompletionHolds, F!TypeOK, F!Decodes, F!Catch, F!At, F!Withdrawn
  <2>3. EvidenceInv'
    BY <1>17 DEF ReceiptsInv, EvidenceInv, F!TypeOK, F!Receipts, F!Catch, F!At, F!env, F!evidence, F!Withdrawn
  <2>4. SignalsInv'
    BY <1>17, <2>1 DEF SignalsInv, F!Catch, F!At, F!env, F!evidence, F!Withdrawn
  <2>5. QED
    BY <2>2, <2>3, <2>4
<1>18. CASE F!Close
  <2>1. HeardEarly' = HeardEarly
    BY <1>18 DEF F!Close, F!At, F!env, HeardEarly
  <2>2. ReceiptsInv'
    <3>1. rec \in F!Receipts /\ cause \in {"failed", "interrupted"}
      BY DEF ReceiptsInv, F!TypeOK
    <3>2. /\ rec' \in F!Receipts
          /\ rec'.status = rec.status /\ rec'.ended = TRUE /\ rec'.exit = F!ExitCode(rec.status)
          /\ rec'.acceptance = rec.acceptance /\ rec'.external = rec.external /\ rec'.results = rec.results
          /\ UNCHANGED <<accept, check, hashed, exec, cause, sig, inner>>
      <4>1. pc = "close" /\ rec' = [rec EXCEPT !.ended = TRUE, !.exit = F!ExitCode(rec.status)]
        BY <1>18 DEF F!Close, F!At
      <4>2. F!ExitCode(rec.status) \in {0, 1, 130}
        <5>1. rec.status \in {"completed", "failed", "interrupted"}
          BY <3>1, <4>1 DEF F!Receipts, ReceiptsInv
        <5>2. QED
          BY <5>1 DEF F!ExitCode
      <4>3. UNCHANGED <<accept, check, hashed, exec, cause, sig, inner>>
        BY <1>18 DEF F!Close, F!At, F!env, F!evidence
      <4>4. QED
        BY <3>1, <4>1, <4>2, <4>3 DEF F!Receipts
    <3>3. F!Decodes(rec') /\ CompletionHolds'
      BY <1>18, <2>1, <3>1, <3>2, NoneIsNew DEF F!Close, F!At, ReceiptsInv, CompletionHolds, F!Decodes, F!ExitCode, F!Receipts
    <3>4. \/ disk' = rec' /\ pc' = "decode"
          \/ disk' = disk /\ pc' = "raised"
      BY <1>18 DEF F!Close
    <3>5. F!TypeOK'
      BY <3>1, <3>2, <3>4, BoundsAreNumbers DEF ReceiptsInv, F!TypeOK
    <3>6. F!Decodes(disk)' /\ (disk'.ended => disk'.external # "running")
      <4>1. CASE disk' = rec'
        BY <1>18, <3>2, <3>3, <4>1 DEF F!Decodes, ReceiptsInv, F!Close, F!At
      <4>2. CASE disk' = disk
        BY <3>2, <4>2 DEF F!Decodes, ReceiptsInv
      <4>3. QED
        BY <3>4, <4>1, <4>2
    <3>7. F!Decodes(rec)'
      BY <3>2, <3>3 DEF F!Decodes
    <3>8. QED
      BY <3>3, <3>4, <3>5, <3>6, <3>7 DEF ReceiptsInv
  <2>3. EvidenceInv'
    BY <1>18 DEF ReceiptsInv, EvidenceInv, F!TypeOK, F!Receipts, F!Close, F!At, F!env, F!evidence, F!ExitCode
  <2>4. SignalsInv'
    BY <1>18, <2>1 DEF SignalsInv, F!Close, F!At, F!env, F!evidence, F!ExitCode
  <2>5. QED
    BY <2>2, <2>3, <2>4
<1>19. CASE F!Return
  <2>1. HeardEarly' = HeardEarly
    BY <1>19 DEF F!Return, F!At, F!env, HeardEarly
  <2>2. ReceiptsInv'
    BY <1>19, <2>1, NoneIsNew, BoundsAreNumbers DEF ReceiptsInv, EvidenceInv, SignalsInv, CompletionHolds, F!TypeOK, F!Receipts, F!Decodes, F!Return, F!At, F!env, F!evidence
  <2>3. EvidenceInv'
    BY <1>19 DEF ReceiptsInv, EvidenceInv, F!TypeOK, F!Receipts, F!Return, F!At, F!env, F!evidence
  <2>4. SignalsInv'
    BY <1>19, <2>1 DEF SignalsInv, F!Return, F!At, F!env, F!evidence
  <2>5. QED
    BY <2>2, <2>3, <2>4
<1>20. QED
  BY <1>1, <1>2, <1>3, <1>4, <1>5, <1>6, <1>7, <1>8, <1>9, <1>10, <1>11, <1>12, <1>13, <1>14, <1>15, <1>16, <1>17, <1>18, <1>19 DEF F!Next

LEMMA FinalizationKept ==
  ASSUME FinalizationInv, [F!Next]_(F!vars)
  PROVE  FinalizationInv'
<1>1. CASE UNCHANGED F!vars
  <2>1. HeardEarly' = HeardEarly
    BY <1>1 DEF F!vars, HeardEarly
  <2>2. QED
    BY <1>1, <2>1 DEF F!vars, FinalizationInv, ReceiptsInv, EvidenceInv, SignalsInv, CompletionHolds, F!TypeOK,
                      F!Decodes
<1>2. QED
  BY <1>1, DeliveryKeeps, FinalizationStep

LEMMA FinalizationIsHonest ==
  ASSUME FinalizationInv
  PROVE  F!ReceiptsDecode /\ F!CompletionIsEarned
<1>1. F!ReceiptsDecode
  BY DEF FinalizationInv, ReceiptsInv, F!ReceiptsDecode
<1>2. ~HeardEarly => \A k \in DOMAIN heard : heard[k] = "late"
  <2>1. \A k \in DOMAIN heard : heard[k] \in {"early", "late"}
    BY DEF FinalizationInv, SignalsInv
  <2>2. QED
    BY <2>1 DEF HeardEarly
<1>3. F!CompletionIsEarned
  BY <1>2 DEF FinalizationInv, ReceiptsInv, CompletionHolds, F!CompletionIsEarned
<1>4. QED
  BY <1>1, <1>3

-----------------------------------------------------------------------------
(* Preparation.  What each place knows of the records.                     *)
BeforeCutoff == {"prepare", "publish", "retain", "finish"}

RecordsInv ==
  /\ P!TypeOK
  /\ pc \in BeforeCutoff =>
       /\ rec.status = "running" /\ ~rec.ended /\ rec.exit = None
       /\ ~rec.snapshot /\ rec.diagnostic = None /\ rec.phase # "finished"
  /\ pc \in BeforeCutoff \cup {"cutoff", "look", "commit"} => disk.status = "running"
  /\ pc = "finish" => snapshot
  /\ pc \in {"cutoff", "look"} =>
       ~rec.ended /\ rec.status # "running" /\ P!Decodes([rec EXCEPT !.ended = TRUE])
  /\ pc = "commit" => P!Decodes(rec)
  /\ rec.status = "completed" => snapshot
  /\ disk.status = "completed" => disk = rec

(* And who still holds a signal that was sent.                             *)
HoldersInv ==
  /\ committing <=> pc \notin BeforeCutoff \cup {"cutoff", "look"}
  /\ committing /\ sig # None => rec.status = "interrupted"
  /\ pc \in {"look", "commit", "readback", "returned", "raised", "restored", "requeued"} => masked
  /\ \A n \in sends : \/ sig # None
                      \/ n \in pending \cup recorded \cup delivered
                      \/ n \in deferred /\ pc \notin {"requeued", "ended"}
  /\ pc = "ended" => pending \subseteq callerMask

PreparationInv == RecordsInv /\ HoldersInv

LEMMA PreparationStarts ==
  ASSUME P!Init
  PROVE  PreparationInv
<1>1. P!TypeOK
  <2>1. P!Running \in P!Records
    BY DEF P!Running, P!Records, P!Phases
  <2>2. QED
    BY <2>1 DEF P!Init, P!TypeOK
<1>2. RecordsInv
  BY <1>1 DEF P!Init, P!Running, RecordsInv, BeforeCutoff
<1>3. HoldersInv
  BY DEF P!Init, HoldersInv, BeforeCutoff
<1>4. QED
  BY <1>2, <1>3 DEF PreparationInv

(* What a failure makes of a record is what the strict reader accepts of   *)
(* one that has ended, and an interruption where a signal was observed.    *)
LEMMA FailureDecodes ==
  ASSUME NEW r \in P!Records, ~r.ended, NEW phase \in P!Phases, NEW cancelled \in BOOLEAN,
         NEW code \in {"preparation_rejected", "preparation_exception", "interrupted"}, NEW detail \in BOOLEAN,
         code = "preparation_rejected" <=> detail, code = "interrupted" => cancelled
  PROVE  LET f == P!Failure(r, phase, code, detail, cancelled)
         IN  /\ f \in P!Records /\ ~f.ended
             /\ P!Decodes([f EXCEPT !.ended = TRUE])
             /\ f.status \in {"failed", "interrupted"}
             /\ cancelled \/ sig # None => f.status = "interrupted"
<1> DEFINE interrupted_ == cancelled \/ sig # None
           f_ == P!Failure(r, phase, code, detail, cancelled)
           d_ == [phase |-> phase, detail |-> detail, signal |-> interrupted_,
                  code |-> IF interrupted_ THEN "interrupted" ELSE code]
           status_ == IF interrupted_ THEN "interrupted" ELSE "failed"
           exit_ == IF interrupted_ THEN 130 ELSE 1
<1>1. /\ d_ \in P!Diagnostics /\ d_.phase = phase /\ d_.detail = detail /\ d_.signal = interrupted_
      /\ d_.code = IF interrupted_ THEN "interrupted" ELSE code
  BY DEF P!Diagnostics
<1>2. f_ = [r EXCEPT !.status = status_, !.phase = phase, !.exit = exit_, !.snapshot = FALSE, !.diagnostic = d_]
  BY DEF P!Failure, P!NoSnapshot
<1>3. /\ status_ \in {"failed", "interrupted"} /\ exit_ \in {1, 130}
      /\ status_ = "interrupted" <=> interrupted_
  OBVIOUS
<1> HIDE DEF d_, f_, status_, exit_
<1>4. /\ f_ \in P!Records
      /\ f_.status = status_ /\ f_.phase = phase /\ f_.exit = exit_ /\ f_.snapshot = FALSE
      /\ f_.diagnostic = d_ /\ f_.ended = r.ended
  BY <1>1, <1>2, <1>3 DEF P!Records
<1> DEFINE g_ == [f_ EXCEPT !.ended = TRUE]
<1>5. /\ g_.status = status_ /\ g_.phase = phase /\ g_.exit = exit_ /\ g_.snapshot = FALSE
      /\ g_.diagnostic = d_ /\ g_.ended = TRUE
  BY <1>4 DEF P!Records
<1> HIDE DEF g_
<1>6. d_ # None /\ exit_ # None /\ exit_ # 0
  BY <1>1, <1>3, NoneIsNew
<1>7. P!Decodes(g_)
  <2>1. CASE interrupted_
    BY <1>1, <1>3, <1>5, <1>6, <2>1 DEF P!Decodes
  <2>2. CASE ~interrupted_
    BY <1>1, <1>3, <1>5, <1>6, <2>2 DEF P!Decodes
  <2>3. QED
    BY <2>1, <2>2
<1>8. QED
  BY <1>3, <1>4, <1>7 DEF f_, g_

(* The steps of a preparation, and of the signals, one at a time.          *)
LEMMA PreparationStep ==
  ASSUME PreparationInv, P!Next
  PROVE  PreparationInv'
<1> USE DEF PreparationInv, BeforeCutoff
<1>1. CASE P!Send
  <2>1. RecordsInv'
    BY <1>1, NoneIsNew, SignalsAreNamed DEF RecordsInv, P!TypeOK, P!Records, P!Decodes, P!Send, P!Blocked
  <2>2. HoldersInv'
    BY <1>1, NoneIsNew, SignalsAreNamed DEF RecordsInv, HoldersInv, P!TypeOK, P!Send, P!Blocked
  <2>3. QED
    BY <2>1, <2>2
<1>2. CASE P!Dispatch
  <2>1. RecordsInv'
    BY <1>2, NoneIsNew, SignalsAreNamed DEF RecordsInv, P!TypeOK, P!Records, P!Decodes, P!Dispatch, P!OurHandlers, P!First
  <2>2. HoldersInv'
    BY <1>2, NoneIsNew, SignalsAreNamed DEF RecordsInv, HoldersInv, P!TypeOK, P!Dispatch, P!OurHandlers, P!First
  <2>3. QED
    BY <2>1, <2>2
<1>3. CASE P!OnPhase
  <2>1. RecordsInv'
    BY <1>3, NoneIsNew, SignalsAreNamed DEF RecordsInv, P!TypeOK, P!Records, P!Decodes, P!OnPhase, P!Step, P!signals, P!Saves, P!LibraryPhases, P!Phases
  <2>2. HoldersInv'
    BY <1>3, NoneIsNew, SignalsAreNamed DEF RecordsInv, HoldersInv, P!TypeOK, P!OnPhase, P!Step, P!signals, P!Saves, P!LibraryPhases, P!Phases
  <2>3. QED
    BY <2>1, <2>2
<1>4. CASE P!Prepared
  <2>1. RecordsInv'
    BY <1>4, NoneIsNew, SignalsAreNamed DEF RecordsInv, P!TypeOK, P!Records, P!Decodes, P!Prepared, P!Step, P!signals
  <2>2. HoldersInv'
    BY <1>4, NoneIsNew, SignalsAreNamed DEF RecordsInv, HoldersInv, P!TypeOK, P!Prepared, P!Step, P!signals
  <2>3. QED
    BY <2>1, <2>2
<1>5. CASE P!Rejected
  <2>1. PICK phase \in P!LibraryPhases : rec' = P!Failure(rec, phase, "preparation_rejected", TRUE, FALSE)
    BY <1>5 DEF P!Rejected
  <2>2. rec \in P!Records /\ ~rec.ended /\ phase \in P!Phases /\ pc = "prepare" /\ pc' = "cutoff"
        /\ UNCHANGED <<disk, snapshot, P!signals>>
    BY <1>5 DEF P!Rejected, P!Step, P!Phases, P!TypeOK, RecordsInv
  <2>3. /\ rec' \in P!Records /\ ~rec'.ended /\ rec'.status \in {"failed", "interrupted"}
        /\ P!Decodes([rec EXCEPT !.ended = TRUE])'
    <3> DEFINE f == P!Failure(rec, phase, "preparation_rejected", TRUE, FALSE)
    <3>1. f \in P!Records /\ ~f.ended /\ f.status \in {"failed", "interrupted"} /\ P!Decodes([f EXCEPT !.ended = TRUE])
      BY <2>2, FailureDecodes
    <3>2. rec' = f
      BY <2>1
    <3> HIDE DEF f
    <3>3. QED
      BY <3>1, <3>2 DEF P!Decodes
  <2>4. RecordsInv'
    BY <2>2, <2>3 DEF RecordsInv, P!TypeOK, P!signals
  <2>5. HoldersInv'
    BY <2>2 DEF HoldersInv, P!signals
  <2>6. QED
    BY <2>4, <2>5
<1>6. CASE P!Threw
  <2>1. pc \in BeforeCutoff /\ pc' = "cutoff" /\ UNCHANGED <<disk, snapshot, P!signals>>
    BY <1>6 DEF P!Threw, P!Step
  <2>2. PICK phase \in {rec.phase} \cup (IF pc = "publish" THEN {"publishing"} ELSE {}) :
          rec' = P!Failure(rec, phase, "preparation_exception", FALSE, FALSE)
    BY <1>6 DEF P!Threw
  <2>3. rec \in P!Records /\ ~rec.ended /\ phase \in P!Phases
    BY <2>1 DEF P!Phases, P!Records, P!TypeOK, RecordsInv
  <2>4. /\ rec' \in P!Records /\ ~rec'.ended /\ rec'.status \in {"failed", "interrupted"}
        /\ P!Decodes([rec EXCEPT !.ended = TRUE])'
    <3> DEFINE f == P!Failure(rec, phase, "preparation_exception", FALSE, FALSE)
    <3>1. f \in P!Records /\ ~f.ended /\ f.status \in {"failed", "interrupted"} /\ P!Decodes([f EXCEPT !.ended = TRUE])
      BY <2>3, FailureDecodes
    <3>2. rec' = f
      BY <2>2
    <3> HIDE DEF f
    <3>3. QED
      BY <3>1, <3>2 DEF P!Decodes
  <2>5. RecordsInv'
    BY <2>1, <2>4 DEF RecordsInv, P!TypeOK, P!signals
  <2>6. HoldersInv'
    BY <2>1 DEF HoldersInv, P!signals
  <2>7. QED
    BY <2>5, <2>6
<1>7. CASE P!EnterPublishing
  <2>1. RecordsInv'
    BY <1>7, NoneIsNew, SignalsAreNamed DEF RecordsInv, P!TypeOK, P!Records, P!Decodes, P!EnterPublishing, P!Step, P!signals, P!Saves, P!Phases
  <2>2. HoldersInv'
    BY <1>7, NoneIsNew, SignalsAreNamed DEF RecordsInv, HoldersInv, P!TypeOK, P!EnterPublishing, P!Step, P!signals, P!Saves, P!Phases
  <2>3. QED
    BY <2>1, <2>2
<1>8. CASE P!RetainSnapshot
  <2>1. RecordsInv'
    BY <1>8, NoneIsNew, SignalsAreNamed DEF RecordsInv, P!TypeOK, P!Records, P!Decodes, P!RetainSnapshot, P!Step, P!signals
  <2>2. HoldersInv'
    BY <1>8, NoneIsNew, SignalsAreNamed DEF RecordsInv, HoldersInv, P!TypeOK, P!RetainSnapshot, P!Step, P!signals
  <2>3. QED
    BY <2>1, <2>2
<1>9. CASE P!Finish
  <2>1. /\ pc = "finish" /\ pc' = "cutoff" /\ UNCHANGED <<disk, snapshot, P!signals>>
        /\ rec' = [rec EXCEPT !.snapshot = TRUE, !.status = "completed", !.phase = "finished", !.exit = 0]
    BY <1>9 DEF P!Finish, P!Step
  <2>2. rec \in P!Records /\ ~rec.ended /\ rec.diagnostic = None /\ snapshot
    BY <2>1 DEF P!TypeOK, RecordsInv
  <2>3. /\ rec' \in P!Records /\ rec'.ended = rec.ended /\ rec'.status = "completed" /\ rec'.diagnostic = None
        /\ rec'.snapshot = TRUE /\ rec'.phase = "finished" /\ rec'.exit = 0
    BY <2>1, <2>2 DEF P!Records, P!Phases
  <2> DEFINE g == [rec' EXCEPT !.ended = TRUE]
  <2>4. /\ g.ended = TRUE /\ g.status = "completed" /\ g.diagnostic = None
        /\ g.snapshot = TRUE /\ g.phase = "finished" /\ g.exit = 0
    BY <2>3 DEF P!Records
  <2> HIDE DEF g
  <2>5. P!Decodes(g)
    BY <2>4, NoneIsNew DEF P!Decodes
  <2>6. P!Decodes([rec EXCEPT !.ended = TRUE])'
    BY <2>5 DEF P!Decodes, g
  <2>7. RecordsInv'
    BY <2>1, <2>2, <2>3, <2>6 DEF RecordsInv, P!TypeOK, P!signals
  <2>8. HoldersInv'
    BY <2>1 DEF HoldersInv, P!signals
  <2>9. QED
    BY <2>7, <2>8
<1>10. CASE P!Block
  <2>1. RecordsInv'
    BY <1>10, NoneIsNew, SignalsAreNamed DEF RecordsInv, P!TypeOK, P!Records, P!Decodes, P!Block
  <2>2. HoldersInv'
    BY <1>10, NoneIsNew, SignalsAreNamed DEF RecordsInv, HoldersInv, P!TypeOK, P!Block
  <2>3. QED
    BY <2>1, <2>2
<1>11. CASE P!FinalLook
  <2> DEFINE r == IF sig # None THEN P!Failure(rec, rec.phase, "interrupted", FALSE, TRUE) ELSE rec
  <2>1. /\ pc = "look" /\ pc' = "commit" /\ committing' = TRUE /\ rec' = [r EXCEPT !.ended = TRUE]
        /\ UNCHANGED <<disk, snapshot, sig, deferred, masked, callerMask, pending, recorded, delivered, sends>>
    BY <1>11 DEF P!FinalLook
  <2>2. rec \in P!Records /\ ~rec.ended /\ rec.phase \in P!Phases /\ P!Decodes([rec EXCEPT !.ended = TRUE])
    BY <2>1 DEF P!TypeOK, P!Records, RecordsInv
  <2>3. /\ r \in P!Records /\ P!Decodes([r EXCEPT !.ended = TRUE])
        /\ r.status = "completed" => r = rec
        /\ sig # None => r.status = "interrupted"
    <3>1. CASE sig # None
      BY <2>2, <3>1, FailureDecodes
    <3>2. CASE sig = None
      BY <2>2, <3>2
    <3>3. QED
      BY <3>1, <3>2
  <2> HIDE DEF r
  <2>4. rec' \in P!Records /\ rec'.status = r.status
    BY <2>1, <2>3 DEF P!Records
  <2>5. P!Decodes(rec)'
    BY <2>1, <2>3 DEF P!Decodes
  <2>6. RecordsInv'
    BY <2>1, <2>3, <2>4, <2>5 DEF RecordsInv, P!TypeOK
  <2>7. HoldersInv'
    BY <2>1, <2>3, <2>4 DEF HoldersInv
  <2>8. QED
    BY <2>6, <2>7
<1>12. CASE P!Commit
  <2>1. RecordsInv'
    BY <1>12, NoneIsNew, SignalsAreNamed DEF RecordsInv, P!TypeOK, P!Records, P!Decodes, P!Commit, P!Step, P!signals, P!Saves
  <2>2. HoldersInv'
    BY <1>12, NoneIsNew, SignalsAreNamed DEF RecordsInv, HoldersInv, P!TypeOK, P!Commit, P!Step, P!signals, P!Saves
  <2>3. QED
    BY <2>1, <2>2
<1>13. CASE P!CommitRaises
  <2>1. RecordsInv'
    BY <1>13, NoneIsNew, SignalsAreNamed DEF RecordsInv, P!TypeOK, P!Records, P!Decodes, P!CommitRaises, P!Step, P!signals
  <2>2. HoldersInv'
    BY <1>13, NoneIsNew, SignalsAreNamed DEF RecordsInv, HoldersInv, P!TypeOK, P!CommitRaises, P!Step, P!signals
  <2>3. QED
    BY <2>1, <2>2
<1>14. CASE P!ReadBack
  <2>1. RecordsInv'
    BY <1>14, NoneIsNew, SignalsAreNamed DEF RecordsInv, P!TypeOK, P!Records, P!Decodes, P!ReadBack, P!Step, P!signals
  <2>2. HoldersInv'
    BY <1>14, NoneIsNew, SignalsAreNamed DEF RecordsInv, HoldersInv, P!TypeOK, P!ReadBack, P!Step, P!signals
  <2>3. QED
    BY <2>1, <2>2
<1>15. CASE P!RestoreHandlers
  <2>1. RecordsInv'
    BY <1>15, NoneIsNew, SignalsAreNamed DEF RecordsInv, P!TypeOK, P!Records, P!Decodes, P!RestoreHandlers, P!Step, P!signals
  <2>2. HoldersInv'
    BY <1>15, NoneIsNew, SignalsAreNamed DEF RecordsInv, HoldersInv, P!TypeOK, P!RestoreHandlers, P!Step, P!signals
  <2>3. QED
    BY <2>1, <2>2
<1>16. CASE P!Requeue
  <2>1. RecordsInv'
    BY <1>16, NoneIsNew, SignalsAreNamed DEF RecordsInv, P!TypeOK, P!Records, P!Decodes, P!Requeue, P!Requeued
  <2>2. HoldersInv'
    BY <1>16, NoneIsNew, SignalsAreNamed DEF RecordsInv, HoldersInv, P!TypeOK, P!Requeue, P!Requeued
  <2>3. QED
    BY <2>1, <2>2
<1>17. CASE P!Unmask
  <2>1. RecordsInv'
    <3>1. /\ pc' = "ended" /\ masked' = FALSE /\ pending' \subseteq pending
          /\ recorded' \subseteq recorded \cup pending
          /\ UNCHANGED <<rec, disk, snapshot, sig, committing, deferred, callerMask, delivered, sends>>
      BY <1>17 DEF P!Unmask
    <3>2. P!TypeOK'
      BY <3>1 DEF RecordsInv, P!TypeOK
    <3>3. QED
      BY <3>1, <3>2 DEF RecordsInv, BeforeCutoff
  <2>2. HoldersInv'
    BY <1>17, NoneIsNew, SignalsAreNamed DEF RecordsInv, HoldersInv, P!TypeOK, P!Unmask
  <2>3. QED
    BY <2>1, <2>2
<1>18. QED
  BY <1>1, <1>2, <1>3, <1>4, <1>5, <1>6, <1>7, <1>8, <1>9, <1>10, <1>11, <1>12, <1>13, <1>14, <1>15, <1>16, <1>17 DEF P!Next

LEMMA PreparationKept ==
  ASSUME PreparationInv, [P!Next]_(P!vars)
  PROVE  PreparationInv'
<1>1. CASE UNCHANGED P!vars
  BY <1>1 DEF P!vars, PreparationInv, RecordsInv, HoldersInv, P!TypeOK, P!Decodes
<1>2. QED
  BY <1>1, PreparationStep

LEMMA PreparationIsHonest ==
  ASSUME PreparationInv
  PROVE  P!HonestRecordsDecode /\ P!SignalsAccountedFor
<1>1. P!HonestRecordsDecode
  BY DEF PreparationInv, RecordsInv, P!HonestRecordsDecode
<1>2. P!SignalsAccountedFor
  BY DEF PreparationInv, HoldersInv, BeforeCutoff, P!SignalsAccountedFor
<1>3. QED
  BY <1>1, <1>2

-----------------------------------------------------------------------------
(* Preflight.  Ready is vetoed at once, and a flag is withdrawn with what  *)
(* it was about.  A signal that is not yet heard is followed by a look, or *)
(* arrived behind the last one.                                            *)
LookFollows ==
  \/ pc \in {"pending", "probe", "look", "unsaved", "relook", "unfiled"}
  \/ pc = "save" /\ round = "first"

Late ==
  \/ pc = "receipt" /\ signal.at = "receipt"
  \/ pc = "save" /\ signal = [at |-> "save", round |-> "disclose"]
  \/ pc = "ended" /\ R!TooLate

PreflightInv ==
  /\ R!TypeOK
  /\ status = "ready" <=> exit = 0
  /\ status = "interrupted" <=> exit = 130
  /\ status = "interrupted" => signal # None
  /\ status = "ready" => report = "ready" /\ errors = {}
  /\ exit = 2 => report = "ready" /\ errors # {}
  /\ pc \in {"pending", "probe"} => errors = {} /\ exit = 1
  /\ pc \in {"relook", "receipt", "ended"} /\ reportPublished => reportFile = R!WithErrors
  /\ pc = "unsaved" => ~reportPublished /\ errors # {}
  /\ receiptPublished => pc = "ended" /\ receiptFile = [status |-> status, exit |-> exit]
  /\ pc \in {"pending", "probe", "relook"} => round = "first"
  /\ pc \in {"receipt", "unfiled"} => round # "disclose"
  /\ pc = "relook" => reportPublished \/ errors # {}
  /\ round = "second" => status = "interrupted"
  /\ signal # None => status = "interrupted" \/ pc = "escaped" \/ LookFollows \/ Late

LEMMA PreflightStarts ==
  ASSUME R!Init
  PROVE  PreflightInv
<1>1. R!TypeOK
  <2>1. receiptFile \in [status : R!Statuses \cup {"pending"}, exit : {None, 0, 1, 2, 130}] \cup {None}
    BY DEF R!Init
  <2>2. QED
    BY <2>1 DEF R!Init, R!TypeOK, R!Statuses, R!Places, R!Rounds
<1>2. QED
  BY <1>1 DEF R!Init, PreflightInv

(* A look at the signals keeps the outcome, or makes an interrupted one of *)
(* it and withdraws the report.                                            *)
LEMMA RefreshOutcome ==
  ASSUME R!Refresh
  PROVE  \/ /\ signal # None /\ status # "interrupted"
            /\ report' = "interrupted" /\ status' = "interrupted" /\ exit' = 130 /\ reportPublished' = FALSE
         \/ (signal = None \/ status = "interrupted") /\ UNCHANGED <<status, exit, report, reportPublished>>
BY DEF R!Refresh, R!Conclude, R!ExitCode, R!Withdraw, R!outcome

(* Its steps, one at a time.                                               *)
LEMMA PreflightStep ==
  ASSUME PreflightInv, R!Next
  PROVE  PreflightInv'
<1> USE DEF PreflightInv, R!TypeOK, R!Statuses, R!WithErrors, R!Places, R!Rounds, LookFollows, Late, R!TooLate
<1> DEFINE Filed == [status : R!Statuses \cup {"pending"}, exit : {None, 0, 1, 2, 130}] \cup {None}
<1>0. reportFile \in R!Reports \cup {None} /\ receiptFile \in Filed
      /\ signal \in [at : R!Places, round : R!Rounds] \cup {None}
      /\ reportPublished \in BOOLEAN /\ receiptPublished \in BOOLEAN /\ receipt \in BOOLEAN
  OBVIOUS
<1>1. CASE R!Signal
  BY <1>1 DEF R!Signal, R!outcome, R!files
<1>2. CASE R!SavePending
  BY <1>2 DEF R!SavePending, R!outcome, R!files, R!Pending, R!Reports
<1>3. CASE R!Escape
  BY <1>3 DEF R!Escape, R!outcome, R!files
<1>4. CASE R!Probe
  BY <1>4 DEF R!Probe, R!outcome, R!files, R!ProbeReports, R!Conclude, R!ExitCode
<1>5. CASE R!LookFirst
  <2>1. \/ /\ signal # None /\ status # "interrupted"
           /\ report' = "interrupted" /\ status' = "interrupted" /\ exit' = 130 /\ reportPublished' = FALSE
        \/ (signal = None \/ status = "interrupted") /\ UNCHANGED <<status, exit, report, reportPublished>>
    BY <1>5, RefreshOutcome DEF R!LookFirst
  <2>2. UNCHANGED <<signal, errors, receiptPublished, reportFile, receiptFile, receipt>>
    BY <1>5 DEF R!LookFirst, R!files
  <2>3. /\ pc' \in {"save", "relook", "receipt", "ended", "look"}
        /\ round' \in {"first", "second", "disclose"}
    BY <1>5 DEF R!LookFirst
  <2>4. R!TypeOK'
    <3>1. reportFile' \in R!Reports \cup {None} /\ receiptFile' \in Filed
      BY <1>0, <2>2
    <3>2. /\ signal' \in [at : R!Places, round : R!Rounds] \cup {None}
          /\ {receiptPublished', receipt'} \subseteq BOOLEAN
          /\ errors' \subseteq {"report", "receipt"}
      BY <1>0, <2>2
    <3>3. reportPublished' \in BOOLEAN
      BY <1>0, <2>1
    <3>4. status' \in R!Statuses /\ exit' \in {0, 1, 2, 130} /\ report' \in R!Statuses \cup {"pending"}
      BY <2>1
    <3>5. QED
      BY <2>3, <3>1, <3>2, <3>3, <3>4
  <2>5. QED
    BY <1>5, <2>1, <2>2, <2>4 DEF R!LookFirst
<1>6. CASE R!SaveReport
  BY <1>6 DEF R!SaveReport, R!outcome, R!files, R!Reports
<1>7. CASE R!SaveReportFails
  <2>1. /\ UNCHANGED <<round, signal, report, receiptPublished, reportFile, receiptFile, receipt>>
        /\ pc' = "unsaved" /\ reportPublished' = FALSE /\ errors' = errors \cup {"report"}
        /\ status' \in {status, "failed"} /\ exit' \in {exit, 2}
    BY <1>7 DEF R!SaveReportFails, R!files, R!PublicationError
  <2>2. R!TypeOK'
    <3>1. reportFile' \in R!Reports \cup {None} /\ receiptFile' \in Filed
      BY <1>0, <2>1
    <3>2. /\ signal' \in [at : R!Places, round : R!Rounds] \cup {None}
          /\ {reportPublished', receiptPublished', receipt'} \subseteq BOOLEAN /\ errors' \subseteq {"report", "receipt"}
      BY <2>1
    <3>3. status' \in R!Statuses /\ exit' \in {0, 1, 2, 130} /\ report' \in R!Statuses \cup {"pending"}
      BY <2>1
    <3>4. QED
      BY <2>1, <3>1, <3>2, <3>3
  <2>3. QED
    BY <1>7, <2>1, <2>2 DEF R!SaveReportFails, R!files, R!PublicationError
<1>8. CASE R!LookAfterFailure
  <2>1. \/ /\ signal # None /\ status # "interrupted"
           /\ report' = "interrupted" /\ status' = "interrupted" /\ exit' = 130 /\ reportPublished' = FALSE
        \/ (signal = None \/ status = "interrupted") /\ UNCHANGED <<status, exit, report, reportPublished>>
    BY <1>8, RefreshOutcome DEF R!LookAfterFailure
  <2>2. UNCHANGED <<signal, errors, receiptPublished, reportFile, receiptFile, receipt>>
    BY <1>8 DEF R!LookAfterFailure, R!files
  <2>3. /\ pc' \in {"save", "relook", "receipt", "ended", "look"}
        /\ round' \in {"first", "second", "disclose"}
    BY <1>8 DEF R!LookAfterFailure
  <2>4. R!TypeOK'
    <3>1. reportFile' \in R!Reports \cup {None} /\ receiptFile' \in Filed
      BY <1>0, <2>2
    <3>2. /\ signal' \in [at : R!Places, round : R!Rounds] \cup {None}
          /\ {receiptPublished', receipt'} \subseteq BOOLEAN
          /\ errors' \subseteq {"report", "receipt"}
      BY <1>0, <2>2
    <3>3. reportPublished' \in BOOLEAN
      BY <1>0, <2>1
    <3>4. status' \in R!Statuses /\ exit' \in {0, 1, 2, 130} /\ report' \in R!Statuses \cup {"pending"}
      BY <2>1
    <3>5. QED
      BY <2>3, <3>1, <3>2, <3>3, <3>4
  <2>5. QED
    BY <1>8, <2>1, <2>2, <2>4 DEF R!LookAfterFailure
<1>9. CASE R!Relook
  <2>1. \/ /\ signal # None /\ status # "interrupted"
           /\ report' = "interrupted" /\ status' = "interrupted" /\ exit' = 130 /\ reportPublished' = FALSE
        \/ (signal = None \/ status = "interrupted") /\ UNCHANGED <<status, exit, report, reportPublished>>
    BY <1>9, RefreshOutcome DEF R!Relook
  <2>2. UNCHANGED <<signal, errors, receiptPublished, reportFile, receiptFile, receipt>>
    BY <1>9 DEF R!Relook, R!files
  <2>3. /\ pc' \in {"save", "relook", "receipt", "ended", "look"}
        /\ round' \in {"first", "second", "disclose"}
    BY <1>9 DEF R!Relook
  <2>4. R!TypeOK'
    <3>1. reportFile' \in R!Reports \cup {None} /\ receiptFile' \in Filed
      BY <1>0, <2>2
    <3>2. /\ signal' \in [at : R!Places, round : R!Rounds] \cup {None}
          /\ {receiptPublished', receipt'} \subseteq BOOLEAN
          /\ errors' \subseteq {"report", "receipt"}
      BY <1>0, <2>2
    <3>3. reportPublished' \in BOOLEAN
      BY <1>0, <2>1
    <3>4. status' \in R!Statuses /\ exit' \in {0, 1, 2, 130} /\ report' \in R!Statuses \cup {"pending"}
      BY <2>1
    <3>5. QED
      BY <2>3, <3>1, <3>2, <3>3, <3>4
  <2>5. QED
    BY <1>9, <2>1, <2>2, <2>4 DEF R!Relook
<1>10. CASE R!SaveReceipt
  BY <1>10 DEF R!SaveReceipt, R!outcome, R!files
<1>11. CASE R!SaveReceiptFails
  BY <1>11 DEF R!SaveReceiptFails, R!outcome, R!files, R!PublicationError
<1>12. CASE R!Disclose
  <2>1. \/ /\ signal # None /\ status # "interrupted"
           /\ report' = "interrupted" /\ status' = "interrupted" /\ exit' = 130 /\ reportPublished' = FALSE
        \/ (signal = None \/ status = "interrupted") /\ UNCHANGED <<status, exit, report, reportPublished>>
    BY <1>12, RefreshOutcome DEF R!Disclose
  <2>2. UNCHANGED <<signal, errors, receiptPublished, reportFile, receiptFile, receipt>>
    BY <1>12 DEF R!Disclose, R!files
  <2>3. /\ pc' \in {"save", "relook", "receipt", "ended", "look"}
        /\ round' \in {"first", "second", "disclose"}
    BY <1>12 DEF R!Disclose
  <2>4. R!TypeOK'
    <3>1. reportFile' \in R!Reports \cup {None} /\ receiptFile' \in Filed
      BY <1>0, <2>2
    <3>2. /\ signal' \in [at : R!Places, round : R!Rounds] \cup {None}
          /\ {receiptPublished', receipt'} \subseteq BOOLEAN
          /\ errors' \subseteq {"report", "receipt"}
      BY <1>0, <2>2
    <3>3. reportPublished' \in BOOLEAN
      BY <1>0, <2>1
    <3>4. status' \in R!Statuses /\ exit' \in {0, 1, 2, 130} /\ report' \in R!Statuses \cup {"pending"}
      BY <2>1
    <3>5. QED
      BY <2>3, <3>1, <3>2, <3>3, <3>4
  <2>5. QED
    BY <1>12, <2>1, <2>2, <2>4 DEF R!Disclose
<1>13. QED
  BY <1>1, <1>2, <1>3, <1>4, <1>5, <1>6, <1>7, <1>8, <1>9, <1>10, <1>11, <1>12 DEF R!Next

LEMMA PreflightKept ==
  ASSUME PreflightInv, [R!Next]_(R!vars)
  PROVE  PreflightInv'
<1>1. CASE UNCHANGED R!vars
  BY <1>1 DEF R!vars, PreflightInv, R!TypeOK, R!WithErrors, LookFollows, Late, R!TooLate
<1>2. QED
  BY <1>1, PreflightStep

LEMMA PreflightIsHonest ==
  ASSUME PreflightInv
  PROVE  R!FlagsDescribeTheFiles /\ R!OutcomeIsHonest
<1>1. R!FlagsDescribeTheFiles
  BY DEF PreflightInv, R!FlagsDescribeTheFiles, R!Ended
<1>2. R!OutcomeIsHonest
  BY DEF PreflightInv, R!OutcomeIsHonest, R!Ended, R!WithErrors, LookFollows, Late
<1>3. QED
  BY <1>1, <1>2

-----------------------------------------------------------------------------
(* Archives.  Whoever holds the lock, alive or dead, is alone at the       *)
(* output but for its user, and what it checked of the output holds of     *)
(* what it saw.                                                            *)
InLock == {"recheck", "copy", "preserve", "swap", "promote", "clean", "unstage", "unlock"}

Whole(archive) == archive.listed /\ archive.data = archive.digest

PublisherInv(p) ==
  /\ pc[p] \in InLock => lock = p
  /\ pc[p] \in {"acquire", "lock", "recheck", "copy", "preserve", "swap"} => backup[p] = None
  /\ pc[p] \in {"copy", "preserve", "swap", "promote"} =>
       /\ staging[p] \in A!Directories /\ staging[p].archive \in A!Archives
       /\ staging[p].archive.digest = digest[p]
       /\ \A f \in Evidence : staging[p].archive.data[f] # None =>
            staging[p].archive.data[f] = digest[p][f]
  /\ pc[p] \in {"preserve", "swap", "promote"} => Whole(staging[p].archive)
  /\ pc[p] = "swap" /\ output # None =>
       /\ output.users \ late[p] \subseteq staging[p].users
       /\ force[p] \/ (output.archive = None /\ output.users \subseteq late[p])
  /\ pc[p] = "promote" /\ backup[p] # None => backup[p].users \ late[p] \subseteq staging[p].users
  /\ pc[p] = "clean" => output # None /\ (backup[p] # None => backup[p].users \ late[p] \subseteq output.users)

ArchiveInv ==
  /\ A!EntriesSurvive /\ A!ArchivesAreWhole
  /\ \A p \in Publishers : PublisherInv(p)

LEMMA KeptDirectories ==
  A!Kept = {d \in {output} \cup {backup[p] : p \in Publishers} : d # None}
BY DEF A!Kept

LEMMA ArchiveTypes ==
  ASSUME ArchiveInv
  PROVE  /\ pc \in [Publishers -> {"acquire", "lock", "recheck", "copy", "preserve", "swap", "promote",
                                   "clean", "unstage", "unlock", "ended", "dead"}]
         /\ force \in [Publishers -> BOOLEAN]
         /\ source \in A!Versions /\ digest \in [Publishers -> A!Versions]
         /\ output \in A!Directories \cup {None}
         /\ staging \in [Publishers -> A!Directories \cup {None}]
         /\ backup \in [Publishers -> A!Directories \cup {None}]
         /\ lock \in Publishers \cup {None}
         /\ made \subseteq Entries /\ late \in [Publishers -> SUBSET made]
BY DEF ArchiveInv, A!EntriesSurvive, A!TypeOK

LEMMA ArchiveStarts ==
  ASSUME A!Init
  PROVE  ArchiveInv
<1>1. A!TypeOK
  BY BoundsAreNumbers DEF A!Init, A!TypeOK, A!Versions
<1>2. A!EntriesSurvive
  BY <1>1 DEF A!Init, A!EntriesSurvive, A!Users
<1>3. A!Kept = {}
  BY KeptDirectories DEF A!Init
<1>4. A!ArchivesAreWhole
  BY <1>3 DEF A!ArchivesAreWhole
<1>5. \A p \in Publishers : PublisherInv(p)
  BY DEF A!Init, PublisherInv, InLock
<1>6. QED
  BY <1>2, <1>4, <1>5 DEF ArchiveInv

(* Nobody disturbs a publisher that stands still.                          *)
LEMMA OthersAreUndisturbed ==
  ASSUME NEW q \in Publishers, PublisherInv(q),
         pc'[q] = pc[q], staging'[q] = staging[q], backup'[q] = backup[q], digest'[q] = digest[q],
         late'[q] = late[q], force' = force, pc[q] \in InLock => UNCHANGED <<lock, output>>
  PROVE  PublisherInv(q)'
BY DEF PublisherInv, InLock, Whole, A!CheckOutput, A!Populated, A!Preserved

(* The lock is for one.                                                    *)
LEMMA LockIsExclusive ==
  ASSUME ArchiveInv, NEW p \in Publishers, NEW q \in Publishers, p # q, pc[p] \in InLock
  PROVE  pc[q] \notin InLock /\ lock = p
BY DEF ArchiveInv, PublisherInv

LateOnes == UNION {late[p] : p \in Publishers}

(* A directory's entries may move, but only into another that is kept; who *)
(* loses one loses a late one.                                             *)
LEMMA EntriesMove ==
  ASSUME ArchiveInv, A!TypeOK', UNCHANGED <<made, late>>,
         \A d \in A!Kept : \A e \in d.users \ LateOnes : \E c \in A!Kept' : e \in c.users
  PROVE  A!EntriesSurvive'
<1>1. \A e \in made \ LateOnes : \E d \in A!Kept : e \in d.users
  BY DEF ArchiveInv, A!EntriesSurvive, A!Users, LateOnes
<1>2. \A e \in made \ LateOnes : \E c \in A!Kept' : e \in c.users
  BY <1>1
<1>3. LateOnes' = LateOnes
  BY DEF LateOnes
<1>4. made' \ LateOnes' \subseteq UNION {c.users : c \in A!Kept'}
  BY <1>2, <1>3
<1>5. QED
  BY <1>4 DEF A!EntriesSurvive, A!Users, LateOnes

(* What one publisher does, to be what it needs and leaves the others.     *)
LEMMA PublisherStep ==
  ASSUME ArchiveInv, NEW p \in Publishers, NEW to,
         pc' = [pc EXCEPT ![p] = to], UNCHANGED <<force, made, late>>, A!TypeOK',
         \A q \in Publishers \ {p} :
            staging'[q] = staging[q] /\ backup'[q] = backup[q] /\ digest'[q] = digest[q],
         \/ pc[p] \in InLock
         \/ output' = output /\ \A q \in Publishers \ {p} : pc[q] \in InLock => lock' = lock,
         PublisherInv(p)',
         \A d \in A!Kept : \A e \in d.users \ LateOnes : \E c \in A!Kept' : e \in c.users,
         \A d \in A!Kept' : d \in A!Kept \/ Whole(d.archive)
  PROVE  ArchiveInv'
<1>1. A!EntriesSurvive'
  BY EntriesMove
<1>2. A!ArchivesAreWhole'
  BY DEF ArchiveInv, A!ArchivesAreWhole, Whole
<1>3. \A q \in Publishers : PublisherInv(q)'
  <2>1. ASSUME NEW q \in Publishers \ {p}
        PROVE  PublisherInv(q)'
    <3>1. pc'[q] = pc[q]
      BY ArchiveTypes
    <3>2. pc[q] \in InLock => UNCHANGED <<lock, output>>
      BY LockIsExclusive
    <3>3. QED
      BY <3>1, <3>2, OthersAreUndisturbed DEF ArchiveInv
  <2>2. QED
    BY <2>1
<1>4. QED
  BY <1>1, <1>2, <1>3 DEF ArchiveInv

(* The surroundings: evidence that changes, and the output's user.         *)
LEMMA ChangesKeep ==
  ASSUME ArchiveInv, A!Changes
  PROVE  ArchiveInv'
<1>1. UNCHANGED <<pc, force, digest, output, staging, backup, lock, made, late>>
  BY DEF A!Changes
<1>2. source' \in A!Versions
  BY ArchiveTypes, BoundsAreNumbers DEF A!Changes, A!Versions
<1>3. A!TypeOK'
  BY <1>1, <1>2, ArchiveTypes DEF A!TypeOK
<1>4. A!Kept' = A!Kept
  BY <1>1 DEF A!Kept
<1>5. A!EntriesSurvive' /\ A!ArchivesAreWhole'
  BY <1>1, <1>3, <1>4 DEF ArchiveInv, A!EntriesSurvive, A!Users, A!ArchivesAreWhole
<1>6. \A p \in Publishers : PublisherInv(p)'
  BY <1>1, OthersAreUndisturbed DEF ArchiveInv
<1>7. QED
  BY <1>5, <1>6 DEF ArchiveInv

LEMMA MakeOutputKeeps ==
  ASSUME ArchiveInv, A!MakeOutput
  PROVE  ArchiveInv'
<1>1. /\ UNCHANGED <<pc, force, source, digest, staging, backup, lock, made, late>>
      /\ output = None /\ output' = A!Empty
  BY DEF A!MakeOutput
<1>2. A!Empty \in A!Directories /\ A!Empty.archive = None /\ A!Empty.users = {}
  BY DEF A!Empty, A!Directories
<1>3. A!TypeOK'
  BY <1>1, <1>2, ArchiveTypes DEF A!TypeOK
<1>4. A!Kept \subseteq A!Kept' /\ A!Kept' \subseteq A!Kept \cup {A!Empty}
  BY <1>1 DEF A!Kept
<1>5. A!EntriesSurvive'
  BY <1>1, <1>3, <1>4, EntriesMove
<1>6. A!ArchivesAreWhole'
  BY <1>2, <1>4 DEF ArchiveInv, A!ArchivesAreWhole
<1>7. ASSUME NEW p \in Publishers
      PROVE  PublisherInv(p)'
  <2>1. PublisherInv(p)
    BY DEF ArchiveInv
  <2>2. QED
    BY <1>1, <1>2, <2>1 DEF PublisherInv, Whole
<1>8. QED
  BY <1>5, <1>6, <1>7 DEF ArchiveInv

LEMMA AddEntryKeeps ==
  ASSUME ArchiveInv, A!AddEntry
  PROVE  ArchiveInv'
<1>1. UNCHANGED <<pc, force, source, digest, staging, backup, lock>>
  BY DEF A!AddEntry
<1>2. PICK e \in Entries \ made :
        /\ output # None /\ output' = [output EXCEPT !.users = @ \cup {e}]
        /\ made' = made \cup {e}
        /\ late' = [p \in Publishers |-> IF pc[p] = "swap" THEN late[p] \cup {e} ELSE late[p]]
  BY DEF A!AddEntry
<1>3. output' \in A!Directories /\ output'.users = output.users \cup {e} /\ output'.archive = output.archive
  BY <1>2, ArchiveTypes DEF A!Directories
<1>4. late' \in [Publishers -> SUBSET made'] /\ \A p \in Publishers : late[p] \subseteq late'[p]
  BY <1>2, ArchiveTypes
<1>5. A!TypeOK'
  BY <1>1, <1>2, <1>3, <1>4, ArchiveTypes DEF A!TypeOK
<1>6. output' \in A!Kept' /\ output' # None
  BY <1>3, NoneIsNew, KeptDirectories DEF A!Kept
<1>7. \A d \in A!Kept : \E c \in A!Kept' : d.users \subseteq c.users
  BY <1>1, <1>3, <1>6 DEF A!Kept
<1>8. A!EntriesSurvive'
  <2>1. LateOnes \subseteq LateOnes'
    BY <1>4 DEF LateOnes
  <2>2. \A x \in made \ LateOnes : \E d \in A!Kept : x \in d.users
    BY DEF ArchiveInv, A!EntriesSurvive, A!Users, LateOnes
  <2>3. \A x \in made' \ LateOnes' : \E c \in A!Kept' : x \in c.users
    BY <1>2, <1>3, <1>6, <1>7, <2>1, <2>2
  <2>4. made' \ LateOnes' \subseteq UNION {c.users : c \in A!Kept'}
    BY <2>3
  <2>5. QED
    BY <1>5, <2>4 DEF A!EntriesSurvive, A!Users, LateOnes
<1>9. A!ArchivesAreWhole'
  BY <1>1, <1>2, <1>3 DEF ArchiveInv, A!ArchivesAreWhole, A!Kept
<1>10. ASSUME NEW p \in Publishers
       PROVE  PublisherInv(p)'
  <2>1. PublisherInv(p)
    BY DEF ArchiveInv
  <2>2. CASE pc[p] = "swap"
    <3>1. late'[p] = late[p] \cup {e}
      BY <1>2, <2>2
    <3>2. output'.users \ late'[p] \subseteq staging[p].users
      BY <1>2, <1>3, <2>1, <2>2, <3>1 DEF PublisherInv
    <3>3. force[p] \/ (output'.archive = None /\ output'.users \subseteq late'[p])
      BY <1>2, <1>3, <2>1, <2>2, <3>1 DEF PublisherInv
    <3>4. QED
      BY <1>1, <2>1, <2>2, <3>2, <3>3 DEF PublisherInv, Whole
  <2>3. CASE pc[p] # "swap"
    BY <1>1, <1>2, <1>3, <1>4, <1>6, <2>1, <2>3 DEF PublisherInv, Whole
  <2>4. QED
    BY <2>2, <2>3
<1>11. QED
  BY <1>8, <1>9, <1>10 DEF ArchiveInv

(* The steps of one publication.                                           *)
LEMMA DieKeeps ==
  ASSUME ArchiveInv, NEW p \in Publishers, A!Die(p)
  PROVE  ArchiveInv'
<1>1. /\ pc' = [pc EXCEPT ![p] = "dead"]
      /\ UNCHANGED <<force, source, digest, output, staging, backup, lock, made, late>>
  BY DEF A!Die, A!dirs
<1>2. A!TypeOK'
  BY <1>1, ArchiveTypes DEF A!TypeOK
<1>3. A!Kept' = A!Kept
  BY <1>1 DEF A!Kept
<1>4. pc'[p] = "dead"
  BY <1>1, ArchiveTypes
<1>5. PublisherInv(p)'
  BY <1>4 DEF PublisherInv, InLock
<1>6. QED
  BY <1>1, <1>2, <1>3, <1>5, PublisherStep

LEMMA AcquireKeeps ==
  ASSUME ArchiveInv, NEW p \in Publishers, A!Acquire(p)
  PROVE  ArchiveInv'
<1>1. /\ pc[p] = "acquire" /\ digest' = [digest EXCEPT ![p] = source]
      /\ UNCHANGED <<force, made, late, source, output, staging, backup, lock>>
  BY DEF A!Acquire, A!Go, A!dirs
<1>2. PICK to \in {"lock", "ended"} : pc' = [pc EXCEPT ![p] = to]
  BY DEF A!Acquire, A!Go
<1>3. A!TypeOK'
  BY <1>1, <1>2, ArchiveTypes DEF A!TypeOK
<1>4. A!Kept' = A!Kept
  BY <1>1 DEF A!Kept
<1>5. pc'[p] = to
  BY <1>2, ArchiveTypes
<1>6. PublisherInv(p)'
  BY <1>1, <1>5 DEF PublisherInv, InLock, ArchiveInv
<1>7. \A q \in Publishers \ {p} : digest'[q] = digest[q]
  BY <1>1, ArchiveTypes
<1>8. QED
  BY <1>1, <1>2, <1>3, <1>4, <1>6, <1>7, PublisherStep

(* A publisher that finds the lock free finds nobody in it.                *)
LEMMA LockKeeps ==
  ASSUME ArchiveInv, NEW p \in Publishers, A!Lock(p)
  PROVE  ArchiveInv'
<1>1. /\ pc[p] = "lock" /\ UNCHANGED <<force, made, late, source, digest, output, staging, backup>>
      /\ \/ lock = None /\ lock' = p /\ pc' = [pc EXCEPT ![p] = "recheck"]
         \/ lock' = lock /\ pc' = [pc EXCEPT ![p] = "ended"]
  BY DEF A!Lock, A!Go, A!dirs, A!Unlocked
<1>2. PICK to \in {"recheck", "ended"} :
        /\ pc' = [pc EXCEPT ![p] = to]
        /\ (to = "recheck" /\ lock = None /\ lock' = p) \/ (to = "ended" /\ lock' = lock)
  BY <1>1
<1>3. A!TypeOK'
  BY <1>1, <1>2, ArchiveTypes DEF A!TypeOK
<1>4. A!Kept' = A!Kept
  BY <1>1 DEF A!Kept
<1>5. pc'[p] = to
  BY <1>2, ArchiveTypes
<1>6. PublisherInv(p)'
  BY <1>1, <1>2, <1>5 DEF PublisherInv, InLock, ArchiveInv
<1>7. ASSUME NEW q \in Publishers \ {p}, pc[q] \in InLock
      PROVE  lock' = lock
  <2>1. lock = q /\ q # None
    BY <1>7, NoneIsNew DEF ArchiveInv, PublisherInv
  <2>2. QED
    BY <1>2, <2>1
<1>8. QED
  BY <1>1, <1>2, <1>3, <1>4, <1>6, <1>7, PublisherStep

LEMMA RecheckKeeps ==
  ASSUME ArchiveInv, NEW p \in Publishers, A!Recheck(p)
  PROVE  ArchiveInv'
<1> DEFINE archive_ == [digest |-> digest[p], data |-> [f \in Evidence |-> None], listed |-> FALSE]
<1>1. /\ pc[p] = "recheck" /\ pc' = [pc EXCEPT ![p] = "copy"]
      /\ staging' = [staging EXCEPT ![p] = [A!Empty EXCEPT !.archive = archive_]]
      /\ UNCHANGED <<force, made, late, source, digest, output, backup, lock>>
  BY DEF A!Recheck, A!Go
<1>2. archive_ \in A!Archives /\ archive_.digest = digest[p] /\ \A f \in Evidence : archive_.data[f] = None
  BY ArchiveTypes DEF A!Archives
<1> HIDE DEF archive_
<1> DEFINE fresh == [A!Empty EXCEPT !.archive = archive_]
<1>3. fresh \in A!Directories /\ fresh.archive = archive_
  BY <1>2 DEF A!Directories, A!Empty
<1> HIDE DEF fresh
<1>4. staging'[p] = fresh /\ (\A q \in Publishers \ {p} : staging'[q] = staging[q]) /\ pc'[p] = "copy"
  BY <1>1, ArchiveTypes DEF fresh
<1>5. A!TypeOK'
  BY <1>1, <1>3, ArchiveTypes DEF A!TypeOK, fresh
<1>6. A!Kept' = A!Kept
  BY <1>1 DEF A!Kept
<1>7. PublisherInv(p)'
  BY <1>1, <1>2, <1>3, <1>4 DEF PublisherInv, InLock, ArchiveInv
<1>8. QED
  BY <1>1, <1>4, <1>5, <1>6, <1>7, PublisherStep

LEMMA CopyKeeps ==
  ASSUME ArchiveInv, NEW p \in Publishers, NEW f \in Evidence, A!Copy(p, f)
  PROVE  ArchiveInv'
<1>1. /\ pc[p] = "copy" /\ pc' = [pc EXCEPT ![p] = "copy"] /\ source[f] = digest[p][f]
      /\ staging' = [staging EXCEPT ![p].archive.data[f] = source[f]]
      /\ UNCHANGED <<force, made, late, source, digest, output, backup, lock>>
  BY DEF A!Copy, A!Go, A!SameBytes
<1>2. PublisherInv(p)
  BY DEF ArchiveInv
<1> DEFINE old == staging[p].archive
           copied == [old.data EXCEPT ![f] = source[f]]
           next == [staging[p] EXCEPT !.archive = [old EXCEPT !.data = copied]]
<1>3. staging[p] \in A!Directories /\ old \in A!Archives /\ old.digest = digest[p]
      /\ old.data \in [Evidence -> 0..MaxChanges \cup {None}]
      /\ \A g \in Evidence : old.data[g] # None => old.data[g] = digest[p][g]
  BY <1>1, <1>2 DEF PublisherInv, A!Archives
<1>4. source[f] \in 0..MaxChanges
  BY ArchiveTypes DEF A!Versions
<1>5. /\ copied \in [Evidence -> 0..MaxChanges \cup {None}]
      /\ \A g \in Evidence : copied[g] # None => copied[g] = digest[p][g]
  BY <1>1, <1>3, <1>4
<1>6. staging' = [staging EXCEPT ![p] = next]
  BY <1>1
<1> HIDE DEF copied
<1>7. /\ next \in A!Directories /\ next.archive \in A!Archives
      /\ next.archive.digest = digest[p] /\ next.archive.data = copied
  BY <1>3, <1>5 DEF A!Directories, A!Archives
<1> HIDE DEF next
<1>8. staging'[p] = next /\ (\A q \in Publishers \ {p} : staging'[q] = staging[q]) /\ pc'[p] = "copy"
  BY <1>1, <1>6, ArchiveTypes
<1>9. A!TypeOK'
  BY <1>1, <1>6, <1>7, ArchiveTypes DEF A!TypeOK
<1>10. A!Kept' = A!Kept
  BY <1>1 DEF A!Kept
<1>11. PublisherInv(p)'
  BY <1>1, <1>2, <1>5, <1>7, <1>8 DEF PublisherInv, InLock
<1>12. QED
  BY <1>1, <1>8, <1>9, <1>10, <1>11, PublisherStep

(* What lists itself has every file, with the bytes its digest names.      *)
LEMMA ListKeeps ==
  ASSUME ArchiveInv, NEW p \in Publishers, A!List(p)
  PROVE  ArchiveInv'
<1>1. /\ pc[p] = "copy" /\ pc' = [pc EXCEPT ![p] = "preserve"]
      /\ \A f \in Evidence : staging[p].archive.data[f] # None
      /\ staging' = [staging EXCEPT ![p].archive.listed = TRUE]
      /\ UNCHANGED <<force, made, late, source, digest, output, backup, lock>>
  BY DEF A!List, A!Go
<1>2. PublisherInv(p)
  BY DEF ArchiveInv
<1> DEFINE old == staging[p].archive
           next == [staging[p] EXCEPT !.archive = [old EXCEPT !.listed = TRUE]]
<1>3. staging[p] \in A!Directories /\ old \in A!Archives /\ old.digest = digest[p]
      /\ \A f \in Evidence : old.data[f] = digest[p][f]
  BY <1>1, <1>2 DEF PublisherInv
<1>4. old.data = old.digest
  <2>1. old.data \in [Evidence -> 0..MaxChanges \cup {None}] /\ digest[p] \in [Evidence -> 0..MaxChanges]
    BY <1>3, ArchiveTypes DEF A!Archives, A!Versions
  <2>2. QED
    BY <1>3, <2>1
<1>5. staging' = [staging EXCEPT ![p] = next]
  BY <1>1
<1>6. /\ next \in A!Directories /\ next.archive \in A!Archives
      /\ next.archive.digest = old.digest /\ next.archive.data = old.data /\ next.archive.listed
  BY <1>3 DEF A!Directories, A!Archives
<1> HIDE DEF next, old
<1>7. staging'[p] = next /\ (\A q \in Publishers \ {p} : staging'[q] = staging[q]) /\ pc'[p] = "preserve"
  BY <1>1, <1>5, ArchiveTypes
<1>8. A!TypeOK'
  <2>1. staging' \in [Publishers -> A!Directories \cup {None}]
    BY <1>5, <1>6, ArchiveTypes
  <2>2. pc' = [pc EXCEPT ![p] = "preserve"] /\ UNCHANGED <<force, made, late, source, digest, output, backup, lock>>
    BY <1>1
  <2>3. QED
    BY <2>1, <2>2, ArchiveTypes DEF A!TypeOK
<1>9. A!Kept' = A!Kept
  BY <1>1 DEF A!Kept
<1>10. PublisherInv(p)'
  BY <1>1, <1>2, <1>3, <1>4, <1>6, <1>7 DEF PublisherInv, InLock, Whole
<1>11. QED
  BY <1>1, <1>7, <1>8, <1>9, <1>10, PublisherStep

LEMMA PreserveKeeps ==
  ASSUME ArchiveInv, NEW p \in Publishers, A!Preserve(p)
  PROVE  ArchiveInv'
<1>1. /\ pc[p] = "preserve" /\ pc' = [pc EXCEPT ![p] = "swap"] /\ A!CheckOutput(p)
      /\ staging' = [staging EXCEPT ![p].users = A!Preserved(p)]
      /\ UNCHANGED <<force, made, late, source, digest, output, backup, lock>>
  BY DEF A!Preserve, A!Go
<1>2. PublisherInv(p)
  BY DEF ArchiveInv
<1> DEFINE next == [staging[p] EXCEPT !.users = A!Preserved(p)]
<1>3. staging[p] \in A!Directories /\ A!Preserved(p) \subseteq Entries
  BY <1>1, <1>2, ArchiveTypes DEF PublisherInv, A!Preserved, A!Directories
<1>4. staging' = [staging EXCEPT ![p] = next]
  BY <1>1
<1>5. next \in A!Directories /\ next.archive = staging[p].archive /\ next.users = A!Preserved(p)
  BY <1>3 DEF A!Directories
<1> HIDE DEF next
<1>6. staging'[p] = next /\ (\A q \in Publishers \ {p} : staging'[q] = staging[q]) /\ pc'[p] = "swap"
  BY <1>1, <1>4, ArchiveTypes
<1>7. A!TypeOK'
  BY <1>1, <1>4, <1>5, ArchiveTypes DEF A!TypeOK
<1>8. A!Kept' = A!Kept
  BY <1>1 DEF A!Kept
<1>9. output # None => /\ output.users = A!Preserved(p)
                       /\ force[p] \/ (output.archive = None /\ output.users = {})
  BY <1>1 DEF A!CheckOutput, A!Populated, A!Preserved, A!Empty
<1>10. PublisherInv(p)'
  BY <1>1, <1>2, <1>5, <1>6, <1>9 DEF PublisherInv, InLock, Whole
<1>11. QED
  BY <1>1, <1>6, <1>7, <1>8, <1>10, PublisherStep

(* The output moves to the backup, where nothing was.                      *)
LEMMA MoveAwayKeeps ==
  ASSUME ArchiveInv, NEW p \in Publishers, A!MoveAway(p)
  PROVE  ArchiveInv'
<1>1. /\ pc[p] = "swap" /\ pc' = [pc EXCEPT ![p] = "promote"]
      /\ backup' = [backup EXCEPT ![p] = output] /\ output' = None
      /\ UNCHANGED <<force, made, late, source, digest, staging, lock>>
  BY DEF A!MoveAway, A!Go
<1>2. PublisherInv(p) /\ backup[p] = None
  BY <1>1 DEF ArchiveInv, PublisherInv
<1>3. backup'[p] = output /\ (\A q \in Publishers \ {p} : backup'[q] = backup[q]) /\ pc'[p] = "promote"
  BY <1>1, ArchiveTypes
<1>4. A!TypeOK'
  BY <1>1, ArchiveTypes DEF A!TypeOK
<1>5. A!Kept' = A!Kept
  BY <1>1, <1>2, <1>3 DEF A!Kept
<1>6. PublisherInv(p)'
  BY <1>1, <1>2, <1>3 DEF PublisherInv, InLock, Whole, A!Preserved
<1>7. QED
  BY <1>1, <1>3, <1>4, <1>5, <1>6, PublisherStep DEF InLock

(* What is promoted has the entries of what it replaces.                   *)
LEMMA PromoteKeeps ==
  ASSUME ArchiveInv, NEW p \in Publishers, A!Promote(p)
  PROVE  ArchiveInv'
<1>1. /\ pc[p] = "promote" /\ pc' = [pc EXCEPT ![p] = "clean"]
      /\ output = None \/ output = A!Empty
      /\ output' = staging[p] /\ staging' = [staging EXCEPT ![p] = None]
      /\ UNCHANGED <<force, made, late, source, digest, backup, lock>>
  BY DEF A!Promote, A!Go
<1>2. PublisherInv(p) /\ staging[p] \in A!Directories /\ staging[p] # None /\ Whole(staging[p].archive)
  BY <1>1, NoneIsNew DEF ArchiveInv, PublisherInv
<1>3. (\A q \in Publishers \ {p} : staging'[q] = staging[q]) /\ pc'[p] = "clean"
  BY <1>1, ArchiveTypes
<1>4. A!TypeOK'
  BY <1>1, <1>2, ArchiveTypes DEF A!TypeOK
<1>5. PublisherInv(p)'
  BY <1>1, <1>2, <1>3 DEF PublisherInv, InLock
<1>6. \A d \in A!Kept : \A e \in d.users \ LateOnes : \E c \in A!Kept' : e \in c.users
  <2>1. ASSUME NEW d \in A!Kept
        PROVE  d.users = {} \/ d \in A!Kept'
    BY <1>1, <2>1 DEF A!Kept, A!Empty
  <2>2. QED
    BY <2>1
<1>7. \A d \in A!Kept' : d \in A!Kept \/ Whole(d.archive)
  BY <1>1, <1>2 DEF A!Kept
<1>8. QED
  BY <1>1, <1>3, <1>4, <1>5, <1>6, <1>7, PublisherStep DEF InLock

LEMMA RollbackKeeps ==
  ASSUME ArchiveInv, NEW p \in Publishers, A!Rollback(p)
  PROVE  ArchiveInv'
<1>1. /\ pc[p] = "promote" /\ pc' = [pc EXCEPT ![p] = "unstage"]
      /\ \/ output = None /\ output' = backup[p] /\ backup' = [backup EXCEPT ![p] = None]
         \/ UNCHANGED <<output, backup>>
      /\ UNCHANGED <<force, made, late, source, digest, staging, lock>>
  BY DEF A!Rollback, A!Go
<1>2. PublisherInv(p)
  BY DEF ArchiveInv
<1>3. (\A q \in Publishers \ {p} : backup'[q] = backup[q]) /\ pc'[p] = "unstage"
  BY <1>1, ArchiveTypes
<1>4. A!TypeOK'
  BY <1>1, ArchiveTypes DEF A!TypeOK
<1>5. A!Kept' = A!Kept
  <2>1. CASE UNCHANGED <<output, backup>>
    BY <2>1 DEF A!Kept
  <2>2. CASE output = None /\ output' = backup[p] /\ backup' = [backup EXCEPT ![p] = None]
    <3>1. backup'[p] = None
      BY <2>2, ArchiveTypes
    <3>2. QED
      BY <1>3, <2>2, <3>1 DEF A!Kept
  <2>3. QED
    BY <1>1, <2>1, <2>2
<1>6. PublisherInv(p)'
  BY <1>1, <1>2, <1>3 DEF PublisherInv, InLock
<1>7. QED
  BY <1>1, <1>3, <1>4, <1>5, <1>6, PublisherStep DEF InLock

(* The backup goes when the output has its entries, the late ones apart.   *)
LEMMA CleanKeeps ==
  ASSUME ArchiveInv, NEW p \in Publishers, A!Clean(p)
  PROVE  ArchiveInv'
<1>1. /\ pc[p] = "clean" /\ pc' = [pc EXCEPT ![p] = "unstage"]
      /\ backup' = [backup EXCEPT ![p] = None] \/ UNCHANGED backup
      /\ UNCHANGED <<force, made, late, source, digest, output, staging, lock>>
  BY DEF A!Clean, A!Go
<1>2. PublisherInv(p)
  BY DEF ArchiveInv
<1>3. (\A q \in Publishers \ {p} : backup'[q] = backup[q]) /\ pc'[p] = "unstage" /\ backup'[p] \in {backup[p], None}
  BY <1>1, ArchiveTypes
<1>4. A!TypeOK'
  BY <1>1, ArchiveTypes DEF A!TypeOK
<1>5. output # None /\ (backup[p] # None => backup[p].users \ LateOnes \subseteq output.users)
  BY <1>1, <1>2 DEF PublisherInv, LateOnes
<1>6. \A d \in A!Kept : \A e \in d.users \ LateOnes : \E c \in A!Kept' : e \in c.users
  BY <1>1, <1>3, <1>5 DEF A!Kept
<1>7. \A d \in A!Kept' : d \in A!Kept
  BY <1>1, <1>3 DEF A!Kept
<1>8. PublisherInv(p)'
  BY <1>1, <1>2, <1>3 DEF PublisherInv, InLock
<1>9. QED
  BY <1>1, <1>3, <1>4, <1>6, <1>7, <1>8, PublisherStep DEF InLock

LEMMA WayOutKeeps ==
  ASSUME ArchiveInv, NEW p \in Publishers, A!Raise(p) \/ A!Unstage(p) \/ A!Unlock(p)
  PROVE  ArchiveInv'
<1>1. PICK to \in {"unlock", "unstage", "ended"} :
        /\ pc[p] \in InLock /\ pc' = [pc EXCEPT ![p] = to]
        /\ to = "ended" \/ lock' = lock
        /\ UNCHANGED <<force, made, late, source, digest, output, backup>>
        /\ staging' \in {staging, [staging EXCEPT ![p] = None]} /\ lock' \in {lock, None}
  BY DEF A!Raise, A!Unstage, A!Unlock, A!Go, A!dirs, InLock
<1>2. PublisherInv(p)
  BY DEF ArchiveInv
<1>3. (\A q \in Publishers \ {p} : staging'[q] = staging[q]) /\ pc'[p] = to
  BY <1>1, ArchiveTypes
<1>4. A!TypeOK'
  BY <1>1, ArchiveTypes DEF A!TypeOK
<1>5. A!Kept' = A!Kept
  BY <1>1 DEF A!Kept
<1>6. PublisherInv(p)'
  BY <1>1, <1>2, <1>3 DEF PublisherInv, InLock
<1>7. QED
  BY <1>1, <1>3, <1>4, <1>5, <1>6, PublisherStep

LEMMA ArchiveKept ==
  ASSUME ArchiveInv, [A!Next]_(A!vars)
  PROVE  ArchiveInv'
<1>1. CASE UNCHANGED A!vars
  <2>1. A!TypeOK' /\ A!Kept' = A!Kept
    BY <1>1, ArchiveTypes DEF A!vars, A!TypeOK, A!Kept
  <2>2. A!EntriesSurvive' /\ A!ArchivesAreWhole'
    BY <1>1, <2>1 DEF A!vars, ArchiveInv, A!EntriesSurvive, A!Users, A!ArchivesAreWhole
  <2>3. \A p \in Publishers : PublisherInv(p)'
    BY <1>1, OthersAreUndisturbed DEF A!vars, ArchiveInv
  <2>4. QED
    BY <2>2, <2>3 DEF ArchiveInv
<1>2. ASSUME NEW p \in Publishers, NEW f \in Evidence, A!Copy(p, f)
      PROVE  ArchiveInv'
  BY <1>2, CopyKeeps
<1>3. QED
  BY <1>1, <1>2, ChangesKeep, MakeOutputKeeps, AddEntryKeeps, DieKeeps, AcquireKeeps, LockKeeps, RecheckKeeps, ListKeeps,
     PreserveKeeps, MoveAwayKeeps, PromoteKeeps, RollbackKeeps, CleanKeeps, WayOutKeeps DEF A!Next

(* What was checked of the output before the swap still holds at it, of    *)
(* what was there.                                                         *)
LEMMA MovesAreAllowed ==
  ASSUME ArchiveInv
  PROVE  A!MovesUnlessForced
BY DEF ArchiveInv, PublisherInv, A!MovesUnlessForced

LEMMA NothingGoes ==
  ASSUME \A d \in A!Kept : d.users = {} \/ \E c \in A!Kept' : d.users \subseteq c.users
  PROVE  A!OnlyLateEntriesGo
<1>1. \A e \in A!Users : e \in A!Users'
  BY DEF A!Users
<1>2. QED
  BY <1>1 DEF A!OnlyLateEntriesGo

(* One publication: only the removal of a backup costs an entry.           *)
LEMMA PublicationLosses ==
  ASSUME ArchiveInv, NEW p \in Publishers,
         A!MoveAway(p) \/ A!Promote(p) \/ A!Rollback(p) \/ A!Clean(p)
  PROVE  A!OnlyLateEntriesGo
<1>0. PublisherInv(p)
  BY DEF ArchiveInv
<1>1. CASE A!MoveAway(p)
  <2>1. backup'[p] = output /\ (\A q \in Publishers \ {p} : backup'[q] = backup[q]) /\ backup[p] = None
    BY <1>0, <1>1, ArchiveTypes DEF A!MoveAway, A!Go, PublisherInv
  <2>2. A!Kept \subseteq A!Kept'
    BY <2>1 DEF A!Kept
  <2>3. QED
    BY <2>2, NothingGoes
<1>2. CASE A!Promote(p)
  <2>1. backup' = backup /\ (output = None \/ output = A!Empty)
    BY <1>2 DEF A!Promote, A!Go
  <2>2. \A d \in A!Kept : d.users = {} \/ d \in A!Kept'
    BY <2>1 DEF A!Kept, A!Empty
  <2>3. QED
    BY <2>2, NothingGoes
<1>3. CASE A!Rollback(p)
  <2>1. \/ UNCHANGED <<output, backup>>
        \/ /\ output = None /\ output' = backup[p]
           /\ \A q \in Publishers \ {p} : backup'[q] = backup[q]
    BY <1>3, ArchiveTypes DEF A!Rollback, A!Go
  <2>2. A!Kept \subseteq A!Kept'
    BY <2>1 DEF A!Kept
  <2>3. QED
    BY <2>2, NothingGoes
<1>4. CASE A!Clean(p)
  <2>1. /\ pc[p] = "clean" /\ pc'[p] = "unstage" /\ output' = output
        /\ \A q \in Publishers \ {p} : backup'[q] = backup[q]
    BY <1>4, ArchiveTypes DEF A!Clean, A!Go
  <2>2. output # None /\ (backup[p] # None => backup[p].users \ late[p] \subseteq output.users)
    BY <1>0, <2>1 DEF PublisherInv
  <2>3. \A d \in A!Kept : \A e \in d.users \ late[p] : \E c \in A!Kept' : e \in c.users
    BY <2>1, <2>2 DEF A!Kept
  <2>4. \A e \in A!Users : e \in late[p] \/ e \in A!Users'
    BY <2>3 DEF A!Users
  <2>5. QED
    BY <2>1, <2>4 DEF A!OnlyLateEntriesGo
<1>5. QED
  BY <1>1, <1>2, <1>3, <1>4

LEMMA OnlyLateEntriesAreLost ==
  ASSUME ArchiveInv, [A!Next]_(A!vars)
  PROVE  A!OnlyLateEntriesGo
<1>1. CASE UNCHANGED <<output, backup>>
  BY <1>1, NothingGoes DEF A!Kept
<1>2. CASE A!MakeOutput
  <2>1. A!Kept \subseteq A!Kept'
    BY <1>2 DEF A!MakeOutput, A!Kept
  <2>2. QED
    BY <2>1, NothingGoes
<1>3. CASE A!AddEntry
  <2>1. /\ backup' = backup /\ output # None
        /\ \E e \in Entries : output' = [output EXCEPT !.users = @ \cup {e}]
    BY <1>3 DEF A!AddEntry
  <2>2. output \in A!Directories /\ output' \in A!Directories /\ output.users \subseteq output'.users
    BY <2>1, ArchiveTypes DEF A!Directories
  <2>3. output' # None
    BY <2>2, NoneIsNew
  <2>4. QED
    BY <2>1, <2>2, <2>3, NothingGoes DEF A!Kept
<1>4. ASSUME NEW p \in Publishers,
             A!Acquire(p) \/ A!Lock(p) \/ A!Recheck(p) \/ (\E f \in Evidence : A!Copy(p, f)) \/ A!List(p)
               \/ A!Preserve(p) \/ A!Raise(p) \/ A!Unstage(p) \/ A!Unlock(p) \/ A!Die(p)
      PROVE  UNCHANGED <<output, backup>>
  BY <1>4 DEF A!Acquire, A!Lock, A!Recheck, A!Copy, A!List, A!Preserve, A!Raise, A!Unstage, A!Unlock, A!Die, A!dirs
<1>5. CASE A!Changes
  BY <1>1, <1>5 DEF A!Changes
<1>6. CASE UNCHANGED A!vars
  BY <1>1, <1>6 DEF A!vars
<1>7. QED
  BY <1>1, <1>2, <1>3, <1>4, <1>5, <1>6, PublicationLosses DEF A!Next

-----------------------------------------------------------------------------
(* Observation.  The artifacts are the thread: one more action is          *)
(* published exactly when all before it have completed, so their list      *)
(* grows along the plan.                                                   *)

(* What a record of each name carries.                                     *)
LEMMA EventFields ==
  ASSUME NEW e \in O!Events
  PROVE  /\ e.name \in O!Lifecycle => e.occ \in O!Occurrences
         /\ e.name = "published" => e.artifact \in O!Artifacts
         /\ e.name = "outcome" => e.outcome \in O!Outcomes
  BY DEF O!Events, O!Lifecycle

(* What an accepted record of a known action says of that action: it is    *)
(* one of the plan, and only the two parts that the record names change.   *)
LEMMA LifecycleFacts ==
  ASSUME N \in Nat, O!IInv, stream # None, NEW e \in O!Events, O!Offer(e), e.name \in O!Lifecycle
  PROVE  /\ stream \in O!States /\ stream.outcome = None /\ stream.phase = "executing"
         /\ stream.occ \in [1..N -> O!Occurrences] /\ stream.occ # <<>>
         /\ e.at \in 1..N /\ e.occ \in O!Occurrences
         /\ stream'.phase = stream.phase /\ stream'.outcome = stream.outcome
         /\ stream'.occ = [stream.occ EXCEPT ![e.at] = e.occ]
         /\ stream'.artifacts = IF e.name = "published" THEN Append(stream.artifacts, e.artifact)
                                ELSE stream.artifacts
         /\ stream' \in O!States
<1>1. /\ stream \in O!States /\ stream.outcome = None /\ stream.phase = "executing"
      /\ e.at \in DOMAIN stream.occ
  BY DEF O!IInv, O!Offer, O!Accepts, O!Open, O!Lifecycle
<1>2. stream.occ \in [1..N -> O!Occurrences] /\ e.at \in 1..N /\ stream.occ # <<>>
  BY <1>1 DEF O!States
<1>3. /\ e.occ \in O!Occurrences
      /\ e.name = "published" => e.artifact \in O!Artifacts
  BY EventFields
<1>4. CASE e.name = "published"
  <2>1. stream' = [stream EXCEPT !.occ[e.at] = e.occ, !.artifacts = Append(@, e.artifact)]
    BY <1>4 DEF O!Offer, O!Reduce
  <2>2. [stream.occ EXCEPT ![e.at] = e.occ] \in [1..N -> O!Occurrences]
    BY <1>2, <1>3
  <2>3. Append(stream.artifacts, e.artifact) \in Seq(O!Artifacts)
    BY <1>1, <1>3, <1>4 DEF O!States
  <2>4. QED
    BY <1>1, <1>2, <1>3, <1>4, <2>1, <2>2, <2>3 DEF O!States
<1>5. CASE e.name # "published"
  <2>1. stream' = [stream EXCEPT !.occ[e.at] = e.occ]
    BY <1>5 DEF O!Offer, O!Reduce, O!Lifecycle
  <2>2. [stream.occ EXCEPT ![e.at] = e.occ] \in [1..N -> O!Occurrences]
    BY <1>2, <1>3
  <2>3. QED
    BY <1>1, <1>2, <1>3, <1>5, <2>1, <2>2 DEF O!States
<1>6. QED
  BY <1>4, <1>5

(* A started action comes after completed ones only; none after it ran.    *)
LEMMA StartedStep ==
  ASSUME N \in Nat, O!IInv, stream # None, NEW e \in O!Events, O!Offer(e), e.name = "started"
  PROVE  O!IInv'
<1>1. /\ stream.occ[e.at].status = "unreached" /\ e.occ.status = "running"
      /\ \A i \in 1..(e.at - 1) : stream.occ[i].status = "completed"
  BY DEF O!Offer, O!Accepts, O!Lifecycle, O!StartOK, O!StartsInOrder
<1>2. /\ stream \in O!States /\ stream' \in O!States /\ e.at \in 1..N
      /\ stream.occ \in [1..N -> O!Occurrences] /\ stream.occ # <<>>
      /\ stream.outcome = None /\ stream'.outcome = None
      /\ stream'.occ = [stream.occ EXCEPT ![e.at] = e.occ]
      /\ stream'.artifacts = stream.artifacts
  BY LifecycleFacts DEF O!Lifecycle
<1>3. \A j \in 1..N : stream'.occ[j] = IF j = e.at THEN e.occ ELSE stream.occ[j]
  BY <1>2
<1>4. stream'.occ # <<>> /\ stream' # None => \A j \in 1..N :
         /\ O!Ran(j)' => \A i \in 1..(j - 1) : O!Completed(i)'
         /\ O!Completed(j)' => stream'.occ[j].exit = "zero" /\ j \in DOMAIN stream'.artifacts
  <2>1. ASSUME NEW j \in 1..N, O!Ran(j)', NEW i \in 1..(j - 1)
        PROVE  O!Completed(i)'
    <3>1. e.at # i
      BY <1>1, <1>2, <1>3, <2>1 DEF O!IInv, O!Ran, O!Completed
    <3>2. QED
      BY <1>1, <1>2, <1>3, <2>1, <3>1 DEF O!IInv, O!Ran, O!Completed
  <2>2. ASSUME NEW j \in 1..N, O!Completed(j)'
        PROVE  stream'.occ[j].exit = "zero" /\ j \in DOMAIN stream'.artifacts
    BY <1>1, <1>2, <1>3, <2>2 DEF O!IInv, O!Completed
  <2>3. QED
    BY <2>1, <2>2
<1>5. \A k \in DOMAIN stream'.artifacts : stream'.artifacts[k].boundary = k /\ O!Ran(k)'
  BY <1>1, <1>2 DEF O!IInv, O!Ran
<1>6. QED
  BY <1>2, <1>4, <1>5 DEF O!IInv

(* The artifact of the first action that has none joins the list.          *)
LEMMA PublishedStep ==
  ASSUME N \in Nat, O!IInv, stream # None, NEW e \in O!Events, O!Offer(e), e.name = "published"
  PROVE  O!IInv'
<1>1. /\ stream.occ[e.at].status = "running" /\ e.occ = stream.occ[e.at]
      /\ e.artifact.boundary = e.at /\ O!Published(stream, e.at) = {} /\ e.artifact \in O!Artifacts
  BY EventFields DEF O!Offer, O!Accepts, O!Lifecycle, O!PublishOK, O!PublishOnce
<1>2. /\ stream \in O!States /\ stream' \in O!States /\ e.at \in 1..N
      /\ stream.occ \in [1..N -> O!Occurrences] /\ stream.occ # <<>>
      /\ stream.outcome = None /\ stream'.outcome = None
      /\ stream'.occ = [stream.occ EXCEPT ![e.at] = e.occ]
      /\ stream'.artifacts = Append(stream.artifacts, e.artifact)
  BY LifecycleFacts DEF O!Lifecycle
<1>3. stream'.occ = stream.occ /\ stream.artifacts \in Seq(O!Artifacts)
  BY <1>1, <1>2 DEF O!States
<1>4. Len(stream.artifacts) = e.at - 1
  <2>1. e.at \notin DOMAIN stream.artifacts
    BY <1>1 DEF O!Published, O!IInv
  <2>2. Len(stream.artifacts) < e.at
    BY <1>2, <1>3, <2>1
  <2>3. ASSUME e.at > 1
        PROVE  e.at - 1 \in DOMAIN stream.artifacts
    <3>1. e.at - 1 \in 1..N /\ e.at - 1 \in 1..(e.at - 1)
      BY <1>2, <2>3
    <3>2. O!Ran(e.at)
      BY <1>1 DEF O!Ran
    <3>3. O!Completed(e.at - 1)
      BY <1>2, <3>1, <3>2 DEF O!IInv
    <3>4. QED
      BY <1>2, <3>1, <3>3 DEF O!IInv
  <2>4. QED
    BY <1>2, <1>3, <2>2, <2>3
<1>5. \A k \in DOMAIN stream'.artifacts : stream'.artifacts[k].boundary = k /\ O!Ran(k)'
  <2>1. ASSUME NEW k \in DOMAIN stream'.artifacts
        PROVE  stream'.artifacts[k].boundary = k /\ O!Ran(k)'
    <3>1. CASE k = e.at
      BY <1>1, <1>2, <1>3, <1>4, <3>1 DEF O!Ran
    <3>2. CASE k # e.at
      <4>1. k \in DOMAIN stream.artifacts /\ stream'.artifacts[k] = stream.artifacts[k]
        BY <1>1, <1>2, <1>3, <1>4, <2>1, <3>2
      <4>2. QED
        BY <1>3, <4>1 DEF O!IInv, O!Ran
    <3>3. QED
      BY <3>1, <3>2
  <2>2. QED
    BY <2>1
<1>6. \A j \in DOMAIN stream.artifacts : j \in DOMAIN stream'.artifacts
  BY <1>1, <1>2, <1>3
<1>7. \A j \in 1..N :
        /\ O!Ran(j)' => \A i \in 1..(j - 1) : O!Completed(i)'
        /\ O!Completed(j)' => stream'.occ[j].exit = "zero" /\ j \in DOMAIN stream'.artifacts
  BY <1>2, <1>3, <1>6 DEF O!IInv, O!Ran, O!Completed
<1>8. QED
  BY <1>2, <1>3, <1>5, <1>7 DEF O!IInv

(* A running action comes to an end; only a published one completes.       *)
LEMMA FinishedStep ==
  ASSUME N \in Nat, O!IInv, stream # None, NEW e \in O!Events, O!Offer(e), e.name = "finished"
  PROVE  O!IInv'
<1>1. /\ stream.occ[e.at].status = "running" /\ e.occ.status # "unreached"
      /\ e.occ.status = "completed" => e.occ.exit = "zero" /\ \E k \in DOMAIN stream.artifacts : stream.artifacts[k].boundary = e.at
  BY DEF O!Offer, O!Accepts, O!Lifecycle, O!FinishOK, O!Finishes, O!Earned, O!Unearned, O!Published, O!Terminal
<1>2. /\ stream \in O!States /\ stream' \in O!States /\ e.at \in 1..N
      /\ stream.occ \in [1..N -> O!Occurrences] /\ stream.occ # <<>>
      /\ stream.outcome = None /\ stream'.outcome = None
      /\ stream'.occ = [stream.occ EXCEPT ![e.at] = e.occ]
      /\ stream'.artifacts = stream.artifacts
  BY LifecycleFacts DEF O!Lifecycle
<1>3. \A j \in 1..N : stream'.occ[j] = IF j = e.at THEN e.occ ELSE stream.occ[j]
  BY <1>2
<1>4. stream'.occ # <<>> /\ stream' # None => \A j \in 1..N :
         /\ O!Ran(j)' => \A i \in 1..(j - 1) : O!Completed(i)'
         /\ O!Completed(j)' => stream'.occ[j].exit = "zero" /\ j \in DOMAIN stream'.artifacts
  <2>1. ASSUME NEW j \in 1..N, O!Ran(j)', NEW i \in 1..(j - 1)
        PROVE  O!Completed(i)'
    <3>1. O!Ran(j)
      BY <1>1, <1>3, <2>1 DEF O!Ran
    <3>2. O!Completed(i)
      BY <1>2, <3>1 DEF O!IInv
    <3>3. i # e.at
      BY <1>1, <3>2 DEF O!Completed
    <3>4. QED
      BY <1>2, <1>3, <3>2, <3>3 DEF O!Completed
  <2>2. ASSUME NEW j \in 1..N, O!Completed(j)'
        PROVE  stream'.occ[j].exit = "zero" /\ j \in DOMAIN stream'.artifacts
    <3>1. CASE j = e.at
      BY <1>1, <1>2, <1>3, <2>2, <3>1 DEF O!IInv, O!Completed
    <3>2. CASE j # e.at
      BY <1>2, <1>3, <2>2, <3>2 DEF O!IInv, O!Completed
    <3>3. QED
      BY <3>1, <3>2
  <2>3. QED
    BY <2>1, <2>2
<1>5. \A k \in DOMAIN stream'.artifacts : stream'.artifacts[k].boundary = k /\ O!Ran(k)'
  BY <1>1, <1>2 DEF O!IInv, O!Ran
<1>6. QED
  BY <1>2, <1>4, <1>5 DEF O!IInv

(* What the other records change.                                          *)
LEMMA OtherStep ==
  ASSUME N \in Nat, O!IInv, NEW e \in O!Events, O!Offer(e), stream = None \/ e.name \notin O!Lifecycle
  PROVE  O!IInv'
<1>1. CASE stream = None
  <2>1. stream' = O!Allocated
    BY <1>1 DEF O!Offer, O!Accepts, O!Reduce
  <2>2. QED
    BY <2>1 DEF O!Allocated, O!IInv, O!States
<1>2. CASE stream # None /\ e.name = "planned"
  <2>1. /\ stream \in O!States /\ stream.occ = <<>> /\ stream.artifacts = <<>> /\ stream.outcome = None
        /\ stream' = [stream EXCEPT !.occ = [j \in 1..N |-> O!Unreached]]
    BY <1>2 DEF O!IInv, O!Offer, O!Accepts, O!Reduce, O!Open, O!Lifecycle
  <2>2. [j \in 1..N |-> O!Unreached] \in [1..N -> O!Occurrences]
    BY DEF O!Unreached, O!Occurrences, O!Statuses, O!Exits
  <2>3. /\ stream' \in O!States /\ stream'.artifacts = <<>> /\ stream'.outcome = None
        /\ stream'.occ = [j \in 1..N |-> O!Unreached]
    BY <2>1, <2>2 DEF O!States
  <2>4. \A j \in 1..N : ~O!Ran(j)' /\ ~O!Completed(j)'
    BY <2>3 DEF O!Ran, O!Completed, O!Unreached
  <2>5. QED
    BY <2>3, <2>4 DEF O!IInv
<1>3. CASE stream # None /\ e.name = "prepared"
  <2>1. stream \in O!States /\ stream' = [stream EXCEPT !.phase = "executing"]
    BY <1>3 DEF O!IInv, O!Offer, O!Accepts, O!Reduce
  <2>2. QED
    BY <1>3, <2>1 DEF O!IInv, O!States, O!Ran, O!Completed
<1>4. CASE stream # None /\ e.name = "outcome"
  <2>1. /\ stream \in O!States /\ e.outcome \in O!Outcomes /\ O!OutcomeOK(stream, e.outcome)
        /\ stream' = [stream EXCEPT !.phase = "finished", !.outcome = e.outcome]
    BY <1>4, EventFields DEF O!IInv, O!Offer, O!Accepts, O!Reduce, O!Lifecycle
  <2>2. e.outcome.status = "completed" =>
          stream.occ # <<>> /\ \A j \in 1..N : O!Completed(j)
    BY <2>1 DEF O!OutcomeOK, O!Completed, O!States
  <2>3. QED
    BY <1>4, <2>1, <2>2 DEF O!IInv, O!States, O!Ran, O!Completed
<1>5. e.name \in O!Lifecycle \cup {"allocated", "planned", "prepared", "outcome"}
  BY DEF O!Events, O!Lifecycle
<1>6. stream # None => e.name # "allocated"
  BY DEF O!Offer, O!Accepts, O!Lifecycle
<1>7. QED
  BY <1>1, <1>2, <1>3, <1>4, <1>5, <1>6

LEMMA ObservationKept ==
  ASSUME N \in Nat, O!IInv, [O!Next]_stream
  PROVE  O!IInv'
<1>1. ASSUME NEW e \in O!Events, O!Offer(e)
      PROVE  O!IInv'
  BY <1>1, StartedStep, PublishedStep, FinishedStep, OtherStep DEF O!Lifecycle
<1>2. CASE UNCHANGED stream
  BY <1>2 DEF O!IInv, O!Ran, O!Completed
<1>3. QED
  BY <1>1, <1>2 DEF O!Next

(* The inductive invariant, of a plan of any length.                       *)
THEOREM ObservationInvariance == ASSUME N \in Nat PROVE O!Spec => []O!IInv
<1>1. O!Init => O!IInv
  BY DEF O!Init, O!IInv
<1>2. O!IInv /\ [O!Next]_stream => O!IInv'
  BY ObservationKept
<1>3. QED
  BY <1>1, <1>2, PTL DEF O!Spec

LEMMA IInvIsAPrefix ==
  ASSUME O!IInv
  PROVE  O!ProgressIsAPrefix
<1>1. O!TypeOK
  BY DEF O!IInv, O!TypeOK, O!States
<1>2. O!HasPlan => \A j \in 1..N : O!Ran(j) => \A i \in 1..(j - 1) : O!Completed(i)
  BY DEF O!IInv, O!HasPlan
<1>3. O!ArtifactsFollowPlan
  BY DEF O!IInv, O!HasPlan, O!ArtifactsFollowPlan
<1>4. QED
  BY <1>1, <1>2, <1>3 DEF O!ProgressIsAPrefix

(* However the records come, the actions that completed are a prefix of    *)
(* the plan, and the artifacts are theirs (Observation.reduce).            *)
THEOREM ProgressIsAlwaysAPrefix == ASSUME N \in Nat PROVE O!Spec => []O!ProgressIsAPrefix
<1>1. O!IInv => O!ProgressIsAPrefix
  BY IInvIsAPrefix
<1>2. QED
  BY <1>1, ObservationInvariance, PTL

(* Of the last artifact or an outer success, the artifacts are those of    *)
(* the whole plan.                                                         *)
LEMMA CompletedPlan ==
  ASSUME N \in Nat \ {0}, O!IInv, O!HasPlan, \A j \in 1..N : O!Completed(j)
  PROVE  /\ Len(stream.artifacts) = N
         /\ \A j \in 1..N : stream.occ[j].exit = "zero"
<1>1. stream.artifacts \in Seq(O!Artifacts)
  BY DEF O!IInv, O!HasPlan, O!States
<1>2. \A j \in 1..N : stream.occ[j].exit = "zero" /\ j \in DOMAIN stream.artifacts
  BY DEF O!IInv, O!HasPlan
<1>3. \A k \in DOMAIN stream.artifacts : k \in 1..N
  <2>1. \A k \in DOMAIN stream.artifacts : stream.artifacts[k] \in O!Artifacts
    BY <1>1
  <2>2. QED
    BY <2>1 DEF O!IInv, O!HasPlan, O!Artifacts
<1>4. N \in DOMAIN stream.artifacts
  BY <1>2
<1>5. Len(stream.artifacts) \in Nat /\ DOMAIN stream.artifacts = 1..Len(stream.artifacts)
  BY <1>1
<1>6. Len(stream.artifacts) \in DOMAIN stream.artifacts
  BY <1>4, <1>5
<1>7. QED
  BY <1>2, <1>3, <1>4, <1>5, <1>6

LEMMA IInvIsEarned ==
  ASSUME N \in Nat \ {0}, O!IInv
  PROVE  O!SuccessIsEarned
<1> SUFFICES ASSUME O!PhysicalCompletion \/ (stream # None /\ stream.outcome # None
                                     /\ stream.outcome.status = "completed")
             PROVE  O!HasPlan /\ \A j \in 1..N : O!Completed(j)
  BY CompletedPlan DEF O!SuccessIsEarned
<1>1. CASE O!PhysicalCompletion
  <2>1. O!HasPlan /\ O!Completed(N) /\ N \in 1..N
    BY <1>1 DEF O!PhysicalCompletion
  <2>2. \A i \in 1..(N - 1) : O!Completed(i)
    BY <2>1 DEF O!IInv, O!HasPlan, O!Ran, O!Completed
  <2>3. QED
    BY <2>1, <2>2
<1>2. CASE stream # None /\ stream.outcome # None /\ stream.outcome.status = "completed"
  BY <1>2 DEF O!IInv, O!HasPlan
<1>3. QED
  BY <1>1, <1>2

(* A claim of success, of the whole or of the layout, is earned by every   *)
(* action of the plan (Observation.reduce, final_results).                 *)
THEOREM SuccessIsAlwaysEarned == ASSUME N \in Nat \ {0} PROVE O!Spec => []O!SuccessIsEarned
<1>1. O!IInv => O!SuccessIsEarned
  BY IInvIsEarned
<1>2. O!Spec => []O!IInv
  BY ObservationInvariance
<1>3. QED
  BY <1>1, <1>2, PTL

LEMMA RecordsReviseNothing ==
  ASSUME N \in Nat, O!IInv, O!Next
  PROVE  O!Unrevised
<1> SUFFICES ASSUME stream # None, NEW e \in O!Events, O!Offer(e)
             PROVE  O!Unrevised
  BY DEF O!Next, O!Unrevised
<1>1. stream \in O!States /\ stream.outcome = None /\ stream.artifacts \in Seq(O!Artifacts)
  BY DEF O!IInv, O!Offer, O!Accepts, O!Open, O!States
<1>2. CASE e.name \in O!Lifecycle
  <2>1. /\ stream.occ \in [1..N -> O!Occurrences] /\ e.at \in 1..N
        /\ stream'.occ = [stream.occ EXCEPT ![e.at] = e.occ]
        /\ stream'.artifacts = IF e.name = "published" THEN Append(stream.artifacts, e.artifact)
                               ELSE stream.artifacts
    BY <1>2, LifecycleFacts
  <2>2. \/ stream.occ[e.at].status \in {"unreached", "running"}
    BY <1>2 DEF O!Offer, O!Accepts, O!Lifecycle, O!StartOK, O!PublishOK, O!FinishOK, O!Finishes
  <2>3. \A j \in DOMAIN stream.occ : stream.occ[j].status \in O!Terminal => stream'.occ[j] = stream.occ[j]
    BY <2>1, <2>2 DEF O!Terminal
  <2>4. CASE e.name = "published"
    <3>1. e.artifact \in O!Artifacts
      BY <2>4, EventFields
    <3>2. SubSeq(Append(stream.artifacts, e.artifact), 1, Len(stream.artifacts)) = stream.artifacts
      BY <1>1, <3>1
    <3>3. QED
      BY <1>1, <2>1, <2>3, <2>4, <3>2 DEF O!Unrevised
  <2>5. CASE e.name # "published"
    <3>1. SubSeq(stream.artifacts, 1, Len(stream.artifacts)) = stream.artifacts
      BY <1>1
    <3>2. QED
      BY <1>1, <2>1, <2>3, <2>5, <3>1 DEF O!Unrevised
  <2>6. QED
    BY <2>4, <2>5
<1>3. CASE e.name \notin O!Lifecycle
  <2>1. stream'.artifacts = stream.artifacts
    BY <1>1, <1>3 DEF O!Offer, O!Accepts, O!Reduce, O!Lifecycle, O!States
  <2>2. \A j \in DOMAIN stream.occ : stream'.occ[j] = stream.occ[j]
    <3>1. CASE e.name = "planned"
      <4>1. stream.occ = <<>>
        BY <3>1 DEF O!Offer, O!Accepts, O!Lifecycle
      <4>2. QED
        BY <4>1
    <3>2. CASE e.name = "prepared"
      BY <1>1, <3>2 DEF O!Offer, O!Reduce, O!States
    <3>3. CASE e.name = "outcome"
      BY <1>1, <3>3 DEF O!Offer, O!Reduce, O!States
    <3>4. QED
      BY <1>3, <3>1, <3>2, <3>3 DEF O!Offer, O!Accepts, O!Lifecycle
  <2>3. SubSeq(stream.artifacts, 1, Len(stream.artifacts)) = stream.artifacts
    BY <1>1
  <2>4. QED
    BY <1>1, <2>1, <2>2, <2>3 DEF O!Unrevised
<1>4. QED
  BY <1>2, <1>3

(* A record that is accepted revises none: no terminal occurrence, no      *)
(* artifact and no outcome (Observation.reduce).                           *)
THEOREM NothingIsEverRevised == ASSUME N \in Nat PROVE O!Spec => O!NothingIsRevised
<1>1. O!IInv /\ [O!Next]_stream => [O!Unrevised]_stream
  BY RecordsReviseNothing
<1>2. QED
  BY <1>1, ObservationInvariance, PTL DEF O!Spec, O!NothingIsRevised

-----------------------------------------------------------------------------
(* Elaboration.  Only the elaboration under way has an open context, and   *)
(* only an open context takes a record; so what was true of the records    *)
(* when a context was closed stays true.                                   *)

(* The cardinality that Elaboration counts with is the library's.          *)
LEMMA CardinalityOfElaboration ==
  ASSUME NEW S
  PROVE  E!Cardinality(S) = Cardinality(S)
BY DEF E!Cardinality, Cardinality

(* What relates the elaboration under way to the contexts.                 *)
Bookkeeping ==
  /\ pc = "begin" => state[mode] = None
  /\ pc \in {"construct", "thrown", "returned"} => state[mode] \in {"open", "failed"}
  /\ mode = "implementation" => state["simulation"] = None
  /\ pc = "resolve" => mode = "implementation" /\ state[mode] = "finalized"
  /\ \A m \in E!Modes : state[m] = "open" => m = mode /\ pc \in {"construct", "thrown", "returned"}
  /\ \A m \in E!Modes : state[m] = None => records[m] = {}
  /\ \A m \in refused : state[m] = "failed"
  /\ \A m \in E!Modes \cap projects : state[m] = "finalized"
  /\ "flow" \in projects => mode = "simulation" \/ pc = "ended"
  /\ IsFiniteSet(circuit)

NamesAreUnique == \A m \in E!Modes : \A r1, r2 \in records[m] : r1.id = r2.id => r1 = r2

ElaborationInv == E!TypeOK /\ Bookkeeping /\ NamesAreUnique /\ E!PolicyIsFollowed /\ E!ProjectsAreEarned /\ E!InventoryIsBuilt

-----------------------------------------------------------------------------
(* Two prefixes of a path that are as long as each other are the same.     *)
LEMMA PrefixesOfOneLength ==
  ASSUME NEW s \in Seq(STRING), NEW t \in Seq(STRING), NEW path \in Seq(STRING),
         E!IsPrefix(s, path), E!IsPrefix(t, path), Len(s) = Len(t)
  PROVE  s = t
<1>1. SubSeq(s, 1, Len(s)) = s /\ SubSeq(t, 1, Len(t)) = t
  OBVIOUS
<1>2. QED
  BY <1>1 DEF E!IsPrefix

(* A selector is by instance or by subtree, and not both.                  *)
LEMMA SelectorKinds ==
  ASSUME NEW s \in E!Selectors
  PROVE  \/ /\ "instance" \in DOMAIN s /\ "subtree" \notin DOMAIN s
            /\ s = [instance |-> s.instance]
         \/ /\ "subtree" \in DOMAIN s /\ "instance" \notin DOMAIN s
            /\ s = [subtree |-> s.subtree] /\ s.subtree \in Scopes
BY DEF E!Selectors

(* The rule that decides is the most specific of those that match.         *)
LEMMA DecidingIsMostSpecific ==
  ASSUME ConstantsAreTyped, rules \subseteq E!Rules, NEW id \in E!Ids, NEW r \in E!Deciding(id), NEW q \in E!Matching(id)
  PROVE  \/ q.selector = r.selector
         \/ /\ "subtree" \in DOMAIN q.selector
            /\ "subtree" \in DOMAIN r.selector => Len(q.selector.subtree) < Len(r.selector.subtree)
<1>1. /\ r \in E!Matching(id) /\ E!Outranks(r.selector, q.selector)
      /\ r.selector \in E!Selectors /\ q.selector \in E!Selectors
      /\ E!Matches(r.selector, id) /\ E!Matches(q.selector, id)
  BY DEF E!Deciding, E!Matching, E!Rules
<1>2. CASE "instance" \in DOMAIN r.selector
  BY <1>1, <1>2, SelectorKinds DEF E!Matches
<1>3. CASE "instance" \notin DOMAIN r.selector
  <2>1. /\ "subtree" \in DOMAIN q.selector /\ "subtree" \in DOMAIN r.selector
        /\ Len(q.selector.subtree) <= Len(r.selector.subtree)
        /\ "instance" \notin DOMAIN q.selector
    BY <1>1, <1>3, SelectorKinds DEF E!Outranks
  <2>2. /\ E!IsPrefix(q.selector.subtree, id.path) /\ E!IsPrefix(r.selector.subtree, id.path)
        /\ q.selector.subtree \in Seq(STRING) /\ r.selector.subtree \in Seq(STRING) /\ id.path \in Seq(STRING)
    BY <1>1, <1>3, <2>1, SelectorKinds DEF E!Matches, E!Ids, ConstantsAreTyped
  <2>3. Len(q.selector.subtree) \in Nat /\ Len(r.selector.subtree) \in Nat
    BY <2>2
  <2>4. CASE Len(q.selector.subtree) = Len(r.selector.subtree)
    <3>1. q.selector.subtree = r.selector.subtree
      BY <2>2, <2>4, PrefixesOfOneLength
    <3>2. QED
      BY <1>1, <2>1, <3>1, SelectorKinds
  <2>5. QED
    BY <2>1, <2>3, <2>4
<1>4. QED
  BY <1>2, <1>3

(* What a context may take is a record the policy is followed in, of a     *)
(* resource it has not.                                                    *)
LEMMA CandidatesAreFollowed ==
  ASSUME ConstantsAreTyped, E!TypeOK, NEW m \in E!Modes, NEW id \in E!Ids, NEW request \in Requests,
         NEW r \in E!Candidates(m, id, request)
  PROVE  r \in E!Records /\ r.id = id /\ r.request = request /\ E!Followed(r) /\ \A q \in records[m] : q.id # id
<1>0. PICK f \in E!Lookup(id) : \E c \in E!Select(f.requirement, request) :
        /\ r = [id |-> id, request |-> request, requirement |-> f.requirement, applied |-> f.applied,
                implementation |-> c.implementation, reason |-> c.reason]
        /\ \A q \in records[m] : q.id # r.id
  BY DEF E!Candidates
<1>1. PICK c \in E!Select(f.requirement, request) :
        /\ r = [id |-> id, request |-> request, requirement |-> f.requirement, applied |-> f.applied,
                implementation |-> c.implementation, reason |-> c.reason]
        /\ \A q \in records[m] : q.id # r.id
  BY <1>0
<1>2. technology \in [Requests -> E!Macros \cup {None}]
  BY DEF E!TypeOK, ConstantsAreTyped
<1>3. /\ f.requirement \in E!Requirements
      /\ IF f.applied = None THEN f.requirement = default /\ E!Matching(id) = {}
         ELSE /\ f.applied \in E!Selectors
              /\ [selector |-> f.applied, requirement |-> f.requirement] \in E!Matching(id)
              /\ \A q \in E!Matching(id) :
                   \/ q.selector = f.applied
                   \/ /\ "subtree" \in DOMAIN q.selector
                      /\ "subtree" \in DOMAIN f.applied => Len(q.selector.subtree) < Len(f.applied.subtree)
  <2>1. CASE E!Matching(id) # {}
    <3>1. PICK d \in E!Deciding(id) : f = [requirement |-> d.requirement, applied |-> d.selector]
      BY <2>1 DEF E!Lookup
    <3>2. d \in E!Matching(id) /\ d \in E!Rules
      BY DEF E!Deciding, E!Matching, E!TypeOK
    <3>3. d = [selector |-> f.applied, requirement |-> f.requirement] /\ f.requirement \in E!Requirements
          /\ f.applied \in E!Selectors /\ f.applied # None /\ f.applied = d.selector
      BY <3>1, <3>2 DEF E!Rules, ConstantsAreTyped
    <3>4. QED
      BY <3>2, <3>3, DecidingIsMostSpecific DEF E!TypeOK
  <2>2. CASE E!Matching(id) = {}
    BY <2>2 DEF E!Lookup, E!TypeOK
  <2>3. QED
    BY <2>1, <2>2
<1>4. /\ c.implementation \in E!Macros \cup {"flops"}
      /\ c.reason \in {"explicit_flops", "exact_mapping", "flop_fallback"}
      /\ f.requirement = "flops" => c.implementation = "flops"
      /\ f.requirement = "exact" => c.implementation \in E!Macros
      /\ c.implementation \in E!Macros => technology[request] = c.implementation
      /\ c.reason = "flop_fallback" <=> c.implementation = "flops" /\ f.requirement # "flops"
  BY <1>2, <1>3, SMTT(60) DEF E!Select, E!Requirements, E!Macros
<1>5. r \in E!Records
  BY <1>1, <1>3, <1>4 DEF E!Records
<1>6. E!Followed(r)
  BY <1>1, <1>3, <1>4 DEF E!Followed
<1>7. QED
  BY <1>1, <1>5, <1>6

-----------------------------------------------------------------------------
(* What a constructor builds is typed, and little.                         *)
LEMMA BuiltIsLittle ==
  ASSUME NEW m \in E!Modes, NEW r \in E!Records, NEW id \in E!Ids
  PROVE  /\ [label : {id}, cell : E!Built(m, r), made : {TRUE}] \subseteq E!Cells
         /\ IsFiniteSet([label : {id}, cell : E!Built(m, r), made : {TRUE}])
<1>1. E!Built(m, r) \in {{"behavioral"}, {"flops"}, {"stock"}, {}}
  BY DEF E!Built
<1>2. E!Built(m, r) \subseteq {"stock", "flops", "behavioral"}
  BY <1>1
<1>3. [label : {id}, cell : E!Built(m, r), made : {TRUE}] \subseteq E!Cells
  BY <1>2 DEF E!Cells
<1>4. PICK c : E!Built(m, r) \subseteq {c}
  BY <1>1
<1>5. [label : {id}, cell : E!Built(m, r), made : {TRUE}] \subseteq {[label |-> id, cell |-> c, made |-> TRUE]}
  <2>1. SUFFICES ASSUME NEW x \in [label : {id}, cell : E!Built(m, r), made : {TRUE}]
                 PROVE  x = [label |-> id, cell |-> c, made |-> TRUE]
    OBVIOUS
  <2>2. x.label = id /\ x.cell = c /\ x.made = TRUE /\ x = [label |-> x.label, cell |-> x.cell, made |-> x.made]
    BY <1>4
  <2>3. QED
    BY <2>2
<1>6. IsFiniteSet({[label |-> id, cell |-> c, made |-> TRUE]})
  BY FS_Singleton
<1>7. QED
  BY <1>3, <1>5, <1>6, FS_Subset

(* Where a record is taken, the context is open, stays so, and the record  *)
(* is one it may take.                                                     *)
LEMMA TakenRecords ==
  ASSUME ConstantsAreTyped, E!TypeOK, NEW m \in E!Modes, NEW id \in E!Ids, NEW request \in Requests,
         E!Ram(m, id, request) \/ E!Register(m, id, request)
  PROVE  /\ pc = "construct" /\ pc' \in {"construct", "thrown"} /\ state[m] = "open"
         /\ UNCHANGED <<E!policy, mode, state, projects, refused>>
         /\ circuit' \subseteq E!Cells /\ (IsFiniteSet(circuit) => IsFiniteSet(circuit'))
         /\ \E r \in E!Candidates(m, id, request) : records' = [records EXCEPT ![m] = @ \cup {r}]
<1>1. CASE E!Register(m, id, request)
  BY <1>1 DEF E!Register, E!CheckOpen, E!TypeOK
<1>2. CASE E!Ram(m, id, request)
  <2>1. PICK r \in E!Candidates(m, id, request) :
          /\ records' = [records EXCEPT ![m] = @ \cup {r}]
          /\ circuit' = circuit \cup [label : {id}, cell : E!Built(m, r), made : {TRUE}]
          /\ IF E!Built(m, r) = {} THEN E!Thrown ELSE UNCHANGED pc
    BY <1>2 DEF E!Ram
  <2>2. r \in E!Records
    BY <2>1, CandidatesAreFollowed
  <2>3. circuit' \subseteq E!Cells
    BY <2>1, <2>2, BuiltIsLittle DEF E!TypeOK
  <2>4. IsFiniteSet(circuit) => IsFiniteSet(circuit')
    BY <2>1, <2>2, BuiltIsLittle, FS_Union
  <2>5. QED
    BY <1>2, <2>1, <2>3, <2>4 DEF E!Ram, E!CheckOpen, E!Thrown
<1>3. QED
  BY <1>1, <1>2

(* A record more leaves what was said of the others.                       *)
LEMMA TakenRecordsAreSound ==
  ASSUME ConstantsAreTyped, E!TypeOK, NamesAreUnique, E!PolicyIsFollowed,
         NEW m \in E!Modes, NEW id \in E!Ids, NEW request \in Requests, NEW r \in E!Candidates(m, id, request),
         records' = [records EXCEPT ![m] = @ \cup {r}], UNCHANGED E!policy
  PROVE  /\ records' \in [E!Modes -> SUBSET E!Records]
         /\ NamesAreUnique' /\ E!PolicyIsFollowed'
         /\ \A n \in E!Modes : n # m => records'[n] = records[n]
<1>1. r \in E!Records /\ r.id = id /\ E!Followed(r) /\ \A q \in records[m] : q.id # id
  BY CandidatesAreFollowed
<1>2. records' \in [E!Modes -> SUBSET E!Records]
  BY <1>1 DEF E!TypeOK
<1>3. /\ records'[m] = records[m] \cup {r}
      /\ \A n \in E!Modes : n # m => records'[n] = records[n]
  BY DEF E!TypeOK
<1>4. NamesAreUnique'
  BY <1>1, <1>3 DEF NamesAreUnique
<1>5. E!PolicyIsFollowed'
  <2>1. \A n \in E!Modes : \A q \in records'[n] : E!Followed(q)
    BY <1>1, <1>3 DEF E!PolicyIsFollowed
  <2>2. \A q : E!Followed(q)' <=> E!Followed(q)
    BY DEF E!Followed, E!Matching, E!policy
  <2>3. QED
    BY <2>1, <2>2 DEF E!PolicyIsFollowed
<1>6. QED
  BY <1>2, <1>3, <1>4, <1>5

(* Where no record is taken and the policy stays, they stay what they are. *)
LEMMA KeptRecordsAreSound ==
  ASSUME NamesAreUnique, E!PolicyIsFollowed, UNCHANGED <<records, E!policy>>
  PROVE  NamesAreUnique' /\ E!PolicyIsFollowed'
<1>1. \A q : E!Followed(q)' <=> E!Followed(q)
  BY DEF E!Followed, E!Matching, E!policy
<1>2. QED
  BY <1>1 DEF NamesAreUnique, E!PolicyIsFollowed

-----------------------------------------------------------------------------
(* An injection of the selected into as many stock macros is onto them.    *)
LEMMA EveryMacroIsAccountedFor ==
  ASSUME E!TypeOK, NamesAreUnique, IsFiniteSet(circuit),
         \A r \in E!Selected : E!Emitted(r), Cardinality(E!Stock) = Cardinality(E!Selected)
  PROVE  /\ \A r \in E!Selected : \E c \in E!Stock : c.label = r.id /\ \A d \in E!Stock : d.label = r.id => d = c
         /\ \A c \in E!Stock : \E r \in E!Selected : r.id = c.label
<1> DEFINE Cell(r) == CHOOSE c \in E!Stock : c.label = r.id
           f == [r \in E!Selected |-> Cell(r)]
<1>1. IsFiniteSet(E!Stock)
  BY FS_Subset DEF E!Stock
<1>2. \A r \in E!Selected : Cell(r) \in E!Stock /\ Cell(r).label = r.id
  BY DEF E!Emitted
<1>3. \A r1, r2 \in E!Selected : r1.id = r2.id => r1 = r2
  BY DEF E!Selected, NamesAreUnique, E!Modes
<1>4. f \in Injection(E!Selected, E!Stock)
  BY <1>2, <1>3 DEF Injection, IsInjective
<1>5. f \in Surjection(E!Selected, E!Stock)
  BY <1>1, <1>4, FS_Injection
<1>6. \A c \in E!Stock : \E r \in E!Selected : c = Cell(r)
  BY <1>5 DEF Surjection
<1> HIDE DEF Cell
<1>7. ASSUME NEW r \in E!Selected, NEW d \in E!Stock, d.label = r.id
      PROVE  d = Cell(r)
  BY <1>2, <1>3, <1>6, <1>7
<1>8. QED
  BY <1>2, <1>6, <1>7

(* A project's context that is left alone is still that of a project.      *)
LEMMA EarnedProjectsStayEarned ==
  ASSUME E!ProjectsAreEarned, UNCHANGED E!policy,
         \A m \in E!Modes \cap projects' :
           m \in projects /\ state'[m] = state[m] /\ records'[m] = records[m] /\ (m \in refused' => m \in refused)
  PROVE  E!ProjectsAreEarned'
BY DEF E!ProjectsAreEarned, E!policy

(* So is a resolved flow whose circuit and inventory are left alone.       *)
LEMMA BuiltInventoryStaysBuilt ==
  ASSUME E!InventoryIsBuilt, UNCHANGED circuit,
         "flow" \in projects' /\ state'["simulation"] = None =>
           /\ "flow" \in projects /\ state["simulation"] = None
           /\ records'["implementation"] = records["implementation"]
  PROVE  E!InventoryIsBuilt'
<1>1. SUFFICES ASSUME "flow" \in projects' /\ state'["simulation"] = None
               PROVE  E!InventoryIsBuilt'
  BY DEF E!InventoryIsBuilt
<1>2. E!Selected' = E!Selected /\ E!Stock' = E!Stock
  BY <1>1 DEF E!Selected, E!Stock
<1>3. QED
  BY <1>1, <1>2 DEF E!InventoryIsBuilt

(* While a constructor runs, no resolved flow awaits its simulation.       *)
LEMMA NothingResolvedUnderConstruction ==
  ASSUME ConstantsAreTyped, E!TypeOK, Bookkeeping, pc \in {"construct", "thrown", "returned"},
         projects' \subseteq projects \cup E!Modes, state'["simulation"] = None => state["simulation"] = None
  PROVE  E!InventoryIsBuilt'
<1>1. "flow" \in projects => state["simulation"] # None
  BY DEF Bookkeeping, E!TypeOK, E!Modes, ConstantsAreTyped
<1>2. "flow" \in projects' => "flow" \in projects
  BY DEF E!Modes
<1>3. QED
  BY <1>1, <1>2 DEF E!InventoryIsBuilt

-----------------------------------------------------------------------------
LEMMA InitEstablishesElaborationInv ==
  ASSUME ConstantsAreTyped, E!Init
  PROVE  ElaborationInv
<1>1. E!TypeOK
  BY DEF E!Init, E!TypeOK, ConstantsAreTyped, E!Modes
<1>2. Bookkeeping
  <2>1. IsFiniteSet(circuit)
    BY FS_EmptySet DEF E!Init
  <2>2. QED
    BY <2>1 DEF E!Init, Bookkeeping, E!Modes, ConstantsAreTyped
<1>3. QED
  BY <1>1, <1>2 DEF E!Init, ElaborationInv, NamesAreUnique, E!PolicyIsFollowed, E!ProjectsAreEarned, E!InventoryIsBuilt

LEMMA CreateKeepsIInv ==
  ASSUME ConstantsAreTyped, ElaborationInv, E!Create
  PROVE  ElaborationInv'
<1> USE DEF ElaborationInv
<1>1. E!TypeOK'
  BY DEF E!Create, E!TypeOK, E!policy
<1>2. Bookkeeping'
  <2>1. IsFiniteSet(circuit')
    BY FS_EmptySet DEF E!Create
  <2>2. /\ pc' = "construct" /\ mode' = mode /\ mode \in E!Modes /\ state'[mode] = "open"
        /\ \A m \in E!Modes : m # mode => state'[m] = state[m]
        /\ UNCHANGED <<records, projects, refused>>
    BY DEF E!Create, E!TypeOK
  <2>3. pc = "begin" /\ state[mode] = None
    BY DEF E!Create, Bookkeeping
  <2>4. QED
    BY <2>1, <2>2, <2>3 DEF Bookkeeping, E!TypeOK, E!Modes, ConstantsAreTyped
<1>3. NamesAreUnique' /\ E!PolicyIsFollowed'
  BY KeptRecordsAreSound DEF E!Create
<1>4. E!ProjectsAreEarned'
  <2>1. \A m \in E!Modes \cap projects : m # mode
    BY DEF E!Create, Bookkeeping, ConstantsAreTyped
  <2>2. \A m \in E!Modes \cap projects : state'[m] = state[m]
    BY <2>1 DEF E!Create, E!TypeOK
  <2>3. QED
    BY <2>2, EarnedProjectsStayEarned DEF E!Create
<1>5. E!InventoryIsBuilt'
  BY DEF E!Create, Bookkeeping, E!TypeOK, E!Modes, E!InventoryIsBuilt, ConstantsAreTyped
<1>6. QED
  BY <1>1, <1>2, <1>3, <1>4, <1>5

LEMMA ClosedContextsRefuse ==
  ASSUME ConstantsAreTyped, ElaborationInv, NEW m \in E!Modes, E!UseClosed(m)
  PROVE  ElaborationInv'
<1> USE DEF ElaborationInv
<1>1. E!TypeOK' /\ Bookkeeping'
  BY DEF E!UseClosed, E!Thrown, E!TypeOK, Bookkeeping, E!policy, E!contexts
<1>2. NamesAreUnique' /\ E!PolicyIsFollowed'
  BY KeptRecordsAreSound DEF E!UseClosed, E!contexts
<1>3. E!ProjectsAreEarned'
  BY EarnedProjectsStayEarned DEF E!UseClosed, E!contexts
<1>4. E!InventoryIsBuilt'
  BY NothingResolvedUnderConstruction DEF E!UseClosed, E!contexts
<1>5. QED
  BY <1>1, <1>2, <1>3, <1>4

LEMMA RefuseKeepsIInv ==
  ASSUME ConstantsAreTyped, ElaborationInv, NEW m \in E!Modes, E!Refuse(m)
  PROVE  ElaborationInv'
<1> USE DEF ElaborationInv
<1>1. E!TypeOK'
  BY DEF E!Refuse, E!Fail, E!Thrown, E!TypeOK, E!policy
<1>2. Bookkeeping'
  BY DEF E!Refuse, E!Fail, E!CheckOpen, E!Thrown, E!TypeOK, Bookkeeping, ConstantsAreTyped
<1>3. NamesAreUnique' /\ E!PolicyIsFollowed'
  BY KeptRecordsAreSound DEF E!Refuse
<1>4. E!ProjectsAreEarned'
  BY EarnedProjectsStayEarned DEF E!Refuse, E!Fail, E!CheckOpen, Bookkeeping, E!TypeOK
<1>5. E!InventoryIsBuilt'
  <2>1. state'["simulation"] = None => state["simulation"] = None
    BY DEF E!Refuse, E!Fail, E!TypeOK, E!Modes, ConstantsAreTyped
  <2>2. QED
    BY <2>1, NothingResolvedUnderConstruction DEF E!Refuse
<1>6. QED
  BY <1>1, <1>2, <1>3, <1>4, <1>5

LEMMA TakingKeepsIInv ==
  ASSUME ConstantsAreTyped, ElaborationInv, NEW m \in E!Modes, NEW id \in E!Ids, NEW request \in Requests,
         E!Ram(m, id, request) \/ E!Register(m, id, request)
  PROVE  ElaborationInv'
<1> USE DEF ElaborationInv
<1>1. /\ pc = "construct" /\ pc' \in {"construct", "thrown"} /\ state[m] = "open"
      /\ UNCHANGED <<E!policy, mode, state, projects, refused>>
      /\ circuit' \subseteq E!Cells /\ IsFiniteSet(circuit')
      /\ \E r \in E!Candidates(m, id, request) : records' = [records EXCEPT ![m] = @ \cup {r}]
  BY TakenRecords DEF Bookkeeping
<1>2. /\ records' \in [E!Modes -> SUBSET E!Records]
      /\ NamesAreUnique' /\ E!PolicyIsFollowed'
      /\ \A n \in E!Modes : n # m => records'[n] = records[n]
  BY <1>1, TakenRecordsAreSound
<1>3. E!TypeOK'
  BY <1>1, <1>2 DEF E!TypeOK, E!policy, E!Unambiguous
<1>4. Bookkeeping'
  <2>1. m = mode /\ state[m] # None
    BY <1>1 DEF Bookkeeping, ConstantsAreTyped
  <2>2. QED
    BY <1>1, <1>2, <2>1 DEF Bookkeeping
<1>5. E!ProjectsAreEarned'
  BY <1>1, <1>2, EarnedProjectsStayEarned DEF Bookkeeping
<1>6. E!InventoryIsBuilt'
  BY <1>1, NothingResolvedUnderConstruction
<1>7. QED
  BY <1>2, <1>3, <1>4, <1>5, <1>6

LEMMA InstantiateKeepsIInv ==
  ASSUME ConstantsAreTyped, ElaborationInv, NEW label \in E!Ids \cup {None}, E!Instantiate(label)
  PROVE  ElaborationInv'
<1> USE DEF ElaborationInv
<1>1. [label |-> label, cell |-> "stock", made |-> FALSE] \in E!Cells
  BY DEF E!Cells
<1>2. IsFiniteSet(circuit')
  <2>1. IsFiniteSet(circuit)
    BY DEF Bookkeeping
  <2>2. QED
    BY <2>1, FS_AddElement DEF E!Instantiate
<1>3. E!TypeOK'
  BY <1>1 DEF E!Instantiate, E!TypeOK, E!policy, E!contexts
<1>4. Bookkeeping'
  BY <1>2 DEF E!Instantiate, Bookkeeping, E!contexts
<1>5. NamesAreUnique' /\ E!PolicyIsFollowed'
  BY KeptRecordsAreSound DEF E!Instantiate, E!contexts
<1>6. E!ProjectsAreEarned'
  BY EarnedProjectsStayEarned DEF E!Instantiate, E!contexts
<1>7. E!InventoryIsBuilt'
  BY NothingResolvedUnderConstruction DEF E!Instantiate, E!contexts
<1>8. QED
  BY <1>3, <1>4, <1>5, <1>6, <1>7

(* The ways a constructor ends.                                            *)
LEMMA EndKeepsIInv ==
  ASSUME ConstantsAreTyped, ElaborationInv, E!Raise \/ E!Return
  PROVE  ElaborationInv'
<1> USE DEF ElaborationInv
<1>1. /\ pc = "construct" /\ pc' \in {"thrown", "returned"} /\ circuit' \subseteq circuit
      /\ UNCHANGED <<E!policy, mode, E!contexts, projects, refused>>
  BY DEF E!Raise, E!Return
<1>2. IsFiniteSet(circuit')
  BY <1>1, FS_Subset DEF Bookkeeping
<1>3. E!TypeOK'
  BY <1>1 DEF E!TypeOK, E!policy, E!contexts
<1>4. Bookkeeping'
  BY <1>1, <1>2 DEF Bookkeeping, E!contexts
<1>5. NamesAreUnique' /\ E!PolicyIsFollowed'
  BY <1>1, KeptRecordsAreSound DEF E!contexts
<1>6. E!ProjectsAreEarned'
  BY <1>1, EarnedProjectsStayEarned DEF E!contexts
<1>7. E!InventoryIsBuilt'
  BY <1>1, NothingResolvedUnderConstruction DEF E!contexts
<1>8. QED
  BY <1>3, <1>4, <1>5, <1>6, <1>7

(* The context of the elaboration under way is no project's yet.           *)
LEMMA NoProjectUnderConstruction ==
  ASSUME ConstantsAreTyped, ElaborationInv, pc \in {"thrown", "returned"}
  PROVE  mode \notin projects
BY DEF ElaborationInv, Bookkeeping, E!TypeOK, ConstantsAreTyped

(* A failure closes the context, and gives no project.                     *)
LEMMA FailuresKeepIInv ==
  ASSUME ConstantsAreTyped, ElaborationInv, E!ConstructionFails \/ E!FinalizeFails
  PROVE  ElaborationInv'
<1> USE DEF ElaborationInv
<1>1. /\ pc \in {"thrown", "returned"} /\ pc' = "ended"
      /\ state' = [state EXCEPT ![mode] = "failed"]
      /\ UNCHANGED <<E!policy, mode, records, circuit, projects, refused>>
  BY DEF E!ConstructionFails, E!FinalizeFails, E!Fail
<1>2. mode \in E!Modes /\ state'[mode] = "failed" /\ \A m \in E!Modes : m # mode => state'[m] = state[m]
  BY <1>1 DEF E!TypeOK
<1>3. E!TypeOK'
  BY <1>1 DEF E!TypeOK, E!policy
<1>4. mode \notin projects
  BY <1>1, NoProjectUnderConstruction
<1>5. Bookkeeping'
  BY <1>1, <1>2, <1>4 DEF Bookkeeping, E!TypeOK, ConstantsAreTyped
<1>6. NamesAreUnique' /\ E!PolicyIsFollowed'
  BY <1>1, KeptRecordsAreSound
<1>7. E!ProjectsAreEarned'
  BY <1>1, <1>2, <1>4, EarnedProjectsStayEarned
<1>8. state'["simulation"] = None => state["simulation"] = None
  BY <1>2 DEF E!Modes, ConstantsAreTyped
<1>9. E!InventoryIsBuilt'
  BY <1>1, <1>8, NothingResolvedUnderConstruction
<1>10. QED
  BY <1>3, <1>5, <1>6, <1>7, <1>9

LEMMA FinalizeKeepsIInv ==
  ASSUME ConstantsAreTyped, ElaborationInv, E!Finalize
  PROVE  ElaborationInv'
<1> USE DEF ElaborationInv
<1>1. /\ pc = "returned" /\ state[mode] = "open" /\ E!DeadRules = {} /\ mode \in E!Modes
      /\ pc' = IF mode = "implementation" THEN "resolve" ELSE "ended"
      /\ state'[mode] = "finalized" /\ \A m \in E!Modes : m # mode => state'[m] = state[m]
      /\ projects' = projects \cup {mode}
      /\ UNCHANGED <<E!policy, mode, records, circuit, refused>>
  BY DEF E!Finalize, E!CheckOpen, E!TypeOK
<1>2. E!TypeOK'
  BY <1>1 DEF E!Finalize, E!TypeOK, E!policy
<1>3. mode \notin refused
  BY <1>1 DEF Bookkeeping
<1>4. Bookkeeping'
  BY <1>1, <1>3 DEF Bookkeeping, E!TypeOK, E!Modes, ConstantsAreTyped
<1>5. NamesAreUnique' /\ E!PolicyIsFollowed'
  BY <1>1, KeptRecordsAreSound
<1>6. E!ProjectsAreEarned'
  <2>1. \A rule \in rules : \E r \in records[mode] : r.applied = rule.selector
    BY <1>1 DEF E!DeadRules, E!Applied
  <2>2. \A r1, r2 \in records[mode] : r1.id = r2.id => r1 = r2
    BY <1>1 DEF NamesAreUnique
  <2>3. QED
    BY <1>1, <1>3, <2>1, <2>2 DEF E!ProjectsAreEarned, E!policy
<1>7. state'["simulation"] = None => state["simulation"] = None
  BY <1>1 DEF E!Modes, ConstantsAreTyped
<1>8. E!InventoryIsBuilt'
  BY <1>1, <1>7, NothingResolvedUnderConstruction
<1>9. QED
  BY <1>2, <1>4, <1>5, <1>6, <1>8

LEMMA ResolveKeepsIInv ==
  ASSUME ConstantsAreTyped, ElaborationInv, E!Resolve \/ E!ResolveFails
  PROVE  ElaborationInv'
<1> USE DEF ElaborationInv
<1>1. /\ pc = "resolve" /\ mode = "implementation" /\ state[mode] = "finalized"
      /\ UNCHANGED <<E!policy, E!contexts, circuit, refused>>
  BY DEF E!Resolve, E!ResolveFails, Bookkeeping
<1>2. CASE E!ResolveFails
  <2>1. E!TypeOK' /\ Bookkeeping'
    BY <1>1, <1>2 DEF E!ResolveFails, E!TypeOK, Bookkeeping, E!policy, E!contexts, ConstantsAreTyped
  <2>2. NamesAreUnique' /\ E!PolicyIsFollowed'
    BY <1>1, KeptRecordsAreSound DEF E!contexts
  <2>3. E!ProjectsAreEarned'
    BY <1>1, <1>2, EarnedProjectsStayEarned DEF E!ResolveFails, E!contexts
  <2>4. E!InventoryIsBuilt'
    BY <1>1, <1>2, BuiltInventoryStaysBuilt DEF E!ResolveFails, E!contexts
  <2>5. QED
    BY <2>1, <2>2, <2>3, <2>4
<1>3. CASE E!Resolve
  <2>1. /\ \/ pc' = "begin" /\ mode' = "simulation"
           \/ pc' = "ended" /\ mode' = mode
        /\ projects' = projects \cup {"flow"}
    BY <1>3 DEF E!Resolve
  <2>2. E!TypeOK'
    BY <1>1, <2>1 DEF E!TypeOK, E!policy, E!contexts, E!Modes
  <2>3. NamesAreUnique' /\ E!PolicyIsFollowed'
    BY <1>1, KeptRecordsAreSound DEF E!contexts
  <2>4. E!ProjectsAreEarned'
    BY <1>1, <2>1, EarnedProjectsStayEarned DEF E!contexts, E!Modes
  <2>5. E!InventoryIsBuilt'
    <3>1. E!Selected' = E!Selected /\ E!Stock' = E!Stock
      BY <1>1 DEF E!Selected, E!Stock, E!contexts
    <3>2. (\A r \in E!Selected : E!Emitted(r)) /\ Cardinality(E!Stock) = Cardinality(E!Selected)
      BY <1>3, CardinalityOfElaboration DEF E!Resolve
    <3>3. QED
      BY <3>1, <3>2, EveryMacroIsAccountedFor DEF E!InventoryIsBuilt, Bookkeeping
  <2>6. Bookkeeping'
    BY <1>1, <2>1 DEF Bookkeeping, E!contexts, E!Modes, ConstantsAreTyped
  <2>7. QED
    BY <2>2, <2>3, <2>4, <2>5, <2>6
<1>4. QED
  BY <1>2, <1>3

(* The invariant is inductive.                                             *)
LEMMA NextKeepsElaborationInv ==
  ASSUME ConstantsAreTyped, ElaborationInv, [E!Next]_(E!vars)
  PROVE  ElaborationInv'
<1>1. CASE E!Next
  <2>1. CASE E!Create
    BY <2>1, CreateKeepsIInv
  <2>2. ASSUME NEW m \in E!Modes, E!UseClosed(m)
        PROVE  ElaborationInv'
    BY <2>2, ClosedContextsRefuse
  <2>3. ASSUME NEW m \in E!Modes, E!Refuse(m)
        PROVE  ElaborationInv'
    BY <2>3, RefuseKeepsIInv
  <2>4. ASSUME NEW m \in E!Modes, NEW id \in E!Ids, NEW request \in Requests,
               E!Ram(m, id, request) \/ E!Register(m, id, request)
        PROVE  ElaborationInv'
    BY <2>4, TakingKeepsIInv
  <2>5. ASSUME NEW label \in E!Ids \cup {None}, E!Instantiate(label)
        PROVE  ElaborationInv'
    BY <2>5, InstantiateKeepsIInv
  <2>6. CASE E!Raise \/ E!Return
    BY <2>6, EndKeepsIInv
  <2>7. CASE E!ConstructionFails \/ E!FinalizeFails
    BY <2>7, FailuresKeepIInv
  <2>8. CASE E!Finalize
    BY <2>8, FinalizeKeepsIInv
  <2>9. CASE E!Resolve \/ E!ResolveFails
    BY <2>9, ResolveKeepsIInv
  <2>10. QED
    BY <1>1, <2>1, <2>2, <2>3, <2>4, <2>5, <2>6, <2>7, <2>8, <2>9
       DEF E!Next, E!TimingStageFails, E!RegistrationFails
<1>2. CASE UNCHANGED E!vars
  <2> USE <1>2 DEF ElaborationInv, E!vars, E!contexts
  <2>1. E!TypeOK' /\ Bookkeeping'
    BY DEF E!TypeOK, Bookkeeping, E!policy
  <2>2. NamesAreUnique' /\ E!PolicyIsFollowed'
    BY KeptRecordsAreSound
  <2>3. E!ProjectsAreEarned'
    BY EarnedProjectsStayEarned
  <2>4. E!InventoryIsBuilt'
    BY BuiltInventoryStaysBuilt
  <2>5. QED
    BY <2>1, <2>2, <2>3, <2>4
<1>3. QED
  BY <1>1, <1>2

(* The inductive invariant of an elaboration holds, whatever constructor    *)
(* runs (context.ml, project.ml, resolved.ml).                             *)
THEOREM ElaborationInvariance ==
  ASSUME ConstantsAreTyped
  PROVE  E!Spec => []ElaborationInv
<1>1. E!Init => ElaborationInv
  BY InitEstablishesElaborationInv
<1>2. ElaborationInv /\ [E!Next]_(E!vars) => ElaborationInv'
  BY NextKeepsElaborationInv
<1>3. QED
  BY <1>1, <1>2, PTL DEF E!Spec

(* Whatever a project's constructor registers, in whatever scopes, every   *)
(* resource has what the most specific rule of the policy asks, from a     *)
(* technology that has it (policy.ml, selection.ml, context.ml).           *)
THEOREM AlwaysPolicyIsFollowed ==
  ASSUME ConstantsAreTyped
  PROVE  E!Spec => []E!PolicyIsFollowed
<1>1. ElaborationInv => E!PolicyIsFollowed
  BY DEF ElaborationInv
<1>2. QED
  BY <1>1, ElaborationInvariance, PTL

(* A refused registration that a constructor swallowed still costs it its  *)
(* project, and every rule of a project's policy has decided something     *)
(* (context.ml, project.ml).                                               *)
THEOREM AlwaysProjectsAreEarned ==
  ASSUME ConstantsAreTyped
  PROVE  E!Spec => []E!ProjectsAreEarned
<1>1. ElaborationInv => E!ProjectsAreEarned
  BY DEF ElaborationInv
<1>2. QED
  BY <1>1, ElaborationInvariance, PTL

(* The stock macros of a resolved flow are its inventory's, one to one     *)
(* (resolved.ml): resolve_macros asks only for an instance of each name    *)
(* and for as many as there are records, and that is enough.               *)
THEOREM AlwaysInventoryIsBuilt ==
  ASSUME ConstantsAreTyped
  PROVE  E!Spec => []E!InventoryIsBuilt
<1>1. ElaborationInv => E!InventoryIsBuilt
  BY DEF ElaborationInv
<1>2. QED
  BY <1>1, ElaborationInvariance, PTL

LEMMA ClosedContextsStay ==
  ASSUME ConstantsAreTyped, ElaborationInv, E!Next
  PROVE  E!ClosedStaysClosed
<1>1. SUFFICES ASSUME NEW m \in E!Modes, state[m] \in {"finalized", "failed"}
               PROVE  state'[m] = state[m] /\ records'[m] = records[m]
  BY DEF E!ClosedStaysClosed
<1> USE DEF ElaborationInv
<1>2. CASE E!Create
  BY <1>1, <1>2 DEF E!Create, Bookkeeping, E!TypeOK, ConstantsAreTyped
<1>3. ASSUME NEW n \in E!Modes, E!UseClosed(n)
      PROVE  state' = state /\ records' = records
  BY <1>3 DEF E!UseClosed, E!contexts
<1>4. ASSUME NEW n \in E!Modes, E!Refuse(n)
      PROVE  state'[m] = state[m] /\ records'[m] = records[m]
  BY <1>1, <1>4 DEF E!Refuse, E!Fail, E!CheckOpen, E!TypeOK
<1>5. ASSUME NEW n \in E!Modes, NEW id \in E!Ids, NEW request \in Requests,
             E!Ram(n, id, request) \/ E!Register(n, id, request)
      PROVE  state'[m] = state[m] /\ records'[m] = records[m]
  <2>1. state[n] = "open" /\ state' = state
        /\ \E r \in E!Candidates(n, id, request) : records' = [records EXCEPT ![n] = @ \cup {r}]
    BY <1>1, <1>5, TakenRecords
  <2>2. QED
    BY <1>1, <2>1 DEF E!TypeOK
<1>6. ASSUME NEW label \in E!Ids \cup {None}, E!Instantiate(label)
      PROVE  state' = state /\ records' = records
  BY <1>6 DEF E!Instantiate, E!contexts
<1>7. CASE E!Raise \/ E!Return
  BY <1>7 DEF E!Raise, E!Return, E!contexts
<1>8. CASE E!ConstructionFails \/ E!FinalizeFails
  <2>1. state[mode] \in {"open", "failed"} /\ state' = [state EXCEPT ![mode] = "failed"] /\ records' = records
    BY <1>1, <1>8 DEF E!ConstructionFails, E!FinalizeFails, E!Fail, Bookkeeping
  <2>2. QED
    BY <1>1, <2>1 DEF E!TypeOK
<1>9. CASE E!Finalize
  BY <1>1, <1>9 DEF E!Finalize, E!CheckOpen, E!TypeOK
<1>10. CASE E!Resolve \/ E!ResolveFails
  BY <1>10 DEF E!Resolve, E!ResolveFails, E!contexts
<1>11. QED
  BY <1>1, <1>2, <1>3, <1>4, <1>5, <1>6, <1>7, <1>8, <1>9, <1>10
     DEF E!Next, E!TimingStageFails, E!RegistrationFails

(* A context that is closed is closed for good: no record is added to it   *)
(* and a finalized one is never marked failed (context.ml).                *)
THEOREM ContextsAreClosedForGood ==
  ASSUME ConstantsAreTyped
  PROVE  E!Spec => E!ContextsStayClosed
<1>1. ElaborationInv /\ [E!Next]_(E!vars) => [E!ClosedStaysClosed]_(E!vars)
  BY ClosedContextsStay
<1>2. QED
  BY <1>1, ElaborationInvariance, PTL DEF E!Spec, E!ContextsStayClosed

-----------------------------------------------------------------------------
(* A memory, of any width and of any depth create_exn accepts: a word the  *)
(* consumer has written stays in the storage until it writes it again.     *)
(* Then a read is the read of the contract, and the rest is what each      *)
(* backend does with its output register.                                  *)

(* None is not the contents of a word.                                     *)
NoneIsNoWord == None \notin M!Words

(* An address the code takes for valid is that of a word.                  *)
LEMMA ValidAddressesNameWords ==
  ASSUME M!ConfigIsValid, M!TypeOK
  PROVE  /\ depth \in Nat /\ depth >= 2
         /\ inputs.address \in Nat
         /\ M!AddressValid <=> inputs.address < depth
         /\ inputs.address < depth => inputs.address \in M!Range
         /\ backend = "macro" => inputs.address < depth
<1>0. depth \in Nat /\ depth >= 2
  BY DEF M!TypeOK, M!ConfigIsValid
<1>1. inputs.address \in 0..(2 ^ M!AddressBits(depth) - 1)
  BY DEF M!TypeOK, M!Inputs
<1>2. inputs.address \in Nat
  BY <1>1
<1>3. depth = 2 ^ M!AddressBits(depth) => inputs.address < depth
  BY <1>0, <1>1, <1>2
<1>4. backend = "macro" => depth = 2 ^ M!AddressBits(depth)
  BY DEF M!TypeOK, M!Backends
<1>5. QED
  BY <1>0, <1>2, <1>3, <1>4 DEF M!AddressValid, M!Range

(* The poison is a word like any other.                                    *)
LEMMA PoisonIsAWord ==
  ASSUME NEW n \in Nat
  PROVE  M!Poison(n) \in M!Words
BY DEF M!Poison, M!Words

(* The storage starts and stays typed, and keeps what was written.         *)
LEMMA KeptFromTheStart ==
  ASSUME M!ConfigIsValid, NoneIsNoWord, M!Init
  PROVE  M!WordsAreKept
<1>1. CASE backend = "behavioral"
  <2>1. \A w \in M!Range : M!Poison(w) \in M!Words
    BY PoisonIsAWord DEF M!Range, M!Init, M!ConfigIsValid
  <2>2. words \in [M!Range -> M!Words]
    BY <1>1, <2>1 DEF M!Init
  <2>3. QED
    BY <2>2 DEF M!Init, M!WordsAreKept, M!TypeOK
<1>2. CASE backend # "behavioral"
  BY <1>2 DEF M!Init, M!WordsAreKept, M!TypeOK
<1>3. QED
  BY <1>1, <1>2

(* What every backend does with its storage is what the history says.      *)
LEMMA StorageStep ==
  ASSUME M!ConfigIsValid, M!WordsAreKept, M!Behavioral \/ M!Flops \/ M!Macro
  PROVE  words' = [w \in M!Range |-> IF inputs.enable /\ inputs.write_enable /\ inputs.address = w
                                   THEN inputs.write_data ELSE words[w]]
<1> DEFINE Storage == [w \in M!Range |-> IF inputs.enable /\ inputs.write_enable /\ inputs.address = w
                                       THEN inputs.write_data ELSE words[w]]
<1>1. words \in [M!Range -> M!Words] /\ inputs.enable \in BOOLEAN /\ inputs.write_enable \in BOOLEAN
  BY DEF M!WordsAreKept, M!TypeOK, M!Inputs
<1>2. M!TypeOK
  BY DEF M!WordsAreKept
<1>3. ASSUME NEW write \in BOOLEAN, words' = M!Stored(write),
             write <=> inputs.enable /\ inputs.write_enable /\ inputs.address < depth
      PROVE  words' = Storage
  <2>1. CASE write
    BY <1>1, <1>3, <2>1 DEF M!Stored
  <2>2. CASE ~write
    <3>1. \A w \in M!Range : w < depth
      BY <1>2 DEF M!Range, M!ConfigIsValid, M!TypeOK
    <3>2. words' = words
      BY <1>3, <2>2 DEF M!Stored
    <3>3. \A w \in M!Range : Storage[w] = words[w]
      BY <1>3, <2>2, <3>1
    <3>4. QED
      BY <1>1, <3>2, <3>3
  <2>3. QED
    BY <1>3, <2>1, <2>2
<1>4. CASE M!Behavioral
  <2>1. words' = M!Stored(inputs.enable /\ inputs.write_enable /\ M!AddressValid)
    BY <1>4 DEF M!Behavioral
  <2>2. QED
    BY <1>1, <1>2, <1>3, <2>1, ValidAddressesNameWords
<1>5. CASE M!Flops
  BY <1>5 DEF M!Flops
<1>6. CASE M!Macro
  <2>1. words' = M!Stored(M!Men /\ M!Wen) /\ inputs.address < depth
    BY <1>2, <1>6, ValidAddressesNameWords DEF M!Macro, M!StockMacro
  <2>2. QED
    BY <1>1, <1>3, <2>1 DEF M!Men, M!Wen
<1>7. QED
  BY <1>4, <1>5, <1>6

(* And what it does with its output is one of what the contract allows.    *)
LEMMA OutputStep ==
  ASSUME M!ConfigIsValid, M!WordsAreKept, M!Behavioral \/ M!Flops \/ M!Macro
  PROVE  /\ read_data' \in M!Words
         /\ ~inputs.enable => read_data' = read_data
         /\ inputs.enable /\ ~inputs.write_enable /\ inputs.address < depth
              => read_data' = words[inputs.address]
<1>1. M!TypeOK
  BY DEF M!WordsAreKept
<1>2. /\ inputs.enable \in BOOLEAN /\ inputs.write_enable \in BOOLEAN
      /\ read_data \in M!Words /\ words \in [M!Range -> M!Words]
  BY <1>1 DEF M!TypeOK, M!Inputs
<1>3. /\ depth \in Nat /\ inputs.address \in Nat
      /\ M!AddressValid <=> inputs.address < depth
      /\ inputs.address < depth => inputs.address \in M!Range
      /\ backend = "macro" => inputs.address < depth
  BY <1>1, ValidAddressesNameWords
<1>4. M!Poison(0) \in M!Words /\ M!Poison(1) \in M!Words
  BY PoisonIsAWord
<1>5. depth - 1 \in M!Range
  BY <1>1 DEF M!Range, M!ConfigIsValid, M!TypeOK
<1>6. CASE M!Behavioral
  <2>1. M!BehavioralNext \in M!Words
    BY <1>2, <1>3, <1>4 DEF M!BehavioralNext
  <2>2. QED
    BY <1>2, <1>3, <1>6, <2>1 DEF M!Behavioral, M!Registered, M!BehavioralNext
<1>7. CASE M!Flops
  <2>1. M!FlopData \in M!Words
    BY <1>2, <1>3, <1>5 DEF M!FlopData
  <2>2. QED
    BY <1>2, <1>3, <1>7, <2>1 DEF M!Flops, M!Registered, M!FlopData
<1>8. CASE M!Macro
  BY <1>2, <1>3, <1>8 DEF M!Macro, M!StockMacro, M!Men, M!Wen, M!Ren, M!Registered
<1>9. QED
  BY <1>6, <1>7, <1>8

(* One edge keeps the words the consumer wrote.                            *)
LEMMA KeptStep ==
  ASSUME M!ConfigIsValid, M!WordsAreKept, [M!Next]_(M!vars)
  PROVE  M!WordsAreKept'
<1>1. CASE UNCHANGED M!vars
  BY <1>1 DEF M!vars, M!WordsAreKept, M!TypeOK, M!Backends, M!Range, M!Words, M!Inputs, M!AddressBits
<1>2. CASE M!Next
  <2> USE <1>2
  <2>1. /\ words' = [w \in M!Range |-> IF inputs.enable /\ inputs.write_enable /\ inputs.address = w
                                     THEN inputs.write_data ELSE words[w]]
        /\ read_data' \in M!Words
    BY StorageStep, OutputStep DEF M!Next
  <2>0. /\ depth' = depth /\ M!Range' = M!Range /\ M!Words' = M!Words /\ M!Backends' = M!Backends
        /\ depth \in Depths /\ depth \in Nat
    BY DEF M!Next, M!Range, M!Words, M!Backends, M!WordsAreKept, M!TypeOK, M!ConfigIsValid
  <2>2. /\ inputs.write_data \in M!Words /\ inputs' \in M!Inputs(depth) /\ backend' = backend /\ written' = M!Written
        /\ backend \in M!Backends /\ words \in [M!Range -> M!Words] /\ written \in [M!Range -> M!Words \cup {None}]
        /\ \A w \in M!Range : written[w] # None => words[w] = written[w]
    BY DEF M!Next, M!WordsAreKept, M!TypeOK, M!Inputs
  <2>3. written' \in [M!Range -> M!Words \cup {None}]
    BY <2>2 DEF M!Written
  <2>4. ASSUME NEW w \in M!Range, written'[w] # None
        PROVE  words'[w] = written'[w]
    <3>1. w < depth
      BY <2>0 DEF M!Range
    <3>2. QED
      BY <2>1, <2>2, <2>4, <3>1 DEF M!Written
  <2>5. words' \in [M!Range -> M!Words]
    BY <2>1, <2>2
  <2>6. M!TypeOK'
    BY <2>0, <2>1, <2>2, <2>3, <2>5 DEF M!TypeOK
  <2>7. QED
    BY <2>0, <2>4, <2>6 DEF M!WordsAreKept
<1>3. QED
  BY <1>1, <1>2

(* Every word the consumer wrote is in the storage until it writes it      *)
(* again, for every configuration create_exn accepts.                      *)
THEOREM AlwaysWordsAreKept ==
  ASSUME M!ConfigIsValid, NoneIsNoWord
  PROVE  M!Spec => []M!WordsAreKept
<1>1. M!Init => M!WordsAreKept
  BY KeptFromTheStart
<1>2. M!WordsAreKept /\ [M!Next]_(M!vars) => M!WordsAreKept'
  BY KeptStep
<1>3. QED
  BY <1>1, <1>2, PTL DEF M!Spec

(* An edge of any backend is a step of the contract.                       *)
LEMMA ContractStep ==
  ASSUME M!ConfigIsValid, M!WordsAreKept, M!Next
  PROVE  M!Contract!Next
<1>1. /\ read_data' \in M!Words
      /\ ~inputs.enable => read_data' = read_data
      /\ inputs.enable /\ ~inputs.write_enable /\ inputs.address < depth
           => read_data' = words[inputs.address]
  BY OutputStep DEF M!Next
<1>2. /\ inputs' \in M!Inputs(depth) /\ written' = M!Written /\ depth' = depth
      /\ inputs.enable \in BOOLEAN /\ inputs.write_enable \in BOOLEAN
  BY DEF M!Next, M!WordsAreKept, M!TypeOK, M!Inputs
<1>3. CASE ~inputs.enable
  BY <1>1, <1>2, <1>3 DEF M!Contract!Next, M!Contract!Hold, M!Written
<1>4. CASE inputs.enable /\ ~(inputs.address < depth)
  BY <1>1, <1>2, <1>4 DEF M!Contract!Next, M!Contract!OutOfContract, M!Contract!InRange, M!Written
<1>5. CASE inputs.enable /\ inputs.address < depth /\ inputs.write_enable
  BY <1>1, <1>2, <1>5 DEF M!Contract!Next, M!Contract!Write, M!Contract!InRange, M!Written
<1>6. CASE inputs.enable /\ inputs.address < depth /\ ~inputs.write_enable
  <2>1. inputs.address \in M!Range
    BY <1>6, ValidAddressesNameWords DEF M!WordsAreKept
  <2>2. written[inputs.address] # None => read_data' = written[inputs.address]
    BY <1>1, <1>6, <2>1 DEF M!WordsAreKept
  <2>3. QED
    BY <1>1, <1>2, <1>6, <2>2 DEF M!Contract!Next, M!Contract!Read, M!Contract!InRange, M!Written
<1>7. QED
  BY <1>2, <1>3, <1>4, <1>5, <1>6

LEMMA ContractStart ==
  ASSUME M!Init
  PROVE  M!Contract!Init
BY DEF M!Init, M!Contract!Init, M!Range

(* Every backend keeps the contract: what a consumer can see of the        *)
(* hardware it could have seen of the abstract memory.                     *)
THEOREM EveryBackendKeepsTheContract ==
  ASSUME M!ConfigIsValid, NoneIsNoWord
  PROVE  M!Spec => M!ImplementsContract
<1>1. M!Init => M!Contract!Init
  BY ContractStart
<1>2. M!WordsAreKept /\ [M!Next]_(M!vars) => [M!Contract!Next]_(M!Contract!vars)
  <2>1. UNCHANGED M!vars => UNCHANGED M!Contract!vars
    BY DEF M!vars, M!Contract!vars
  <2>2. QED
    BY <2>1, ContractStep
<1>3. QED
  BY <1>1, <1>2, AlwaysWordsAreKept, PTL DEF M!Spec, M!ImplementsContract, M!Contract!Spec

-----------------------------------------------------------------------------
(* The operations together: `op' never changes, and of the one it names    *)
(* the operation's own invariant holds.                                    *)

OperationsInv ==
  /\ op = "finalization" => FinalizationInv
  /\ op = "preparation" => PreparationInv
  /\ op = "preflight" => PreflightInv
  /\ op = "archive" => ArchiveInv
  /\ op = "observation" => O!IInv
  /\ op = "elaboration" => ElaborationInv
  /\ op = "memory" => M!WordsAreKept

LEMMA OperationsStart ==
  ASSUME Init
  PROVE  OperationsInv
<1>1. O!Init => O!IInv
  BY DEF O!Init, O!IInv
<1>2. QED
  BY <1>1, FinalizationStarts, PreparationStarts, PreflightStarts, ArchiveStarts, ElaborationIsTyped,
     InitEstablishesElaborationInv, MemoriesAreConfigured, NoneIsNew, KeptFromTheStart
     DEF Init, OperationsInv, NoneIsNoWord

LEMMA OperationsStep ==
  ASSUME OperationsInv, [Next]_opVars
  PROVE  OperationsInv' /\ op' = op
<1>1. op' = op
  BY DEF Next, opVars
<1>2. op = "finalization" => FinalizationInv'
  <2>1. op = "finalization" => [F!Next]_(F!vars)
    BY DEF Next, opVars, F!vars, recordsVars, finalizationVars
  <2>2. QED
    BY <2>1, FinalizationKept DEF OperationsInv
<1>3. op = "preparation" => PreparationInv'
  <2>1. op = "preparation" => [P!Next]_(P!vars)
    BY DEF Next, opVars, P!vars, recordsVars, preparationVars
  <2>2. QED
    BY <2>1, PreparationKept DEF OperationsInv
<1>4. op = "preflight" => PreflightInv'
  <2>1. op = "preflight" => [R!Next]_(R!vars)
    BY DEF Next, opVars, R!vars, preflightVars
  <2>2. QED
    BY <2>1, PreflightKept DEF OperationsInv
<1>5. op = "archive" => ArchiveInv'
  <2>1. op = "archive" => [A!Next]_(A!vars)
    BY DEF Next, opVars, A!vars, archiveVars
  <2>2. QED
    BY <2>1, ArchiveKept DEF OperationsInv
<1>6. op = "observation" => O!IInv'
  <2>1. op = "observation" => [O!Next]_stream
    BY DEF Next, opVars, observationVars
  <2>2. QED
    BY <2>1, NIsPositive, ObservationKept DEF OperationsInv
<1>7. op = "elaboration" => ElaborationInv'
  <2>1. op = "elaboration" => [E!Next]_(E!vars)
    BY DEF Next, opVars, E!vars, E!policy, E!contexts, elaborationVars
  <2>2. QED
    BY <2>1, ElaborationIsTyped, NextKeepsElaborationInv DEF OperationsInv
<1>8. op = "memory" => M!WordsAreKept'
  <2>1. op = "memory" => [M!Next]_(M!vars)
    BY DEF Next, opVars, M!vars, memoryVars
  <2>2. QED
    BY <2>1, MemoriesAreConfigured, KeptStep DEF OperationsInv
<1>9. QED
  BY <1>1, <1>2, <1>3, <1>4, <1>5, <1>6, <1>7, <1>8 DEF OperationsInv

(* Each operation keeps its own inductive invariant in the composed system, *)
(* which runs one of them as one command of bin/ does.                     *)
THEOREM OperationsInvariance == Spec => []OperationsInv
<1>1. Init => OperationsInv
  BY OperationsStart
<1>2. OperationsInv /\ [Next]_opVars => OperationsInv'
  BY OperationsStep
<1>3. QED
  BY <1>1, <1>2, PTL DEF Spec

(* A receipt on disk is one the strict reader accepts at every moment, a   *)
(* completed finalization earned what it says and no early signal is lost  *)
(* (finalization_service.ml); no preparation's record is refused by its    *)
(* own reader and no signal disappears in it (preparation_service.ml); the *)
(* flags of a preflight describe its files, it says ready only with all of *)
(* them stored, and a signal interrupts it wherever a look at it still     *)
(* follows (preflight_service.ml).                                         *)
THEOREM RecordsAreAlwaysHonest == Spec => []RecordsAreHonest
<1>1. OperationsInv => RecordsAreHonest
  BY FinalizationIsHonest, PreparationIsHonest, PreflightIsHonest DEF OperationsInv, RecordsAreHonest
<1>2. QED
  BY <1>1, OperationsInvariance, PTL

(* However many publishers race for an output, and wherever they die, what *)
(* stands there or waits in a backup is one whole archive, and every entry *)
(* of the user is in one of them, unless it was added between one          *)
(* publisher's listing and its swap (archive_service.ml).                  *)
THEOREM ArchivesAreAlwaysWhole == Spec => []ArchivesAreWhole
<1>1. OperationsInv => ArchivesAreWhole
  BY DEF OperationsInv, ArchivesAreWhole, ArchiveInv
<1>2. QED
  BY <1>1, OperationsInvariance, PTL

(* Whatever records are offered to the event grammar in whatever order,    *)
(* progress is a prefix of the plan and success is earned (observation.ml).*)
THEOREM ProgressIsAlwaysEarned == Spec => []ProgressIsEarned
<1>1. OperationsInv => ProgressIsEarned
  BY NIsPositive, IInvIsAPrefix, IInvIsEarned DEF OperationsInv, ProgressIsEarned
<1>2. QED
  BY <1>1, OperationsInvariance, PTL

(* Whatever a constructor does, its project has what the policy asks of    *)
(* every resource, refused nothing, and is built of its inventory          *)
(* (policy.ml, context.ml, project.ml, resolved.ml).                       *)
THEOREM ElaborationsAreAlwaysEarned == Spec => []ElaborationsAreEarned
<1>1. OperationsInv => ElaborationsAreEarned
  BY DEF OperationsInv, ElaborationsAreEarned, ElaborationInv
<1>2. QED
  BY <1>1, OperationsInvariance, PTL

(* A memory of whatever width, depth and backend keeps the contract of its *)
(* request, whatever is driven at its port (single_port_ram.ml).           *)
THEOREM MemoriesAlwaysKeepTheContract == Spec => MemoriesKeepTheContract
<1>1. Init => (op = "memory" => M!Contract!Init)
  BY ContractStart DEF Init
<1>2. OperationsInv /\ [Next]_opVars => [op = "memory" => M!Contract!Next]_opVars
  <2> SUFFICES ASSUME OperationsInv, Next, op = "memory"
               PROVE  M!Contract!Next
    OBVIOUS
  <2>1. M!WordsAreKept /\ M!Next
    BY DEF OperationsInv, Next
  <2>2. QED
    BY <2>1, MemoriesAreConfigured, ContractStep
<1>3. QED
  BY <1>1, <1>2, OperationsInvariance, PTL DEF Spec, MemoriesKeepTheContract

(* A populated output is moved only by a publisher told to, but for what   *)
(* was added since it looked, and an entry of the user goes only at the    *)
(* end of a publication that succeeds, and only one that was late for it;  *)
(* what a stream said it never takes back, and a closed context stays as   *)
(* it is (archive_service.ml, observation.ml, context.ml).                 *)
THEOREM NothingIsEverTakenBack == Spec => NothingIsTakenBack
<1>1. OperationsInv /\ [Next]_opVars =>
        [/\ op = "archive" => A!MovesUnlessForced /\ A!OnlyLateEntriesGo
         /\ op = "observation" => O!Unrevised
         /\ op = "elaboration" => E!ClosedStaysClosed]_opVars
  <2> SUFFICES ASSUME OperationsInv, Next
               PROVE  /\ op = "archive" => A!MovesUnlessForced /\ A!OnlyLateEntriesGo
                      /\ op = "observation" => O!Unrevised
                      /\ op = "elaboration" => E!ClosedStaysClosed
    OBVIOUS
  <2>1. op = "archive" => A!MovesUnlessForced /\ A!OnlyLateEntriesGo
    BY MovesAreAllowed, OnlyLateEntriesAreLost DEF OperationsInv, Next
  <2>2. op = "observation" => O!Unrevised
    BY NIsPositive, RecordsReviseNothing DEF OperationsInv, Next
  <2>3. op = "elaboration" => E!ClosedStaysClosed
    BY ElaborationIsTyped, ClosedContextsStay DEF OperationsInv, Next
  <2>4. QED
    BY <2>1, <2>2, <2>3
<1>2. QED
  BY <1>1, OperationsInvariance, PTL DEF Spec, NothingIsTakenBack
=============================================================================
