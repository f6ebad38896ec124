--------------------- MODULE CheckpointPublisherProofs ---------------------
(***************************************************************************)
(* Proofs about CheckpointPublisher for every set of metadata and view     *)
(* files and any number of changes to them.  One lemma per part of the     *)
(* inductive invariant, one case per action; the argument is VersionInv:   *)
(* versions only grow, so a source found equal to its snapshot had that    *)
(* version all along, at the instant the last validation began too.        *)
(***************************************************************************)
EXTENDS CheckpointPublisher, TLAPS

(* Every step keeps the types; CopyInv says that a file being copied is    *)
(* one of the files.                                                       *)
LEMMA TypeStep ==
  ASSUME TypeOK, CopyInv, [Next]_vars
  PROVE  TypeOK'
<1> USE MetadataAndViews DEF Go, Fail, dataVars, loopVars, storeVars,
         resultVars, TypeOK, CopyInv, Places, Reading, Copying, Validating,
         Files
<1>1. CASE Enter
  BY <1>1 DEF Enter
<1>2. CASE SnapshotMetadata
  BY <1>2 DEF SnapshotMetadata
<1>3. CASE Parse(Report, "report", "parseState")
  BY <1>3 DEF Parse
<1>4. CASE Parse(State, "parseState", "mkdir")
  BY <1>4 DEF Parse
<1>5. CASE Mkdir
  BY <1>5 DEF Mkdir, OwnedOnCollision
<1>6. CASE Own
  BY <1>6 DEF Own
<1>7. CASE SnapshotView
  BY <1>7 DEF SnapshotView
<1>8. CASE CopyBefore
  BY <1>8 DEF CopyBefore, Unchanged
<1>9. CASE CopyRead
  BY <1>9 DEF CopyRead
<1>10. CASE CopyAfter
  BY <1>10 DEF CopyAfter, Unchanged
<1>11. CASE WriteState
  BY <1>11 DEF WriteState
<1>12. CASE NextMetadata
  BY <1>12 DEF NextMetadata
<1>13. CASE WriteManifest
  BY <1>13 DEF WriteManifest
<1>14. CASE ValidateCopy
  BY <1>14 DEF ValidateCopy, Intact
<1>15. CASE ValidateSources
  BY <1>15 DEF ValidateSources, Unchanged, AfterRound
<1>16. CASE Runtime
  BY <1>16 DEF Runtime
<1>17. CASE ReadOnly
  BY <1>17 DEF ReadOnly
<1>18. CASE BeforePromote
  BY <1>18 DEF BeforePromote
<1>19. CASE Promote
  BY <1>19 DEF Promote
<1>20. CASE Disown
  BY <1>20 DEF Disown
<1>21. CASE Cleanup
  BY <1>21 DEF Cleanup
<1>22. CASE Fails
  BY <1>22 DEF Fails, InRun
<1>23. CASE Interrupt
  BY <1>23 DEF Interrupt, InRun
<1>24. CASE Killed
  BY <1>24 DEF Killed
<1>25. ASSUME NEW f \in Files, Touch(f)
      PROVE TypeOK'
  BY <1>25 DEF Touch
<1>26. CASE Rival
  BY <1>26 DEF Rival
<1>27. CASE UNCHANGED vars
  BY <1>27 DEF vars
<1> QED
BY <1>1, <1>2, <1>3, <1>4, <1>5, <1>6, <1>7, <1>8, <1>9, <1>10, <1>11, <1>12,
         <1>13, <1>14, <1>15, <1>16, <1>17, <1>18, <1>19, <1>20, <1>21, <1>22,
         <1>23, <1>24, <1>25, <1>26, <1>27 DEF Next, Publish

(* Versions only grow, and snapshots and parses are never taken back.      *)
LEMMA VersionStep ==
  ASSUME TypeOK, VersionInv, CopyInv, TypeOK', [Next]_vars
  PROVE  VersionInv'
<1> USE MetadataAndViews, NoneIsNew DEF Go, Fail, dataVars, loopVars,
         storeVars, resultVars, TypeOK, VersionInv, CopyInv, Files, Read,
         Reading, Copying, Validating
<1>1. CASE Enter
  BY <1>1 DEF Enter
<1>2. CASE SnapshotMetadata
  BY <1>2 DEF SnapshotMetadata
<1>3. CASE Parse(Report, "report", "parseState")
  BY <1>3 DEF Parse
<1>4. CASE Parse(State, "parseState", "mkdir")
  BY <1>4 DEF Parse
<1>5. CASE Mkdir
  BY <1>5 DEF Mkdir, OwnedOnCollision
<1>6. CASE Own
  BY <1>6 DEF Own
<1>7. CASE SnapshotView
  BY <1>7 DEF SnapshotView
<1>8. CASE CopyBefore
  BY <1>8 DEF CopyBefore, Unchanged
<1>9. CASE CopyRead
  BY <1>9 DEF CopyRead
<1>10. CASE CopyAfter
  BY <1>10 DEF CopyAfter, Unchanged
<1>11. CASE WriteState
  BY <1>11 DEF WriteState
<1>12. CASE NextMetadata
  BY <1>12 DEF NextMetadata
<1>13. CASE WriteManifest
  BY <1>13 DEF WriteManifest
<1>14. CASE ValidateCopy
  BY <1>14 DEF ValidateCopy, Intact
<1>15. CASE ValidateSources
  BY <1>15 DEF ValidateSources, Unchanged, AfterRound
<1>16. CASE Runtime
  BY <1>16 DEF Runtime
<1>17. CASE ReadOnly
  BY <1>17 DEF ReadOnly
<1>18. CASE BeforePromote
  BY <1>18 DEF BeforePromote
<1>19. CASE Promote
  BY <1>19 DEF Promote
<1>20. CASE Disown
  BY <1>20 DEF Disown
<1>21. CASE Cleanup
  BY <1>21 DEF Cleanup
<1>22. CASE Fails
  BY <1>22 DEF Fails, InRun
<1>23. CASE Interrupt
  BY <1>23 DEF Interrupt, InRun
<1>24. CASE Killed
  BY <1>24 DEF Killed
<1>25. ASSUME NEW f \in Files, Touch(f)
      PROVE VersionInv'
  BY <1>25 DEF Touch
<1>26. CASE Rival
  BY <1>26 DEF Rival
<1>27. CASE UNCHANGED vars
  BY <1>27 DEF vars
<1> QED
BY <1>1, <1>2, <1>3, <1>4, <1>5, <1>6, <1>7, <1>8, <1>9, <1>10, <1>11, <1>12,
         <1>13, <1>14, <1>15, <1>16, <1>17, <1>18, <1>19, <1>20, <1>21, <1>22,
         <1>23, <1>24, <1>25, <1>26, <1>27 DEF Next, Publish

(* The loops leave behind what they were meant to copy.                    *)
LEMMA CopyStep ==
  ASSUME TypeOK, VersionInv, CopyInv, ValidInv, TypeOK', [Next]_vars
  PROVE  CopyInv'
<1> USE MetadataAndViews, ReportIsNotState, NoneIsNew DEF Go, Fail, dataVars,
         loopVars, storeVars, resultVars, TypeOK, CopyInv, Copied, Plain,
         Read, Files, Reading, Copying, Validating
<1>1. CASE Enter
  BY <1>1 DEF Enter
<1>2. CASE SnapshotMetadata
  BY <1>2 DEF SnapshotMetadata
<1>3. CASE Parse(Report, "report", "parseState")
  BY <1>3 DEF Parse
<1>4. CASE Parse(State, "parseState", "mkdir")
  BY <1>4 DEF Parse
<1>5. CASE Mkdir
  BY <1>5 DEF Mkdir, OwnedOnCollision
<1>6. CASE Own
  BY <1>6 DEF Own
<1>7. CASE SnapshotView
  BY <1>7 DEF SnapshotView
<1>8. CASE CopyBefore
  BY <1>8 DEF CopyBefore, Unchanged
<1>9. CASE CopyRead
  BY <1>9 DEF CopyRead
<1>10. CASE CopyAfter
  BY <1>10 DEF CopyAfter, Unchanged
<1>11. CASE WriteState
  BY <1>11 DEF WriteState
<1>12. CASE NextMetadata
  BY <1>12 DEF NextMetadata
<1>13. CASE WriteManifest
  BY <1>13 DEF WriteManifest
<1>14. CASE ValidateCopy
  BY <1>14 DEF ValidateCopy, Intact
<1>15. CASE ValidateSources
  BY <1>15 DEF ValidateSources, Unchanged, AfterRound
<1>16. CASE Runtime
  BY <1>16 DEF Runtime
<1>17. CASE ReadOnly
  BY <1>17 DEF ReadOnly
<1>18. CASE BeforePromote
  BY <1>18 DEF BeforePromote
<1>19. CASE Promote
  BY <1>19 DEF Promote
<1>20. CASE Disown
  BY <1>20 DEF Disown
<1>21. CASE Cleanup
  BY <1>21 DEF Cleanup
<1>22. CASE Fails
  BY <1>22 DEF Fails, InRun
<1>23. CASE Interrupt
  BY <1>23 DEF Interrupt, InRun
<1>24. CASE Killed
  BY <1>24 DEF Killed
<1>25. ASSUME NEW f \in Files, Touch(f)
      PROVE CopyInv'
  BY <1>25 DEF Touch
<1>26. CASE Rival
  BY <1>26 DEF Rival
<1>27. CASE UNCHANGED vars
  BY <1>27 DEF vars
<1> QED
BY <1>1, <1>2, <1>3, <1>4, <1>5, <1>6, <1>7, <1>8, <1>9, <1>10, <1>11, <1>12,
         <1>13, <1>14, <1>15, <1>16, <1>17, <1>18, <1>19, <1>20, <1>21, <1>22,
         <1>23, <1>24, <1>25, <1>26, <1>27 DEF Next, Publish

(* A validation that goes through ties the copy to the instant it began:   *)
(* snapshot <= instant <= source, and source = snapshot at its check.      *)
LEMMA ValidStep ==
  ASSUME TypeOK, VersionInv, CopyInv, ValidInv, TypeOK', [Next]_vars
  PROVE  ValidInv'
<1> USE MetadataAndViews, ReportIsNotState, NoneIsNew DEF Go, Fail, dataVars,
         loopVars, storeVars, resultVars, TypeOK, ValidInv, VersionInv,
         CopyInv, Copied, Plain, Read, Between, Settled, Files, Reading,
         Copying, Validating
<1>1. CASE Enter
  BY <1>1 DEF Enter
<1>2. CASE SnapshotMetadata
  BY <1>2 DEF SnapshotMetadata
<1>3. CASE Parse(Report, "report", "parseState")
  BY <1>3 DEF Parse
<1>4. CASE Parse(State, "parseState", "mkdir")
  BY <1>4 DEF Parse
<1>5. CASE Mkdir
  BY <1>5 DEF Mkdir, OwnedOnCollision
<1>6. CASE Own
  BY <1>6 DEF Own
<1>7. CASE SnapshotView
  BY <1>7 DEF SnapshotView
<1>8. CASE CopyBefore
  BY <1>8 DEF CopyBefore, Unchanged
<1>9. CASE CopyRead
  BY <1>9 DEF CopyRead
<1>10. CASE CopyAfter
  BY <1>10 DEF CopyAfter, Unchanged
<1>11. CASE WriteState
  BY <1>11 DEF WriteState
<1>12. CASE NextMetadata
  BY <1>12 DEF NextMetadata
<1>13. CASE WriteManifest
  BY <1>13 DEF WriteManifest
<1>14. CASE ValidateCopy
  <2>1. /\ instant' = source /\ todo' = Files /\ dest' = dest /\ snap' = snap
        /\ parsed' = parsed /\ staged' = staged /\ recorded' = recorded /\ source' = source
    BY <1>14 DEF ValidateCopy
  <2>2. pc = "validate" /\ (pc' = "cleanup" \/ (pc' = "sources" /\ staged = recorded))
    BY <1>14 DEF ValidateCopy, Intact
  <2>3. \A g \in Files : snap[g] # None /\ snap[g] <= source[g]
    BY <2>2
  <2>4. \A g \in {Report, State} : parsed[g] # None /\ parsed[g] <= source[g]
    BY <2>2
  <2>5. Between'
    BY <2>1, <2>3, <2>4
  <2>6. dest # "mine"
    BY <2>2
  <2> QED
    BY <2>1, <2>2, <2>5, <2>6
<1>15. CASE ValidateSources
  BY <1>15 DEF ValidateSources, Unchanged, AfterRound
<1>16. CASE Runtime
  BY <1>16 DEF Runtime
<1>17. CASE ReadOnly
  BY <1>17 DEF ReadOnly
<1>18. CASE BeforePromote
  BY <1>18 DEF BeforePromote
<1>19. CASE Promote
  BY <1>19 DEF Promote
<1>20. CASE Disown
  BY <1>20 DEF Disown
<1>21. CASE Cleanup
  BY <1>21 DEF Cleanup
<1>22. CASE Fails
  BY <1>22 DEF Fails, InRun
<1>23. CASE Interrupt
  BY <1>23 DEF Interrupt, InRun
<1>24. CASE Killed
  BY <1>24 DEF Killed
<1>25. ASSUME NEW f \in Files, Touch(f)
      PROVE ValidInv'
  BY <1>25 DEF Touch
<1>26. CASE Rival
  BY <1>26 DEF Rival
<1>27. CASE UNCHANGED vars
  BY <1>27 DEF vars
<1> QED
BY <1>1, <1>2, <1>3, <1>4, <1>5, <1>6, <1>7, <1>8, <1>9, <1>10, <1>11, <1>12,
         <1>13, <1>14, <1>15, <1>16, <1>17, <1>18, <1>19, <1>20, <1>21, <1>22,
         <1>23, <1>24, <1>25, <1>26, <1>27 DEF Next, Publish

(* The owned reference follows the staging directory, except where an      *)
(* exception falls between the two.                                        *)
LEMMA OwnStep ==
  ASSUME TypeOK, OwnInv, [Next]_vars
  PROVE  OwnInv'
<1> USE NoneIsNew DEF Go, Fail, dataVars, loopVars, storeVars, resultVars,
         OwnInv, InRun, TypeOK, Reading, Copying, Validating, Places
<1>1. CASE Enter
  BY <1>1 DEF Enter
<1>2. CASE SnapshotMetadata
  BY <1>2 DEF SnapshotMetadata
<1>3. CASE Parse(Report, "report", "parseState")
  BY <1>3 DEF Parse
<1>4. CASE Parse(State, "parseState", "mkdir")
  BY <1>4 DEF Parse
<1>5. CASE Mkdir
  BY <1>5 DEF Mkdir, OwnedOnCollision
<1>6. CASE Own
  BY <1>6 DEF Own
<1>7. CASE SnapshotView
  BY <1>7 DEF SnapshotView
<1>8. CASE CopyBefore
  BY <1>8 DEF CopyBefore, Unchanged
<1>9. CASE CopyRead
  BY <1>9 DEF CopyRead
<1>10. CASE CopyAfter
  BY <1>10 DEF CopyAfter, Unchanged
<1>11. CASE WriteState
  BY <1>11 DEF WriteState
<1>12. CASE NextMetadata
  BY <1>12 DEF NextMetadata
<1>13. CASE WriteManifest
  BY <1>13 DEF WriteManifest
<1>14. CASE ValidateCopy
  BY <1>14 DEF ValidateCopy, Intact
<1>15. CASE ValidateSources
  BY <1>15 DEF ValidateSources, Unchanged, AfterRound
<1>16. CASE Runtime
  BY <1>16 DEF Runtime
<1>17. CASE ReadOnly
  BY <1>17 DEF ReadOnly
<1>18. CASE BeforePromote
  BY <1>18 DEF BeforePromote
<1>19. CASE Promote
  BY <1>19 DEF Promote
<1>20. CASE Disown
  BY <1>20 DEF Disown
<1>21. CASE Cleanup
  BY <1>21 DEF Cleanup
<1>22. CASE Fails
  BY <1>22 DEF Fails, InRun
<1>23. CASE Interrupt
  BY <1>23 DEF Interrupt, InRun
<1>24. CASE Killed
  BY <1>24 DEF Killed
<1>25. ASSUME NEW f \in Files, Touch(f)
      PROVE OwnInv'
  BY <1>25 DEF Touch
<1>26. CASE Rival
  BY <1>26 DEF Rival
<1>27. CASE UNCHANGED vars
  BY <1>27 DEF vars
<1> QED
BY <1>1, <1>2, <1>3, <1>4, <1>5, <1>6, <1>7, <1>8, <1>9, <1>10, <1>11, <1>12,
         <1>13, <1>14, <1>15, <1>16, <1>17, <1>18, <1>19, <1>20, <1>21, <1>22,
         <1>23, <1>24, <1>25, <1>26, <1>27 DEF Next, Publish

(* Promotion publishes the settled copy, and nothing changes it later.     *)
LEMMA PublishedStep ==
ASSUME TypeOK, VersionInv, CopyInv, ValidInv, OwnInv, PublishedIsTheCandidate,
         TypeOK', [Next]_vars
  PROVE  PublishedIsTheCandidate'
<1> USE MetadataAndViews, NoneIsNew DEF Go, Fail, dataVars, loopVars,
         storeVars, resultVars, TypeOK, ValidInv, VersionInv, CopyInv, OwnInv,
         InRun, PublishedIsTheCandidate, Plain, Read, Between, Settled, Files,
         Reading, Copying, Validating
<1>1. CASE Enter
  BY <1>1 DEF Enter
<1>2. CASE SnapshotMetadata
  BY <1>2 DEF SnapshotMetadata
<1>3. CASE Parse(Report, "report", "parseState")
  BY <1>3 DEF Parse
<1>4. CASE Parse(State, "parseState", "mkdir")
  BY <1>4 DEF Parse
<1>5. CASE Mkdir
  BY <1>5 DEF Mkdir, OwnedOnCollision
<1>6. CASE Own
  BY <1>6 DEF Own
<1>7. CASE SnapshotView
  BY <1>7 DEF SnapshotView
<1>8. CASE CopyBefore
  BY <1>8 DEF CopyBefore, Unchanged
<1>9. CASE CopyRead
  BY <1>9 DEF CopyRead
<1>10. CASE CopyAfter
  BY <1>10 DEF CopyAfter, Unchanged
<1>11. CASE WriteState
  BY <1>11 DEF WriteState
<1>12. CASE NextMetadata
  BY <1>12 DEF NextMetadata
<1>13. CASE WriteManifest
  BY <1>13 DEF WriteManifest
<1>14. CASE ValidateCopy
  BY <1>14 DEF ValidateCopy, Intact
<1>15. CASE ValidateSources
  BY <1>15 DEF ValidateSources, Unchanged, AfterRound
<1>16. CASE Runtime
  BY <1>16 DEF Runtime
<1>17. CASE ReadOnly
  BY <1>17 DEF ReadOnly
<1>18. CASE BeforePromote
  BY <1>18 DEF BeforePromote
<1>19. CASE Promote
  BY <1>19 DEF Promote
<1>20. CASE Disown
  BY <1>20 DEF Disown
<1>21. CASE Cleanup
  BY <1>21 DEF Cleanup
<1>22. CASE Fails
  BY <1>22 DEF Fails, InRun
<1>23. CASE Interrupt
  BY <1>23 DEF Interrupt, InRun
<1>24. CASE Killed
  BY <1>24 DEF Killed
<1>25. ASSUME NEW f \in Files, Touch(f)
      PROVE PublishedIsTheCandidate'
  BY <1>25 DEF Touch
<1>26. CASE Rival
  BY <1>26 DEF Rival
<1>27. CASE UNCHANGED vars
  BY <1>27 DEF vars
<1> QED
BY <1>1, <1>2, <1>3, <1>4, <1>5, <1>6, <1>7, <1>8, <1>9, <1>10, <1>11, <1>12,
         <1>13, <1>14, <1>15, <1>16, <1>17, <1>18, <1>19, <1>20, <1>21, <1>22,
         <1>23, <1>24, <1>25, <1>26, <1>27 DEF Next, Publish

(* A failure reaches cleanup with its own staging or with none.            *)
LEMMA OrdinaryStep ==
ASSUME TypeOK, OwnInv, OrdinaryFailuresCleanUp, TypeOK', OwnInv', [Next]_vars
  PROVE  OrdinaryFailuresCleanUp'
<1> USE NoneIsNew DEF Go, Fail, dataVars, loopVars, storeVars, resultVars,
         TypeOK, OwnInv, InRun, OrdinaryFailuresCleanUp, Reading, Copying,
         Validating
<1>1. CASE Enter
  BY <1>1 DEF Enter
<1>2. CASE SnapshotMetadata
  BY <1>2 DEF SnapshotMetadata
<1>3. CASE Parse(Report, "report", "parseState")
  BY <1>3 DEF Parse
<1>4. CASE Parse(State, "parseState", "mkdir")
  BY <1>4 DEF Parse
<1>5. CASE Mkdir
  BY <1>5 DEF Mkdir, OwnedOnCollision
<1>6. CASE Own
  BY <1>6 DEF Own
<1>7. CASE SnapshotView
  BY <1>7 DEF SnapshotView
<1>8. CASE CopyBefore
  BY <1>8 DEF CopyBefore, Unchanged
<1>9. CASE CopyRead
  BY <1>9 DEF CopyRead
<1>10. CASE CopyAfter
  BY <1>10 DEF CopyAfter, Unchanged
<1>11. CASE WriteState
  BY <1>11 DEF WriteState
<1>12. CASE NextMetadata
  BY <1>12 DEF NextMetadata
<1>13. CASE WriteManifest
  BY <1>13 DEF WriteManifest
<1>14. CASE ValidateCopy
  BY <1>14 DEF ValidateCopy, Intact
<1>15. CASE ValidateSources
  BY <1>15 DEF ValidateSources, Unchanged, AfterRound
<1>16. CASE Runtime
  BY <1>16 DEF Runtime
<1>17. CASE ReadOnly
  BY <1>17 DEF ReadOnly
<1>18. CASE BeforePromote
  BY <1>18 DEF BeforePromote
<1>19. CASE Promote
  BY <1>19 DEF Promote
<1>20. CASE Disown
  BY <1>20 DEF Disown
<1>21. CASE Cleanup
  BY <1>21 DEF Cleanup
<1>22. CASE Fails
  BY <1>22 DEF Fails, InRun
<1>23. CASE Interrupt
  BY <1>23 DEF Interrupt, InRun
<1>24. CASE Killed
  BY <1>24 DEF Killed
<1>25. ASSUME NEW f \in Files, Touch(f)
      PROVE OrdinaryFailuresCleanUp'
  BY <1>25 DEF Touch
<1>26. CASE Rival
  BY <1>26 DEF Rival
<1>27. CASE UNCHANGED vars
  BY <1>27 DEF vars
<1> QED
BY <1>1, <1>2, <1>3, <1>4, <1>5, <1>6, <1>7, <1>8, <1>9, <1>10, <1>11, <1>12,
         <1>13, <1>14, <1>15, <1>16, <1>17, <1>18, <1>19, <1>20, <1>21, <1>22,
         <1>23, <1>24, <1>25, <1>26, <1>27 DEF Next, Publish

(* The initial states satisfy every part.                                  *)
LEMMA InitIInv == Init => IInv
<1> SUFFICES ASSUME Init PROVE IInv
  OBVIOUS
<1> USE MetadataAndViews, NoneIsNew DEF Init
<1>1. TypeOK
  BY DEF TypeOK, Places, Reading, Files
<1>2. VersionInv
  BY DEF VersionInv, Files
<1>3. CopyInv
  BY DEF CopyInv, Copying, Validating
<1>4. ValidInv
  BY DEF ValidInv, Validating
<1>5. OwnInv
  BY DEF OwnInv, InRun, Copying, Validating
<1>6. PublishedIsTheCandidate /\ OrdinaryFailuresCleanUp
  BY DEF PublishedIsTheCandidate, OrdinaryFailuresCleanUp
<1> QED
  BY <1>1, <1>2, <1>3, <1>4, <1>5, <1>6 DEF IInv

(* The inductive invariant holds of every publication                      *)
(* (checkpoint_publisher.ml:66-158).                                       *)
THEOREM AlwaysIInv == Spec => []IInv
<1>1. IInv /\ [Next]_vars => IInv'
  <2> SUFFICES ASSUME IInv, [Next]_vars PROVE IInv'
    OBVIOUS
  <2>1. TypeOK'
    BY TypeStep DEF IInv
  <2>2. VersionInv'
    BY <2>1, VersionStep DEF IInv
  <2>3. CopyInv'
    BY <2>1, CopyStep DEF IInv
  <2>4. ValidInv'
    BY <2>1, ValidStep DEF IInv
  <2>5. OwnInv'
    BY OwnStep DEF IInv
  <2>6. PublishedIsTheCandidate'
    BY <2>1, PublishedStep DEF IInv
  <2>7. OrdinaryFailuresCleanUp'
    BY <2>1, <2>5, OrdinaryStep DEF IInv
  <2> QED
    BY <2>1, <2>2, <2>3, <2>4, <2>5, <2>6, <2>7 DEF IInv
<1> QED
  BY <1>1, InitIInv, PTL DEF Spec

(* Whatever happens to the sources, and whatever the validator does to the *)
(* copy, a published checkpoint is the candidate at one instant.           *)
THEOREM AlwaysTheCandidate == Spec => []PublishedIsTheCandidate
<1>1. IInv => PublishedIsTheCandidate
  BY DEF IInv
<1> QED
  BY <1>1, AlwaysIInv, PTL

(* Failures remove their own staging and nobody else's                     *)
(* (checkpoint_publisher.ml:151-158).                                      *)
THEOREM FailuresAlwaysCleanUp == Spec => []OrdinaryFailuresCleanUp
<1>1. IInv => OrdinaryFailuresCleanUp
  BY DEF IInv
<1> QED
  BY <1>1, AlwaysIInv, PTL
=============================================================================
