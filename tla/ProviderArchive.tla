-------------------------- MODULE ProviderArchive --------------------------
(***************************************************************************)
(* flow/hardcaml_asic_flow/archive.py: a finished run and its input bundle *)
(* are verified, copied into a private directory, and put where an older   *)
(* archive may stand, beside files of its reader.                          *)
(*                                                                         *)
(* Version 1 of anything is what the run's records pin.  Others may change *)
(* the run, the bundle and the output while the archiver works.            *)
(***************************************************************************)
EXTENDS Cancellation

CONSTANT MaxChanges  \* bound: acts of others while the archiver works

(* A reader's files: one that was there before, one that comes later.      *)
Users == {"note", "late"}

(* What an archive holds and stands in; None, nothing there, is neither.   *)
Holdings == [manifest : Nat, checks : Nat, layout : Nat, bundle : Nat, users : SUBSET Users, whole : BOOLEAN]
Outputs == [archive : Holdings \cup {None}, users : SUBSET Users]
NoneIsNew == None \notin Outputs \cup Holdings \cup {"archived", "refused", "unrestored", "listed"}

VARIABLES
  pc, mode,          \* "archive", "force" or "list"
  original, staged,  \* versions of the bundle; 0 when it is not complete
  layout,            \* version of what the postcheck pinned; 0 when it is gone
  checks,            \* postcheck records there are
  output,            \* None, or [archive, users]
  staging,           \* None, or what the private directory holds so far
  backup,            \* None, or the output that was moved away
  source,            \* None, "original" or "staged"
  verified,          \* versions verify() looked at, and the checks it read
  selected,          \* members() found what the postcheck pinned
  older,             \* history: an archive stood there at the start,
  kept,              \*   the reader's files that were in the output so far,
  added,              \*   those that came after they were listed and before
                     \*   the output was moved away,
  drifted,           \*   and the layout changed after it was verified
  sent, changes, outcome

vars == <<pc, mode, original, staged, layout, checks, output, staging, backup, source, verified, selected,
          older, kept, added, drifted, sent, changes, outcome>>
world == <<original, staged, layout, checks, changes>>
given == <<mode, older, kept, added, drifted>>
read == <<source, verified, selected>>

Nothing == [manifest |-> 0, checks |-> 0, layout |-> 0, bundle |-> 0, users |-> {}, whole |-> FALSE]
(* What an earlier run's archiver left.                                    *)
Older == [Nothing EXCEPT !.manifest = 3, !.whole = TRUE]

Init ==
  /\ pc = "verify" /\ mode \in {"archive", "force", "list"}
  /\ original \in {0, 1, 2} /\ staged \in {1, 2} /\ layout \in {0, 1, 2} /\ checks \in {0, 1}
  /\ output \in {None, [archive |-> None, users |-> {}]}
       \cup [archive : {None, Older}, users : {{"note"}}]
  /\ kept = IF output = None THEN {} ELSE output.users
  /\ older = (output # None /\ output.archive = Older) /\ added = {} /\ drifted = FALSE
  /\ staging = None /\ backup = None /\ source = None
  /\ verified = [layout |-> 0, checks |-> 0] /\ selected = FALSE
  /\ sent = 0 /\ changes = 0 /\ outcome = None

Go(to) == pc' = to /\ UNCHANGED outcome
Over(what) == pc' = "over" /\ outcome' = what
Refuse == Over("refused")

-----------------------------------------------------------------------------
(* verify: the staged manifest, and what each postcheck pinned, where it   *)
(* still exists.                                                           *)
Verify ==
  /\ pc = "verify" /\ mode # "list"
  /\ verified' = [layout |-> IF checks = 0 THEN 0 ELSE layout, checks |-> checks]
  /\ IF staged = 1 /\ (checks > 0 => layout \in {0, 1}) THEN Go("source") ELSE Refuse
  /\ UNCHANGED <<given, world, output, staging, backup, source, selected, sent>>

(* validate_bundle: the manifest the run recorded, and all it lists.       *)
Complete(bundle) == bundle = 1

(* bundle_source: a complete valid original, or else the staged copy.      *)
Select ==
  /\ pc = "source"
  /\ source' = IF Complete(original) THEN "original" ELSE IF Complete(staged) THEN "staged" ELSE None
  /\ IF source' = None THEN Refuse ELSE Go("members")
  /\ UNCHANGED <<given, world, output, staging, backup, verified, selected, sent>>

(* members: what of the run is there; a symlink among it ends it all.      *)
Members ==
  /\ pc = "members"
  /\ selected' = (layout # 0)
  /\ Go("output") \/ Refuse
  /\ UNCHANGED <<given, world, output, staging, backup, source, verified, sent>>

(* list_archive: the same questions, and nothing is written.               *)
List ==
  /\ pc = "verify" /\ mode = "list"
  /\ \/ staged = 1 /\ (checks > 0 => layout \in {0, 1}) /\ Over("listed")
     \/ Refuse
  /\ UNCHANGED <<given, world, output, staging, backup, read, sent>>

Populated == output # None /\ (output.archive # None \/ output.users # {})

MakeStaging ==
  /\ pc = "output"
  /\ IF Populated /\ mode # "force" THEN Refuse /\ UNCHANGED staging
                            ELSE Go("manifest") /\ staging' = Nothing
  /\ UNCHANGED <<given, world, output, backup, read, sent>>

Bundle == IF source = "original" THEN original ELSE staged

(* except Exception: the private directory goes.                           *)
Discard == staging' = None /\ Refuse

CopyManifest ==
  /\ pc = "manifest"
  /\ IF Bundle = 1 THEN Go("records") /\ staging' = [staging EXCEPT !.manifest = 1] ELSE Discard
  /\ UNCHANGED <<given, world, output, backup, read, sent>>

(* The records of the checks that were read; a copy is made of what they   *)
(* are now.                                                                *)
CopyRecords ==
  /\ pc = "records"
  /\ \/ Go("reports") /\ staging' = [staging EXCEPT !.checks = verified.checks]
     \/ Discard
  /\ UNCHANGED <<given, world, output, backup, read, sent>>

TarReports ==
  /\ pc = "reports"
  /\ \/ /\ selected => layout # 0
        /\ Go("bundle") /\ staging' = [staging EXCEPT !.layout = IF selected THEN layout ELSE 0]
     \/ Discard
  /\ UNCHANGED <<given, world, output, backup, read, sent>>

WriteBundle ==
  /\ pc = "bundle"
  /\ IF Bundle = 0 THEN Discard ELSE Go("check") /\ staging' = [staging EXCEPT !.bundle = Bundle]
  /\ UNCHANGED <<given, world, output, backup, read, sent>>

(* Mutant: what was verified before it was written is not looked at again. *)
TrustWritten == TRUE

(* verify_input_bundle: every member that was written against its digest.  *)
Packaged == staging.bundle = 1

CheckBundle ==
  /\ pc = "check"
  /\ IF Packaged THEN (Go("users") /\ staging' = [staging EXCEPT !.whole = TRUE]) \/ Discard ELSE Discard
  /\ UNCHANGED <<given, world, output, backup, read, sent>>

-----------------------------------------------------------------------------
(* publish: the reader's files are copied, then two renames.               *)
Others == IF output = None THEN {} ELSE output.users

CopyUsers ==
  /\ pc = "users"
  /\ \/ Go("away") /\ staging' = [staging EXCEPT !.users = Others]
     \/ Discard
  /\ UNCHANGED <<given, world, output, backup, read, sent>>

(* Mutant: what stands there is removed, not moved.                        *)
RemoveOld ==
  /\ pc = "away" /\ output' = None /\ Go("place")
  /\ UNCHANGED <<given, world, staging, backup, read, sent>>

MoveAway ==
  /\ pc = "away"
  /\ \/ backup' = output /\ output' = None /\ Go("place") /\ UNCHANGED staging
     \/ Discard /\ UNCHANGED <<output, backup>>
  /\ UNCHANGED <<given, world, read, sent>>

Placed == [archive |-> staging, users |-> staging.users]

(* A directory of that name that is not empty refuses the rename.          *)
Place ==
  /\ pc = "place"
  /\ IF output = None THEN \/ output' = Placed /\ staging' = None /\ Go("forget")
                           \/ Go("back") /\ UNCHANGED <<output, staging>>
     ELSE Go("back") /\ UNCHANGED <<output, staging>>
  /\ UNCHANGED <<given, world, backup, read, sent>>

(* Mutant: what stood there is not put back.                               *)
KeepBackup == UNCHANGED <<output, backup>>

PutBack ==
  IF output = None THEN output' = backup /\ backup' = None ELSE UNCHANGED <<output, backup>>

(* The way back is a rename, and fails like any other.                     *)
Restore ==
  /\ pc = "back"
  /\ \/ PutBack /\ Discard
     \/ /\ output = None /\ backup # None
        /\ staging' = None /\ Over("unrestored") /\ UNCHANGED <<output, backup>>
  /\ UNCHANGED <<given, world, read, sent>>

(* A backup that cannot be removed is left, and is not a failure.          *)
Forget ==
  /\ pc = "forget"
  /\ backup' \in {None, backup} /\ Over("archived")
  /\ UNCHANGED <<given, world, output, staging, read, sent>>

-----------------------------------------------------------------------------
(* Ctrl-C is no Exception, and SIGTERM is not heard: nothing is undone.    *)
(* What was moved away may be gone in part.                                *)
Interrupt ==
  /\ pc # "over" /\ sent < MaxSignals
  /\ sent' = sent + 1
  /\ Over("killed")
  /\ backup' = backup \/ (pc = "forget" /\ backup' = None)
  /\ UNCHANGED <<given, world, output, staging, read>>

(* Others write to the bundle and the run ...                              *)
Disturb ==
  /\ pc # "over" /\ changes < MaxChanges
  /\ changes' = changes + 1
  /\ \/ original' = 2 /\ UNCHANGED <<staged, layout, checks, drifted>>
     \/ staged' = 2 /\ UNCHANGED <<original, layout, checks, drifted>>
     \/ /\ layout' \in {0, 2} /\ drifted' = (drifted \/ pc # "verify")
        /\ UNCHANGED <<original, staged, checks>>
     \/ checks' = checks + 1 /\ UNCHANGED <<original, staged, layout, drifted>>
  /\ UNCHANGED <<pc, mode, older, kept, added, output, staging, backup, read, sent, outcome>>

(* ... and the reader to the output, which need not be there.              *)
AddLate ==
  /\ pc # "over" /\ changes < MaxChanges
  /\ changes' = changes + 1
  /\ output' = IF output = None THEN [archive |-> None, users |-> {"late"}]
               ELSE [output EXCEPT !.users = @ \cup {"late"}]
  /\ kept' = kept \cup {"late"}
  /\ added' = added \cup (IF pc = "away" /\ "late" \notin kept THEN {"late"} ELSE {})
  /\ UNCHANGED <<pc, mode, original, staged, layout, checks, older, drifted, staging, backup, read,
                 sent, outcome>>

Next ==
  \/ Verify \/ Select \/ Members \/ List \/ MakeStaging \/ CopyManifest \/ CopyRecords \/ TarReports
  \/ WriteBundle \/ CheckBundle \/ CopyUsers \/ MoveAway \/ Place \/ Restore \/ Forget
  \/ Interrupt \/ Disturb \/ AddLate

Spec == Init /\ [][Next]_vars

Archived == output # None /\ output.archive \notin {None, Older}

-----------------------------------------------------------------------------
(* "Built from bytes that still match what the run recorded consuming"     *)
(* (verify): the input bundle in an archive is the pinned one whoever      *)
(* wrote to its source meanwhile; what a postcheck pinned is the pinned    *)
(* one, or as absent as when it was verified, unless it changed after      *)
(* that, because it is not compared again when it is packed; and an        *)
(* archive is only ever there whole.                                       *)
ArchiveIsThePinned ==
  Archived =>
    /\ output.archive.whole /\ output.archive.manifest = 1 /\ output.archive.bundle = 1
    /\ output.archive.checks > 0 =>
         (output.archive.layout = verified.layout /\ verified.layout \in {0, 1}) \/ drifted

Moved == IF backup = None THEN {} ELSE backup.users

(* "Atomically replace archive-owned files while retaining user files"     *)
(* (publish): of the reader's files, those that came before or during the  *)
(* work, none is lost unless an archive is published, and then only one    *)
(* that came after they were listed and before the output was moved away.  *)
(* A failure leaves them, or the directory with them that was moved away   *)
(* when the place was taken again or the way back failed as well.          *)
ReadersFilesSurvive ==
  /\ kept \ added \subseteq Others \cup Moved
  /\ ~Archived => kept \subseteq Others \cup Moved
  /\ outcome = "archived" => kept \ added \subseteq Others
  /\ outcome = "refused" => staging = None /\ (backup # None => output # None)

Stands(directory, archive) == directory # None /\ directory.archive = archive

(* The archive that stood there is in its place or in what was moved away  *)
(* at every step, until a whole new one is there; an archiver that failed  *)
(* has put none there (archive, publish).                                  *)
OlderSurvives ==
  /\ older /\ ~Archived => Stands(output, Older) \/ Stands(backup, Older)
  /\ outcome \in {"refused", "unrestored", "listed"} => ~Archived
=============================================================================
