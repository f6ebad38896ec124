------------------------ MODULE CheckpointPublisher ------------------------
(***************************************************************************)
(* execution/storage/checkpoint_publisher.ml: one publication of a         *)
(* candidate into a shared store.  The publisher snapshots its sources,    *)
(* copies them into a private staging directory, validates the copy three  *)
(* times against its manifest and the sources, and promotes the directory  *)
(* with an atomic no-replace rename.                                       *)
(*                                                                         *)
(* Beside it run: whoever still changes the candidate's files, a rival     *)
(* process that uses the same names in the store by the same protocol, the *)
(* runtime validator (a container with the staging directory mounted), and *)
(* the caller's signal handlers, which may raise in the middle of any step *)
(* (bin/experimental_stages.ml:61).                                        *)
(*                                                                         *)
(* A file's content is the version of the source it came from: `unchanged' *)
(* compares digest, inode, size and times, so a version never comes back;  *)
(* None is a content that is no version of the source.                     *)
(* Any step that touches the filesystem may also fail: Fails.              *)
(***************************************************************************)
EXTENDS Naturals

CONSTANTS Metadata,   \* candidate metadata files
          Views,      \* native view files the state refers to
          Report,     \* segment.json, whose metrics go into the manifest
          State,      \* state.json, whose paths are rewritten
          MaxTouches, \* bound: changes to source files
          None

Files == Metadata \cup Views

ASSUME MetadataAndViews == Metadata \cap Views = {} /\ {Report, State} \subseteq Metadata
ASSUME ReportIsNotState == Report # State
ASSUME MaxTouchesIsNat == MaxTouches \in Nat
ASSUME NoneIsNew ==
  None \notin Nat \cup Files \cup {"mine", "rival", "staging", "failed", "ok", "error", "raised"}

VARIABLES
  pc,        \* where the call is in `publish'
  source,    \* version of each source file
  snap,      \* version at its snapshot, None before
  parsed,    \* version of the report and of the state that were parsed
  staged,    \* content of the staging directory
  recorded,  \* digests in the manifest: versions
  todo, cur, \* files still to handle in a loop, and the one being copied
  round,     \* validations done
  staging,   \* whose directory stands under the staging name
  owned,     \* the owned reference holds the staging path
  dest,      \* whose checkpoint stands at the destination
  published, \* content of our checkpoint
  imageOnly, \* the closure needs the runtime validator
  outcome, cleanupError,
  instant    \* history: the sources when the last validation began

dataVars == <<snap, parsed, staged, recorded, instant>>
storeVars == <<staging, owned, dest, published>>
loopVars == <<todo, cur, round>>
resultVars == <<imageOnly, outcome, cleanupError>>
vars == <<pc, source, dataVars, loopVars, storeVars, resultVars>>

Init ==
  /\ pc = "enter"
  /\ source = [f \in Files |-> 0]
  /\ snap = [f \in Files |-> None]
  /\ parsed = [f \in {Report, State} |-> None]
  /\ staged = [f \in Files |-> None]
  /\ recorded = [f \in Files |-> None]
  /\ todo = Metadata
  /\ cur = None
  /\ round = 0
  /\ staging \in {None, "rival"}
  /\ owned = None
  /\ dest \in {None, "rival"}
  /\ published = None
  /\ imageOnly \in BOOLEAN
  /\ outcome = None
  /\ cleanupError = None
  /\ instant = None

Go(from, to) == pc = from /\ pc' = to

(* A failed check and a filesystem error end `run' alike.                  *)
Fail == pc' = "cleanup" /\ outcome' = "error" /\ UNCHANGED <<imageOnly, cleanupError>>

(* The mutant trusts the source.                                           *)
Trusted(f) == TRUE
Unchanged(f) == source[f] = snap[f]

-----------------------------------------------------------------------------
(* Reading the candidate.                                                  *)

Enter ==
  /\ Go("enter", "snapshot")
  /\ UNCHANGED <<source, dataVars, loopVars, storeVars, resultVars>>

SnapshotMetadata ==
  /\ pc = "snapshot"
  /\ \E f \in todo : /\ snap' = [snap EXCEPT ![f] = source[f]]
                     /\ todo' = todo \ {f}
                     /\ pc' = IF todo = {f} THEN "report" ELSE "snapshot"
  /\ UNCHANGED <<source, parsed, staged, recorded, instant, cur, round, storeVars, resultVars>>

Parse(f, from, to) ==
  /\ Go(from, to)
  /\ parsed' = [parsed EXCEPT ![f] = source[f]]
  /\ UNCHANGED <<source, snap, staged, recorded, instant, loopVars, storeVars, resultVars>>

-----------------------------------------------------------------------------
(* Staging.                                                                *)

(* The mutant takes ownership before it knows that mkdir made the          *)
(* directory.                                                              *)
OwnedFirst == "staging"
OwnedOnCollision == None

Mkdir ==
  /\ pc = "mkdir"
  /\ todo' = Views
  /\ IF staging = None
       THEN pc' = "own" /\ staging' = "mine" /\ UNCHANGED <<owned, resultVars>>
       ELSE Fail /\ owned' = OwnedOnCollision /\ UNCHANGED staging
  /\ UNCHANGED <<source, dataVars, cur, round, dest, published>>

Own ==
  /\ Go("own", "views")
  /\ owned' = "staging"
  /\ UNCHANGED <<source, dataVars, loopVars, staging, dest, published, resultVars>>

SnapshotView ==
  /\ pc = "views"
  /\ \/ \E f \in todo : /\ snap' = [snap EXCEPT ![f] = source[f]]
                        /\ cur' = f
                        /\ pc' = "copy"
     \/ /\ todo = {}
        /\ pc' = "state"
        /\ UNCHANGED <<snap, cur>>
  /\ UNCHANGED <<source, parsed, staged, recorded, instant, todo, round, storeVars, resultVars>>

WriteState ==
  /\ Go("state", "metadata")
  /\ staged' = [staged EXCEPT ![State] = parsed[State]]
  /\ todo' = Metadata \ {State}
  /\ UNCHANGED <<source, snap, parsed, recorded, instant, cur, round, storeVars, resultVars>>

NextMetadata ==
  /\ pc = "metadata"
  /\ \/ \E f \in todo : cur' = f /\ pc' = "copy"
     \/ todo = {} /\ cur' = None /\ pc' = "manifest"
  /\ UNCHANGED <<source, dataVars, todo, round, storeVars, resultVars>>

CopyBefore ==
  /\ pc = "copy"
  /\ IF Unchanged(cur) THEN pc' = "read" /\ UNCHANGED resultVars ELSE Fail
  /\ UNCHANGED <<source, dataVars, loopVars, storeVars>>

CopyRead ==
  /\ Go("read", "recheck")
  /\ staged' = [staged EXCEPT ![cur] = source[cur]]
  /\ UNCHANGED <<source, snap, parsed, recorded, instant, loopVars, storeVars, resultVars>>

CopyAfter ==
  /\ pc = "recheck"
  /\ IF Unchanged(cur) /\ staged[cur] = snap[cur]
       THEN /\ pc' = IF cur \in Views THEN "views" ELSE "metadata"
            /\ todo' = todo \ {cur}
            /\ UNCHANGED resultVars
       ELSE Fail /\ UNCHANGED todo
  /\ UNCHANGED <<source, dataVars, cur, round, storeVars>>

WriteManifest ==
  /\ Go("manifest", "validate")
  /\ recorded' = staged
  /\ UNCHANGED <<source, snap, parsed, staged, instant, loopVars, storeVars, resultVars>>

-----------------------------------------------------------------------------
(* Validation, the runtime callback, promotion.                            *)

(* The mutant takes the manifest's word for the copy.                      *)
TrustedCopy == TRUE
Intact == staged = recorded

ValidateCopy ==
  /\ pc = "validate"
  /\ instant' = source
  /\ todo' = Files
  /\ IF Intact THEN pc' = "sources" /\ UNCHANGED resultVars ELSE Fail
  /\ UNCHANGED <<source, snap, parsed, staged, recorded, cur, round, storeVars>>

AfterRound == CASE round = 0 -> "runtime" [] round = 1 -> "readonly" [] OTHER -> "before"

ValidateSources ==
  /\ pc = "sources"
  /\ \/ \E f \in todo :
          IF Unchanged(f)
            THEN todo' = todo \ {f} /\ UNCHANGED <<pc, round, resultVars>>
            ELSE Fail /\ UNCHANGED <<todo, round>>
     \/ /\ todo = {}
        /\ round' = round + 1
        /\ pc' = AfterRound
        /\ UNCHANGED <<todo, resultVars>>
  /\ UNCHANGED <<source, dataVars, cur, storeVars>>

(* The validator may answer, or raise, with the staged files changed; an   *)
(* answer other than Validated is an error, and so is a missing validator. *)
Runtime ==
  /\ pc = "runtime"
  /\ \/ ~imageOnly /\ pc' = "validate" /\ UNCHANGED <<staged, resultVars>>
     \/ /\ imageOnly
        /\ \/ UNCHANGED staged
           \/ \E f \in Files : staged' = [staged EXCEPT ![f] = None]
        /\ \/ pc' = "validate" /\ UNCHANGED resultVars
           \/ Fail
           \/ pc' = "cleanup" /\ outcome' = "raised" /\ UNCHANGED <<imageOnly, cleanupError>>
  /\ UNCHANGED <<source, snap, parsed, recorded, instant, loopVars, storeVars>>

ReadOnly ==
  /\ Go("readonly", "validate")
  /\ UNCHANGED <<source, dataVars, loopVars, storeVars, resultVars>>

BeforePromote ==
  /\ pc = "before"
  /\ \/ pc' = "promote" /\ UNCHANGED resultVars
     \/ pc' = "cleanup" /\ outcome' = "raised" /\ UNCHANGED <<imageOnly, cleanupError>>
  /\ UNCHANGED <<source, dataVars, loopVars, storeVars>>

Promote ==
  /\ pc = "promote"
  /\ IF dest = None
       THEN /\ pc' = "disown"
            /\ dest' = "mine"
            /\ published' = staged
            /\ staging' = None
            /\ UNCHANGED resultVars
       ELSE Fail /\ UNCHANGED <<dest, published, staging>>
  /\ UNCHANGED <<source, dataVars, loopVars, owned>>

Disown ==
  /\ Go("disown", "cleanup")
  /\ owned' = None
  /\ outcome' = "ok"
  /\ UNCHANGED <<source, dataVars, loopVars, staging, dest, published, imageOnly, cleanupError>>

-----------------------------------------------------------------------------
(* The end of the call, and what may happen in the middle of it.           *)

(* Removes whatever stands under the owned name; an entry that is missing  *)
(* or cannot be removed is a cleanup error.                                *)
Cleanup ==
  /\ Go("cleanup", "done")
  /\ \/ owned = None /\ UNCHANGED <<staging, cleanupError>>
     \/ owned # None /\ staging # None /\ staging' = None /\ UNCHANGED cleanupError
     \/ owned # None /\ cleanupError' = "failed" /\ UNCHANGED staging
  /\ UNCHANGED <<source, dataVars, loopVars, owned, dest, published, imageOnly, outcome>>

InRun == pc \notin {"cleanup", "done", "dead"}

Fails ==
  /\ InRun
  /\ pc \notin {"own", "disown"}
  /\ Fail
  /\ UNCHANGED <<source, dataVars, loopVars, storeVars>>

Interrupt ==
  /\ InRun
  /\ pc' = "cleanup"
  /\ outcome' = "raised"
  /\ UNCHANGED <<source, dataVars, loopVars, storeVars, imageOnly, cleanupError>>

Killed ==
  /\ pc \notin {"done", "dead"}
  /\ pc' = "dead"
  /\ UNCHANGED <<source, dataVars, loopVars, storeVars, resultVars>>

Touch(f) ==
  /\ source[f] < MaxTouches
  /\ source' = [source EXCEPT ![f] = @ + 1]
  /\ UNCHANGED <<pc, dataVars, loopVars, storeVars, resultVars>>

Rival ==
  /\ \/ staging = None /\ staging' = "rival" /\ UNCHANGED dest
     \/ staging = "rival" /\ staging' = None /\ UNCHANGED dest
     \/ staging = "rival" /\ dest = None /\ staging' = None /\ dest' = "rival"
  /\ UNCHANGED <<pc, source, dataVars, loopVars, owned, published, resultVars>>

-----------------------------------------------------------------------------
Publish ==
  \/ Enter
  \/ SnapshotMetadata
  \/ Parse(Report, "report", "parseState")
  \/ Parse(State, "parseState", "mkdir")
  \/ Mkdir
  \/ Own
  \/ SnapshotView
  \/ CopyBefore
  \/ CopyRead
  \/ CopyAfter
  \/ WriteState
  \/ NextMetadata
  \/ WriteManifest
  \/ ValidateCopy
  \/ ValidateSources
  \/ Runtime
  \/ ReadOnly
  \/ BeforePromote
  \/ Promote
  \/ Disown
  \/ Cleanup

Next ==
  \/ Publish
  \/ Fails
  \/ Interrupt
  \/ Killed
  \/ \E f \in Files : Touch(f)
  \/ Rival

Spec == Init /\ [][Next]_vars

-----------------------------------------------------------------------------
Reading == {"enter", "snapshot", "report", "parseState", "mkdir", "own"}
Copying == {"views", "state", "metadata", "copy", "read", "recheck", "manifest"}
Validating == {"validate", "sources", "runtime", "readonly", "before", "promote"}
Places == Reading \cup Copying \cup Validating \cup {"disown", "cleanup", "done", "dead"}

(* Type invariant.                                                         *)
TypeOK ==
  /\ pc \in Places
  /\ source \in [Files -> Nat]
  /\ snap \in [Files -> Nat \cup {None}]
  /\ parsed \in [{Report, State} -> Nat \cup {None}]
  /\ staged \in [Files -> Nat \cup {None}]
  /\ recorded \in [Files -> Nat \cup {None}]
  /\ todo \subseteq Files
  /\ cur \in Files \cup {None}
  /\ round \in Nat
  /\ staging \in {None, "mine", "rival"}
  /\ owned \in {None, "staging"}
  /\ dest \in {None, "mine", "rival"}
  /\ published \in [Files -> Nat \cup {None}] \cup {None}
  /\ imageOnly \in BOOLEAN
  /\ outcome \in {None, "ok", "error", "raised"}
  /\ cleanupError \in {None, "failed"}
  /\ instant \in [Files -> Nat] \cup {None}

(* Versions only grow: a source that still equals its snapshot never left  *)
(* it, and what was parsed in between is that version.                     *)
VersionInv ==
  /\ \A f \in Files : snap[f] # None => snap[f] <= source[f]
  /\ \A f \in {Report, State} :
       parsed[f] # None => snap[f] # None /\ snap[f] <= parsed[f] /\ parsed[f] <= source[f]

Copied(S) == \A f \in S : snap[f] # None /\ staged[f] = snap[f]
Plain == Metadata \ {State}
Read == \A f \in {Report, State} : parsed[f] # None

(* How far the reading and the copying have come at each place.            *)
CopyInv ==
  /\ pc \in {"enter", "snapshot"} =>
       /\ todo \subseteq Metadata
       /\ \A f \in Metadata : f \in todo \/ snap[f] # None
       /\ \A f \in {Report, State} : parsed[f] = None
  /\ pc \in {"report", "parseState", "mkdir", "own"} \cup Copying \cup Validating =>
       \A f \in Metadata : snap[f] # None
  /\ pc = "parseState" => parsed[Report] # None
  /\ pc \in {"mkdir", "own"} \cup Copying \cup Validating => Read
  /\ pc = "own" => todo = Views
  /\ pc = "views" => todo \subseteq Views /\ Copied(Views \ todo)
  /\ pc = "state" => Copied(Views)
  /\ pc = "metadata" => /\ todo \subseteq Plain
                        /\ Copied(Views \cup (Plain \ todo))
                        /\ staged[State] = parsed[State]
  /\ pc \in {"copy", "read", "recheck"} =>
       /\ cur \in todo
       /\ snap[cur] # None
       /\ \/ todo \subseteq Views /\ Copied(Views \ todo)
          \/ /\ todo \subseteq Plain
             /\ Copied(Views \cup (Plain \ todo))
             /\ staged[State] = parsed[State]
  /\ pc = "manifest" => Copied(Views \cup Plain) /\ staged[State] = parsed[State]

(* What the manifest records, and what a validation has established.       *)
Settled(S) == \A f \in S : instant[f] = snap[f]
Between ==
  /\ instant \in [Files -> Nat]
  /\ \A f \in Files : snap[f] <= instant[f] /\ instant[f] <= source[f]
  /\ \A f \in {Report, State} : parsed[f] <= instant[f]

ValidInv ==
  /\ pc \in Validating =>
       /\ \A f \in Views \cup Plain : snap[f] # None /\ recorded[f] = snap[f]
       /\ recorded[State] = parsed[State]
  /\ pc \in Validating \ {"validate"} => Between
  /\ pc = "sources" => staged = recorded /\ Settled(Files \ todo)
  /\ pc \in {"before", "promote"} => staged = recorded /\ Settled(Files)
  /\ dest = "mine" => pc \in {"disown", "cleanup", "done", "dead"}

(* What the owned reference says of the staging directory.                 *)
OwnInv ==
  /\ InRun => outcome = None
  /\ pc \in Reading => owned = None
  /\ pc \in Copying \cup Validating => owned # None
  /\ owned # None /\ outcome # "raised" /\ pc \notin {"disown", "done", "dead"} => staging = "mine"
  /\ owned = None /\ outcome # "raised" /\ pc \notin {"own", "dead"} => staging # "mine"
  /\ pc = "own" => staging = "mine"
  /\ pc = "disown" => staging # "mine" /\ dest = "mine"

(* A published checkpoint is the candidate as it stood at one instant:     *)
(* every file of it, and the metrics in its manifest, are the versions all *)
(* the sources had together when the last validation began, although they  *)
(* were snapshot, parsed, copied and compared one after the other and the  *)
(* validator could write to the copy.  Ok is only said of such a           *)
(* checkpoint, and it stays.                                               *)
PublishedIsTheCandidate ==
  /\ dest = "mine" => published = instant /\ parsed[Report] = instant[Report]
  /\ outcome = "ok" => dest = "mine"

(* A failure that is not an exception removes this call's staging, unless  *)
(* it says that it could not, and never a directory another process made   *)
(* under the same name.                                                    *)
OrdinaryFailuresCleanUp ==
  outcome = "error" =>
    /\ pc = "cleanup" /\ owned # None => staging = "mine"
    /\ pc = "done" /\ cleanupError = None => staging # "mine"

(* The inductive invariant.                                                *)
IInv ==
  /\ TypeOK
  /\ VersionInv
  /\ CopyInv
  /\ ValidInv
  /\ OwnInv
  /\ PublishedIsTheCandidate
  /\ OrdinaryFailuresCleanUp
=============================================================================
