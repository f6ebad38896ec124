------------------------- MODULE ProviderCheckpoint -------------------------
(***************************************************************************)
(* flow/hardcaml_asic_flow/checkpoint.py: publish copies a candidate into  *)
(* a private directory, inventories it, validates it, asks the runtime     *)
(* about dependencies only the image has, and renames it into place;       *)
(* validate is the reader every consumer of a checkpoint goes through.     *)
(*                                                                         *)
(* The candidate is mutable work: versions tell its states apart.  A       *)
(* signal raises FlowInterrupted wherever the publisher is.                *)
(***************************************************************************)
EXTENDS Cancellation, Sequences

CONSTANT MaxChanges  \* bound: changes of the candidate by others

(* What is copied, in order; the other metadata behaves as the closure.    *)
Parts == {"view", "state", "closure", "segment"}
Order == <<"view", "state", "closure", "segment">>
Nothing == [p \in Parts |-> 0]

(* What a directory holds; None, no directory and no manifest, is neither. *)
Versions == [Parts -> Nat]
Manifests == [inventory : Versions, location : {"final"}, external : Nat, metrics : Nat]
Directories == [files : Versions, manifest : Manifests \cup {None}, mode : {"private", "sealed"}]
NoneIsNew == None \notin Directories \cup Manifests \cup {"published", "raised"}

VARIABLES
  pc,
  copied,      \* how many of Order are in the private directory
  candidate,   \* version of each part of the candidate
  report,      \* version of segment.json the metrics were read from
  parsed,      \* version of state.json the views were read from
  staging, final,   \* None, or a directory [files, manifest, mode]
  imageOnly,   \* the closure names files only the image has
  validator,   \* the caller gave a runtime validator
  cleared,     \* files the last validation and the runtime looked at
  host,        \* the host's dependencies are as the closure declares them
  promoted,
  sent, changes, outcome

vars == <<pc, copied, candidate, report, parsed, staging, final, imageOnly,
          validator, cleared, host, promoted, sent, changes, outcome>>
given == <<imageOnly, validator>>
read == <<report, parsed>>
world == <<candidate, host, changes>>
done == <<sent, outcome>>

Init ==
  /\ pc = "report"
  /\ copied = 0
  /\ candidate = [p \in Parts |-> 1] /\ report = 0 /\ parsed = 0
  /\ staging = None /\ final = None
  /\ imageOnly \in BOOLEAN /\ validator \in BOOLEAN
  /\ cleared = [files |-> Nothing, image |-> FALSE]
  /\ host = TRUE /\ promoted = FALSE
  /\ sent = 0 /\ changes = 0 /\ outcome = None

Fail == pc' = "clean"
Go(to) == pc' = to
Raise == pc' = "over" /\ outcome' = "raised"

-----------------------------------------------------------------------------
(* The reader.  A manifest names its own final location, so it is not      *)
(* valid where it is being prepared unless the publisher says so.          *)
Inventoried(directory) ==
  directory.manifest # None /\ directory.files = directory.manifest.inventory

Validates(directory, location) ==
  /\ directory # None
  /\ Inventoried(directory)
  /\ directory.manifest.location = location
  /\ directory.manifest.external = directory.files["closure"]

-----------------------------------------------------------------------------
(* publish: the report must be a completed one of the boundary.            *)
ReadReport ==
  /\ pc = "report"
  /\ \/ report' = candidate["segment"] /\ Go("make") /\ UNCHANGED outcome
     \/ Raise /\ UNCHANGED report
  /\ UNCHANGED <<copied, parsed, staging, final, given, cleared, promoted, world, sent>>

(* mkdtemp, before the try statement.                                      *)
MakePrivate ==
  /\ pc = "make"
  /\ \/ staging' = [files |-> Nothing, manifest |-> None, mode |-> "private"] /\ Go("parse") /\ UNCHANGED outcome
     \/ Raise /\ UNCHANGED staging
  /\ UNCHANGED <<copied, read, final, given, cleared, promoted, world, sent>>

ReadState ==
  /\ pc = "parse"
  /\ \/ parsed' = candidate["state"] /\ Go("copy")
     \/ Fail /\ UNCHANGED parsed
  /\ UNCHANGED <<copied, report, staging, final, given, cleared, promoted, world, done>>

(* The state is written from what was parsed, the rest copied.             *)
Copy ==
  /\ pc = "copy" /\ copied < Len(Order)
  /\ LET p == Order[copied + 1]
     IN  staging' = [staging EXCEPT !.files[p] = IF p = "state" THEN parsed ELSE candidate[p]]
  /\ Go("compare") \/ Fail
  /\ UNCHANGED <<copied, read, final, given, cleared, promoted, world, done>>

(* Each copy is compared with its source once more.                        *)
Compare ==
  /\ pc = "compare"
  /\ LET p == Order[copied + 1]
     IN  IF p # "state" /\ staging.files[p] # candidate[p]
         THEN Fail /\ UNCHANGED copied
         ELSE Go("copy") /\ copied' = copied + 1
  /\ UNCHANGED <<read, staging, final, given, cleared, promoted, world, done>>

WriteManifest ==
  /\ pc = "copy" /\ copied = Len(Order)
  /\ \/ /\ staging' = [staging EXCEPT !.manifest =
              [inventory |-> staging.files, location |-> "final",
               external |-> staging.files["closure"], metrics |-> report]]
        /\ Go("validate")
     \/ Fail /\ UNCHANGED staging
  /\ UNCHANGED <<copied, read, final, given, cleared, promoted, world, done>>

(* validate(tmp, _location=final): host dependencies included.             *)
Validate ==
  /\ pc \in {"validate", "revalidate"}
  /\ IF Validates(staging, "final") /\ host
     THEN /\ cleared' = [cleared EXCEPT !.files = staging.files]
          /\ Go(IF pc = "validate" /\ imageOnly THEN "runtime" ELSE "seal")
     ELSE Fail /\ UNCHANGED cleared
  /\ UNCHANGED <<copied, read, staging, final, given, promoted, world, done>>

(* Mutant: the second validation is left out.                              *)
TrustRuntime ==
  /\ pc = "runtime" /\ validator
  /\ cleared' = [cleared EXCEPT !.image = TRUE]
  /\ staging' \in {staging, [staging EXCEPT !.files["state"] = 0]}
  /\ Go("seal")
  /\ UNCHANGED <<copied, read, final, given, promoted, world, done>>

(* The runtime looks at the private directory, which is mounted where it   *)
(* runs: it might write there.                                             *)
AskRuntime ==
  /\ pc = "runtime"
  /\ \/ validator /\ cleared' = [cleared EXCEPT !.image = TRUE] /\ Go("revalidate")
     \/ Fail /\ UNCHANGED cleared
  /\ staging' \in IF validator THEN {staging, [staging EXCEPT !.files["state"] = 0]} ELSE {staging}
  /\ UNCHANGED <<copied, read, final, given, promoted, world, done>>

(* chmod, then the check that nothing has the final name.                  *)
Seal ==
  /\ pc = "seal"
  /\ staging' = [staging EXCEPT !.mode = "sealed"]
  /\ Go("rename") \/ Fail
  /\ UNCHANGED <<copied, read, final, given, cleared, promoted, world, done>>

Rename ==
  /\ pc = "rename"
  /\ \/ final' = staging /\ staging' = None /\ Go("flag")
     \/ Fail /\ UNCHANGED <<staging, final>>
  /\ UNCHANGED <<copied, read, given, cleared, promoted, world, done>>

(* Renamed, and only then `promoted = True'.                               *)
Flag ==
  /\ pc = "flag"
  /\ promoted' = TRUE
  /\ Go("return")
  /\ UNCHANGED <<copied, read, staging, final, given, cleared, world, done>>

Return ==
  /\ pc = "return"
  /\ pc' = "over" /\ outcome' = "published"
  /\ UNCHANGED <<copied, read, staging, final, given, cleared, promoted, world, sent>>

(* Mutant: only the private name is removed.                               *)
CleanPrivate ==
  /\ pc = "clean"
  /\ staging' = None /\ Raise
  /\ UNCHANGED <<copied, read, final, given, cleared, promoted, world, sent>>

(* except BaseException: the final name too, once it was promoted.         *)
Clean ==
  /\ pc = "clean"
  /\ \/ /\ staging' = None
        /\ final' = IF promoted THEN None ELSE final
        /\ Raise
     \/ pc' = "over" /\ outcome' = "cut" /\ UNCHANGED <<staging, final>>
  /\ UNCHANGED <<copied, read, given, cleared, promoted, world, sent>>

-----------------------------------------------------------------------------
(* A signal.  Before the try statement nothing cleans up ...               *)
InterruptEarly ==
  /\ pc \in {"report", "make"} /\ sent < MaxSignals
  /\ staging' \in IF pc = "make"
       THEN {None, [files |-> Nothing, manifest |-> None, mode |-> "private"]} ELSE {None}
  /\ pc' = "over" /\ outcome' = IF staging' = None THEN "raised" ELSE "cut"
  /\ sent' = sent + 1
  /\ UNCHANGED <<copied, read, final, given, cleared, promoted, world>>

Interrupt ==
  /\ pc \notin {"report", "make", "clean", "over"} /\ sent < MaxSignals
  /\ Fail
  /\ sent' = sent + 1
  /\ UNCHANGED <<copied, read, staging, final, given, cleared, promoted, world, outcome>>

(* ... and one in the clean-up leaves what was not removed yet.            *)
InterruptClean ==
  /\ pc = "clean" /\ sent < MaxSignals
  /\ staging' \in {None, staging}
  /\ final' \in IF promoted /\ final # None
       THEN {None, final, [final EXCEPT !.files["view"] = 0, !.mode = "private"]} ELSE {final}
  /\ pc' = "over" /\ outcome' = "cut"
  /\ sent' = sent + 1
  /\ UNCHANGED <<copied, read, given, cleared, promoted, world>>

(* Somebody writes to the candidate, or to a dependency on the host.       *)
Disturb ==
  /\ pc # "over" /\ changes < MaxChanges
  /\ changes' = changes + 1
  /\ \/ \E p \in Parts : candidate' = [candidate EXCEPT ![p] = @ + 1] /\ UNCHANGED host
     \/ host' = FALSE /\ UNCHANGED candidate
  /\ UNCHANGED <<pc, copied, read, staging, final, given, cleared, promoted, done>>

Next ==
  \/ ReadReport \/ MakePrivate \/ ReadState \/ Copy \/ Compare \/ WriteManifest
  \/ Validate \/ AskRuntime \/ Seal \/ Rename \/ Flag \/ Return \/ Clean
  \/ InterruptEarly \/ Interrupt \/ InterruptClean \/ Disturb

Spec == Init /\ [][Next]_vars

-----------------------------------------------------------------------------
(* A checkpoint that a reader would accept, under whatever name, is one    *)
(* the publisher finished: sealed, and cleared as it stands by the last    *)
(* validation and, where its closure needs the image, by the runtime       *)
(* ("no partial ready directory", publish); a published one is accepted.   *)
ReadyIsCleared ==
  /\ ~Validates(staging, "staging")
  /\ Validates(final, "final") =>
       /\ final.mode = "sealed"
       /\ cleared.files = final.files
       /\ imageOnly => validator /\ cleared.image
  /\ outcome = "published" => Validates(final, "final")

(* A publication that raised leaves nothing, unless its clean-up was cut   *)
(* short or the signal came between the rename and its flag, when a whole  *)
(* checkpoint stands that nobody was told of (publish's except clause).    *)
FailureLeavesNothing ==
  outcome = "raised" =>
    /\ staging = None
    /\ final # None => sent > 0 /\ ~promoted /\ Validates(final, "final")
=============================================================================
