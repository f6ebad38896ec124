--------------------------- MODULE ManagedPython ---------------------------
(***************************************************************************)
(* flow/hardcaml_asic_flow/managed_python.py: acquire brings one pinned    *)
(* interpreter into a root that other processes use as well, inspect asks  *)
(* whether it is there.  Several processes, any of which may be killed; a  *)
(* user who puts something of their own where the generation goes, or      *)
(* rewrites the cached archive.                                            *)
(***************************************************************************)
EXTENDS Naturals, FiniteSets

CONSTANTS None, Procs,
          MaxKills, MaxChanges   \* bounds: processes killed, acts of a user

Modes == {"inspect", "acquire", "offline"}
(* What is not there is no process and no value of anything else.          *)
NoneIsNew ==
  None \notin Procs \cup {"pin", "other", "user", "pending", "written", "ready", "probe", "unready",
                          "busy", "archive", "failed", "killed"}

(* An archive, or what was extracted from it, is the pin's or it is not.   *)
Archives == {"pin", "other"}

VARIABLES
  pc, mode, outcome,  \* per process; the outcome is "ready" or a status
  lock,               \* the process that has .writer.lock
  cache,              \* the cached archive
  partial, stage,     \* per process: what it has under a name of its own
  generation,         \* None, an archive's contents, or "user"
  receipt,            \* None, "pending" or "written"
  probed,             \* the generation answered in its final place
  kills, changes

vars == <<pc, mode, outcome, lock, cache, partial, stage, generation, receipt, probed, kills, changes>>
own == <<partial, stage>>
shared == <<cache, generation, receipt, probed>>
faults == <<kills, changes>>

Init ==
  /\ pc = [p \in Procs |-> "start"] /\ mode \in [Procs -> Modes]
  /\ outcome = [p \in Procs |-> None]
  /\ lock = None /\ cache \in Archives \cup {None}
  /\ partial = [p \in Procs |-> None] /\ stage = [p \in Procs |-> None]
  /\ generation = None /\ receipt = None /\ probed = FALSE
  /\ kills = 0 /\ changes = 0

Go(p, to) == pc' = [pc EXCEPT ![p] = to] /\ UNCHANGED <<outcome, lock>>

(* Every way out closes the lock's descriptor.                             *)
End(p, what) ==
  /\ pc' = [pc EXCEPT ![p] = "over"] /\ outcome' = [outcome EXCEPT ![p] = what]
  /\ lock' = IF lock = p THEN None ELSE lock

At(p, where) == pc[p] = where /\ UNCHANGED <<mode, faults>>

-----------------------------------------------------------------------------
(* The pin the package ships, this platform, and paths without symlinks.   *)
Describe(p) ==
  /\ At(p, "start")
  /\ Go(p, "begin") \/ End(p, "failed")
  /\ UNCHANGED <<own, shared>>

Start(p) ==
  /\ At(p, "begin")
  /\ Go(p, IF mode[p] = "inspect" \/ generation # None THEN "inspect" ELSE "lock")
  /\ UNCHANGED <<own, shared>>

(* inspect: the receipt first, then the interpreter it names; with the     *)
(* writer's lock held or without.                                          *)
Inspect(p) ==
  /\ At(p, "inspect")
  /\ IF receipt = "written" THEN End(p, "ready") \/ End(p, "probe") ELSE End(p, "unready")
  /\ UNCHANGED <<own, shared>>

(* flock, LOCK_NB.                                                         *)
Lock(p) ==
  /\ At(p, "lock")
  /\ IF lock = None
     THEN lock' = p /\ pc' = [pc EXCEPT ![p] = "look"] /\ UNCHANGED outcome
     ELSE End(p, "busy")
  /\ UNCHANGED <<own, shared>>

(* What stood there may have been made while the lock was taken.           *)
Look(p) ==
  /\ At(p, "look")
  /\ CASE generation # None -> Go(p, "inspect")
       [] generation = None /\ cache # None -> Go(p, "verify")
       [] generation = None /\ cache = None /\ mode[p] = "offline" -> End(p, "archive")
       [] OTHER -> Go(p, "download")
  /\ UNCHANGED <<own, shared>>

(* Into a file of its own, verified there; at any time it is too late.     *)
Download(p) ==
  /\ At(p, "download")
  /\ \/ partial' = [partial EXCEPT ![p] = "pin"] /\ Go(p, "link")
     \/ UNCHANGED partial /\ End(p, "archive")
  /\ UNCHANGED <<stage, shared>>

(* os.link does not replace.                                               *)
Link(p) ==
  /\ At(p, "link")
  /\ partial' = [partial EXCEPT ![p] = None]
  /\ IF cache = None THEN cache' = partial[p] /\ Go(p, "verify") ELSE UNCHANGED cache /\ End(p, "failed")
  /\ UNCHANGED <<stage, generation, receipt, probed>>

(* Mutant: a cached archive is taken as it is.                             *)
TrustCache == TRUE

VerifyCache == cache = "pin"

Verify(p) ==
  /\ At(p, "verify")
  /\ IF VerifyCache THEN Go(p, "extract") \/ End(p, "archive") ELSE End(p, "archive")
  /\ UNCHANGED <<own, shared>>

(* _members: names, kinds, links and sizes, all of them before any write;  *)
(* the pin's archive has nothing to refuse.                                *)
Admits(archive) == IF archive = "pin" THEN {TRUE} ELSE BOOLEAN

(* The archive is opened a second time; it may stop anywhere, and the      *)
(* finally clause removes what there is.                                   *)
Extract(p) ==
  /\ At(p, "extract")
  /\ \/ TRUE \in Admits(cache) /\ stage' = [stage EXCEPT ![p] = cache] /\ Go(p, "stageProbe")
     \/ UNCHANGED stage /\ End(p, "archive")
  /\ UNCHANGED <<partial, shared>>

Abandon(p, what) == stage' = [stage EXCEPT ![p] = None] /\ End(p, what)

StageProbe(p) ==
  /\ At(p, "stageProbe")
  /\ \/ UNCHANGED stage /\ Go(p, "absent")
     \/ Abandon(p, "probe")
  /\ UNCHANGED <<partial, shared>>

CheckAbsent(p) ==
  /\ At(p, "absent")
  /\ IF generation = None THEN UNCHANGED stage /\ Go(p, "publish") ELSE Abandon(p, "failed")
  /\ UNCHANGED <<partial, shared>>

(* Mutant: rename(2), which replaces an empty directory.                   *)
Clobber == TRUE

(* renameat2 with RENAME_NOREPLACE.                                        *)
NoReplace == generation = None

PublishGeneration(p) ==
  /\ At(p, "publish")
  /\ IF NoReplace
     THEN generation' = stage[p] /\ stage' = [stage EXCEPT ![p] = None] /\ Go(p, "probe")
     ELSE UNCHANGED generation /\ Abandon(p, "failed")
  /\ UNCHANGED <<partial, cache, receipt, probed>>

FinalProbe(p) ==
  /\ At(p, "probe")
  /\ \/ probed' = TRUE /\ Go(p, "pending")
     \/ UNCHANGED probed /\ End(p, "probe")
  /\ UNCHANGED <<own, cache, generation, receipt>>

WriteReceipt(p) ==
  /\ At(p, "pending")
  /\ \/ receipt' = "pending" /\ Go(p, "receipt")
     \/ UNCHANGED receipt /\ End(p, "failed")
  /\ UNCHANGED <<own, cache, generation, probed>>

RenameReceipt(p) ==
  /\ At(p, "receipt")
  /\ \/ receipt' = "written" /\ End(p, "ready")
     \/ UNCHANGED receipt /\ End(p, "failed")
  /\ UNCHANGED <<own, cache, generation, probed>>

-----------------------------------------------------------------------------
(* The kernel closes a dead process's descriptors; its files stay.         *)
Kill(p) ==
  /\ pc[p] # "over" /\ kills < MaxKills
  /\ kills' = kills + 1
  /\ End(p, "killed")
  /\ stage' \in {stage, [stage EXCEPT ![p] = IF pc[p] = "extract" THEN "other" ELSE @]}
  /\ partial' \in {partial, [partial EXCEPT ![p] = IF pc[p] = "download" THEN "other" ELSE @]}
  /\ UNCHANGED <<mode, shared, changes>>

(* A user, or a process that ignores the lock.                             *)
Disturb ==
  /\ changes < MaxChanges
  /\ changes' = changes + 1
  /\ \/ generation = None /\ generation' = "user" /\ UNCHANGED cache
     \/ cache' \in Archives \ {cache} /\ UNCHANGED generation
  /\ UNCHANGED <<pc, mode, outcome, lock, own, receipt, probed, kills>>

Next ==
  \/ \E p \in Procs :
       \/ Describe(p) \/ Start(p) \/ Inspect(p) \/ Lock(p) \/ Look(p) \/ Download(p) \/ Link(p) \/ Verify(p)
       \/ Extract(p) \/ StageProbe(p) \/ CheckAbsent(p) \/ PublishGeneration(p)
       \/ FinalProbe(p) \/ WriteReceipt(p) \/ RenameReceipt(p) \/ Kill(p)
  \/ Disturb

Spec == Init /\ [][Next]_vars

-----------------------------------------------------------------------------
(* Places at which a process has the lock, and at which it has a directory *)
(* of its own, ready to be published, and a published generation.          *)
Staged == {"stageProbe", "absent", "publish"}
Published == {"probe", "pending", "receipt"}
Locked == {"look", "download", "link", "verify", "extract"} \cup Staged \cup Published
Outcomes == {"ready", "probe", "unready", "busy", "archive", "failed", "killed"}

TypeOK ==
  /\ pc \in [Procs -> {"start", "begin", "inspect", "lock", "over"} \cup Locked]
  /\ mode \in [Procs -> Modes] /\ outcome \in [Procs -> Outcomes \cup {None}]
  /\ lock \in Procs \cup {None} /\ cache \in Archives \cup {None}
  /\ partial \in [Procs -> Archives \cup {None}] /\ stage \in [Procs -> Archives \cup {None}]
  /\ generation \in Archives \cup {None, "user"}
  /\ receipt \in {None, "pending", "written"} /\ probed \in BOOLEAN
  /\ kills \in Nat /\ changes \in Nat

(* From the pinned archive, or the cache was rewritten.                    *)
Pinned(contents) == contents = "pin" \/ (contents = "other" /\ changes > 0)

LockInv == \A p \in Procs : pc[p] \in Locked => lock = p

(* What a process has under names of its own, wherever it is.              *)
OwnInv ==
  \A p \in Procs :
    /\ pc[p] = "extract" => Pinned(cache)
    /\ pc[p] \in Staged => Pinned(stage[p])
    /\ pc[p] \notin Staged /\ outcome[p] # "killed" => stage[p] = None
    /\ pc[p] # "link" /\ outcome[p] # "killed" => partial[p] = None
    /\ pc[p] = "over" <=> outcome[p] # None

(* What the writer that has the lock knows of the generation it published. *)
PublishedInv ==
  /\ \A p \in Procs :
       /\ pc[p] \in Published => Pinned(generation) /\ receipt # "written"
       /\ pc[p] \in {"pending", "receipt"} => probed
       /\ outcome[p] = "ready" => receipt = "written"
  /\ receipt = "written" => probed /\ Pinned(generation)

(* ReadyIsThePin, inductively: why a process may write the receipt.        *)
IInv == TypeOK /\ LockInv /\ OwnInv /\ PublishedInv

(* Whoever is told the interpreter is ready finds a generation that was    *)
(* probed where it stands and extracted from the pinned archive, unless    *)
(* the cache was rewritten behind the verification; a process that was not *)
(* killed leaves nothing private ("the receipt is the publication marker", *)
(* managed_python.py).                                                     *)
ReadyIsThePin ==
  /\ receipt = "written" => probed /\ (generation = "pin" \/ (generation = "other" /\ changes > 0))
  /\ \A p \in Procs :
       /\ outcome[p] = "ready" => receipt = "written"
       /\ outcome[p] \notin {None, "killed"} => stage[p] = None /\ partial[p] = None

(* "Generations are kept and never replaced, including failed ones"        *)
(* (docs/guides/consumer-installation.md): whatever the writers, kills and *)
(* users do, what stands there stays, and a written receipt with it.       *)
KeepsGenerations ==
  /\ generation # None => generation' = generation
  /\ receipt = "written" => receipt' = receipt

GenerationsAreKept == [][KeepsGenerations]_vars
=============================================================================
