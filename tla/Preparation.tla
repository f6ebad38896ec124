----------------------------- MODULE Preparation -----------------------------
(***************************************************************************)
(* execution/preparation/preparation_service.ml: one preparation attempt,  *)
(* which runs the project's own constructor, retains its snapshot and      *)
(* commits a terminal record that later signals can neither veto nor       *)
(* disappear in.                                                           *)
(*                                                                         *)
(* A signal passes three stations: the kernel (pending while blocked), the *)
(* OCaml runtime (recorded, its handler not run yet) and a handler, this   *)
(* operation's or, after it restored them, the caller's.                   *)
(***************************************************************************)
EXTENDS Cancellation, FiniteSets

LibraryPhases == {"construction", "circuit"}   \* two of the library's seven
Phases == LibraryPhases \cup {"constructing_project", "publishing", "finished"}

VARIABLES
  pc,
  rec, disk,  \* operation.json in memory and on disk
  snapshot,   \* resources.json is on disk, complete
  sig,        \* the signal the operation observed
  committing, \* its handler defers from now on
  deferred,
  masked,     \* it has blocked both signals
  callerMask, \* what the caller had blocked before
  pending,    \* blocked in the kernel
  recorded,   \* recorded by the runtime
  delivered,  \* history: reached the caller's handlers
  sends

vars == <<pc, rec, disk, snapshot, sig, committing, deferred, masked, callerMask,
          pending, recorded, delivered, sends>>
signals == <<sig, committing, deferred, masked, callerMask, pending, recorded, delivered, sends>>

(* of_json, applied before every save and to what was read back.           *)
Decodes(r) ==
  /\ r.status # "running" <=> r.ended
  /\ r.status # "running" <=> r.exit # None
  /\ CASE r.status = "running" -> ~r.snapshot /\ r.diagnostic = None /\ r.phase # "finished"
       [] r.status = "completed" ->
            r.exit = 0 /\ r.phase = "finished" /\ r.diagnostic = None /\ r.snapshot
       [] OTHER ->
            /\ ~r.snapshot /\ r.exit # 0 /\ r.diagnostic # None
            /\ r.diagnostic.phase = r.phase
            /\ r.status = "interrupted" <=> r.diagnostic.code = "interrupted"
            /\ r.diagnostic.code = "preparation_rejected" => r.diagnostic.detail
            /\ r.diagnostic.code = "preparation_exception" => ~r.diagnostic.detail
            /\ r.status = "interrupted" <=> r.diagnostic.signal

Running == [status |-> "running", phase |-> "constructing_project", ended |-> FALSE,
            exit |-> None, snapshot |-> FALSE, diagnostic |-> None]

Init ==
  /\ pc = "prepare"
  /\ rec = Running
  /\ disk = Running
  /\ snapshot = FALSE
  /\ sig = None
  /\ committing = FALSE
  /\ deferred = {}
  /\ masked = FALSE
  /\ callerMask \in SUBSET Signals
  /\ pending = {}
  /\ recorded = {}
  /\ delivered = {}
  /\ sends = {}

-----------------------------------------------------------------------------
(* Signals.                                                                *)

OurHandlers == pc \notin {"restored", "requeued", "ended"}

Blocked(n) == masked \/ n \in callerMask

Send ==
  /\ pc # "ended"
  /\ Cardinality(sends) < MaxSignals
  /\ \E n \in Signals \ sends :
       /\ sends' = sends \cup {n}
       /\ IF Blocked(n) THEN pending' = pending \cup {n} /\ UNCHANGED recorded
                        ELSE recorded' = recorded \cup {n} /\ UNCHANGED pending
  /\ UNCHANGED <<pc, rec, disk, snapshot, sig, committing, deferred, masked, callerMask, delivered>>

(* The runtime runs the handler now in place.                              *)
Dispatch ==
  /\ \E n \in recorded :
       /\ recorded' = recorded \ {n}
       /\ IF ~OurHandlers THEN delivered' = delivered \cup {n} /\ UNCHANGED <<sig, deferred>>
          ELSE IF committing THEN deferred' = deferred \cup {n} /\ UNCHANGED <<sig, delivered>>
          ELSE sig' = First(sig, n) /\ UNCHANGED <<deferred, delivered>>
  /\ UNCHANGED <<pc, rec, disk, snapshot, committing, masked, callerMask, pending, sends>>

-----------------------------------------------------------------------------
(* Up to the cutoff.                                                       *)

Step(from, to) == pc = from /\ pc' = to /\ UNCHANGED signals

(* save: a record its own reader refuses is never written.                 *)
Saves(r) == Decodes(r) /\ disk' = r

(* Mutant: a failure keeps what was already set.                           *)
KeepSnapshot(r) == r.snapshot

NoSnapshot(r) == FALSE

(* `failure': an observed signal explains any exception.                   *)
Failure(r, phase, code, detail, cancelled) ==
  LET interrupted == cancelled \/ sig # None
  IN  [r EXCEPT !.status = IF interrupted THEN "interrupted" ELSE "failed",
                !.phase = phase,
                !.exit = IF interrupted THEN 130 ELSE 1,
                !.snapshot = NoSnapshot(r),
                !.diagnostic = [phase |-> phase, detail |-> detail, signal |-> interrupted,
                                code |-> IF interrupted THEN "interrupted" ELSE code]]

(* The constructor reports a phase; it may also survive the exception that *)
(* stops a cancelled report.                                               *)
OnPhase ==
  /\ Step("prepare", "prepare")
  /\ sig = None
  /\ \E p \in LibraryPhases : rec' = [rec EXCEPT !.phase = p]
  /\ Saves(rec') \/ UNCHANGED disk
  /\ UNCHANGED snapshot

Prepared ==
  /\ Step("prepare", "publish")
  /\ sig = None
  /\ UNCHANGED <<rec, disk, snapshot>>

(* A valid structured failure of the library names its own phase.          *)
Rejected ==
  /\ Step("prepare", "cutoff")
  /\ \E p \in LibraryPhases : rec' = Failure(rec, p, "preparation_rejected", TRUE, FALSE)
  /\ UNCHANGED <<disk, snapshot>>

(* Any other exception, also of a malformed failure or a save.             *)
Threw ==
  /\ pc \in {"prepare", "publish", "retain", "finish"} /\ Step(pc, "cutoff")
  /\ \E p \in {rec.phase} \cup (IF pc = "publish" THEN {"publishing"} ELSE {}) :
       rec' = Failure(rec, p, "preparation_exception", FALSE, FALSE)
  /\ UNCHANGED <<disk, snapshot>>

EnterPublishing ==
  /\ Step("publish", "retain")
  /\ sig = None
  /\ rec' = [rec EXCEPT !.phase = "publishing"]
  /\ Saves(rec')
  /\ UNCHANGED snapshot

(* resources.json is written and read back.                                *)
RetainSnapshot ==
  /\ Step("retain", "finish")
  /\ sig = None
  /\ snapshot' = TRUE
  /\ UNCHANGED <<rec, disk>>

Finish ==
  /\ Step("finish", "cutoff")
  /\ sig = None
  /\ rec' = [rec EXCEPT !.snapshot = TRUE, !.status = "completed", !.phase = "finished", !.exit = 0]
  /\ UNCHANGED <<disk, snapshot>>

-----------------------------------------------------------------------------
(* The commit, and the way out.                                            *)

Block ==
  /\ pc = "cutoff"
  /\ pc' = "look"
  /\ masked' = TRUE
  /\ UNCHANGED <<rec, disk, snapshot, sig, committing, deferred, callerMask, pending, recorded,
                 delivered, sends>>

(* The final look and the switch of the handler: no handler runs between.  *)
FinalLook ==
  /\ pc = "look"
  /\ pc' = "commit"
  /\ committing' = TRUE
  /\ LET r == IF sig # None THEN Failure(rec, rec.phase, "interrupted", FALSE, TRUE) ELSE rec
     IN  rec' = [r EXCEPT !.ended = TRUE]
  /\ UNCHANGED <<disk, snapshot, sig, deferred, masked, callerMask, pending, recorded, delivered, sends>>

Commit ==
  /\ Step("commit", "readback")
  /\ Saves(rec)
  /\ UNCHANGED <<rec, snapshot>>

(* The terminal save or its readback raises.                               *)
CommitRaises ==
  /\ pc \in {"commit", "readback"} /\ Step(pc, "raised")
  /\ UNCHANGED <<rec, disk, snapshot>>

ReadBack ==
  /\ Step("readback", "returned")
  /\ disk = rec
  /\ UNCHANGED <<rec, disk, snapshot>>

RestoreHandlers ==
  /\ pc \in {"returned", "raised"} /\ Step(pc, "restored")
  /\ UNCHANGED <<rec, disk, snapshot>>

(* Mutant: deferred signals are dropped with the handler.                  *)
Dropped == {}

Requeued == deferred

Requeue ==
  /\ pc = "restored"
  /\ pc' = "requeued"
  /\ pending' = pending \cup Requeued
  /\ UNCHANGED <<rec, disk, snapshot, sig, committing, deferred, masked, callerMask, recorded,
                 delivered, sends>>

Unmask ==
  /\ pc = "requeued"
  /\ pc' = "ended"
  /\ masked' = FALSE
  /\ pending' = pending \cap callerMask
  /\ recorded' = recorded \cup (pending \ callerMask)
  /\ UNCHANGED <<rec, disk, snapshot, sig, committing, deferred, callerMask, delivered, sends>>

Next ==
  \/ Send \/ Dispatch
  \/ OnPhase \/ Prepared \/ Rejected \/ Threw \/ EnterPublishing \/ RetainSnapshot \/ Finish
  \/ Block \/ FinalLook \/ Commit \/ CommitRaises \/ ReadBack
  \/ RestoreHandlers \/ Requeue \/ Unmask

Spec == Init /\ [][Next]_vars

-----------------------------------------------------------------------------
Diagnostics == [phase : Phases, detail : BOOLEAN, signal : BOOLEAN,
                code : {"preparation_rejected", "preparation_exception", "interrupted"}]
Records == [status : {"running", "completed", "failed", "interrupted"}, phase : Phases,
            ended : BOOLEAN, exit : {None, 0, 1, 130}, snapshot : BOOLEAN,
            diagnostic : Diagnostics \cup {None}]

TypeOK ==
  /\ {rec, disk} \subseteq Records
  /\ snapshot \in BOOLEAN /\ committing \in BOOLEAN /\ masked \in BOOLEAN
  /\ sig \in Signals \cup {None}
  /\ deferred \cup pending \cup recorded \cup delivered \cup callerMask \cup sends \subseteq Signals

(* The strict record reader never refuses what this service is about to    *)
(* write, whatever failed or was interrupted before, so a refusal cannot   *)
(* cost an attempt its terminal record; and a record that says completed   *)
(* has its snapshot beside it.                                             *)
HonestRecordsDecode ==
  /\ TypeOK
  /\ pc = "commit" => Decodes(rec)
  /\ disk.status = "completed" => snapshot /\ disk = rec

(* No signal is silently consumed: each one sent while the operation ran   *)
(* either made it an interrupted operation, or reached the caller's        *)
(* handlers or waits for them, however the commit ended.                   *)
SignalsAccountedFor ==
  pc = "ended" =>
    \A n \in sends : \/ rec.status = "interrupted"
                     \/ n \in delivered \cup recorded
                     \/ n \in pending \cap callerMask
=============================================================================
