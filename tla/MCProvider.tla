----------------------------- MODULE MCProvider -----------------------------
(***************************************************************************)
(* Model-checking instance of the Python provider: each of its modules, on *)
(* its own.  `part' says which; what another module has stays None.  What  *)
(* is checked here is said in, and of, the module of each part.            *)
(***************************************************************************)
EXTENDS Cancellation

CONSTANTS
  MaxVersions, Segments, Stages, MaxSegments, MaxMarkers, Procs, MaxKills,
  MaxCorner, MaxFaults, MaxPostchecks,
  MaxChanges,   \* others' writes
  MaxWrites,    \* and to what a segment, an archive or a layout check reads
  MaxInterrupts \* signals to what has handlers and cleanup of its own

VARIABLES
  part, pc, code, failed, container, sent, result, rec, disk, report,
  cause, escaping, parsed, staged, outcome, probe, told, ran, candidate,
  staging, imageOnly, host, changes, store, stage, lock, execution, ended,
  seen, at, mode, selected, contained, timed, client, descendant, known,
  cleanups, cleanupError, stuck, late, checked, bundle, hashed, examined,
  tool, origin, accept, copied, final, validator, cleared, promoted,
  segment, call, bridge, intact, inputs, dependencies, reply, checkpoint,
  touched, scope, event, next, seq, state, journal, falls, broken, rpc,
  active, recipe, historical, refused, args, occ, codes, best, stopped,
  run, verdict, child, payload, heard, forwarding, early, raised, exit, policy,
  waive, tag, engine, contents, issue, identity, flags, answer, binding,
  launches, disturbed, raw, stock, metric, fresh, observed, cache, partial,
  generation, receipt, probed, kills, original, layout, checks, output,
  backup, source, verified, older, kept, added, drifted, route, netlist,
  chain, equal, futures, worker, copies, process, audits, progress, op,
  wrong, gds, input, models, digest, snapshot, written, answers, evidence,
  status, requested, completed, file, field, slack, postchecks, results,
  said

Command == INSTANCE ProviderCommand WITH MaxSignals <- MaxInterrupts
Run == INSTANCE ProviderRun WITH MaxSignals <- MaxInterrupts
Postcheck == INSTANCE ProviderPostcheck WITH MaxSignals <- MaxInterrupts
Finalization == INSTANCE ProviderFinalization WITH MaxSignals <- MaxInterrupts
Checkpoint == INSTANCE ProviderCheckpoint WITH MaxSignals <- MaxInterrupts
Segment == INSTANCE ProviderSegment WITH MaxChanges <- MaxWrites
Watched == INSTANCE ProviderObservation
Plan == INSTANCE ProviderPlan
Execute == INSTANCE ProviderExecute WITH MaxSignals <- MaxInterrupts
Runtime == INSTANCE ProviderRuntime
Magic == INSTANCE ProviderMagic
Python == INSTANCE ManagedPython
Archive == INSTANCE ProviderArchive WITH MaxChanges <- MaxWrites
Timing == INSTANCE ProviderTiming
Physical == INSTANCE ProviderPhysical WITH MaxChanges <- MaxWrites
Collection == INSTANCE ProviderCollection

(* What the proofs assume of None in each part: that it is nothing else.   *)
ASSUME NoneIsNoProcess == Python!NoneIsNew
ASSUME NoneIsNoDirectory == Checkpoint!NoneIsNew
ASSUME NoneIsNoHolding == Archive!NoneIsNew
ASSUME NoneIsNoContent == Runtime!NoneIsNew
ASSUME NoneIsNoCandidate == Segment!NoneIsNew
ASSUME NoneIsNoRecord == Postcheck!NoneIsNew
ASSUME NoneIsNoReceipt == Finalization!NoneIsNew
ASSUME NoneIsNoStage == Plan!NoneIsNew
ASSUME NoneIsNoOutcome == Execute!NoneIsNew
ASSUME NoneIsNoCorner == Timing!NoneIsNew
ASSUME NoneIsNoLook == Physical!NoneIsNew
ASSUME NoneIsNoNumber == Collection!NoneIsNew
ASSUME NoneIsNoDecision == Magic!NoneIsNew
ASSUME NoneIsNoPhase == Watched!NoneIsNew

(* There is a corner, and a plan may have no stage.                        *)
ASSUME CornersAreCounted == MaxCorner \in Nat \ {0}
ASSUME StagesAreCounted == Stages \in Nat

(* The variables that one part alone has.                                 *)
commandVars == <<contained, timed, client, descendant, known, cleanups,
                cleanupError, stuck, late>>
runVars == <<checked, bundle, hashed, examined, tool>>
postcheckVars == <<origin>>
finalizationVars == <<accept>>
checkpointVars == <<copied, final, validator, cleared, promoted>>
segmentVars == <<segment, call, bridge, intact, inputs, dependencies,
                reply, checkpoint, touched>>
observationVars == <<scope, event, next, seq, state, journal, falls,
                    broken, rpc, active>>
planVars == <<recipe, historical, refused>>
executeVars == <<args, occ, codes, best, stopped, run, verdict, child,
                payload, heard, forwarding, early, raised, exit>>
runtimeVars == <<policy, waive, tag, engine, contents, issue, identity,
                flags, answer, binding, launches, disturbed>>
magicVars == <<raw, stock, metric, fresh, observed>>
pythonVars == <<cache, partial, generation, receipt, probed, kills>>
archiveVars == <<original, layout, checks, output, backup, source,
                verified, older, kept, added, drifted>>
timingVars == <<route, netlist, chain, equal, futures, worker, copies,
               process, audits, progress>>
physicalVars == <<op, wrong, gds, input, models, digest, snapshot, written,
                 answers, evidence>>
collectionVars == <<status, requested, completed, file, field, slack,
                   postchecks, results, said>>

vars == <<part, pc, code, failed, container, sent, result, rec, disk,
          report, cause, escaping, parsed, staged, outcome, probe, told,
          ran, candidate, staging, imageOnly, host, changes, store, stage,
          lock, execution, ended, seen, at, mode, selected, commandVars,
          runVars, postcheckVars, finalizationVars, checkpointVars,
          segmentVars, observationVars, planVars, executeVars, runtimeVars,
          magicVars, pythonVars, archiveVars, timingVars, physicalVars,
          collectionVars>>

NoCommand ==
  /\ contained = None /\ timed = None /\ client = None /\ descendant = None
  /\ known = None /\ cleanups = None /\ cleanupError = None /\ stuck = None
  /\ late = None

NoRun ==
  /\ checked = None /\ bundle = None /\ hashed = None /\ examined = None
  /\ tool = None

NoPostcheck ==
  /\ origin = None

NoFinalization ==
  /\ accept = None

NoCheckpoint ==
  /\ copied = None /\ final = None /\ validator = None /\ cleared = None
  /\ promoted = None

NoSegment ==
  /\ segment = None /\ call = None /\ bridge = None /\ intact = None
  /\ inputs = None /\ dependencies = None /\ reply = None
  /\ checkpoint = None /\ touched = None

NoWatched ==
  /\ scope = None /\ event = None /\ next = None /\ seq = None
  /\ state = None /\ journal = None /\ falls = None /\ broken = None
  /\ rpc = None /\ active = None

NoPlan ==
  /\ recipe = None /\ historical = None /\ refused = None

NoExecute ==
  /\ args = None /\ occ = None /\ codes = None /\ best = None
  /\ stopped = None /\ run = None /\ verdict = None /\ child = None
  /\ payload = None /\ heard = None /\ forwarding = None /\ early = None
  /\ raised = None /\ exit = None

NoRuntime ==
  /\ policy = None /\ waive = None /\ tag = None /\ engine = None
  /\ contents = None /\ issue = None /\ identity = None /\ flags = None
  /\ answer = None /\ binding = None /\ launches = None /\ disturbed = None

NoMagic ==
  /\ raw = None /\ stock = None /\ metric = None /\ fresh = None
  /\ observed = None

NoPython ==
  /\ cache = None /\ partial = None /\ generation = None /\ receipt = None
  /\ probed = None /\ kills = None

NoArchive ==
  /\ original = None /\ layout = None /\ checks = None /\ output = None
  /\ backup = None /\ source = None /\ verified = None /\ older = None
  /\ kept = None /\ added = None /\ drifted = None

NoTiming ==
  /\ route = None /\ netlist = None /\ chain = None /\ equal = None
  /\ futures = None /\ worker = None /\ copies = None /\ process = None
  /\ audits = None /\ progress = None

NoPhysical ==
  /\ op = None /\ wrong = None /\ gds = None /\ input = None
  /\ models = None /\ digest = None /\ snapshot = None /\ written = None
  /\ answers = None /\ evidence = None

NoCollection ==
  /\ status = None /\ requested = None /\ completed = None /\ file = None
  /\ field = None /\ slack = None /\ postchecks = None /\ results = None
  /\ said = None

Init ==
  \/ /\ part = "command" /\ Command!Init
     /\ NoRun /\ NoPostcheck /\ NoFinalization /\ NoCheckpoint /\ NoSegment
     /\ NoWatched /\ NoPlan /\ NoExecute /\ NoRuntime /\ NoMagic
     /\ NoPython /\ NoArchive /\ NoTiming /\ NoPhysical /\ NoCollection
     /\ rec = None /\ disk = None /\ report = None /\ cause = None
     /\ escaping = None /\ parsed = None /\ staged = None /\ outcome = None
     /\ probe = None /\ told = None /\ ran = None /\ candidate = None
     /\ staging = None /\ imageOnly = None /\ host = None /\ changes = None
     /\ store = None /\ stage = None /\ lock = None /\ execution = None
     /\ ended = None /\ seen = None /\ at = None /\ mode = None
     /\ selected = None
  \/ /\ part = "run" /\ Run!Init
     /\ NoCommand /\ NoPostcheck /\ NoFinalization /\ NoCheckpoint
     /\ NoSegment /\ NoWatched /\ NoPlan /\ NoExecute /\ NoRuntime
     /\ NoMagic /\ NoPython /\ NoArchive /\ NoTiming /\ NoPhysical
     /\ NoCollection /\ code = None /\ failed = None /\ container = None
     /\ result = None /\ probe = None /\ told = None /\ ran = None
     /\ candidate = None /\ staging = None /\ imageOnly = None
     /\ host = None /\ changes = None /\ store = None /\ stage = None
     /\ lock = None /\ execution = None /\ ended = None /\ seen = None
     /\ at = None /\ mode = None /\ selected = None
  \/ /\ part = "postcheck" /\ Postcheck!Init
     /\ NoCommand /\ NoRun /\ NoFinalization /\ NoCheckpoint /\ NoSegment
     /\ NoWatched /\ NoPlan /\ NoExecute /\ NoRuntime /\ NoMagic
     /\ NoPython /\ NoArchive /\ NoTiming /\ NoPhysical /\ NoCollection
     /\ code = None /\ failed = None /\ result = None /\ report = None
     /\ parsed = None /\ staged = None /\ candidate = None
     /\ staging = None /\ imageOnly = None /\ host = None /\ changes = None
     /\ store = None /\ stage = None /\ lock = None /\ execution = None
     /\ ended = None /\ seen = None /\ at = None /\ mode = None
     /\ selected = None
  \/ /\ part = "finalization" /\ Finalization!Init
     /\ NoCommand /\ NoRun /\ NoPostcheck /\ NoCheckpoint /\ NoSegment
     /\ NoWatched /\ NoPlan /\ NoExecute /\ NoRuntime /\ NoMagic
     /\ NoPython /\ NoArchive /\ NoTiming /\ NoPhysical /\ NoCollection
     /\ code = None /\ failed = None /\ container = None /\ result = None
     /\ report = None /\ escaping = None /\ parsed = None /\ staged = None
     /\ probe = None /\ told = None /\ ran = None /\ candidate = None
     /\ staging = None /\ imageOnly = None /\ host = None /\ changes = None
     /\ store = None /\ stage = None /\ lock = None /\ execution = None
     /\ ended = None /\ seen = None /\ at = None /\ mode = None
     /\ selected = None
  \/ /\ part = "checkpoint" /\ Checkpoint!Init
     /\ NoCommand /\ NoRun /\ NoPostcheck /\ NoFinalization /\ NoSegment
     /\ NoWatched /\ NoPlan /\ NoExecute /\ NoRuntime /\ NoMagic
     /\ NoPython /\ NoArchive /\ NoTiming /\ NoPhysical /\ NoCollection
     /\ code = None /\ failed = None /\ container = None /\ result = None
     /\ rec = None /\ disk = None /\ cause = None /\ escaping = None
     /\ staged = None /\ probe = None /\ told = None /\ ran = None
     /\ store = None /\ stage = None /\ lock = None /\ execution = None
     /\ ended = None /\ seen = None /\ at = None /\ mode = None
     /\ selected = None
  \/ /\ part = "segment" /\ Segment!Init
     /\ NoCommand /\ NoRun /\ NoPostcheck /\ NoFinalization /\ NoCheckpoint
     /\ NoWatched /\ NoPlan /\ NoExecute /\ NoRuntime /\ NoMagic
     /\ NoPython /\ NoArchive /\ NoTiming /\ NoPhysical /\ NoCollection
     /\ code = None /\ failed = None /\ container = None /\ result = None
     /\ rec = None /\ disk = None /\ report = None /\ cause = None
     /\ escaping = None /\ parsed = None /\ staged = None /\ probe = None
     /\ told = None /\ ran = None /\ host = None /\ stage = None
     /\ lock = None /\ execution = None /\ ended = None /\ seen = None
     /\ at = None /\ mode = None /\ selected = None
  \/ /\ part = "observation" /\ Watched!Init
     /\ NoCommand /\ NoRun /\ NoPostcheck /\ NoFinalization /\ NoCheckpoint
     /\ NoSegment /\ NoPlan /\ NoExecute /\ NoRuntime /\ NoMagic
     /\ NoPython /\ NoArchive /\ NoTiming /\ NoPhysical /\ NoCollection
     /\ code = None /\ failed = None /\ container = None /\ result = None
     /\ rec = None /\ disk = None /\ report = None /\ cause = None
     /\ escaping = None /\ parsed = None /\ staged = None /\ outcome = None
     /\ probe = None /\ ran = None /\ candidate = None /\ staging = None
     /\ imageOnly = None /\ host = None /\ changes = None /\ at = None
     /\ mode = None /\ selected = None
  \/ /\ part = "plan" /\ Plan!Init
     /\ NoCommand /\ NoRun /\ NoPostcheck /\ NoFinalization /\ NoCheckpoint
     /\ NoSegment /\ NoWatched /\ NoExecute /\ NoRuntime /\ NoMagic
     /\ NoPython /\ NoArchive /\ NoTiming /\ NoPhysical /\ NoCollection
     /\ code = None /\ failed = None /\ container = None /\ sent = None
     /\ result = None /\ rec = None /\ disk = None /\ report = None
     /\ cause = None /\ escaping = None /\ parsed = None /\ staged = None
     /\ outcome = None /\ probe = None /\ told = None /\ candidate = None
     /\ staging = None /\ imageOnly = None /\ host = None /\ changes = None
     /\ store = None /\ stage = None /\ lock = None /\ execution = None
     /\ ended = None /\ seen = None /\ mode = None /\ selected = None
  \/ /\ part = "execute" /\ Execute!Init
     /\ NoCommand /\ NoRun /\ NoPostcheck /\ NoFinalization /\ NoCheckpoint
     /\ NoSegment /\ NoWatched /\ NoPlan /\ NoRuntime /\ NoMagic
     /\ NoPython /\ NoArchive /\ NoTiming /\ NoPhysical /\ NoCollection
     /\ failed = None /\ container = None /\ result = None /\ rec = None
     /\ disk = None /\ report = None /\ cause = None /\ escaping = None
     /\ parsed = None /\ staged = None /\ outcome = None /\ probe = None
     /\ told = None /\ ran = None /\ candidate = None /\ staging = None
     /\ imageOnly = None /\ host = None /\ changes = None /\ store = None
     /\ stage = None /\ lock = None /\ ended = None /\ seen = None
     /\ mode = None /\ selected = None
  \/ /\ part = "runtime" /\ Runtime!Init
     /\ NoCommand /\ NoRun /\ NoPostcheck /\ NoFinalization /\ NoCheckpoint
     /\ NoSegment /\ NoWatched /\ NoPlan /\ NoExecute /\ NoMagic
     /\ NoPython /\ NoArchive /\ NoTiming /\ NoPhysical /\ NoCollection
     /\ code = None /\ failed = None /\ result = None /\ rec = None
     /\ disk = None /\ report = None /\ cause = None /\ escaping = None
     /\ parsed = None /\ staged = None /\ told = None /\ ran = None
     /\ candidate = None /\ staging = None /\ imageOnly = None
     /\ store = None /\ stage = None /\ lock = None /\ execution = None
     /\ ended = None /\ seen = None /\ at = None /\ selected = None
  \/ /\ part = "magic" /\ Magic!Init
     /\ NoCommand /\ NoRun /\ NoPostcheck /\ NoFinalization /\ NoCheckpoint
     /\ NoSegment /\ NoWatched /\ NoPlan /\ NoExecute /\ NoRuntime
     /\ NoPython /\ NoArchive /\ NoTiming /\ NoPhysical /\ NoCollection
     /\ code = None /\ container = None /\ sent = None /\ rec = None
     /\ disk = None /\ report = None /\ cause = None /\ escaping = None
     /\ parsed = None /\ staged = None /\ outcome = None /\ probe = None
     /\ told = None /\ ran = None /\ candidate = None /\ staging = None
     /\ imageOnly = None /\ host = None /\ changes = None /\ store = None
     /\ stage = None /\ lock = None /\ execution = None /\ ended = None
     /\ seen = None /\ at = None /\ mode = None /\ selected = None
  \/ /\ part = "python" /\ Python!Init
     /\ NoCommand /\ NoRun /\ NoPostcheck /\ NoFinalization /\ NoCheckpoint
     /\ NoSegment /\ NoWatched /\ NoPlan /\ NoExecute /\ NoRuntime
     /\ NoMagic /\ NoArchive /\ NoTiming /\ NoPhysical /\ NoCollection
     /\ code = None /\ failed = None /\ container = None /\ sent = None
     /\ result = None /\ rec = None /\ disk = None /\ report = None
     /\ cause = None /\ escaping = None /\ parsed = None /\ staged = None
     /\ probe = None /\ told = None /\ ran = None /\ candidate = None
     /\ staging = None /\ imageOnly = None /\ host = None /\ store = None
     /\ execution = None /\ ended = None /\ seen = None /\ at = None
     /\ selected = None
  \/ /\ part = "archive" /\ Archive!Init
     /\ NoCommand /\ NoRun /\ NoPostcheck /\ NoFinalization /\ NoCheckpoint
     /\ NoSegment /\ NoWatched /\ NoPlan /\ NoExecute /\ NoRuntime
     /\ NoMagic /\ NoPython /\ NoTiming /\ NoPhysical /\ NoCollection
     /\ code = None /\ failed = None /\ container = None /\ result = None
     /\ rec = None /\ disk = None /\ report = None /\ cause = None
     /\ escaping = None /\ parsed = None /\ probe = None /\ told = None
     /\ ran = None /\ candidate = None /\ imageOnly = None /\ host = None
     /\ store = None /\ stage = None /\ lock = None /\ execution = None
     /\ ended = None /\ seen = None /\ at = None
  \/ /\ part = "timing" /\ Timing!Init
     /\ NoCommand /\ NoRun /\ NoPostcheck /\ NoFinalization /\ NoCheckpoint
     /\ NoSegment /\ NoWatched /\ NoPlan /\ NoExecute /\ NoRuntime
     /\ NoMagic /\ NoPython /\ NoArchive /\ NoPhysical /\ NoCollection
     /\ code = None /\ failed = None /\ container = None /\ sent = None
     /\ result = None /\ rec = None /\ disk = None /\ report = None
     /\ cause = None /\ escaping = None /\ parsed = None /\ staged = None
     /\ probe = None /\ told = None /\ ran = None /\ candidate = None
     /\ staging = None /\ imageOnly = None /\ host = None /\ store = None
     /\ stage = None /\ lock = None /\ execution = None /\ seen = None
     /\ at = None /\ mode = None
  \/ /\ part = "physical" /\ Physical!Init
     /\ NoCommand /\ NoRun /\ NoPostcheck /\ NoFinalization /\ NoCheckpoint
     /\ NoSegment /\ NoWatched /\ NoPlan /\ NoExecute /\ NoRuntime
     /\ NoMagic /\ NoPython /\ NoArchive /\ NoTiming /\ NoCollection
     /\ code = None /\ failed = None /\ container = None /\ sent = None
     /\ result = None /\ rec = None /\ disk = None /\ cause = None
     /\ escaping = None /\ parsed = None /\ staged = None /\ probe = None
     /\ told = None /\ ran = None /\ candidate = None /\ staging = None
     /\ imageOnly = None /\ host = None /\ store = None /\ stage = None
     /\ lock = None /\ execution = None /\ ended = None /\ at = None
     /\ mode = None /\ selected = None
  \/ /\ part = "collection" /\ Collection!Init
     /\ NoCommand /\ NoRun /\ NoPostcheck /\ NoFinalization /\ NoCheckpoint
     /\ NoSegment /\ NoWatched /\ NoPlan /\ NoExecute /\ NoRuntime
     /\ NoMagic /\ NoPython /\ NoArchive /\ NoTiming /\ NoPhysical
     /\ pc = None /\ code = None /\ failed = None /\ container = None
     /\ sent = None /\ result = None /\ rec = None /\ disk = None
     /\ report = None /\ cause = None /\ escaping = None /\ parsed = None
     /\ staged = None /\ outcome = None /\ probe = None /\ told = None
     /\ ran = None /\ candidate = None /\ staging = None
     /\ imageOnly = None /\ host = None /\ changes = None /\ store = None
     /\ stage = None /\ lock = None /\ execution = None /\ ended = None
     /\ seen = None /\ at = None /\ mode = None /\ selected = None

Next ==
  \/ /\ part = "command" /\ Command!Next
     /\ UNCHANGED <<part, runVars, postcheckVars, finalizationVars,
                    checkpointVars, segmentVars, observationVars, planVars,
                    executeVars, runtimeVars, magicVars, pythonVars,
                    archiveVars, timingVars, physicalVars, collectionVars,
                    rec, disk, report, cause, escaping, parsed, staged,
                    outcome, probe, told, ran, candidate, staging,
                    imageOnly, host, changes, store, stage, lock,
                    execution, ended, seen, at, mode, selected>>
  \/ /\ part = "run" /\ Run!Next
     /\ UNCHANGED <<part, commandVars, postcheckVars, finalizationVars,
                    checkpointVars, segmentVars, observationVars, planVars,
                    executeVars, runtimeVars, magicVars, pythonVars,
                    archiveVars, timingVars, physicalVars, collectionVars,
                    code, failed, container, result, probe, told, ran,
                    candidate, staging, imageOnly, host, changes, store,
                    stage, lock, execution, ended, seen, at, mode,
                    selected>>
  \/ /\ part = "postcheck" /\ Postcheck!Next
     /\ UNCHANGED <<part, commandVars, runVars, finalizationVars,
                    checkpointVars, segmentVars, observationVars, planVars,
                    executeVars, runtimeVars, magicVars, pythonVars,
                    archiveVars, timingVars, physicalVars, collectionVars,
                    code, failed, result, report, parsed, staged,
                    candidate, staging, imageOnly, host, changes, store,
                    stage, lock, execution, ended, seen, at, mode,
                    selected>>
  \/ /\ part = "finalization" /\ Finalization!Next
     /\ UNCHANGED <<part, commandVars, runVars, postcheckVars,
                    checkpointVars, segmentVars, observationVars, planVars,
                    executeVars, runtimeVars, magicVars, pythonVars,
                    archiveVars, timingVars, physicalVars, collectionVars,
                    code, failed, container, result, report, escaping,
                    parsed, staged, probe, told, ran, candidate, staging,
                    imageOnly, host, changes, store, stage, lock,
                    execution, ended, seen, at, mode, selected>>
  \/ /\ part = "checkpoint" /\ Checkpoint!Next
     /\ UNCHANGED <<part, commandVars, runVars, postcheckVars,
                    finalizationVars, segmentVars, observationVars,
                    planVars, executeVars, runtimeVars, magicVars,
                    pythonVars, archiveVars, timingVars, physicalVars,
                    collectionVars, code, failed, container, result, rec,
                    disk, cause, escaping, staged, probe, told, ran, store,
                    stage, lock, execution, ended, seen, at, mode,
                    selected>>
  \/ /\ part = "segment" /\ Segment!Next
     /\ UNCHANGED <<part, commandVars, runVars, postcheckVars,
                    finalizationVars, checkpointVars, observationVars,
                    planVars, executeVars, runtimeVars, magicVars,
                    pythonVars, archiveVars, timingVars, physicalVars,
                    collectionVars, code, failed, container, result, rec,
                    disk, report, cause, escaping, parsed, staged, probe,
                    told, ran, host, stage, lock, execution, ended, seen,
                    at, mode, selected>>
  \/ /\ part = "observation" /\ Watched!Next
     /\ UNCHANGED <<part, commandVars, runVars, postcheckVars,
                    finalizationVars, checkpointVars, segmentVars,
                    planVars, executeVars, runtimeVars, magicVars,
                    pythonVars, archiveVars, timingVars, physicalVars,
                    collectionVars, code, failed, container, result, rec,
                    disk, report, cause, escaping, parsed, staged, outcome,
                    probe, ran, candidate, staging, imageOnly, host,
                    changes, at, mode, selected>>
  \/ /\ part = "plan" /\ Plan!Next
     /\ UNCHANGED <<part, commandVars, runVars, postcheckVars,
                    finalizationVars, checkpointVars, segmentVars,
                    observationVars, executeVars, runtimeVars, magicVars,
                    pythonVars, archiveVars, timingVars, physicalVars,
                    collectionVars, code, failed, container, sent, result,
                    rec, disk, report, cause, escaping, parsed, staged,
                    outcome, probe, told, candidate, staging, imageOnly,
                    host, changes, store, stage, lock, execution, ended,
                    seen, mode, selected>>
  \/ /\ part = "execute" /\ Execute!Next
     /\ UNCHANGED <<part, commandVars, runVars, postcheckVars,
                    finalizationVars, checkpointVars, segmentVars,
                    observationVars, planVars, runtimeVars, magicVars,
                    pythonVars, archiveVars, timingVars, physicalVars,
                    collectionVars, failed, container, result, rec, disk,
                    report, cause, escaping, parsed, staged, outcome,
                    probe, told, ran, candidate, staging, imageOnly, host,
                    changes, store, stage, lock, ended, seen, mode,
                    selected>>
  \/ /\ part = "runtime" /\ Runtime!Next
     /\ UNCHANGED <<part, commandVars, runVars, postcheckVars,
                    finalizationVars, checkpointVars, segmentVars,
                    observationVars, planVars, executeVars, magicVars,
                    pythonVars, archiveVars, timingVars, physicalVars,
                    collectionVars, code, failed, result, rec, disk,
                    report, cause, escaping, parsed, staged, told, ran,
                    candidate, staging, imageOnly, store, stage, lock,
                    execution, ended, seen, at, selected>>
  \/ /\ part = "magic" /\ Magic!Next
     /\ UNCHANGED <<part, commandVars, runVars, postcheckVars,
                    finalizationVars, checkpointVars, segmentVars,
                    observationVars, planVars, executeVars, runtimeVars,
                    pythonVars, archiveVars, timingVars, physicalVars,
                    collectionVars, code, container, sent, rec, disk,
                    report, cause, escaping, parsed, staged, outcome,
                    probe, told, ran, candidate, staging, imageOnly, host,
                    changes, store, stage, lock, execution, ended, seen,
                    at, mode, selected>>
  \/ /\ part = "python" /\ Python!Next
     /\ UNCHANGED <<part, commandVars, runVars, postcheckVars,
                    finalizationVars, checkpointVars, segmentVars,
                    observationVars, planVars, executeVars, runtimeVars,
                    magicVars, archiveVars, timingVars, physicalVars,
                    collectionVars, code, failed, container, sent, result,
                    rec, disk, report, cause, escaping, parsed, staged,
                    probe, told, ran, candidate, staging, imageOnly, host,
                    store, execution, ended, seen, at, selected>>
  \/ /\ part = "archive" /\ Archive!Next
     /\ UNCHANGED <<part, commandVars, runVars, postcheckVars,
                    finalizationVars, checkpointVars, segmentVars,
                    observationVars, planVars, executeVars, runtimeVars,
                    magicVars, pythonVars, timingVars, physicalVars,
                    collectionVars, code, failed, container, result, rec,
                    disk, report, cause, escaping, parsed, probe, told,
                    ran, candidate, imageOnly, host, store, stage, lock,
                    execution, ended, seen, at>>
  \/ /\ part = "timing" /\ Timing!Next
     /\ UNCHANGED <<part, commandVars, runVars, postcheckVars,
                    finalizationVars, checkpointVars, segmentVars,
                    observationVars, planVars, executeVars, runtimeVars,
                    magicVars, pythonVars, archiveVars, physicalVars,
                    collectionVars, code, failed, container, sent, result,
                    rec, disk, report, cause, escaping, parsed, staged,
                    probe, told, ran, candidate, staging, imageOnly, host,
                    store, stage, lock, execution, seen, at, mode>>
  \/ /\ part = "physical" /\ Physical!Next
     /\ UNCHANGED <<part, commandVars, runVars, postcheckVars,
                    finalizationVars, checkpointVars, segmentVars,
                    observationVars, planVars, executeVars, runtimeVars,
                    magicVars, pythonVars, archiveVars, timingVars,
                    collectionVars, code, failed, container, sent, result,
                    rec, disk, cause, escaping, parsed, staged, probe,
                    told, ran, candidate, staging, imageOnly, host, store,
                    stage, lock, execution, ended, at, mode, selected>>
  \/ /\ part = "collection" /\ Collection!Next
     /\ UNCHANGED <<part, commandVars, runVars, postcheckVars,
                    finalizationVars, checkpointVars, segmentVars,
                    observationVars, planVars, executeVars, runtimeVars,
                    magicVars, pythonVars, archiveVars, timingVars,
                    physicalVars, pc, code, failed, container, sent,
                    result, rec, disk, report, cause, escaping, parsed,
                    staged, outcome, probe, told, ran, candidate, staging,
                    imageOnly, host, changes, store, stage, lock,
                    execution, ended, seen, at, mode, selected>>

Spec == Init /\ [][Next]_vars /\ WF_(Command!vars)(part = "command" /\ Command!Step)

-----------------------------------------------------------------------------
(* A command that has ended leaves no process or container of its own, and *)
(* its code is the tool's unless its cleanup failed (phase4.run_logged).   *)
CommandsLeaveNothing == part = "command" => Command!LeavesNothing /\ Command!CodeIsTheTools

(* A run's code, record and report say the same of it, and a completed one *)
(* is of one manifest (phase4.run).                                        *)
RunsAreRecorded == part = "run" => Run!OutcomeIsRecorded /\ Run!CompletedIsOneBuild

(* A passing postcheck, alone or inside a finalization, earned its verdict *)
(* and was not interrupted (phase4.check, finalization.finalize).          *)
VerdictsAreEarned ==
  /\ part = "postcheck" => Postcheck!VerdictIsEarned
  /\ part = "finalization" => Finalization!CompletionIsEarned

(* A checkpoint that is ready was cleared by the runtime it was sealed     *)
(* for, and a failure leaves none (checkpoint.publish).                    *)
CheckpointsAreWhole == part = "checkpoint" => Checkpoint!ReadyIsCleared /\ Checkpoint!FailureLeavesNothing

(* Segments are published only as the bridge answered, but for the views   *)
(* and for what changes while it is copied, continue their predecessor's   *)
(* closure unless it was rewritten, and no plan that is accepted skips one *)
(* (stages.run_segment, librelane_bridge.execute, execution_plan).         *)
SegmentsAreOneClosure ==
  /\ part = "segment" => Segment!PublishedIsAnswered /\ Segment!ChainIsOneClosure
  /\ part = "plan" => Plan!NoStageIsSkipped /\ Plan!AcceptedIsServed

(* The journal tells of a run what its record tells, and a watch ends only *)
(* with the last record (flow_observation).                                *)
JournalsTellTheRun ==
  part = "observation" =>
    Watched!WatchEndsComplete /\ Watched!JournalTellsTheRun /\ Watched!RaisedIsRecorded

(* The exit code of an execution is earned by its steps, its gates hold,   *)
(* and no helper outlives its action but one a signal came too early for,  *)
(* or the third of three signals (cli, runner, ocaml_backend).             *)
ExitsAreEarned ==
  part = "execute" => Execute!ExitIsEarned /\ Execute!GatesHold /\ Execute!NoHelperLeft

(* A segment is launched in the runtime that was judged                    *)
(* (runtime_contract, runtime_observation, execution_transport).           *)
LaunchedAsJudged == part = "runtime" => Runtime!LaunchedAsJudged /\ Runtime!ReadyIsJudged

(* A layout is accepted for what it is: its findings are the stock         *)
(* abstract's own, all of its evidence is of one file, and it is replayed  *)
(* with the models that were recorded (physical_runtime).                  *)
LayoutsAreJudged ==
  /\ part = "magic" => Magic!AcceptedIsStock
  /\ part = "physical" => Physical!EvidenceIsOfOneLayout /\ Physical!ReplayIsTheRecorded

(* A timing analysis is complete or says what it lacks, and a report       *)
(* passes only what was collected of a clean run (timing_physical_runtime, *)
(* timing_intent_runtime, phase4.collect, report).                         *)
AnalysesAreWhole ==
  /\ part = "timing" => Timing!ProgressIsFinal /\ Timing!CompletedIsEveryCorner
  /\ part = "collection" => Collection!PassIsEarned

(* A managed Python that is ready is the pinned one (managed_python).      *)
ReadyIsThePin == part = "python" => Python!ReadyIsThePin

(* An archive holds what was verified, unless that changed afterwards;     *)
(* nothing of the reader's is lost but a file added between the listing    *)
(* and the move; the older archive stands until the new one does (archive).*)
ArchivesAreThePinned ==
  part = "archive" =>
    Archive!ArchiveIsThePinned /\ Archive!ReadersFilesSurvive /\ Archive!OlderSurvives

(* "Generations are kept and never replaced" (managed_python).             *)
GenerationsAreKept == [][part = "python" => Python!KeepsGenerations]_vars

(* A command that was given a timeout ends by itself, whatever its client  *)
(* and the daemon do (phase4.run_logged).                                  *)
TimedCommandsEnd ==
  part = "command" /\ timed ~> part = "command" /\ Command!Over

(* "The receipt is read strictly": one on disk always decodes              *)
(* (finalization.inspect, docs/guides/flow.md).                            *)
ReceiptsDecode == part = "finalization" => Finalization!ReceiptsDecode
=============================================================================
