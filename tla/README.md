# hardcaml_asic: a TLA+ verification project

`hardcaml_asic` declares an ASIC project in OCaml, elaborates it, and drives a
physical-design flow through an external tool (LibreLane, in a container or
native).  The flow runs for hours, in other people's processes, under Ctrl-C,
full disks and crashes, and everything later (reports, acceptance, archives)
rests on the records it leaves.  The declaration half is pure OCaml and well
tested; the execution half is where orders of events decide what is true.  It
exists twice: as OCaml services (`src/execution/`, `src/bin/`), which the
installed command line runs (`bin/flow_cli.ml`), and as the Python provider
(`src/flow/hardcaml_asic_flow/`), which its own `cli.py:3-6` calls the retained
compatibility CLI and API and the differential oracle, for transitional
consumers and tests.  This project models both, and of the declaration half the
parts that keep state or choose: elaboration, resource selection and the
single-port RAM.

Contents: [parts](#1-the-system-and-its-parts) ·
[modules](#2-modules-and-how-they-correspond-to-the-code) ·
[runs](#3-runs) · [bounds](#4-bounds-and-why-they-are-enough) ·
[fairness](#5-fairness) · [proofs](#6-what-is-proved) ·
[disagreements](#7-where-code-and-documents-disagree) ·
[not modelled](#8-what-is-not-modelled) · [plan](#9-plan)

To repeat a run: `tlc -config MCRun.cfg MCModule.tla` with the pair named in
section 3 or in `PROJECT.json`; to repeat a proof: `tlapm XProofs.tla`.

## 1. The system and its parts

A command (`src/bin/`) is one process.  It hears SIGINT and SIGTERM, allocates
a private directory for what it is about to do, calls services of
`src/execution/` one after the other, and leaves JSON records.  Concurrency
comes from four sides: signals, child processes and containers, other commands
working on the same directories, and the crash of any of these.

    command ── runner ── action callbacks ── segment / run / postcheck / collect / report / archive
       │          │                             │
       │          └ snapshot of the attempt     ├ execution transport ── process supervisor ── child group
       │            (summary on disk)           │        └ container engine
       └ observation writer ──► journal         └ checkpoint publisher ──► checkpoint store
                                  ▲
                    readers (watch, inspect) in other processes

### Execution: the OCaml services

| Part | State | Operations | What is hard | What makes it correct |
|---|---|---|---|---|
| Process supervisor (`runtime/process_supervisor.ml`, `process_stubs.c`) | one child group, two signal handlers, the first signal, the outcome, a process-wide `active` flag | `run`: install, open, spawn, wait, stop ladder INT→TERM→KILL, reap, cleanup hook, restore | a signal in any window; children that fork or ignore signals; hooks that raise; recycled process IDs | nothing of the group survives the call; signals go only to its own group; no caught signal is lost; an exit 0 is one nobody forced |
| Execution transport (`runtime/execution_transport.ml`) | outer handlers, client's outcome, container name, cleanup error, deadline | client run, repeated `rm -f` sweep | a killed client's request is still in flight: the daemon may create the container later | a success leaves no container, no request, no signal behind; the sweep uses its whole window and ends |
| Runner (`runner.ml`, `execution_plan.ml`) | occurrences, steps, diagnostics, artifacts, handoff source, snapshot on disk | one loop per planned action: poll, clock, hooks, invoke, publish, saves | every callback may fail or be interrupted; the process may die between a deed and its record | work is announced before it starts; a failure stops what it must and no more; the record never claims more than happened |
| Coarse execution and run (`coarse_execution_service.ml`, `coarse_run_service.ml`, `results/postcheck_service.ml`) | a remembered signal per scope, run and check records | five actions over the runner | nested signal scopes: only the innermost hears, each looks at its own places | records, outcomes and attempt status agree; losable signals are exactly the late ones |
| Stage command (`bin/experimental_stages.ml`, `stage_preparation.ml`) | journal stream, summary, exit code | plan, prepare, run, verify, record outcome, report; exception handler | two records of one attempt, hooks that write one of them, signals that raise anywhere | stream, summary and exit code never contradict each other or what happened |
| Observation grammar and journal (`observation/*.ml`, `observation_stubs.c`, `bin/observation_watch.ml`) | a directory of linked records, a pending file, an advisory lock; each reader's validated prefix and cursor | append (pending, link, unlink), poll (list, stat, read, probe the lock, list again) | writer and readers share only a directory; a half-done append; a writer that dies silently | one whole chain; readers get a prefix in order; who learns the writer is gone has everything; every watch ends |
| Checkpoint publication (`storage/checkpoint_publisher.ml`) | source snapshots, staging directory, ownership, destination | snapshot, copy, three validations, runtime callback, atomic no-replace rename, cleanup | sources change meanwhile; a container writes to the copy; a rival wants the same name; signal handlers raise | what is published is the candidate as it stood at one instant; failures clean up after themselves and only themselves |
| Finalization and external postcheck (`results/finalization_service.ml`, `postcheck_service.ml`, `finalization_record.ml`) | the receipt in memory and on disk, two signal scopes, evidence hashes | validate, collect, postcheck, verify, judge, close | a failure after a verdict; a signal in the inner scope; a record its own reader refuses | receipts always decode; acceptance is earned |
| Preparation (`preparation/preparation_service.ml`) | record, snapshot, observed and deferred signals, masks | run constructor, publish snapshot, commit, hand signals back | a commit point signals may neither veto nor vanish at | records decode; every signal is accounted for |
| Preflight (`runtime/preflight_service.ml`) | report and receipt, published flags | probe, publish report, publish receipt, disclose | two files, saved one after the other while signals arrive | ready means ready, stored, and no signal but one too late for any look |
| Archives (`archive/archive_service.ml`) | output, lock, staging and backup directories | acquire, lock, copy, list, preserve, swap, rollback | two publishers, a user who writes to the output, a kill between two renames | no user file lost but one that came between the listing and the swap (section 7), no mixture, no populated output replaced unasked |
| Result store, collection, reports, retained records, resource and timing evidence (`storage/result_store.ml`, `results/`) | fresh directories and JSON files | allocate, save; decode, reconcile, judge | which combinations a strict reader accepts | above, a save replaces the file or fails; the provider's counterparts are below |

### Execution: the Python provider

The provider does the same work with other means: every command that may be
interrupted runs under handlers that *raise* `FlowInterrupted` wherever the
signal arrives, so each place between two statements is a place to leave from.

    cli execute ── runner.py ── helpers (ocaml_backend.py) ── phase4.run / check / collect ── run_logged ── session, container
                      │
    stage attempt: Writer.run ── runner.py ── SegmentAdapter ── launched bridge (librelane_bridge.py)
                      │                            └ checkpoint.publish ──► checkpoints
                      └► journal ──► IncrementalReader
    finalize ── checks ── report.py        managed Python ──► interpreter generations
    runtime contract ── observation ── preflight ── launch        archive.py ──► output

| Part | State | Operations | What is hard | What makes it correct |
|---|---|---|---|---|
| Tool commands (`phase4.run_logged`, handlers of `result_store.py`) | client's session, container, cleanup attempts, exception on its way | start, wait, INT→TERM→KILL, remove by name twice, report | the signal between fork and assignment; a request still on its way when its client dies; a second signal in the cleanup | an ended command has no process and no container, or admits it; its code is the tool's |
| Runs and external checks (`phase4.run`, `_run`, `check`) | record, report, bundle versions | allocate, stage, launch, save, handle | bundle read three times; a signal in a handler | code, record and report agree; a completed run is of one manifest; a pass is earned |
| Finalization (`finalization.py`) | receipt in memory and on disk | select, validate, adapt, postcheck, save | signals between the verdict and its status | completion is earned; receipts decode (they do not: section 7) |
| Checkpoints (`checkpoint.py`) | candidate, private copy, seal, final directory | copy, inventory, validate, ask the runtime, rename, clean up | a mutable candidate, a signal around the rename | what is ready was cleared by its runtime; a failure leaves nothing |
| Segments (`stages.py`, `backend_protocol.py`, `librelane_bridge.py`) | request, reply, report, candidate, chain | call, answer, read, revalidate, publish | the bridge outlives the call that gave it up; inputs, bridge and candidate change in between, the views in no evidence | metadata is published only as answered; a chain is one closure |
| Stage plans (`execution_plan.py` and the tables that serve it) | recipe, place in it | resolve, hand off, advance | three tables in three files | an accepted plan skips no stage and every transition is served |
| Journal (`flow_observation.py`) | writer's sequence, lock, journal, reader's prefix | append by hook, outcome, refresh, probe, drain | a signal between promotion and counter, so that the writer's next name is taken; the last record after the last refresh | journal and record tell the same; what a reader validated is the journal's beginning, or it fails; a watch ends with the last record |
| Execute command (`cli.py`, `runner.py`, `ocaml_backend.py`) | steps, best code, helper, handlers | five gated actions, forwarding, decoding | a signal before the helper's handlers forward, or while `subprocess.run` kills it | exit codes are earned, gates hold, a helper survives at known places only |
| Runtime (`runtime_contract.py`, `runtime_observation.py`, `execution_transport.py`) | contract, observations, engine, tag | declare, observe, judge, prepare, launch | tags move and engines are replaced between any two | what is launched is what was judged |
| Physical evidence (`physical_runtime.py`) | layout, audit answers, findings, models | check, audit, disposition of Magic findings, replay of models | every file is read by several tools in turn | all evidence is of one file; only the stock macro's own findings are explained away |
| Timing evidence (`timing_*_runtime.py`) | corners, futures, progress file | select, analyse, audit, write | a corner fails while others are queued or running | the last progress is final; completed means every corner |
| Collection and reports (`phase4.collect`, `report.py`) | tool files, results, verdict | collect, report | results stored before the run ended; absent and odd metrics | a pass was collected of a clean run |
| Managed Python (`managed_python.py`) | cache, lock, generation, receipt | acquire, inspect by several processes | kills between publication and receipt; users who put things there | ready is the pin; generations are never replaced |
| Archives (`archive.py`) | output, staging, backup | verify, stage, package, publish | run and output change while they are read, the output up to the rename | an archive has the pinned bundle, and the layout unless it changed after it was verified; failures lose no file and no older archive |

### Declaration (`src/lib/`, `src/flow_domain/`)

A project is elaborated by running its own constructor, which registers the
memories it wants and builds hardware of what it is given; the record and the
hardware are then compared.  Everything else here is a pure function of the
declaration.

| Part | State | Operations | What is hard | What makes it correct |
|---|---|---|---|---|
| Elaboration (`project.ml`, `elaboration/context.ml`, `resolved.ml`) | one context per elaboration: open, finalized or failed, with its records; the circuit | create, register, build, finalize, resolve, elaborate again for simulation | the constructor is not ours: it may catch our exceptions, drop an output, instantiate the macro itself, keep an old context | a project is whole: nothing refused, no rule unused, inventory and circuit name the same macros |
| Resource selection (`resource/*.ml`) | none | match, rank, look up, select | rules that overlap, fallbacks that must not be silent | every record follows the most specific rule |
| Single-port RAM (`single_port_ram.ml`) | words, output register | one clock of each backend | three implementations of one contract; depths that are no power of two; outputs that hold | written words are kept and read back one clock later; a disabled clock holds |
| Flow recipes, platform, catalogues, bundle emission | none, or files written once | validate, render | boundary data | planned, or text |

### Around it

Argument parsing and presentation, the scripts inside the container, the
toolchain scripts, examples, evidence and experiments: listed in `PROJECT.json`
with the reason each is left out.

## 2. Modules and how they correspond to the code

One module per part; one action per place where another process, a signal or a
crash can come between.  Names follow the source.  `PROJECT.json` maps every
definition to the lines it translates.

| Module | Models | How state and actions correspond |
|---|---|---|
| `SupervisedRun` | the promise of `Process_supervisor.run` | abstract: a group between Launch and Settle, the first caught signal, a delivered outcome |
| `ProcessSupervisor` | `process_supervisor.ml` | `pc` is the place in `run`; each handler installed or restored, each rung of the ladder, the WNOWAIT poll and the reap are steps; children are external (`Exit`, `Fork`) |
| `ExecutionTransport` | `execution_transport.ml` | every supervised run inside it *is* `SupervisedRun` (by INSTANCE); the engine is external: it may commit a request at any time |
| `ExecutionPlan` | `execution_plan.ml` | the action lists: operation, gate, requirements |
| `Runner` | `runner.ml` | `cur` is the action of the loop, `pc` the place in its body; `Call`, `Fail`, `Record`, `SaveStep` are the code's `call`, `set_local`, `record`, `save` |
| `CoarseExecution` | EXTENDS `Runner` with the three services | who hears a signal and where it is looked at; `svc` is the place in the service of the current action |
| `Observation` | `Observation.reduce` | `Accepts` and `Reduce` as operators; as a system, it is offered any event in any order |
| `StageAttempt` | EXTENDS `Runner`, INSTANCE `Observation` | the hooks that append, `main` around the runner, its exception handler and exit code |
| `JournalLog` | the journal's promise | abstract: one owner appends, each reader has been given a prefix |
| `Journal` | `observation_writer.ml`, `Observation.Reader`, `observation_watch.ml`, the lock probe | append and refresh are cut at every file-system call the other side can see |
| `CheckpointPublisher` | `checkpoint_publisher.ml` | a file's content is the version of its source; `Touch`, `Rival`, `Runtime`, `Interrupt` and `Killed` are the others |
| `Cancellation` | the handlers that remember the first signal | shared by the operations below |
| `Finalization`, `Preparation`, `Preflight`, `ArchivePublication` | the OCaml services of these names | each save, check and handler is a step that may fail |
| `ProviderCommand` | `phase4.run_logged` | `pc` is the place in it; the client, its descendant and the docker daemon are external; each kind of place has its own `Interrupt…`, as each has its own `except` |
| `ProviderRun`, `ProviderPostcheck` | `phase4.run`, `_run`, `check` with `result_store.py` | every read of the bundle takes its version then; every save, handler and settlement is a step |
| `ProviderFinalization` | `finalization.finalize`, `inspect` | `rec` is the receipt in memory, `disk` the saved one, `Decodes` the strict reader |
| `ProviderCheckpoint` | `checkpoint.publish`, `validate` | copy, inventory, seal, validation, runtime query, rename and flag |
| `ProviderSegment` | `stages.SegmentAdapter`, `backend_protocol.py`, `librelane_bridge.py` | both ends of a call: the adapter's steps and `Bridge…` steps over request and reply files named by the call; a candidate is its metadata, which the reply's evidence covers, and its views, which it does not |
| `ProviderPlan` | `execution_plan.StagePlan` and three transition tables | the tables are translated one by one and compared by running recipes through them |
| `ProviderObservation` | `flow_observation.Writer`, `Writer.run`, `IncrementalReader` | promotion and counter are two steps; the reader's listing, probe and drain are three, and it keeps the records it has read |
| `ProviderExecute` | `cli.execute`, `runner.py`, `ocaml_backend.py` | five actions, each a helper process; handlers that raise or forward; `subprocess.run` is fork, wait, kill and reap, a signal between any two |
| `ProviderRuntime` | `runtime_contract.py`, `runtime_observation.py`, `phase4.preflight`, the transport's launch | what an image ID names is fixed; `Disturb` moves the tag and replaces the engine |
| `ProviderMagic`, `ProviderPhysical` | `physical_runtime.py` | findings are markers with a rule, a place and a cause the checker cannot see; files are versions |
| `ProviderTiming` | `timing_intent_runtime.py`, `timing_physical_runtime.py` | corners, LibreLane's executor of one thread, the progress record |
| `ProviderCollection` | `phase4.collect`, `report.py` | a field is absent, bad, odd, zero or some; what the code concludes from each |
| `ManagedPython` | `managed_python.acquire`, `inspect` | `pc[p]` of several processes over one root; `Kill` anywhere |
| `ProviderArchive` | `archive.verify`, `stage`, `package`, `publish` | version 1 is what the records pin; others write to run and bundle between any two reads, the reader adds a file to the output between any two steps |
| `Elaboration` | `project.ml`, `context.ml`, `policy.ml`, `selection.ml`, `resolve_macros` | `Create`, `Refuse`, `Register`, `Finalize`, `Resolve` are the code's; between them `Ram`, `Instantiate`, `UseClosed`, `Raise`, `Return` are what a constructor may do; an instance is its label and what it is of |
| `MemoryContract` | the request of a memory: port, held output, latency | abstract: what the consumer wrote, and what a read may return |
| `SinglePortRam` | `single_port_ram.ml` | `depth` is what it was created with, `backend` what was built; one step is one clock; `Behavioral`, `Flops`, `Macro` are the three that `create` builds; the stock macro behind its pins is external |
| `MC…` | instances for TLC | `MCOperations` and `MCProvider` run one operation or part per behaviour (`op`, `part`), as one command does; what the others keep stays `None` |
| `ProcessSupervisorProofs`, `CheckpointPublisherProofs`, `JournalProofs`, `ExecutionTransportProofs`, `AttemptProofs`, `OperationsProofs`, `EvidenceProofs`, `ProviderProofs` | the theorems | section 6; the last extends the one before it |

Composition: the transport uses the supervisor's *promise*, and the supervisor
is shown to keep it, so the two are checked separately and hold together.
Likewise readers and writer are checked, and proved, against `JournalLog`, and
the backends of a memory against `MemoryContract`; which backend is built is
`Elaboration`'s.
`StageAttempt` and `CoarseExecution` add an owner's callbacks to the runner's
own steps: their next-state relations contain the runner's, and the runner's
properties are checked under them, where its callbacks do what these owners
make them do.  In the provider a part that calls another takes the outcomes
that the other's module allows: a run or a postcheck takes a command's result
(`ProviderCommand`), a segment the checkpoint's verdict (`ProviderCheckpoint`),
and `ProviderSegment` composes both ends of the wire contract.

## 3. Runs

The config `MCX.cfg` is for module `MCX` where there is one (`MCOperations`,
`MCProvider`), and for module `X` itself otherwise.

| Run | Config | Distinct states | What it shows |
|---|---|---|---|
| `supervisor` | `MCProcessSupervisor` | 4.5 k | the inductive invariant `IInv`; signals only to the own group (`OnlySignalOwnGroup`); an honest exit 0 (`SuccessIsGenuine`); calls return (`CallsReturn`); the supervisor implements `SupervisedRun` (`ImplementsPromise`) |
| `transport` | `MCExecutionTransport` | 133 k | `CleanupIsHonest` (`SuccessIsClean`, `SweptToTheDeadline`), `CleanupEnds` |
| `coarse_execution` | `MCCoarseExecution` | 15 k | `WorkFollowsTheRules` (the runner's `StartsAreJustified`, `FailedRunsAreCollected`); `OutcomesAreHonest` (`RecordsAgree`, and `SignalsAreHeeded`: the losable signals are exactly those after a scope's last check) |
| `stage_attempt` | `MCStageAttempt` | 132 k | `StepsAreTrue` (`HandoffFollowsPlan`, `StepsTellTheTruth`) and `DurableRecord` (`WriteAhead`, `DiskNeverOverclaims`, `SuccessIsDurable`) of the runner; `StreamTellsTheTruth` (the grammar never refuses its own writer, the stream never runs ahead); `BothRecordsBackSuccess` |
| `journal` | `MCJournal` | 211 k | `ChainIsWhole`, `NoLostTail`, `WatchesEnd`, and the journal implements `JournalLog` (`ImplementsLog`) |
| `publisher` | `MCCheckpointPublisher` | 89 k | `PublishedIsTheCandidate`, `OrdinaryFailuresCleanUp`, and the inductive invariant they are part of |
| `operations` | `MCOperations` | 218 k | finalization, preparation and preflight: `RecordsAreHonest`; archives: `ArchivesAreWhole`; the event grammar: `ProgressIsEarned`; elaborations: `ElaborationsAreEarned` (`PolicyIsFollowed`, `ProjectsAreEarned`, `InventoryIsBuilt`); memories of every backend: `MemoriesKeepTheContract`, the refinement; and, of every step of an archive, a stream or an elaboration, `NothingIsTakenBack` |
| `provider` | `MCProvider` | 733 k | one property per concern of the provider, each a conjunction of named properties of the parts: `CommandsLeaveNothing`, `RunsAreRecorded`, `VerdictsAreEarned`, `CheckpointsAreWhole`, `SegmentsAreOneClosure`, `JournalsTellTheRun`, `ExitsAreEarned`, `LaunchedAsJudged`, `LayoutsAreJudged`, `AnalysesAreWhole`, `ReadyIsThePin`, `ArchivesAreThePinned`; `GenerationsAreKept` of every step; `TimedCommandsEnd` |
| `journal_alarm`, `coarse_late_signal`, `preflight_stale`, `provider_receipt` | | | refuted: section 7 |

The states of `provider` by part: runtime 334 k, collection 159 k, archive 89 k,
observation 40 k, execute 25 k, physical 22 k, magic 19 k, segment 15 k, python
14 k, plan 5 k, checkpoint 4 k, command and timing 2 k each, run, postcheck and
finalization 3 k together.

Every property has a mutant in `PROJECT.json`, and a conjunction one per
conjunct that guards a hazard of its own: a change of one mapped definition, of
the kind a slip in the code would make, that TLC finds to violate it.

Deadlock is not checked in these runs: every one of these systems is a call
that returns or a process that ends, and may then stop.  That they do not stop
*before* that is what `CallsReturn`, `CleanupEnds`, `WatchesEnd` and
`TimedCommandsEnd` say where the code promises it; elsewhere a callback may
take as long as it likes.

## 4. Bounds and why they are enough

* Supervisor: a leader and one member that may be forked at any time, a
  timeout, two calls.  A second member behaves as the first (the ladder
  addresses the group); the second call shows that nothing is carried over.
  The theorems have any set of members and any number of calls.
* Transport: one call with and without a container; removals repeat without a
  bound until the window ends.
* Coarse execution: the full plan with postcheck and archive; two signals, so
  that one can follow another into a different scope; `MaxErrors` 6 is more
  than its actions can produce.
* Stage attempt: three segments, the fewest with a first, a middle and a last;
  three errors in one attempt: the deciding one, one after it, and one more
  from a later hook or save.  `MaxErrors` limits how many of the steps that may
  fail do.
* Journal: one reader, three records (first, middle, outcome) and cursors
  before, at, and past the end.  Record metadata is two values, because only
  *whether* it moved is compared.  Two readers meet only at the lock, where one's
  probe hides the other's; the theorems have any set of readers and any number
  of records.
* Publisher: report, state and one view, one per way the code treats a file;
  each source changes at most once.  The theorems have any sets and any bound.
* Operations: two signals; two publishers, two evidence files and one user
  entry; each evidence file changes at most once, between any two steps.  The
  grammar: three actions and two contents per record, so that a revision of an
  action that is not the last differs from a repetition.  The theorems have any
  number of actions and any contents.  The elaboration: a memory in each of two
  nested scopes, the stock shape and another; policies with any of three rules
  that overlap (by instance, by the outer and by the inner scope) and with or
  without a default; technologies with and without the stock macro, and with a
  foreign one.  `Policies` and `Technologies` are these bounds.  Memories of
  one-bit words; `Depths` are three (one address names none) and two (the macro
  can be built).  The theorems have any scopes, policies, widths and depths.
* Provider: `MaxInterrupts` 3 signals where the code has a cleanup of its own
  (`subprocess.run` can be cut short at its wait, its kill and its reap),
  `MaxSignals` 1 elsewhere; one signal number,
  since the handlers treat both alike.  `MaxWrites` 2: one writer's change and
  its being changed again, or two files changing independently; `MaxChanges` 1
  elsewhere, between any two steps.  `Segments` and `MaxSegments` 2: a chain with a
  predecessor; `Stages` 2: a first and a last.  `Procs` two installers and one
  kill.  `MaxMarkers` 2: findings that are the same to the checker and differ in
  cause.  `MaxCorner` 2, with every subset and repetition of inputs, and one
  fault.  `MaxPostchecks` 2 beside a collection: one that passed, and a later one.  The runtime's image tag starts as
  one of two that differ only by name, so one is enough.

## 5. Fairness

Safety holds without any.  Liveness assumes only what the code's scheduling
gives:

* `ProcessSupervisor`: weak fairness of `Scope`, the calling thread, which
  never blocks except in `reap` after KILL, and of `Expire`, the clock.
  Children owe nothing: they may ignore INT and TERM for ever.
* `ExecutionTransport`: weak fairness of `Sweep` and `Expire`; a removal is a
  supervised run with a timeout, so it returns by `CallsReturn`.  The client and
  the engine owe nothing.
* `Journal`: weak fairness of `Follow(r)`, a watch that polls in a loop.  The
  writer owes nothing: it may stop in the middle of an append for ever.

* `ProviderCommand`: weak fairness of `Step`, the code of `run_logged` itself,
  which is enabled at a wait only when the client has ended or, when the caller
  gave a timeout, may expire.  The client and the daemon owe nothing, and a
  command without a timeout is not claimed to end.

All other specifications state none, and no liveness is claimed of them.

## 6. What is proved

`ProcessSupervisorProofs`, for every set of members, any bound on calls, with
or without a timeout.  TypeOK alone says nothing of what is running where, so
the induction needs `IInv`: types; `ScopeInv` (which handlers and flag the scope
holds at each place); `GroupInv` (the group exists from Spawn to KILL, the
leader's process ID is pinned until Reap); `LadderInv` (what has been sent at
each rung); and that no delivered result hides a signal.  Each conjunct is
preserved by each action (one lemma per conjunct, one step per action), which
gives

* `AlwaysIInv`, and from it `GroupAlwaysGone` and `CaughtSignalsAlwaysSurface`;
* `OnlyOwnGroupSignalled` and `SuccessAlwaysGenuine`, action properties of a
  step from an `IInv` state;
* `Implements`: initial states map to initial states, and every step to a step
  of `SupervisedRun` or a stutter.  `ExecutionTransport` relies on this.

`CheckpointPublisherProofs`, for every set of metadata files and views and any
number of source changes.  The published content must equal all sources *at one
instant* although it was collected over many; the induction therefore follows
versions: they only grow (`VersionInv`), the copy has exactly the snapshot
versions of the files already copied (`CopyInv`), and during a validation every
file already compared is still at the version it had when the validation began
(`ValidInv`), so that at its end all are.  `OwnInv` ties the `owned` reference to
the directory.  This gives `AlwaysIInv`, `AlwaysTheCandidate` and
`FailuresAlwaysCleanUp`.

`JournalProofs`, for every set of readers, any number of records and any
cursors.  What a reader holds was read before what the writer does next, so the
induction relates three times: `WriterInv` (what is pending, linked and promoted
at each place of an append, and who has the lock), `RefreshInv` (a reader has
validated a prefix of what it listed, and listed a prefix of what stands),
`TailInv` (who found the lock free did so after the last record was promoted, and
listed again since) and `CursorInv` (a cursor is checked once and then moves only
over what was validated).  From `AlwaysIInv` follow
`ChainAlwaysWhole`, `TailNeverLost` and `FilesImplementTheLog`, the whole
refinement: `Spec => ImplementsLog`.

`ExecutionTransportProofs`, for an invocation with a container or without,
however many signals come and however often the sweep repeats.  The engine may
act on a request at any time, so `SweepInv` says what an answer of it is still
worth (what was absent comes back only by a later
commit, and a client that succeeded can have none), `ClientInv` what the engine
may do for a client that is gone, `HeardInv` who remembers a signal, and
`PlaceInv` whose the handlers are.  `TransportInvariant` is their induction, and
`CleanupIsAlwaysHonest` follows from it.

`AttemptProofs`, for every checked plan, with or without names.  The runner's
invariant (`RunnerInvariant`) relates six views of one attempt: the place in the
loop, the diagnoses, occurrences, completions, artifacts and the record on
disk; `DiagnosisInv` is the thread, that without a deciding error everything
behind the loop completed and nothing ran as best effort.  The two owners add
callbacks, and each of their steps is a step of the runner or leaves it alone
(`AttemptHasInv`, `CoarseHasInv`), so the invariant holds of both.  Of stage
attempts: `RecordIsAlwaysDurable` (from `SavedInv`), `StepsAreAlwaysTrue`
(`HandoffInv`: until an action is published the source is its predecessor's),
`StreamAlwaysTellsTheTruth` and `BothRecordsAlwaysBackSuccess` (`StreamInv`: as
long as the writer can append, the stream is abreast of the action that runs;
what was announced without an error is in it, whatever became of the writer).
Of coarse executions: `WorkAlwaysFollowsTheRules` (`RulesInv`) and
`OutcomesAreAlwaysHonest` (`CoarseInv`: where each service is, what its record
says against what it was told, who has heeded which signal).

`OperationsProofs`, for every set of signals, publishers, evidence files,
entries, scopes, policies and technologies, every plan length, width and depth.
`op` never changes, so `OperationsInvariance` is one invariant per operation:

* finalization: no verdict is in the receipt when it is saved before the end,
  what the place says was checked was checked, and an early signal is held by
  someone; preparation: what each place knows of the records, and who holds a
  signal that was sent; preflight: ready is vetoed at once, a flag is withdrawn
  with what it was about, and a signal without an interrupted outcome has a look
  ahead of it or came too late for one.  Together `RecordsAreAlwaysHonest`.
* archives, `ArchivesAreAlwaysWhole`: who holds the lock, alive or dead, is the
  only publisher at the output; the user is never kept out, so what it listed
  there still holds but for the entries in `late`, and those alone can go.
* the event grammar: whatever records are offered in whatever order, one more
  action is published exactly when all before it have completed.
  `ObservationInvariance`, `ProgressIsAlwaysAPrefix`, `SuccessIsAlwaysEarned` and
  `NothingIsEverRevised` of the module, `ProgressIsAlwaysEarned` of the instance.
* elaborations: only the elaboration under way has an open context, and only an
  open context takes a record (`Bookkeeping`), so what `Finalize` checked of the
  records stays true of the project (`ElaborationInvariance`).
  `AlwaysPolicyIsFollowed` needs that two matching subtrees of one depth are the
  same subtree; `AlwaysInventoryIsBuilt` that an injection between finite sets of
  one size is onto, which is why `resolve_macros` may count instances instead of
  matching each with a record.  With `AlwaysProjectsAreEarned` and
  `ContextsAreClosedForGood` of the module, `ElaborationsAreAlwaysEarned`.
* memories: the storage has each word the consumer wrote (`AlwaysWordsAreKept`),
  hence every step of a backend is one of the contract
  (`EveryBackendKeepsTheContract`, `MemoriesAlwaysKeepTheContract`: the whole
  refinement).

`NothingIsEverTakenBack` is the action property, of the same invariants.

`EvidenceProofs` and `ProviderProofs`, for any bounds on signals, faults,
changes, markers, corners, stages and segments, any processes and kills.  `part`
never changes, and `ProviderInvariance` is one invariant per module of the
provider; every safety property of the run `provider` follows from it:

| Theorem | Part, and what its invariant says |
|---|---|
| `CommandsAlwaysLeaveNothing` | command: where a call is tells whether it failed, what it knows of its client, and what client, descendant and container can still do |
| `RunsAreAlwaysRecorded` | run: a signal that was heard is remembered in one of four places, and each comparison of digests bounds which version of the manifest was seen |
| `VerdictsAreAlwaysEarned` | postcheck: what the record says has passed has run, and a signal is in the cause, or has escaped the handler, until it decides the status; finalization: the verdict is written by the last call that can fail |
| `CheckpointsAreAlwaysWhole` | checkpoint: what a reader accepts is what the last validation cleared; the private directory does not change between that and the rename |
| `SegmentsAreAlwaysOneClosure` | segment: a reply that is read is of the metadata that is copied, unless that changes while it is copied; views are as written or somebody wrote to them; and every candidate after the first was computed from the closure of the checkpoint before it, unless its metadata was written before the reply or while it was copied; plan: an accepted recipe is a stretch of its order, and the three gates let exactly its transitions pass |
| `JournalsAlwaysTellTheRun` | observation: a writer knows all of its journal but for the one record it was interrupted after, and then the next name is taken, so a reader's records stay the journal's beginning; the outcome is the last record, so a watch that saw it, or saw the lock free first and read once more, saw everything |
| `ExitsAreAlwaysEarned` | execute: what is ahead of the runner is untouched; behind it everything enabled is done, or the first failure is what stopped it; a helper runs only ahead of its reap, or a signal came before what deals with signals was in place, or three came in a row |
| `LaunchesAreAlwaysJudged` | runtime: what was probed, judged and bound is one image ID with one set of flags, and what an image holds never changes |
| `LayoutsAreAlwaysJudged` | physical: where a check is says which questions were answered well, and what was hashed at first is compared after every program that was given the file; magic: markers of one rule and place differ by their cause alone, so what is counted as often in the stock's control as in the whole is the stock's own |
| `AnalysesAreAlwaysWhole` | timing: the steps on one corner leave what holds of the others alone, and progress is written of corners that have all come to an end; collection: what is said of a stored record is what its counts, slacks and postchecks earn |
| `ReadyIsAlwaysThePin`, `GenerationsAreAlwaysKept` | python: one process at a time is between looking for a generation and its receipt, so what it found still stands when it builds on it |
| `ArchivesAreAlwaysThePinned` | archive: an archive of this run stands at the output only once it was placed, and was pinned before, its layout unless that changed after `verify`; until then the older archive and the reader's files are in the output or in what was moved away, at every step; the one file a published archive can cost is one added between the listing and the rename |

Assumptions: the named ASSUMEs of the modules, which TLC evaluates in the runs.
Sets that the code keeps apart are disjoint, bounds are natural numbers, a plan
was checked (`PlanIsChecked`), a memory's configuration is one `create_exn`
accepts (`MemoriesAreConfigured`), a timing intent has a corner
(`CornersAreCounted`), and `None` is none of the values it stands beside.  Two
facts are hypotheses of the theorems that need them: `StagesOnly` (the
plan is a stage command's, of any length) and `CoarseOnly` (it is a coarse
command's, whatever it enables), which is how the two commands build their plans.  The lemmas on
elaborations and memories state `ConstantsAreTyped`, `ConfigIsValid` and
`NoneIsNoWord` as hypotheses too, and the composed theorems discharge them.

Every safety property that a passing run checks, invariant or action property,
and the three refinements (of `SupervisedRun`, `JournalLog` and
`MemoryContract`), are stated by a theorem.
Only model-checked: liveness (`CallsReturn`, `CleanupEnds`, `WatchesEnd`,
`TimedCommandsEnd`), for which the prover has no rule of fairness.  The four
refuted statements of section 7 are, of course, not theorems.

## 7. Where code and documents disagree

Four runs refute a sentence of the repository (`findings` in `PROJECT.json`):

* `journal_alarm`: unlinking the pending name moves the ctime of the record it
  was just linked to.  A reader in between keeps the old metadata and later
  reports a changed prefix, or fails at once, over an honest journal.  The
  conclusion `HonestRecordsNeverFail` is drawn from the documented immutability
  of published records.
* `coarse_late_signal`: a signal after the run service's last `check_cancel` is
  remembered by a handler nobody asks again; the run completes, where the
  interface promises outcome code 130 or 143.
* `preflight_stale`: a signal that arrives while the receipt cannot be saved
  keeps the already published `ready` report from being replaced.
* `provider_receipt`: the provider's finalization sets `acceptance` to pass
  before it sets `completed` (`finalization.py:274-275`); a signal in between is
  saved as an interrupted receipt that passed, which its own strict reader
  refuses.

More were met while modelling.  The models contain the steps; no run is spent
on them.  In the OCaml services:

* A probe of the activity lock takes the lock for an instant, so one of two
  readers of a dead writer's journal may once be told of a live writer
  (`observation_stubs.c:24`; `docs/development/flow-journal.md:75`).  `NoLostTail`
  and `WatchesEnd` hold regardless: it polls again.
* A raising signal handler between `mkdir staging` and `owned := Some staging`
  leaves the staging directory although `checkpoint_publisher.mli:50` promises
  cleanup of interruptions (`checkpoint_publisher.ml:85`).
* The finalization reads the selected execution before it hashes it
  (`finalization_service.ml:106-108`): a replacement between the two passes the
  later check for changes at line 211.
* The OCaml archive's output is looked at last before it is moved away
  (`archive_service.ml:412-416`): an entry its user adds in between goes with the
  backup.  `AddEntry` has no guard but that the output exists; `late` has what
  came in that window, and `EntriesSurvive`, `MovesUnlessForced` and
  `OnlyLateEntriesGo` say that nothing else is lost, and nothing by a failure.

In the provider, where a property states the exception it makes:

* `archive.py:266-268` says the bytes an archive carries are provably those that
  passed.  That holds of the bundle; the layout a postcheck pinned is read again
  when it is packed and not compared, so one that changes after it was verified
  is packed changed (`drifted` in `ArchiveIsThePinned`, which no other change
  sets).
* A file its reader adds to the output between the listing (`archive.py:336`) and
  the rename (line 352) goes with the backup (`added` in `ReadersFilesSurvive`).
  When the way back fails as well, the output stays under its backup name
  (`unrestored`).
* The reply's evidence names the state, resolved, closure and segment files
  (`backend_protocol.py:125-127,180-181,196-198`) and no view: a view that is
  rewritten before `checkpoint.publish` copies it is published rewritten
  (`"views"` in `PublishedIsAnswered`).  Metadata rewritten while it is copied is
  sealed as copied, and a closure rewritten before the reply is answered for
  (`"copying"`, `"unanswered"`).
* A signal between the rename and `promoted = True` (`checkpoint.py:250-251`)
  leaves a whole published checkpoint although `publish` raised
  (`FailureLeavesNothing`).
* A signal between the fork inside `Popen` and the assignment of the process
  (`phase4.py:232`, `ocaml_backend.py:96`) leaves a session or a helper that
  nobody knows (`known` in `LeavesNothing`, `early` in `NoHelperLeft`).  These
  two are the hazards that no property of the project catches.
* `subprocess.run` has the same window before its `try`, and kills a helper only
  after the first signal: three in a row, at its wait, its kill and its reap,
  leave one (`ocaml_backend.py:201,224,247`; `early` and `raised` in
  `NoHelperLeft`).  One or two at these places leave none.
* The engine that `verify_engine` accepted (`stages.py:195`) may be replaced
  before `docker run` reaches it (`disturbed` in `LaunchedAsJudged`).
* A signal between a promotion and the counter makes the writer's next name a
  taken one (`flow_observation.py:287-290`); the append fails, and
  the run ends without the rest of its journal (`RaisedIsRecorded`).
* With several corners, the timing analysis copies a netlist that nobody hashes
  again afterwards (`CompletedIsEveryCorner` claims it of one corner only).

## 8. What is not modelled

Inside the modelled parts: messages, durations, exit-code numbers that follow
from a kind, JSON layout, hashing (equality of contents), command lines.
Checkpoint and record codecs are one predicate (`Decodes`, `Intact`,
`Validates`) where a property depends on them and left out elsewhere.  A file
save of the OCaml services is atomic: it replaces the file or leaves it, and may
do the former and still raise; that is `Result_store.save`'s write-and-rename.
In the provider, too, a save is one step; a signal may come before or after it.

Of the provider: `presentation.py` and the printing halves of `cli.py` and
`report.py`; identities, paths and argument parsing; the scripts that run inside
the container (`probe.py`, `stage_metadata_probe.py`, `macro_flow.py`), which
print what LibreLane tells them and are one external answer here; parsers of
layouts, netlists and tool reports; the one-shot `inspect` of a journal; the
comparison of two reports.

Of the declaration: the other checks of `resolve` (target, settings, placement,
collateral), which are one step that may fail; what a timing stage adds to a
context; the order of fields in a contract, the syntax of identifiers; a name
that Hardcaml mangles, which to `resolve_macros` is an instance with another
label.  Recipes, platform data and catalogues are planned below.

Not modelled at all: bundle emission, generated Tcl and
Verilog (text), the OCaml segment service, result store and evidence services
beyond what the provider's modules say of the same protocol, the toolchain
scripts, the experiments.

## 9. Plan

Done so far: the OCaml execution services; the Python provider; elaboration,
selection and the memory; and the proofs of every safety property of these.
Next, most important first; new modules join an existing run where they can be
one of its alternatives.

1. The OCaml `SegmentService` (call, invoke, publish) against the protocol of
   `ProviderSegment`, and `ResultStore` (allocation under collisions) as the
   refinement of the save step.
2. `Recipes` and `Acceptance` (which evidence makes a pass): operators against
   reference definitions.
3. Retained-record decoders against what the services write; resource and
   timing reconciliation.
4. Bundle emission: concurrent publishers of one directory.
5. `Workflow`: stage attempt, finalization and archive of one run over the same
   directory, with a crash between any two.

Theorems: with each of these its inductive invariant, in `OperationsProofs`,
`EvidenceProofs` or a part of its own; first that `ProviderSegment` implements
the promise `SegmentService` shares with it, step by step.
