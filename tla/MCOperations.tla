---------------------------- MODULE MCOperations ----------------------------
(***************************************************************************)
(* Model-checking instance of the operations that a command runs on their  *)
(* own: a finalization, a preparation, a preflight, publishers of an       *)
(* archive, the reduction of a stream of events, the elaborations of a     *)
(* project, or a memory that was elaborated, clock by clock.  `op' says    *)
(* which; the variables of the others stay None.  What is checked here is  *)
(* said in, and of, the module of each operation.                          *)
(***************************************************************************)
EXTENDS Cancellation, Sequences

CONSTANTS MaxVersions,
          Publishers, Evidence, Entries, MaxChanges,
          N, Marks,
          Scopes, Names, Requests, Exact, Policies, Technologies,
          Width, Depths

ASSUME NIsPositive == N \in Nat \ {0}

(* What is declared and elaborated: a memory in each of two nested scopes, *)
(* rules that overlap, and technologies with the stock macro or without.   *)
Core == <<"core">>
Alu == <<"core", "alu">>
NestedScopes == {Core, Alu}

RuleOf(selector, requirement) == [selector |-> selector, requirement |-> requirement]
OverlappingRules ==
  [default : {None, "exact_or_flop_fallback"},
   rules : SUBSET {RuleOf([instance |-> [path |-> Alu, name |-> "ram"]], "exact"),
                   RuleOf([subtree |-> Core], "flops"),
                   RuleOf([subtree |-> Alu], "exact_or_flop_fallback")}]

WithOrWithoutStock == {[r \in Requests |-> IF r = Exact THEN stock ELSE "other"] : stock \in {"stock", None}}

VARIABLES op, pc,
  disk, rec, sig,
  accept, inner, cause, check, exec, hashed, heard,
  snapshot, committing, deferred, masked, callerMask,
  pending, recorded, delivered, sends,
  round, signal, status, exit, report, errors,
  reportPublished, receiptPublished, reportFile, receiptFile, receipt,
  force, source, digest, output, staging, backup, lock, made, late,
  stream,
  default, rules, technology, mode, state,
  records, circuit, projects, refused,
  depth, backend, words, inputs, read_data, written

F == INSTANCE Finalization
P == INSTANCE Preparation
R == INSTANCE Preflight
A == INSTANCE ArchivePublication
O == INSTANCE Observation
E == INSTANCE Elaboration
M == INSTANCE SinglePortRam

(* What the modules take for granted of the constants: the policies and    *)
(* technologies are some, None is nothing that it stands beside, and the   *)
(* bounds are numbers.                                                     *)
ConstantsAreTyped ==
  /\ Scopes \subseteq Seq(STRING)
  /\ Policies \subseteq [default : E!Requirements \cup {None}, rules : SUBSET E!Rules]
  /\ Technologies \subseteq [Requests -> E!Macros \cup {None}]
  /\ None \notin E!Selectors \cup E!Requirements \cup E!Macros \cup {"open", "failed", "finalized"}

ASSUME ElaborationIsTyped == ConstantsAreTyped

ASSUME NoneIsNew ==
  /\ None \notin {0, 1, 130} /\ None \notin P!Diagnostics
  /\ None \notin Publishers /\ None \notin A!Directories
  /\ None \notin M!Words

ASSUME MemoriesAreConfigured == M!ConfigIsValid

ASSUME BoundsAreNumbers == MaxVersions \in Nat /\ MaxChanges \in Nat

recordsVars == <<disk, rec, sig>>
finalizationVars == <<accept, inner, cause, check, exec, hashed, heard>>
preparationVars == <<snapshot, committing, deferred, masked, callerMask,
                     pending, recorded, delivered, sends>>
preflightVars == <<round, signal, status, exit, report, errors,
                   reportPublished, receiptPublished, reportFile,
                   receiptFile, receipt>>
archiveVars == <<force, source, digest, output, staging, backup, lock,
                 made, late>>
observationVars == <<stream>>
elaborationVars == <<default, rules, technology, mode, state, records,
                     circuit, projects, refused>>
memoryVars == <<depth, backend, words, inputs, read_data, written>>
opVars == <<op, pc, recordsVars, finalizationVars, preparationVars,
            preflightVars, archiveVars,
            observationVars, elaborationVars, memoryVars>>

NoRecord ==
  /\ disk = None /\ rec = None /\ sig = None

NoFinalization ==
  /\ accept = None /\ inner = None /\ cause = None /\ check = None
  /\ exec = None /\ hashed = None /\ heard = None

NoPreparation ==
  /\ snapshot = None /\ committing = None /\ deferred = None
  /\ masked = None /\ callerMask = None /\ pending = None
  /\ recorded = None /\ delivered = None /\ sends = None

NoPreflight ==
  /\ round = None /\ signal = None /\ status = None /\ exit = None
  /\ report = None /\ errors = None /\ reportPublished = None
  /\ receiptPublished = None /\ reportFile = None /\ receiptFile = None
  /\ receipt = None

NoArchive ==
  /\ force = None /\ source = None /\ digest = None /\ output = None
  /\ staging = None /\ backup = None /\ lock = None /\ made = None
  /\ late = None

NoObservation ==
  /\ stream = None

NoElaboration ==
  /\ default = None /\ rules = None /\ technology = None /\ mode = None
  /\ state = None /\ records = None /\ circuit = None /\ projects = None
  /\ refused = None

NoMemory ==
  /\ depth = None /\ backend = None /\ words = None /\ inputs = None
  /\ read_data = None /\ written = None

Init ==
  \/ /\ op = "finalization" /\ F!Init
     /\ NoPreparation /\ NoPreflight /\ NoArchive /\ NoObservation
     /\ NoElaboration /\ NoMemory
  \/ /\ op = "preparation" /\ P!Init
     /\ NoFinalization /\ NoPreflight /\ NoArchive /\ NoObservation
     /\ NoElaboration /\ NoMemory
  \/ /\ op = "preflight" /\ R!Init
     /\ NoRecord /\ NoFinalization /\ NoPreparation /\ NoArchive
     /\ NoObservation /\ NoElaboration /\ NoMemory
  \/ /\ op = "archive" /\ A!Init
     /\ NoRecord /\ NoFinalization /\ NoPreparation /\ NoPreflight
     /\ NoObservation /\ NoElaboration /\ NoMemory
  \/ /\ op = "observation" /\ O!Init
     /\ pc = None /\ NoRecord /\ NoFinalization /\ NoPreparation
     /\ NoPreflight /\ NoArchive /\ NoElaboration /\ NoMemory
  \/ /\ op = "elaboration" /\ E!Init
     /\ NoRecord /\ NoFinalization /\ NoPreparation /\ NoPreflight
     /\ NoArchive /\ NoObservation /\ NoMemory
  \/ /\ op = "memory" /\ M!Init
     /\ pc = None /\ NoRecord /\ NoFinalization /\ NoPreparation
     /\ NoPreflight /\ NoArchive /\ NoObservation /\ NoElaboration

Next ==
  \/ /\ op = "finalization" /\ F!Next
     /\ UNCHANGED <<op, preparationVars, preflightVars, archiveVars,
                    observationVars, elaborationVars, memoryVars>>
  \/ /\ op = "preparation" /\ P!Next
     /\ UNCHANGED <<op, finalizationVars, preflightVars, archiveVars,
                    observationVars, elaborationVars, memoryVars>>
  \/ /\ op = "preflight" /\ R!Next
     /\ UNCHANGED <<op, recordsVars, finalizationVars, preparationVars,
                    archiveVars, observationVars, elaborationVars,
                    memoryVars>>
  \/ /\ op = "archive" /\ A!Next
     /\ UNCHANGED <<op, recordsVars, finalizationVars, preparationVars,
                    preflightVars, observationVars, elaborationVars,
                    memoryVars>>
  \/ /\ op = "observation" /\ O!Next
     /\ UNCHANGED <<op, pc, recordsVars, finalizationVars,
                    preparationVars, preflightVars, archiveVars,
                    elaborationVars, memoryVars>>
  \/ /\ op = "elaboration" /\ E!Next
     /\ UNCHANGED <<op, recordsVars, finalizationVars, preparationVars,
                    preflightVars, archiveVars, observationVars,
                    memoryVars>>
  \/ /\ op = "memory" /\ M!Next
     /\ UNCHANGED <<op, pc, recordsVars, finalizationVars,
                    preparationVars, preflightVars, archiveVars,
                    observationVars, elaborationVars>>

Spec == Init /\ [][Next]_opVars

-----------------------------------------------------------------------------
(* The records an operation leaves.  A receipt on disk is one the strict   *)
(* reader accepts, at every moment, and a completed finalization earned    *)
(* its acceptance and missed no signal it could still have seen.  The      *)
(* strict reader accepts what a preparation is about to commit, a          *)
(* completed one has its snapshot, and a signal sent during it interrupts  *)
(* it or reaches its caller.  What a preflight says it published is on     *)
(* disk, as it says, it says ready only with everything stored, and every  *)
(* signal that a look still follows interrupts it.                         *)
RecordsAreHonest ==
  /\ op = "finalization" => F!ReceiptsDecode /\ F!CompletionIsEarned
  /\ op = "preparation" => P!HonestRecordsDecode /\ P!SignalsAccountedFor
  /\ op = "preflight" => R!FlagsDescribeTheFiles /\ R!OutcomeIsHonest

(* "A writable report can disclose the failed receipt" (of a preflight).   *)
StaleReadyIsReplaced == op = "preflight" => R!StaleReadyIsReplaced

(* What stands at an output is one publisher's whole archive, and an entry *)
(* of the output's user survives every publisher, unless it was added      *)
(* between the listing and the swap of one.                                *)
ArchivesAreWhole == op = "archive" => A!ArchivesAreWhole /\ A!EntriesSurvive

(* However the events of a stream come, what is accepted of them tells of  *)
(* a plan that is followed in order, with every success earned.            *)
ProgressIsEarned == op = "observation" => O!ProgressIsAPrefix /\ O!SuccessIsEarned

(* Whatever a constructor registers, catches, drops or instantiates by     *)
(* hand: every resource has what the most specific rule asks, a project    *)
(* has refused nothing and has no rule that decided nothing, and a         *)
(* resolved flow has the macros of its inventory and no others.            *)
ElaborationsAreEarned ==
  op = "elaboration" => E!PolicyIsFollowed /\ E!ProjectsAreEarned /\ E!InventoryIsBuilt

(* Whatever a memory was built of and whatever is driven at its port, it   *)
(* keeps what it promised its consumer.                                    *)
MemoriesKeepTheContract ==
  /\ op = "memory" => M!Contract!Init
  /\ [][op = "memory" => M!Contract!Next]_opVars

(* What a publisher was not told to replace is not moved away, but for     *)
(* what was added since it looked; an entry of the user goes only in a     *)
(* publication that succeeds, and only one that came late for it; what a   *)
(* stream has said stays said, and a context that is closed stays as it    *)
(* is.                                                                     *)
NothingIsTakenBack ==
  [][/\ op = "archive" => A!MovesUnlessForced /\ A!OnlyLateEntriesGo
     /\ op = "observation" => O!Unrevised
     /\ op = "elaboration" => E!ClosedStaysClosed]_opVars
=============================================================================
