-------------------------- MODULE ProviderRuntime --------------------------
(***************************************************************************)
(* From a declared runtime to a launched one: the contract a bundle or the *)
(* provisioning lock states (runtime_contract.py), what is observed of the *)
(* host and of the image (runtime_observation.py), phase4.preflight, which *)
(* judges one by the other, and the transport that launches what was       *)
(* observed (execution_transport.py, stages.prepare).                      *)
(*                                                                         *)
(* A tag moves and a daemon is replaced while all this goes on; what an    *)
(* image ID names does not change.                                         *)
(***************************************************************************)
EXTENDS Cancellation, Sequences, FiniteSets

CONSTANTS MaxChanges,  \* bound: moves of the tag and changes of the daemon
          MaxSegments  \* bound: launches of one prepared run

Images == {"a", "b"}
Engines == {[version |-> "v1", id |-> "d1"], [version |-> "v2", id |-> "d1"], [version |-> "v1", id |-> None]}
Pythons == {"exact", "supported", "unsupported", "malformed"}
(* A LibreLane distribution: as declared or not, and where its metadata is *)
(* found: by an isolated interpreter, through the image's own path, never. *)
(* One thing is wrong at a time.                                           *)
Contents ==
  {c \in [python : Pythons, package : {"exact", "otherVersion", "otherRequires"},
          metadata : {"isolated", "owned", "absent"}] :
     "exact" \in {c.python, c.package} /\ (c.metadata = "absent" => c.python = "exact" /\ c.package = "exact")}
Hosts == {h \in [python : Pythons, sound : BOOLEAN] : h.sound \/ h.python = "exact"}
Isolated == "-I -B"
Owned == "-B"

(* None, which is what is not known yet, is nothing that may be known.     *)
NoneIsNew == None \notin Contents \cup {"ready", "done", "asked", "standing", "metadata", "missing"}

VARIABLES
  pc,
  mode,      \* "native" or "docker" readiness, "stages", or "provision"
  policy,    \* "legacy", "declared", or "bad": contradictory or malformed
  waive,     \* allow_python_mismatch
  tag, engine,         \* what the reference names, what the executable reaches
  contents,  \* what is in each image, None before anybody looked
  issue,     \* an issue is in the report
  host, container,     \* observations, None while there are none
  identity,  \* the engine and image the container's observation is about
  flags,     \* of the probe that runs, then of the observation
  probe,     \* the probe's container: None, "asked", "standing"
  answer,    \* how the probe's client ended
  binding,   \* None, or what launches are bound to
  launches,  \* what was run
  disturbed, \* the world changed after this launch was verified
  sent, changes, outcome

vars == <<pc, mode, policy, waive, tag, engine, contents, issue, host, container, identity, flags,
          probe, answer, binding, launches, disturbed, sent, changes, outcome>>
given == <<mode, policy, waive>>
world == <<tag, engine, changes>>
observed == <<host, container, identity, flags>>
probing == <<probe, answer>>
launched == <<binding, launches, disturbed>>

Init ==
  /\ mode \in {"native", "docker", "stages", "provision"}
  /\ policy \in {"declared", "bad"} \cup (IF mode = "provision" THEN {} ELSE {"legacy"})
  /\ waive \in IF mode \in {"native", "docker"} THEN BOOLEAN ELSE {FALSE}
  /\ pc = "policy"
  /\ tag = "a" /\ engine \in Engines   \* as good as "b"
  /\ contents = [i \in Images |-> None]
  /\ issue = FALSE /\ host = None /\ container = None /\ identity = None /\ flags = None
  /\ probe = None /\ answer = None /\ binding = None /\ launches = <<>> /\ disturbed = FALSE
  /\ sent = 0 /\ changes = 0 /\ outcome = None

Go(to) == pc' = to
Over(what) == pc' = "over" /\ outcome' = what

-----------------------------------------------------------------------------
(* A bad contract ends it all.                                             *)
ParseRequested ==
  /\ pc = "policy" /\ mode # "provision"
  /\ IF policy = "bad" THEN Over("refused") ELSE Go("collateral") /\ UNCHANGED outcome
  /\ UNCHANGED <<given, world, contents, issue, observed, probing, launched, sent>>

(* The provisioning lock states one too; it has no historical form.        *)
ParseLock ==
  /\ pc = "policy" /\ mode = "provision"
  /\ IF policy = "bad" THEN Over("refused") ELSE Go("engine") /\ UNCHANGED outcome
  /\ UNCHANGED <<given, world, contents, issue, observed, probing, launched, sent>>

(* preflight: files, revisions and references are as the bundle says.      *)
CheckCollateral ==
  /\ pc = "collateral"
  /\ issue' \in BOOLEAN
  /\ Go("host")
  /\ UNCHANGED <<given, world, contents, observed, probing, launched, sent, outcome>>

(* sound: LibreLane is the exact one and Tcl is ready.                     *)
ObserveHost ==
  /\ pc = "host"
  /\ \/ host' \in Hosts /\ UNCHANGED issue
     \/ issue' = TRUE /\ UNCHANGED host
  /\ Go(IF mode = "native" THEN "evaluate" ELSE "engine")
  /\ UNCHANGED <<given, world, contents, container, identity, flags, probing, launched, sent, outcome>>

(* The container could not be observed.                                    *)
Unobserved ==
  /\ issue' = TRUE
  /\ IF mode = "provision" THEN Over("unobserved") ELSE Go("evaluate") /\ UNCHANGED outcome

ObserveEngine ==
  /\ pc = "engine"
  /\ \/ identity' = [engine |-> engine, image |-> None] /\ Go("image") /\ UNCHANGED <<issue, outcome>>
     \/ Unobserved /\ UNCHANGED identity
  /\ UNCHANGED <<given, world, contents, host, container, flags, probing, launched, sent>>

(* The tag is resolved this once.                                          *)
InspectImage ==
  /\ pc = "image"
  /\ \/ identity' = [identity EXCEPT !.image = tag] /\ flags' = Isolated
        /\ Go("probe") /\ UNCHANGED <<issue, outcome>>
     \/ Unobserved /\ UNCHANGED <<identity, flags>>
  /\ UNCHANGED <<given, world, contents, host, container, probing, launched, sent>>

-----------------------------------------------------------------------------
(* A probe: docker run, whatever became of it docker rm -f.                *)
StartProbe ==
  /\ pc = "probe"
  /\ probe' = "asked" /\ answer' = None
  /\ Go("ask")
  /\ UNCHANGED <<given, world, contents, issue, observed, launched, sent, outcome>>

DaemonCreates ==
  /\ probe = "asked"
  /\ probe' = "standing"
  /\ UNCHANGED <<pc, given, world, contents, issue, observed, answer, launched, sent, outcome>>

(* Mutant: the probe runs the declared reference.                          *)
ByTag == tag

Probed == identity.image

Visible(content, how) == content.metadata = "isolated" \/ (content.metadata = "owned" /\ how = Owned)

(* The container ran to its end, and --rm removed it.                      *)
ProbeAnswers ==
  /\ pc = "ask" /\ probe = "standing"
  /\ contents' \in {[contents EXCEPT ![Probed] = c] : c \in IF contents[Probed] = None THEN Contents ELSE {contents[Probed]}}
  /\ LET found == contents'[Probed]
     IN  IF Visible(found, flags) THEN answer' = "metadata" /\ container' = found
                                  ELSE answer' = "missing" /\ UNCHANGED container
  /\ probe' = None
  /\ Go("remove")
  /\ UNCHANGED <<given, world, issue, host, identity, flags, launched, sent, outcome>>

(* Its time is up or it failed: the client is gone, not the container.     *)
ProbeFails ==
  /\ pc = "ask"
  /\ answer' = "failed" /\ Go("remove")
  /\ UNCHANGED <<given, world, contents, issue, observed, probe, launched, sent, outcome>>

(* What the finally clause goes on to: answers, another probe, an error.   *)
AfterProbe ==
  CASE answer = "metadata" -> Go("evaluate") /\ UNCHANGED <<issue, outcome, flags>>
    [] answer = "missing" /\ flags = Isolated -> flags' = Owned /\ Go("probe") /\ UNCHANGED <<issue, outcome>>
    [] answer = "signal" -> Over("raised") /\ UNCHANGED <<issue, flags>>
    [] OTHER -> Unobserved /\ UNCHANGED flags

(* `No such container' is fine; a removal that failed otherwise is told,   *)
(* and what was observed, or the signal that came, is lost with it.        *)
RemoveProbe ==
  /\ pc = "remove"
  /\ \/ probe' = (IF probe = "standing" THEN None ELSE probe) /\ AfterProbe /\ UNCHANGED <<answer, container>>
     \/ answer' = "unremoved" /\ container' = None /\ Unobserved /\ UNCHANGED <<probe, flags>>
  /\ UNCHANGED <<given, world, contents, host, identity, launched, sent>>

-----------------------------------------------------------------------------
(* runtime_contract.evaluate.  Only a well-formed version that an          *)
(* historical bundle does not admit is ever waived.                        *)
PythonPasses(python, exact) == python = "exact" \/ (~exact /\ python = "supported")

(* Mutant: the flag alone decides.                                         *)
AnyPolicy(python) == waive

Waivable(python) == waive /\ policy = "legacy" /\ python # "malformed"

HostAdmitted ==
  host # None /\ host.sound /\ (PythonPasses(host.python, TRUE) \/ Waivable(host.python))

ContainerAdmitted(c) ==
  /\ c # None
  /\ PythonPasses(c.python, policy = "legacy") \/ Waivable(c.python)
  /\ c.package # "otherVersion"
  /\ policy = "declared" => c.package = "exact"

Passes ==
  CASE mode = "native" -> HostAdmitted
    [] mode = "provision" -> ContainerAdmitted(container)
    [] OTHER -> HostAdmitted /\ ContainerAdmitted(container)

(* What launches are bound to; the engine always has to tell its version.  *)
FromPreflight ==
  IF mode \in {"docker", "stages"} /\ container # None
  THEN [identity |-> identity, flags |-> flags] ELSE None

Evaluate ==
  /\ pc = "evaluate"
  /\ LET ready == ~issue /\ Passes
     IN  /\ issue' = ~ready
         /\ binding' = FromPreflight
         /\ IF mode = "stages" /\ ready THEN Go("prepare") /\ UNCHANGED outcome
            ELSE Over(IF ready THEN "ready" ELSE "notReady")
  /\ UNCHANGED <<given, world, contents, observed, probing, launches, disturbed, sent>>

-----------------------------------------------------------------------------
(* execution_transport: what was told of the engine must still be so.      *)
SameEngine ==
  \A key \in DOMAIN engine :
    binding.identity.engine[key] # None => engine[key] = binding.identity.engine[key]

(* stages.prepare: engine and image, then a new workspace or an old one's  *)
(* checkpoint.                                                             *)
Prepare ==
  /\ pc = "prepare"
  /\ IF SameEngine THEN (Go("launch") /\ UNCHANGED outcome) \/ Over("refused") ELSE Over("refused")
  /\ disturbed' = FALSE
  /\ UNCHANGED <<given, world, contents, issue, observed, probing, binding, launches, sent>>

(* Mutant: only the first segment looks.                                   *)
VerifyOnce == launches # <<>> \/ SameEngine

VerifyEngine == SameEngine

Verify ==
  /\ pc = "launch"
  /\ IF VerifyEngine THEN (Go("run") /\ UNCHANGED outcome) \/ Over("refused") ELSE Over("refused")
  /\ UNCHANGED <<given, world, contents, issue, observed, probing, launched, sent>>

(* docker_command: by ID, with the flags that were observed to work.       *)
Launch ==
  /\ pc = "run"
  /\ launches' = Append(launches, [image |-> binding.identity.image, flags |-> binding.flags,
                                   engine |-> engine, disturbed |-> disturbed])
  /\ disturbed' = FALSE
  /\ IF Len(launches') < MaxSegments THEN (Go("launch") /\ UNCHANGED outcome) \/ Over("done") ELSE Over("done")
  /\ UNCHANGED <<given, world, contents, issue, observed, probing, binding, sent>>

-----------------------------------------------------------------------------
(* A signal; a probe's finally clause still runs, unless it is in it.      *)
Interrupt ==
  /\ pc # "over" /\ sent < MaxSignals
  /\ sent' = sent + 1
  /\ IF pc = "ask" THEN answer' = "signal" /\ Go("remove") /\ UNCHANGED outcome
                   ELSE Over("raised") /\ UNCHANGED answer
  /\ UNCHANGED <<given, world, contents, issue, observed, probe, launched>>

(* Somebody tags another image, or restarts or replaces the daemon.        *)
Disturb ==
  /\ pc # "over" /\ changes < MaxChanges
  /\ changes' = changes + 1
  /\ disturbed' = (pc = "run")
  /\ \/ tag' \in Images \ {tag} /\ UNCHANGED engine
     \/ engine' \in Engines \ {engine} /\ UNCHANGED tag
  /\ UNCHANGED <<pc, given, contents, issue, observed, probing, binding, launches, sent, outcome>>

Next ==
  \/ ParseRequested \/ ParseLock \/ CheckCollateral \/ ObserveHost \/ ObserveEngine \/ InspectImage
  \/ StartProbe \/ DaemonCreates \/ ProbeAnswers \/ ProbeFails \/ RemoveProbe
  \/ Evaluate \/ Prepare \/ Verify \/ Launch \/ Interrupt \/ Disturb

Spec == Init /\ [][Next]_vars

-----------------------------------------------------------------------------
(* What is launched is what was judged, wherever the tag went since: the   *)
(* image whose metadata was read and admitted, with the flags that found   *)
(* it there, on an engine that still is all that was told of it, unless it *)
(* changed between being verified for this launch and the launch ("probes  *)
(* bind to the local image ID", runtime_observation.py; stages.launch).    *)
LaunchedAsJudged ==
  \A i \in DOMAIN launches :
    LET l == launches[i]
    IN  /\ contents[l.image] # None
        /\ ContainerAdmitted(contents[l.image]) /\ Visible(contents[l.image], l.flags)
        /\ ~l.disturbed => \A key \in DOMAIN l.engine :
             identity.engine[key] \in {None, l.engine[key]}

(* Ready means that nothing was excused which the bundle's own policy does *)
(* not let anyone excuse, and that no probe is left behind; a probe that   *)
(* is left was told of, or cut short by a signal, or still on its way to   *)
(* the daemon when it was removed (runtime_contract.py: "malformed         *)
(* versions, LibreLane and metadata never admit one").                     *)
ReadyIsJudged ==
  /\ outcome \in {"ready", "done"} =>
       /\ mode # "provision" =>
            host.sound /\ (host.python # "exact" => policy = "legacy" /\ waive /\ host.python # "malformed")
       /\ mode # "native" =>
            /\ probe = None
            /\ contents[identity.image] = container /\ container.package # "otherVersion"
            /\ policy = "declared" => container.python \in {"exact", "supported"} /\ container.package = "exact"
            /\ container.python # "malformed"
  /\ pc = "over" /\ probe = "standing" => sent > 0 \/ answer \in {"unremoved", "failed"}
=============================================================================
