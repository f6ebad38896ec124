---------------------------- MODULE ProviderPlan ----------------------------
(***************************************************************************)
(* flow/hardcaml_asic_flow/execution_plan.py, StagePlan, and what becomes  *)
(* of an accepted recipe: its transitions pass three gates, each with a    *)
(* table of its own - the checkpoint's reader (checkpoint.py), the wire    *)
(* contract (backend_protocol.py) and the bridge (librelane_bridge.py).    *)
(***************************************************************************)
EXTENDS Naturals, Sequences

CONSTANT None

STAGE_ORDER == <<"synthesis", "floorplan", "placement", "cts", "routing", "timing", "signoff">>
BOUNDARIES == {STAGE_ORDER[i] : i \in 1..7}
LEGACY_STAGE_ORDER == <<"synthesis", "floorplan", "placement", "cts", "routing", "signoff">>

(* execution_plan.py; the checkpoint's manifest repeats it.                *)
RESTART_TARGETS ==
  [synthesis |-> {"floorplan", "placement"}, floorplan |-> {"placement"}, placement |-> {"cts"},
   cts |-> {"routing"}, routing |-> {"timing"}, timing |-> {"signoff"}, signoff |-> {}]

(* backend_protocol.py, which admits one transition of history.            *)
TRANSITIONS == [RESTART_TARGETS EXCEPT !["routing"] = @ \cup {"signoff"}]

(* Mutant: the bridge admits what the protocol does.                       *)
ProtocolTargets == TRANSITIONS

(* librelane_bridge.py.                                                    *)
BridgeTargets == RESTART_TARGETS

(* None, no predecessor and no refusal, is neither a boundary nor a gate.  *)
NoneIsNew == None \notin BOUNDARIES \cup {"plan", "adapter", "checkpoint", "protocol", "bridge"}

VARIABLES
  pc,
  recipe,     \* [schema, stages, initial] as it was asked for
  historical, \* the initial checkpoint is a routing one that names signoff
  at,         \* the stage of the sequence that is next
  ran,        \* transitions the bridge started: <<source, stage>>
  refused     \* None or the gate that refused

vars == <<pc, recipe, historical, at, ran, refused>>

(* Sequences in order with stages left out, all of them too: all a caller  *)
(* could mean.                                                             *)
Sequences == {SelectSeq(STAGE_ORDER, LAMBDA s : s \in chosen) : chosen \in SUBSET BOUNDARIES}

Init ==
  /\ pc = "resolve"
  /\ recipe \in [schema : {3, 4}, stages : Sequences, initial : BOUNDARIES \cup {None}]
            \cup [schema : {2}, stages : {<<b>> : b \in BOUNDARIES}, initial : {"synthesis", None}]
  /\ historical \in IF recipe.initial = "routing" THEN BOOLEAN ELSE {FALSE}
  /\ at = 1 /\ ran = <<>> /\ refused = None

Endpoint == recipe.stages[Len(recipe.stages)]
Order == IF recipe.schema = 4 THEN STAGE_ORDER ELSE LEGACY_STAGE_ORDER
Position(order, s) == CHOOSE i \in DOMAIN order : order[i] = s

(* Mutant: any stages in order will do.                                    *)
InOrder(start) == start + Len(recipe.stages) \in Nat

Contiguous(start) ==
  /\ start + Len(recipe.stages) <= Len(Order)
  /\ \A i \in 1..Len(recipe.stages) : recipe.stages[i] = Order[start + i]

(* __post_init__: a legacy recipe is an endpoint, an explicit one a run of *)
(* stages that begins where its initial boundary ends.                     *)
Accepted ==
  /\ recipe.stages \in Seq(BOUNDARIES) /\ recipe.stages # <<>>
  /\ ~(recipe.initial # None /\ Endpoint = "synthesis")
  /\ IF recipe.schema = 2 THEN Endpoint # "timing"
     ELSE IF recipe.initial = None THEN Contiguous(0)
     ELSE /\ recipe.initial # "signoff"
          /\ \E i \in DOMAIN Order : Order[i] = recipe.initial
          /\ Contiguous(Position(Order, recipe.initial))

Sequence ==
  IF recipe.schema = 2
    THEN SubSeq(Order, IF recipe.initial = None THEN 1 ELSE 2, Position(Order, Endpoint))
    ELSE recipe.stages

Source == IF at = 1 THEN recipe.initial ELSE Sequence[at - 1]
Stage == Sequence[at]

Resolve ==
  /\ pc = "resolve"
  /\ IF Accepted THEN pc' = "handoff" /\ UNCHANGED refused
                 ELSE pc' = "over" /\ refused' = "plan"
  /\ UNCHANGED <<recipe, historical, at, ran>>

-----------------------------------------------------------------------------
(* The three gates of a transition.                                        *)
Restartable ==
  \/ Stage \in RESTART_TARGETS[Source]
  \/ at = 1 /\ historical /\ Stage = "signoff"

Requestable == Stage \in TRANSITIONS[Source]

Continuable == Stage \in BridgeTargets[Source]

(* run_segment: a fresh start is synthesis and nothing else.               *)
Handoff ==
  /\ pc = "handoff"
  /\ refused' = IF Source = None THEN IF Stage = "synthesis" THEN None ELSE "adapter"
                ELSE IF Stage = "synthesis" THEN "adapter"
                ELSE IF ~Restartable THEN "checkpoint"
                ELSE IF ~Requestable THEN "protocol"
                ELSE IF ~Continuable THEN "bridge" ELSE None
  /\ IF refused' = None THEN pc' = "run" /\ ran' = Append(ran, <<Source, Stage>>)
                        ELSE pc' = "over" /\ UNCHANGED ran
  /\ UNCHANGED <<recipe, historical, at>>

(* The segment was run and published; the next one starts from it.         *)
Advance ==
  /\ pc = "run"
  /\ IF at < Len(Sequence) THEN at' = at + 1 /\ pc' = "handoff"
                           ELSE pc' = "over" /\ UNCHANGED at
  /\ UNCHANGED <<recipe, historical, ran, refused>>

Next == Resolve \/ Handoff \/ Advance

Spec == Init /\ [][Next]_vars

-----------------------------------------------------------------------------
(* Whatever the schema and however old the checkpoint, the bridge never    *)
(* starts a stage from anything but its predecessor ("required Classic     *)
(* stages cannot be skipped", StagePlan.__post_init__).                    *)
NoStageIsSkipped ==
  \A i \in DOMAIN ran :
    IF ran[i][1] = None THEN ran[i][2] = "synthesis"
    ELSE Position(STAGE_ORDER, ran[i][2]) = Position(STAGE_ORDER, ran[i][1]) + 1

(* A current recipe that was accepted is refused by none of the gates: the *)
(* four tables agree on it (resolve_sequence).                             *)
AcceptedIsServed ==
  recipe.schema = 4 /\ ~historical /\ pc = "over" /\ refused # "plan" =>
    refused = None /\ Len(ran) = Len(recipe.stages)
=============================================================================
