---------------------------- MODULE Elaboration ----------------------------
(***************************************************************************)
(* lib/project.ml, elaboration/context.ml and what they ask of a project's *)
(* policy and technology: the elaborations of one render, an              *)
(* implementation and then a simulation, each with a context of its own,   *)
(* and the resolution of the first, which compares the inventory with the  *)
(* circuit.                                                                *)
(*                                                                         *)
(* Between them runs the project's own constructor, which may register and *)
(* build what it likes in any order, catch what is raised at it, leave an  *)
(* output unconnected, instantiate the macro by hand, and go on using the  *)
(* context of an elaboration that is over.                                 *)
(***************************************************************************)
EXTENDS Naturals, FiniteSets, Sequences, SequencesExt

CONSTANTS Scopes,   \* paths of scopes, outermost label first
          Names,    \* of resources
          Requests, \* kind and contract, Exact being the stock macro's own
          Exact,
          Policies, \* bound: the policies of projects that are tried
          Technologies, \* bound: the mappings of technologies that are tried
          None

Modes == {"implementation", "simulation"}
Ids == [path : Scopes, name : Names]
Macros == {"stock", "other"}

Requirements == {"flops", "exact", "exact_or_flop_fallback"}
Selectors == [instance : Ids] \cup [subtree : Scopes \ {<<>>}]
Rules == [selector : Selectors, requirement : Requirements]

Records == [id : Ids, request : Requests, requirement : Requirements, applied : Selectors \cup {None},
            implementation : Macros \cup {"flops"}, reason : {"explicit_flops", "exact_mapping", "flop_fallback"}]

(* What stands in a circuit: the instance's label, None being any label    *)
(* that is no resource's, and whether the memory's constructor made it.    *)
Cells == [label : Ids \cup {None}, cell : {"stock", "flops", "behavioral"}, made : BOOLEAN]

VARIABLES
  pc,
  default, rules, \* the policy
  technology,     \* the macro each request maps to exactly, or None
  mode,           \* of the elaboration under way
  state,          \* of the context of each elaboration
  records,        \* what is registered in it
  circuit,        \* what the constructor under way, or last, has built
  projects,       \* elaborations that gave a project
  refused         \* history: contexts that refused a registration

policy == <<default, rules, technology>>
contexts == <<state, records>>
vars == <<pc, policy, mode, contexts, circuit, projects, refused>>

-----------------------------------------------------------------------------
(* Policy.Selector, Policy.create and Policy.lookup.                       *)

Matches(s, id) ==
  IF "instance" \in DOMAIN s THEN s.instance = id ELSE IsPrefix(s.subtree, id.path)

(* Mutant: the widest subtree wins.                                        *)
ShallowFirst(s, t) ==
  \/ "instance" \in DOMAIN s
  \/ "subtree" \in DOMAIN s /\ "subtree" \in DOMAIN t /\ Len(s.subtree) <= Len(t.subtree)

(* s is of higher precedence than t, or of the same.                       *)
Outranks(s, t) ==
  \/ "instance" \in DOMAIN s
  \/ "subtree" \in DOMAIN s /\ "subtree" \in DOMAIN t /\ Len(s.subtree) >= Len(t.subtree)

Unambiguous(set) == \A r1, r2 \in set : r1.selector = r2.selector => r1 = r2

Matching(id) == {r \in rules : Matches(r.selector, id)}

(* The rules List.max_elt may choose: one, as Unambiguous(rules).          *)
Deciding(id) == {r \in Matching(id) : \A q \in Matching(id) : Outranks(r.selector, q.selector)}

Lookup(id) ==
  IF Matching(id) # {} THEN {[requirement |-> r.requirement, applied |-> r.selector] : r \in Deciding(id)}
  ELSE IF default # None THEN {[requirement |-> default, applied |-> None]} ELSE {}

(* Selection.select: a choice, or none and that is an error.               *)
Select(requirement, request) ==
  CASE requirement = "flops" -> {[implementation |-> "flops", reason |-> "explicit_flops"]}
    [] requirement # "flops" /\ technology[request] # None ->
         {[implementation |-> technology[request], reason |-> "exact_mapping"]}
    [] requirement = "exact_or_flop_fallback" /\ technology[request] = None ->
         {[implementation |-> "flops", reason |-> "flop_fallback"]}
    [] OTHER -> {}

-----------------------------------------------------------------------------
Init ==
  /\ pc = "begin"
  /\ \E p \in Policies : default = p.default /\ rules = p.rules
  /\ Unambiguous(rules)
  /\ technology \in Technologies
  /\ mode = "implementation"
  /\ state = [m \in Modes |-> None]
  /\ records = [m \in Modes |-> {}]
  /\ circuit = {}
  /\ projects = {}
  /\ refused = {}

(* A fresh context, and circuit, for each elaboration.                     *)
Create ==
  /\ pc = "begin"
  /\ pc' = "construct"
  /\ state' = [state EXCEPT ![mode] = "open"]
  /\ circuit' = {}
  /\ UNCHANGED <<policy, mode, records, projects, refused>>

-----------------------------------------------------------------------------
(* The constructor.  m is the elaboration whose context it holds.          *)

(* What is raised at it, it catches or not.                                *)
Thrown == pc' \in {"construct", "thrown"}

(* Mutant: any context will do.                                            *)
Created(m) == state[m] # None

CheckOpen(m) == state[m] = "open"

UseClosed(m) ==
  /\ pc = "construct" /\ state[m] # None /\ ~CheckOpen(m)
  /\ Thrown
  /\ UNCHANGED <<policy, mode, contexts, circuit, projects, refused>>

(* The record of a request, if nothing is in the way of one.               *)
Candidates(m, id, request) ==
  {r \in UNION {{[id |-> id, request |-> request, requirement |-> f.requirement, applied |-> f.applied,
                  implementation |-> c.implementation, reason |-> c.reason] :
                   c \in Select(f.requirement, request)} : f \in Lookup(id)} :
     \A q \in records[m] : q.id # id}

(* Mutant: a registration that fails leaves the context open.              *)
Leave(m) == UNCHANGED state

Fail(m) == state' = [state EXCEPT ![m] = "failed"]

Refuse(m) ==
  /\ pc = "construct" /\ CheckOpen(m)
  /\ Fail(m)
  /\ refused' = refused \cup {m}
  /\ Thrown
  /\ UNCHANGED <<policy, mode, records, circuit, projects>>

RegistrationFails(m, id, request) == Candidates(m, id, request) = {} /\ Refuse(m)

(* A signal that is no scalar register, or has a stage already.            *)
TimingStageFails(m) == Refuse(m)

(* What Single_port_ram.create builds for a record; nothing for a macro it *)
(* does not know, which it raises after it has registered.                 *)
Built(m, r) ==
  CASE m = "simulation" -> {"behavioral"}
    [] m # "simulation" /\ r.implementation = "flops" -> {"flops"}
    [] m # "simulation" /\ r.implementation = "stock" /\ r.request = Exact -> {"stock"}
    [] OTHER -> {}

Ram(m, id, request) ==
  /\ pc = "construct" /\ CheckOpen(m)
  /\ \E r \in Candidates(m, id, request) :
       /\ records' = [records EXCEPT ![m] = @ \cup {r}]
       /\ circuit' = circuit \cup [label : {id}, cell : Built(m, r), made : {TRUE}]
       /\ IF Built(m, r) = {} THEN Thrown ELSE UNCHANGED pc
  /\ UNCHANGED <<policy, mode, state, projects, refused>>

(* A constructor of the project's own registers and builds nothing here.   *)
Register(m, id, request) ==
  /\ pc = "construct" /\ CheckOpen(m)
  /\ \E r \in Candidates(m, id, request) : records' = [records EXCEPT ![m] = @ \cup {r}]
  /\ UNCHANGED <<pc, policy, mode, state, circuit, projects, refused>>

(* The macro instantiated by hand, with any label.                         *)
Instantiate(label) ==
  /\ pc = "construct" /\ mode = "implementation"
  /\ circuit' = circuit \cup {[label |-> label, cell |-> "stock", made |-> FALSE]}
  /\ UNCHANGED <<pc, policy, mode, contexts, projects, refused>>

(* An exception of the constructor's own, and those it meets before it     *)
(* registers: a bad name, a port of the wrong width, a foreign scope.      *)
Raise ==
  /\ pc = "construct"
  /\ pc' = "thrown"
  /\ UNCHANGED <<policy, mode, contexts, circuit, projects, refused>>

(* The circuit is what the outputs depend on.                              *)
Return ==
  /\ pc = "construct"
  /\ pc' = "returned"
  /\ circuit' \in SUBSET circuit
  /\ UNCHANGED <<policy, mode, contexts, projects, refused>>

-----------------------------------------------------------------------------
(* elaborate_with_phases after the constructor, and what uses it.          *)

(* The construction failed, or the callback of a phase raised.             *)
ConstructionFails ==
  /\ pc \in {"thrown", "returned"}
  /\ pc' = "ended"
  /\ Fail(mode)
  /\ UNCHANGED <<policy, mode, records, circuit, projects, refused>>

Applied(m) == {r.applied : r \in records[m]}

DeadRules == {r \in rules : r.selector \notin Applied(mode)}

Finalize ==
  /\ pc = "returned" /\ CheckOpen(mode) /\ DeadRules = {}
  /\ pc' = IF mode = "implementation" THEN "resolve" ELSE "ended"
  /\ state' = [state EXCEPT ![mode] = "finalized"]
  /\ projects' = projects \cup {mode}
  /\ UNCHANGED <<policy, mode, records, circuit, refused>>

FinalizeFails ==
  /\ pc = "returned" /\ (~CheckOpen(mode) \/ DeadRules # {})
  /\ pc' = "ended"
  /\ Fail(mode)
  /\ UNCHANGED <<policy, mode, records, circuit, projects, refused>>

Selected == {r \in records["implementation"] : r.implementation \in Macros}
Stock == {c \in circuit : c.cell = "stock"}

(* Mutant: a macro somewhere will be that of the record.                   *)
SomeEmitted(r) == Stock # {}

(* One instance has the name of the resource: of two with its label, the   *)
(* renderer renames one.                                                   *)
Emitted(r) == \E c \in Stock : c.label = r.id

Resolve ==
  /\ pc = "resolve"
  /\ \A r \in Selected : r.implementation = "stock" /\ r.request = Exact /\ Emitted(r)
  /\ Cardinality(Stock) = Cardinality(Selected)
  /\ projects' = projects \cup {"flow"}
  /\ \/ pc' = "begin" /\ mode' = "simulation"
     \/ pc' = "ended" /\ UNCHANGED mode
  /\ UNCHANGED <<policy, contexts, circuit, refused>>

(* For what it checks of macros, or for anything else.                     *)
ResolveFails ==
  /\ pc = "resolve"
  /\ pc' = "ended"
  /\ UNCHANGED <<policy, mode, contexts, circuit, projects, refused>>

Next ==
  \/ Create
  \/ \E m \in Modes :
       \/ UseClosed(m) \/ TimingStageFails(m)
       \/ \E id \in Ids, request \in Requests :
            RegistrationFails(m, id, request) \/ Ram(m, id, request) \/ Register(m, id, request)
  \/ \E label \in Ids \cup {None} : Instantiate(label)
  \/ Raise \/ Return
  \/ ConstructionFails \/ Finalize \/ FinalizeFails
  \/ Resolve \/ ResolveFails

Spec == Init /\ [][Next]_vars

-----------------------------------------------------------------------------
TypeOK ==
  /\ pc \in {"begin", "construct", "thrown", "returned", "resolve", "ended"}
  /\ default \in Requirements \cup {None}
  /\ rules \subseteq Rules /\ Unambiguous(rules)
  /\ technology \in Technologies
  /\ mode \in Modes
  /\ state \in [Modes -> {None, "open", "failed", "finalized"}]
  /\ records \in [Modes -> SUBSET Records]
  /\ circuit \subseteq Cells
  /\ projects \subseteq Modes \cup {"flow"}
  /\ refused \subseteq Modes

(* What the policy and the technology make of a resource.                  *)
Followed(r) ==
  /\ IF r.applied = None THEN r.requirement = default /\ Matching(r.id) = {}
     ELSE /\ [selector |-> r.applied, requirement |-> r.requirement] \in Matching(r.id)
          /\ \A q \in Matching(r.id) :
               \/ q.selector = r.applied
               \/ /\ "subtree" \in DOMAIN q.selector
                  /\ "subtree" \in DOMAIN r.applied => Len(q.selector.subtree) < Len(r.applied.subtree)
  /\ r.requirement = "flops" => r.implementation = "flops"
  /\ r.requirement = "exact" => r.implementation \in Macros
  /\ r.implementation \in Macros => technology[r.request] = r.implementation
  /\ r.reason = "flop_fallback" <=> r.implementation = "flops" /\ r.requirement # "flops"

(* Every record has the requirement of the one rule that is most specific  *)
(* to it, or the default where no rule is, and an implementation the       *)
(* requirement and the technology agree on; flops for want of a macro are  *)
(* recorded as such.                                                       *)
PolicyIsFollowed == \A m \in Modes : \A r \in records[m] : Followed(r)

(* A project comes of a context that never refused a registration, however *)
(* the constructor took it, names each resource once and has used every    *)
(* rule of its policy.                                                     *)
ProjectsAreEarned ==
  \A m \in Modes \cap projects :
    /\ state[m] = "finalized" /\ m \notin refused
    /\ \A r1, r2 \in records[m] : r1.id = r2.id => r1 = r2
    /\ \A rule \in rules : \E r \in records[m] : r.applied = rule.selector

(* The macros of a resolved flow are those of its inventory, one instance  *)
(* for each and none besides, whatever the constructor caught, dropped or  *)
(* instantiated itself.                                                    *)
InventoryIsBuilt ==
  "flow" \in projects /\ state["simulation"] = None =>
    /\ \A r \in Selected : \E c \in Stock : c.label = r.id /\ \A d \in Stock : d.label = r.id => d = c
    /\ \A c \in Stock : \E r \in Selected : r.id = c.label

(* A context that is closed stays as it is, and a project keeps the        *)
(* records it was given.                                                   *)
ClosedStaysClosed ==
  \A m \in Modes : state[m] \in {"finalized", "failed"} => state'[m] = state[m] /\ records'[m] = records[m]

ContextsStayClosed == [][ClosedStaysClosed]_vars
=============================================================================
