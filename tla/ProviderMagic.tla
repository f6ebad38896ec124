--------------------------- MODULE ProviderMagic ---------------------------
(***************************************************************************)
(* flow/hardcaml_asic_flow/physical_runtime.py, disposition_magic: which   *)
(* raw Magic findings are explained by the stock macro's abstract.  First  *)
(* by a baseline of the abstract alone, else by controls: the same layout  *)
(* checked again with the abstract's wide obstructions taken out.          *)
(*                                                                         *)
(* A marker has a rule, a place and a cause; the checker sees the first    *)
(* two.  Magic itself is external: it reports what there is to report.     *)
(***************************************************************************)
EXTENDS Naturals, FiniteSets

CONSTANTS None, MaxMarkers   \* bound: raw markers of one layout

Layers == {"Metal2", "Metal3"}
(* A finding strictly inside a macro, the same within the clearance of a   *)
(* supply bridge or across the boundary, in the band beside a macro that a *)
(* layer's obstruction influences, or in the bands of two macros.          *)
Bands == {"bandMetal2", "bandMetal3"}
Band(layer) == IF layer = "Metal2" THEN "bandMetal2" ELSE "bandMetal3"

Marker(rules, places, cause) == [rule : rules, place : places, cause : {cause}]
Intrinsic == Marker({"other"}, {"inside", "bridge", "edge"}, "intrinsic")
Influence == {mk \in Marker(Layers, Bands \cup {"shared"}, "obstruction") :
                mk.place \in {Band(mk.rule), "shared"}}
Integration == Marker(Layers \cup {"other"}, {"inside", "bridge"} \cup Bands, "integration")

(* None, nothing decided, is no decision.                                  *)
NoneIsNew == None \notin {"refused", "zero_findings", "stock_baseline", "obstruction_controls"}

VARIABLES
  pc,
  raw,       \* the markers of the routed layout
  stock,     \* the markers of the abstract alone
  metric,    \* the flow's count of the raw ones
  fresh,     \* nothing has the baseline's name yet
  observed,  \* control -> markers, for the controls that ended well
  failed,    \* controls that did not
  result     \* None, or what was decided

vars == <<pc, raw, stock, metric, fresh, observed, failed, result>>
given == <<raw, stock, metric, fresh>>

Seen(marks) == {[rule |-> mk.rule, place |-> mk.place] : mk \in marks}
Times(marks, finding) ==
  Cardinality({mk \in marks : mk.rule = finding.rule /\ mk.place = finding.place})

(* Routing may cover what the abstract alone is reported for.              *)
Init ==
  /\ pc = "report"
  /\ raw \in {s \in SUBSET (Intrinsic \cup Influence \cup Integration) : Cardinality(s) <= MaxMarkers}
  /\ stock \in {s \in SUBSET Intrinsic : {mk \in raw : mk.cause = "intrinsic"} \subseteq s}
  /\ metric \in {Cardinality(raw), Cardinality(raw) + 1}
  /\ fresh \in BOOLEAN
  /\ observed = [c \in {} |-> {}] /\ failed = {} /\ result = None

Decide(what) == pc' = "over" /\ result' = what

ReadReport ==
  /\ pc = "report"
  /\ IF metric # Cardinality(raw) THEN Decide("refused")
     ELSE IF raw = {} THEN Decide("zero_findings")
     ELSE pc' = "baseline" /\ UNCHANGED result
  /\ UNCHANGED <<given, observed, failed>>

(* mkdir, once for a run directory, and Magic on the stock LEF.            *)
RunBaseline ==
  /\ pc = "baseline"
  /\ IF fresh THEN (pc' = "classify" /\ UNCHANGED result) \/ Decide("refused") ELSE Decide("refused")
  /\ UNCHANGED <<given, observed, failed>>

(* Mutant: what is near a new bridge counts as well.                       *)
InsideOrBridge == {mk \in stock : mk.place # "edge"}

Available == {mk \in stock : mk.place = "inside"}

(* Counter(findings) - available.                                          *)
Unmatched == {f \in Seen(raw) : Times(raw, f) > Times(Available, f)}

Classify ==
  /\ pc = "classify"
  /\ IF Unmatched = {} THEN Decide("stock_baseline") ELSE pc' = "screen" /\ UNCHANGED result
  /\ UNCHANGED <<given, observed, failed>>

(* classify_wide_obstructions: one of two rules, in the band of its own    *)
(* layer beside exactly one macro.                                         *)
Influenced(marks) == \A f \in Seen(marks) : f.rule \in Layers /\ f.place = Band(f.rule)
LayersOf(marks) == {f.rule : f \in Seen(marks)} \cap Layers

Screen ==
  /\ pc = "screen"
  /\ IF Influenced(raw) THEN pc' = "controls" /\ UNCHANGED result ELSE Decide("refused")
  /\ UNCHANGED <<given, observed, failed>>

-----------------------------------------------------------------------------
(* A control is named by the layers whose obstruction it is without.       *)
Controls == {{}} \cup {{l} : l \in LayersOf(raw)} \cup {LayersOf(raw)}

(* The markers Magic has left when the derived abstract lacks these.       *)
Without(layers) == {mk \in raw : ~(mk.cause = "obstruction" /\ mk.rule \in layers)}

(* One of the pool's threads ends: Magic ran on the derived abstract, or   *)
(* it failed or ran out of its time.                                       *)
RunControl(c) ==
  /\ pc = "controls" /\ c \in Controls \ (DOMAIN observed \cup failed)
  /\ \/ /\ observed' = [d \in DOMAIN observed \cup {c} |->
                         IF d = c THEN Without(c) ELSE observed[d]]
        /\ UNCHANGED failed
     \/ failed' = failed \cup {c} /\ UNCHANGED observed
  /\ UNCHANGED <<pc, given, result>>

SameFindings(a, b) == Seen(a) = Seen(b) /\ \A f \in Seen(a) : Times(a, f) = Times(b, f)

(* Mutant: the layers' own controls are not looked at.                     *)
StockOnly == SameFindings(observed[{}], raw)

(* Stock reproduces the raw markers; without a layer's obstruction its own *)
(* markers are gone and the others are what they were; without any, clean. *)
Explained ==
  /\ SameFindings(observed[{}], raw)
  /\ \A l \in LayersOf(raw) : SameFindings(observed[{l}], {mk \in raw : mk.rule # l})
  /\ observed[LayersOf(raw)] = {}

(* The with statement waits for every thread before an exception leaves it.*)
Collect ==
  /\ pc = "controls" /\ DOMAIN observed \cup failed = Controls
  /\ Decide(IF failed = {} /\ Explained THEN "obstruction_controls" ELSE "refused")
  /\ UNCHANGED <<given, observed, failed>>

Next ==
  \/ ReadReport \/ RunBaseline \/ Classify \/ Screen
  \/ \E c \in SUBSET Layers : RunControl(c)
  \/ Collect

Spec == Init /\ [][Next]_vars

-----------------------------------------------------------------------------
(* "Deliberately not a category-name, wildcard, or bounding-box waiver"    *)
(* (classify_magic): what a disposition accepts is the abstract's doing.   *)
(* A finding of the integration is accepted only where it is, rule and     *)
(* box, one the abstract alone is reported for and the routing covered, a  *)
(* clear way inside the macro.                                             *)
AcceptedIsStock ==
  /\ result = "obstruction_controls" =>
       /\ \A mk \in raw : mk.cause = "obstruction" /\ mk.place # "shared"
       /\ failed = {}
  /\ result = "stock_baseline" =>
       \A mk \in raw : \/ mk.cause = "intrinsic" /\ mk.place = "inside"
                       \/ /\ mk.cause = "integration" /\ mk.place = "inside" /\ mk.rule = "other"
                          /\ \A other \in raw \ {mk} : Seen({other}) # Seen({mk})
  /\ result = "zero_findings" => raw = {}
=============================================================================
