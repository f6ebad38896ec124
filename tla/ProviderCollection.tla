------------------------- MODULE ProviderCollection -------------------------
(***************************************************************************)
(* flow/hardcaml_asic_flow/phase4.py collect, which reads a run's metrics  *)
(* into results.json, and report.py, which turns that record, stored or    *)
(* made now, into a verdict.  A field of a report is absent, bad (it is    *)
(* not a number), odd (negative or, of a count, fractional), zero or some; a slack is   *)
(* absent, bad, neg, ok or none (1e30 and more: no path is constrained).   *)
(***************************************************************************)
EXTENDS Naturals, Sequences, FiniteSets

CONSTANTS None,
          MaxFaults,       \* bound: departures from a clean result
          MaxPostchecks    \* bound: postchecks made

Modes == {"setup", "hold"}
Slacks == Modes \X {"aggregate", "corner"}
Group == [drc |-> {"route", "magic"}, lvs |-> {"lvs"}, antenna |-> {"nets", "pins"}]
Counts == UNION {Group[g] : g \in DOMAIN Group}
Mapped == {"area", "cells"}
Checked == {"unmapped", "errors", "latches"}
Physical == {"stdcell", "utilization"}
Files == {"metrics", "stat", "state"}
Named == Counts \cup Mapped \cup Checked \cup Physical

(* None, no number, is no value and no reason.                             *)
NoneIsNew == None \notin {"zero", "missing", "unconstrained"}

VARIABLES
  status, requested, completed,   \* run.json
  file,                           \* each report file: ok, absent or malformed
  field, slack,                   \* what is in them
  postchecks,                     \* their records, in order
  results,                        \* None or results.json
  said                            \* None, or a report's verdict and its evidence

vars == <<status, requested, completed, file, field, slack, postchecks, results, said>>
evidence == <<file, field, slack>>

CleanField(k) == IF k \in Mapped \cup Physical THEN "some" ELSE "zero"
Faults(fi, fe, sl) == Cardinality({f \in Files : fi[f] # "ok"})
  + Cardinality({k \in Named : fe[k] # CleanField(k)}) + Cardinality({s \in Slacks : sl[s] # "ok"})

(* A flow leaves at most MaxFaults things that are not clean.              *)
Spoilt(clean, keys, bad, n) ==
  UNION {{[k \in keys |-> IF k \in s THEN to[k] ELSE clean[k]] : to \in [s -> bad]}
         : s \in {t \in SUBSET keys : Cardinality(t) <= n}}

Left ==
  {w \in Spoilt([f \in Files |-> "ok"], Files, {"absent", "malformed"}, MaxFaults)
       \X Spoilt([k \in Named |-> CleanField(k)], Named, {"absent", "bad", "odd", "zero", "some"}, MaxFaults)
       \X Spoilt([s \in Slacks |-> "ok"], Slacks, {"absent", "bad", "neg", "none"}, MaxFaults) :
     Faults(w[1], w[2], w[3]) <= MaxFaults}

Init ==
  /\ status = "started" /\ requested \in {"synthesis", "full"} /\ completed = None
  /\ file = [f \in Files |-> "absent"]
  /\ field = [k \in Named |-> CleanField(k)] /\ slack = [s \in Slacks |-> "ok"]
  /\ postchecks = <<>> /\ results = None /\ said = None

-----------------------------------------------------------------------------
(* Reading: a file that is absent or malformed has no fields.              *)
Of(k) == LET f == IF k \in Mapped THEN "stat" ELSE IF k \in Checked THEN "state" ELSE "metrics"
         IN  IF file[f] = "ok" THEN field[k] ELSE "absent"
At(s) == IF file["metrics"] = "ok" THEN slack[s] ELSE "absent"

Errors == {f \in Files : file[f] = "malformed"} \cup {k \in Named : Of(k) = "bad"}
             \cup {s \in Slacks : At(s) = "bad"}

Number(k) == IF Of(k) \in {"absent", "bad"} THEN None ELSE Of(k)

Valid(mode) == {s \in Slacks : s[1] = mode /\ At(s) \notin {"absent", "bad"}}
Rank(s) == CASE At(s) = "neg" -> 0 [] At(s) = "ok" -> 1 [] At(s) = "none" -> 2

(* Mutant: the best corner stands for the mode.                            *)
Best(mode) == {s \in Valid(mode) : \A t \in Valid(mode) : Rank(s) >= Rank(t)}

(* The worst of all evidence; two that are equal are told apart by where   *)
(* they stand in the file.                                                 *)
Worst(mode) == {s \in Valid(mode) : \A t \in Valid(mode) : Rank(s) <= Rank(t)}

SlackOf(mode, s) ==
  CASE Valid(mode) = {} -> [value |-> None, corner |-> None, reason |-> "missing"]
    [] Valid(mode) # {} /\ At(s) = "none" -> [value |-> None, corner |-> None, reason |-> "unconstrained"]
    [] OTHER -> [value |-> At(s), corner |-> IF s[2] = "corner" THEN s ELSE None, reason |-> None]

(* A check passes when every count it needs is there and zero.             *)
Check(g) == CASE \E k \in Group[g] : Number(k) = None -> "unknown"
              [] \A k \in Group[g] : Number(k) = "zero" -> "pass"
              [] OTHER -> "fail"

(* timing_goal: a mode with no constrained path has no part in it.         *)
Goal(slacks) ==
  LET constrained == {slacks[m].value : m \in {n \in Modes : slacks[n].reason # "unconstrained"}}
  IN  CASE None \in constrained \/ constrained = {} -> "unknown"
        [] constrained = {"ok"} -> "pass"
        [] OTHER -> "fail"

Record(slacks) ==
  [status |-> status, requested |-> requested, completed |-> completed,
   mapped |-> [k \in Mapped |-> Number(k)], checked |-> [k \in Checked |-> Number(k)],
   slacks |-> slacks, goal |-> Goal(slacks),
   unconstrained |-> {m \in Modes : slacks[m].reason = "unconstrained"},
   checks |-> [g \in DOMAIN Group |-> Check(g)], errors |-> Errors, postchecks |-> postchecks]

Collected ==
  {Record([m \in Modes |-> SlackOf(m, pick[m])]) :
     pick \in {p \in [Modes -> Slacks] : \A m \in Modes : Valid(m) # {} => p[m] \in Worst(m)}}

(* collect: the record is stored.                                          *)
Collect ==
  /\ results' \in Collected
  /\ UNCHANGED <<status, requested, completed, evidence, postchecks, said>>

-----------------------------------------------------------------------------
(* report: what the record and run.json disagree about, what is missing    *)
(* and what is bad; nothing physical is asked of a synthesis.              *)
RunIsSound(r) ==
  /\ r.status = status /\ r.requested = requested /\ r.completed = completed
  /\ status = "completed" /\ completed = requested

SynthesisIsSound(r) == (\A k \in Mapped : r.mapped[k] \in {"zero", "some"}) /\ \A k \in Checked : r.checked[k] = "zero"

TimingIsSound(r) ==
  /\ r.goal = "pass" /\ r.unconstrained = {}
  /\ \A m \in Modes : r.slacks[m].reason = None /\ r.slacks[m].value = "ok" /\ r.slacks[m].corner # None

PostchecksPass(r) == r.postchecks # <<>> /\ \A i \in DOMAIN r.postchecks : r.postchecks[i] = "pass"

Sound(r) ==
  /\ RunIsSound(r) /\ r.errors = {} /\ SynthesisIsSound(r)
  /\ requested = "full" => TimingIsSound(r) /\ (\A g \in DOMAIN Group : r.checks[g] = "pass") /\ PostchecksPass(r)

(* results_for: the stored record when there is one.  A report writes      *)
(* nothing: one is enough.                                                 *)
Report ==
  /\ said = None
  /\ \E r \in IF results = None THEN Collected ELSE {results} :
       said' = [pass |-> Sound(r), postchecks |-> r.postchecks, stored |-> results # None]
  /\ UNCHANGED <<status, requested, completed, evidence, postchecks, results>>

-----------------------------------------------------------------------------
(* The run: its flow leaves reports, its record ends, postchecks follow.   *)
FlowReports ==
  /\ status = "started" /\ file = [f \in Files |-> "absent"]
  /\ \E w \in Left : file' = w[1] /\ field' = w[2] /\ slack' = w[3]
  /\ UNCHANGED <<status, requested, completed, postchecks, results, said>>

RunEnds ==
  /\ status = "started"
  /\ \/ status' = "completed" /\ completed' = requested
     \/ status' = "failed" /\ completed' \in {None, "synthesis"}
  /\ UNCHANGED <<requested, evidence, postchecks, results, said>>

PostcheckStarts ==
  /\ status = "completed" /\ Len(postchecks) < MaxPostchecks
  /\ \A i \in DOMAIN postchecks : postchecks[i] # "started"
  /\ postchecks' = Append(postchecks, "started")
  /\ UNCHANGED <<status, requested, completed, evidence, results, said>>

PostcheckEnds ==
  /\ \E i \in DOMAIN postchecks :
       /\ postchecks[i] = "started"
       /\ \E p \in {"pass", "fail"} : postchecks' = [postchecks EXCEPT ![i] = p]
  /\ UNCHANGED <<status, requested, completed, evidence, results, said>>

Next == FlowReports \/ RunEnds \/ PostcheckStarts \/ PostcheckEnds \/ Collect \/ Report

Spec == Init /\ [][Next]_vars

-----------------------------------------------------------------------------
(* "exits nonzero when anything is not a pass" (report.py): a passing      *)
(* report is of a run that completed what was asked of it; nothing in its  *)
(* report files could not be read or parsed; every synthesis check is      *)
(* zero; and of a full run no reported slack is negative, aggregate or     *)
(* corner, both modes have a corner with a constrained path, every count   *)
(* of every check is zero, and of the postchecks that had ended when the   *)
(* record was made there is one and none failed.  This holds of the files  *)
(* as they are, also when the record was stored before the run had ended.  *)
PassIsEarned ==
  (said # None /\ said.pass) =>
    /\ status = "completed" /\ completed = requested
    /\ \A f \in Files : file[f] # "malformed"
    /\ \A k \in Checked : Of(k) = "zero"
    /\ requested = "full" =>
         /\ \A s \in Slacks : At(s) \notin {"neg", "bad"}
         /\ \A m \in Modes : At(<<m, "corner">>) = "ok"
         /\ \A k \in Counts : Of(k) = "zero"
         /\ said.postchecks # <<>> /\ \A i \in DOMAIN said.postchecks : postchecks[i] = "pass"
=============================================================================
