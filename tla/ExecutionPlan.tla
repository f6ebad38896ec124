--------------------------- MODULE ExecutionPlan ---------------------------
(***************************************************************************)
(* execution/execution_plan.ml: the action lists the runner is given.  Of  *)
(* an action only what decides about running it is kept: its operation,    *)
(* whether it is enabled, its gate, and the places of the actions it       *)
(* requires.  Labels, inputs and outputs are names for the reader.         *)
(***************************************************************************)
EXTENDS Naturals, Sequences

Operations == {"run", "postcheck", "collect", "report", "archive", "segment"}
Gates == {"success", "run_available", "accepted"}

Action(op, enabled, gate, requires) ==
  [op |-> op, enabled |-> enabled, gate |-> gate, requires |-> requires]

(* Coarse.resolve: five actions; postcheck only for the full endpoint.     *)
Coarse(full, archive) ==
  << Action("run", TRUE, "success", {}),
     Action("postcheck", full, "success", {1}),
     Action("collect", TRUE, "run_available", IF full THEN {1, 2} ELSE {1}),
     Action("report", TRUE, "success", {3}),
     Action("archive", archive, "accepted", {4}) >>

(* Stage_plan.actions: a chain of segments, each requiring the previous.   *)
StagePlan(n) ==
  [j \in 1..n |-> Action("segment", TRUE, "success", IF j = 1 THEN {} ELSE {j - 1})]

(* The plans of the checks: three segments, and the full coarse plan with  *)
(* an archive.                                                             *)
ThreeStages == StagePlan(3)
FullPlan == Coarse(TRUE, TRUE)

Actions == [op : Operations, enabled : BOOLEAN, gate : Gates, requires : SUBSET Nat]

PlanOK(plan) ==
  /\ plan \in Seq(Actions)
  /\ \A j \in DOMAIN plan : plan[j].requires \subseteq 1..(j - 1)
=============================================================================
