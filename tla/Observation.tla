---------------------------- MODULE Observation ----------------------------
(***************************************************************************)
(* The event grammar of a stage observation: Observation.reduce, applied   *)
(* by the writer before it promotes a record and by every reader to what   *)
(* it finds.  A reader meets whatever is in the directory, so any event    *)
(* may be offered here, in any order; what the grammar accepts is what an  *)
(* attempt can ever be shown to have done.                                 *)
(*                                                                         *)
(* The planned actions are 1..N in plan order and action j publishes       *)
(* boundary j.  An occurrence and an artifact are compared whole in the    *)
(* code; everything in them beside status, exit code and boundary is one   *)
(* mark.                                                                   *)
(***************************************************************************)
EXTENDS Naturals, Sequences

CONSTANTS N,      \* actions of the plan, at least one
          Marks,  \* contents an occurrence or artifact may carry
          None

VARIABLE stream   \* the reduced state, or None before allocation

Statuses == {"unreached", "running", "completed", "failed", "interrupted"}
Terminal == {"completed", "failed", "interrupted"}
Exits == {"none", "zero", "nonzero"}

Occurrences == [status : Statuses, exit : Exits, mark : Marks \cup {None}]
Artifacts == [boundary : 1..N, mark : Marks]
Outcomes == [status : Terminal, exit : {"zero", "nonzero"}]

Unreached == [status |-> "unreached", exit |-> "none", mark |-> None]

(* What the reader has decoded; an unknown occurrence is number 0.         *)
Events ==
  [name : {"allocated", "planned", "prepared"}]
    \cup [name : {"started"}, at : 0..N, occ : Occurrences]
    \cup [name : {"published"}, at : 0..N, occ : Occurrences, artifact : Artifacts]
    \cup [name : {"finished"}, at : 0..N, occ : Occurrences, artifact : Artifacts \cup {None}]
    \cup [name : {"outcome"}, outcome : Outcomes]

Allocated == [phase |-> "preparing", occ |-> <<>>, artifacts |-> <<>>, outcome |-> None]

Published(s, j) == {k \in DOMAIN s.artifacts : s.artifacts[k].boundary = j}

(* Mutant: an action may start while its predecessor is being finished.    *)
StartsEarly(s, j) == \A i \in 1..(j - 1) : s.occ[i].status # "unreached"

StartsInOrder(s, j) == \A i \in 1..(j - 1) : s.occ[i].status = "completed"

StartOK(s, e) ==
  /\ s.occ[e.at].status = "unreached"
  /\ e.occ.status = "running"
  /\ e.occ.exit = "none"
  /\ StartsInOrder(s, e.at)

PublishOnce(s, j) == Published(s, j) = {}

PublishOK(s, e) ==
  /\ s.occ[e.at].status = "running"
  /\ e.occ = s.occ[e.at]
  /\ e.artifact.boundary = e.at
  /\ PublishOnce(s, e.at)

(* Mutant: a completion need not name what was published.                  *)
Unchecked(s, e) == e.occ.exit = "zero"

(* Completion with the artifact that was published, and with exit code 0.  *)
Earned(s, e) ==
  /\ e.occ.exit = "zero"
  /\ \E k \in Published(s, e.at) : e.artifact = s.artifacts[k]

Unearned(s, e) ==
  /\ e.occ.status \in {"failed", "interrupted"}
  /\ e.occ.exit # "zero"
  /\ e.artifact = None

(* Mutant: whatever is offered of a known occurrence may finish it.        *)
FinishesAny(s, e) == s.occ[e.at].status # "unreached"

Finishes(s, e) == s.occ[e.at].status = "running"

FinishOK(s, e) ==
  /\ Finishes(s, e)
  /\ e.occ.status \in Terminal
  /\ e.occ.exit # "none"
  /\ (e.occ.status = "completed" /\ Earned(s, e)) \/ Unearned(s, e)

(* Mutant: an outer success needs only its own exit code.                  *)
ClaimOK(s, o) == o.status = "completed" <=> o.exit = "zero"

(* Outer success is earned by every action of the plan.                    *)
OutcomeOK(s, o) ==
  IF o.status = "completed"
    THEN /\ s.phase = "executing"
         /\ o.exit = "zero"
         /\ s.occ # <<>>
         /\ \A j \in DOMAIN s.occ : s.occ[j].status = "completed"
    ELSE o.exit # "zero"

(* Mutant: an outcome does not end the stream.                             *)
Unended(s) == TRUE

Open(s) == s.outcome = None

Lifecycle == {"started", "published", "finished"}

Accepts(s, e) ==
  IF s = None THEN e.name = "allocated"
  ELSE /\ Open(s)
       /\ \/ e.name = "planned" /\ s.occ = <<>>
          \/ e.name = "prepared" /\ s.occ # <<>> /\ s.phase = "preparing"
          \/ /\ e.name \in Lifecycle
             /\ s.phase = "executing"
             /\ e.at \in DOMAIN s.occ
             /\ CASE e.name = "started" -> StartOK(s, e)
                  [] e.name = "published" -> PublishOK(s, e)
                  [] e.name = "finished" -> FinishOK(s, e)
          \/ e.name = "outcome" /\ OutcomeOK(s, e.outcome)

Reduce(s, e) ==
  CASE e.name = "allocated" -> Allocated
    [] e.name = "planned" -> [s EXCEPT !.occ = [j \in 1..N |-> Unreached]]
    [] e.name = "prepared" -> [s EXCEPT !.phase = "executing"]
    [] e.name = "published" -> [s EXCEPT !.occ[e.at] = e.occ,
                                         !.artifacts = Append(@, e.artifact)]
    [] e.name \in {"started", "finished"} -> [s EXCEPT !.occ[e.at] = e.occ]
    [] e.name = "outcome" -> [s EXCEPT !.phase = "finished", !.outcome = e.outcome]

Init == stream = None

Offer(e) == Accepts(stream, e) /\ stream' = Reduce(stream, e)

Next == \E e \in Events : Offer(e)

Spec == Init /\ [][Next]_stream

-----------------------------------------------------------------------------
(* Type invariant of the reduced state.                                    *)
TypeOK ==
  stream # None =>
    /\ stream.phase \in {"preparing", "executing", "finished"}
    /\ stream.occ = <<>> \/ stream.occ \in [1..N -> Occurrences]
    /\ stream.artifacts \in Seq(Artifacts)
    /\ stream.outcome \in Outcomes \cup {None}

HasPlan == stream # None /\ stream.occ # <<>>
Ran(j) == stream.occ[j].status # "unreached"
Completed(j) == stream.occ[j].status = "completed"

(* Artifacts are listed in plan order without repetition, each of an       *)
(* action that was started, and every completed action has one.            *)
ArtifactsFollowPlan ==
  HasPlan =>
    /\ \A k \in DOMAIN stream.artifacts : stream.artifacts[k].boundary = k
    /\ \A k \in DOMAIN stream.artifacts : Ran(k)
    /\ \A j \in 1..N : Completed(j) => j \in DOMAIN stream.artifacts

(* However the events came, the actions that completed are a prefix of the *)
(* plan, at most one other was started and it is the next one, and the     *)
(* artifacts are theirs.                                                   *)
ProgressIsAPrefix ==
  /\ TypeOK
  /\ HasPlan => \A j \in 1..N : Ran(j) => \A i \in 1..(j - 1) : Completed(i)
  /\ ArtifactsFollowPlan

(* final_results: an artifact of the last stage and its completion.        *)
PhysicalCompletion ==
  /\ HasPlan
  /\ \E k \in DOMAIN stream.artifacts : stream.artifacts[k].boundary = N
  /\ Completed(N)

(* Claimed success or physical completion rests on a completed, published  *)
(* and exit-code-0 occurrence of every action of the plan.                 *)
SuccessIsEarned ==
  PhysicalCompletion \/ (stream # None /\ stream.outcome # None
                                       /\ stream.outcome.status = "completed") =>
    /\ HasPlan
    /\ Len(stream.artifacts) = N
    /\ \A j \in 1..N : Completed(j) /\ stream.occ[j].exit = "zero"

(* What a stream has said stays said: a terminal occurrence, a published   *)
(* artifact and the outcome are never revised by a later record.           *)
Unrevised ==
  stream # None =>
    /\ stream.outcome = None
    /\ \A j \in DOMAIN stream.occ :
         stream.occ[j].status \in Terminal => stream'.occ[j] = stream.occ[j]
    /\ SubSeq(stream'.artifacts, 1, Len(stream.artifacts)) = stream.artifacts

NothingIsRevised == [][Unrevised]_stream

(* The reduced states, and what acceptance keeps of them: nothing is known *)
(* of a plan before it is given, and an outer success is of all actions.   *)
States ==
  [phase : {"preparing", "executing", "finished"}, occ : {<<>>} \cup [1..N -> Occurrences],
   artifacts : Seq(Artifacts), outcome : Outcomes \cup {None}]

IInv ==
  stream # None =>
    /\ stream \in States
    /\ stream.occ = <<>> => stream.artifacts = <<>>
    /\ stream.occ # <<>> => \A j \in 1..N :
         /\ Ran(j) => \A i \in 1..(j - 1) : Completed(i)
         /\ Completed(j) => stream.occ[j].exit = "zero" /\ j \in DOMAIN stream.artifacts
    /\ \A k \in DOMAIN stream.artifacts :
         stream.artifacts[k].boundary = k /\ Ran(k)
    /\ (stream.outcome # None /\ stream.outcome.status = "completed") =>
         stream.occ # <<>> /\ \A j \in 1..N : Completed(j)
=============================================================================
