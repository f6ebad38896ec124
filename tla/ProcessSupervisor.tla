------------------------- MODULE ProcessSupervisor -------------------------
(***************************************************************************)
(* execution/runtime/process_supervisor.ml: one synchronous supervised run *)
(* of a child in a process group of its own, under process-global SIGINT   *)
(* and SIGTERM handlers.  The scope (the OCaml caller), the members of the *)
(* group, the signals sent to this process and the clock interleave.       *)
(*                                                                         *)
(* `pc' is the scope's place in `run'.  Descriptors, paths and messages    *)
(* are left out: opening them only matters as a step that may raise.  A    *)
(* nested call raises Invalid_argument before it touches anything, which   *)
(* its caller (a hook of this run) shows as the raising branch of          *)
(* PollCancel or RunCleanup.                                               *)
(***************************************************************************)
EXTENDS Naturals, Sequences

CONSTANTS Leader,      \* the spawned child, leader of its process group
          Members,     \* processes the group may fork
          HasTimeout,  \* a timeout was given
          MaxCalls,    \* bound: calls of run, one after the other
          None

Procs == {Leader} \cup Members
Signals == {"INT", "TERM"}
Codes == {"exit0", "exitN", "signaled"}
Outcomes == Codes \cup {"timeout", "failed"}

ASSUME LeaderIsNotAMember == Leader \notin Members
ASSUME NoneIsNew == None \notin Signals \cup Outcomes
ASSUME TimeoutIsGivenOrNot == HasTimeout \in BOOLEAN
ASSUME MaxCallsIsNat == MaxCalls \in Nat

VARIABLES
  pc,          \* where the scope is in `run'
  active,      \* the module-level re-entrancy flag
  handler,     \* who handles each signal: the caller of run, or the scope
  interrupted, \* first signal the scope caught
  outcome,     \* the outcome reference
  launched,    \* pid := Some child
  status,      \* wait status read by reap
  first,       \* the signal the stop ladder starts with
  expired,     \* the clock has passed the timeout
  proc,        \* each process of the group: absent, alive or dead
  code,        \* what waitpid will say of the leader once it is dead
  pinned,      \* the leader's PID cannot be reused: spawned, not reaped
  sent,        \* signals sent to the group so far
  cleanupError, \* the cleanup hook raised
  result,      \* the outcome delivered to the caller
  calls

vars == <<pc, active, handler, interrupted, outcome, launched, status, first, expired,
          proc, code, pinned, sent, cleanupError, result, calls>>

scopeVars == <<active, handler, interrupted, outcome, launched, status, first>>
groupVars == <<proc, code, pinned, sent>>
hookVars == <<cleanupError, result, calls>>

Alive == {p \in Procs : proc[p] = "alive"}

Transition(from, to) == pc = from /\ pc' = to

Init ==
  /\ pc = "idle"
  /\ active = FALSE
  /\ handler = [s \in Signals |-> "caller"]
  /\ interrupted = None
  /\ outcome = "failed"
  /\ launched = FALSE
  /\ status = None
  /\ first = None
  /\ expired = FALSE
  /\ proc = [p \in Procs |-> "absent"]
  /\ code = None
  /\ pinned = FALSE
  /\ sent = <<>>
  /\ cleanupError = FALSE
  /\ result = None
  /\ calls = 0

-----------------------------------------------------------------------------
(* The scope.                                                              *)

Enter ==
  /\ Transition("idle", "installInt")
  /\ calls < MaxCalls
  /\ ~active
  /\ active' = TRUE
  /\ interrupted' = None
  /\ outcome' = "failed"
  /\ launched' = FALSE
  /\ status' = None
  /\ first' = None
  /\ expired' = FALSE
  /\ proc' = [p \in Procs |-> "absent"]
  /\ code' = None
  /\ sent' = <<>>
  /\ cleanupError' = FALSE
  /\ result' = None
  /\ calls' = calls + 1
  /\ UNCHANGED <<handler, pinned>>

Install(s, from, to) ==
  /\ Transition(from, to)
  /\ handler' = [handler EXCEPT ![s] = "scope"]
  /\ UNCHANGED <<active, interrupted, outcome, launched, status, first, expired,
                 groupVars, hookVars>>

(* An exception inside the try: the child is stopped unless it was already *)
(* reaped or never existed.                                                *)
Raise ==
  /\ outcome' = "failed"
  /\ IF launched /\ status = None
       THEN pc' = "signal" /\ first' = "TERM"
       ELSE pc' = "cleanup" /\ first' = first

OpenOutputs ==
  \/ /\ Transition("open", "spawn")
     /\ UNCHANGED <<outcome, first>>
  \/ /\ pc = "open"
     /\ Raise

Spawn ==
  \/ /\ Transition("spawn", "poll")
     /\ launched' = TRUE
     /\ pinned' = TRUE
     /\ proc' = [proc EXCEPT ![Leader] = "alive"]
     /\ UNCHANGED <<outcome, first>>
  \/ /\ pc = "spawn"
     /\ Raise
     /\ UNCHANGED <<launched, pinned, proc>>

Launch ==
  /\ \/ OpenOutputs /\ UNCHANGED <<launched, pinned, proc>>
     \/ Spawn
  /\ UNCHANGED <<active, handler, interrupted, status, expired, code, sent, hookVars>>

(* The signals the cancel hook may return; any other one raises.           *)
Accepted == Signals

(* The cancel hook is only asked while nothing was caught; it may return   *)
(* nothing, a signal, or raise (an invalid signal raises too).             *)
PollCancel ==
  /\ pc = "poll"
  /\ \/ pc' = "decide" /\ UNCHANGED <<interrupted, outcome, first>>
     \/ /\ interrupted = None
        /\ pc' = "decide"
        /\ interrupted' \in Accepted
        /\ UNCHANGED <<outcome, first>>
     \/ /\ interrupted = None
        /\ Raise
        /\ UNCHANGED interrupted
  /\ UNCHANGED <<active, handler, launched, status, expired, groupVars, hookVars>>

(* Mutant: the poll itself reaps the leader.                               *)
ChildReaped == proc[Leader] = "dead" /\ pinned' = FALSE

(* WNOWAIT: the zombie is seen but not reaped, so its PID stays pinned.    *)
ChildExited == proc[Leader] = "dead" /\ pinned' = pinned

TimeoutDue == expired

(* One look at the three reasons to end, in the order of the code.  The    *)
(* exit status is stored after the ladder in the code; nothing reads it in *)
(* between.                                                                *)
Decide ==
  /\ pc = "decide"
  /\ \/ /\ interrupted # None
        /\ outcome' = interrupted
        /\ first' = interrupted
        /\ pc' = "signal"
        /\ UNCHANGED pinned
     \/ /\ interrupted = None
        /\ TimeoutDue
        /\ outcome' = "timeout"
        /\ first' = "TERM"
        /\ pc' = "signal"
        /\ UNCHANGED pinned
     \/ /\ interrupted = None
        /\ ~TimeoutDue
        /\ ChildExited
        /\ outcome' = code
        /\ first' = "TERM"
        /\ pc' = "signal"
     \/ /\ interrupted = None
        /\ ~TimeoutDue
        /\ proc[Leader] # "dead"
        /\ pc' = "poll"
        /\ UNCHANGED <<outcome, first, pinned>>
  /\ UNCHANGED <<active, handler, interrupted, launched, status, expired,
                 proc, code, sent, hookVars>>

(* Mutant: the KILL rung is missing.                                       *)
NoTargets == {}

(* kill(-pid): every process of the group.  A process may ignore INT and   *)
(* TERM or take its time, so only KILL has an effect of its own.           *)
Targets == Procs

SendFirst ==
  /\ Transition("signal", "grace")
  /\ sent' = Append(sent, first)
  /\ UNCHANGED <<scopeVars, expired, proc, code, pinned, hookVars>>

NextRung == IF first # "TERM" THEN "term" ELSE "kill"

GraceOver ==
  /\ Transition("grace", NextRung)
  /\ UNCHANGED <<scopeVars, expired, groupVars, hookVars>>

SendTerm ==
  /\ Transition("term", "kill")
  /\ sent' = Append(sent, "TERM")
  /\ UNCHANGED <<scopeVars, expired, proc, code, pinned, hookVars>>

SendKill ==
  /\ Transition("kill", "reap")
  /\ sent' = Append(sent, "KILL")
  /\ proc' = [p \in Procs |-> IF proc[p] = "alive" /\ p \in Targets THEN "dead" ELSE proc[p]]
  /\ code' = IF proc[Leader] = "alive" THEN "signaled" ELSE code
  /\ UNCHANGED <<scopeVars, expired, pinned, hookVars>>

(* Mutant: the wait status overrides why the ladder was climbed.           *)
WaitStatusWins == code

OutcomeAfterReap == outcome

Reap ==
  /\ Transition("reap", "cleanup")
  /\ proc[Leader] = "dead"
  /\ status' = code
  /\ pinned' = FALSE
  /\ outcome' = OutcomeAfterReap
  /\ UNCHANGED <<active, handler, interrupted, launched, first, expired,
                 proc, code, sent, hookVars>>

RunCleanup ==
  /\ Transition("cleanup", "restoreTerm")
  /\ cleanupError' \in BOOLEAN
  /\ UNCHANGED <<scopeVars, expired, groupVars, result, calls>>

GivenBack(s) == [handler EXCEPT ![s] = "caller"]

(* `previous' was built by consing, so TERM is given back before INT.      *)
Restore(s, from, to) ==
  /\ Transition(from, to)
  /\ handler' = GivenBack(s)
  /\ UNCHANGED <<active, interrupted, outcome, launched, status, first, expired,
                 groupVars, hookVars>>

Deactivate ==
  /\ Transition("deactivate", "snapshot")
  /\ active' = FALSE
  /\ UNCHANGED <<handler, interrupted, outcome, launched, status, first, expired,
                 groupVars, hookVars>>

(* Mutant: the outcome without a last look at what was caught.             *)
ReportedEarly == outcome

(* Only after the handlers are given back is the outcome final.            *)
Reported == IF interrupted # None THEN interrupted ELSE outcome

Snapshot ==
  /\ Transition("snapshot", "idle")
  /\ result' = Reported
  /\ UNCHANGED <<scopeVars, expired, groupVars, cleanupError, calls>>

-----------------------------------------------------------------------------
(* The environment.                                                        *)

(* Mutant: the last signal wins.                                           *)
LastCaught(s) == s

(* The scope's handler keeps the first signal.                             *)
Caught(s) == IF interrupted = None THEN s ELSE interrupted

(* A signal reaches this process while the scope handles it; one that the  *)
(* caller's handler takes is no business of the scope.                     *)
Signal(s) ==
  /\ handler[s] = "scope"
  /\ interrupted' = Caught(s)
  /\ UNCHANGED <<pc, active, handler, outcome, launched, status, first, expired,
                 groupVars, hookVars>>

Expire ==
  /\ HasTimeout
  /\ pc # "idle"
  /\ ~expired
  /\ expired' = TRUE
  /\ UNCHANGED <<pc, scopeVars, groupVars, hookVars>>

Exit(p) ==
  /\ proc[p] = "alive"
  /\ proc' = [proc EXCEPT ![p] = "dead"]
  /\ IF p = Leader THEN code' \in Codes ELSE code' = code
  /\ UNCHANGED <<pc, scopeVars, expired, pinned, sent, hookVars>>

Fork(m) ==
  /\ Alive # {}
  /\ proc[m] = "absent"
  /\ proc' = [proc EXCEPT ![m] = "alive"]
  /\ UNCHANGED <<pc, scopeVars, expired, code, pinned, sent, hookVars>>

-----------------------------------------------------------------------------
Scope ==
  \/ Install("INT", "installInt", "installTerm")
  \/ Install("TERM", "installTerm", "open")
  \/ Launch
  \/ PollCancel
  \/ Decide
  \/ SendFirst
  \/ GraceOver
  \/ SendTerm
  \/ SendKill
  \/ Reap
  \/ RunCleanup
  \/ Restore("TERM", "restoreTerm", "restoreInt")
  \/ Restore("INT", "restoreInt", "deactivate")
  \/ Deactivate
  \/ Snapshot

Next ==
  \/ Enter
  \/ Scope
  \/ \E s \in Signals : Signal(s)
  \/ Expire
  \/ \E p \in Procs : Exit(p)
  \/ \E m \in Members : Fork(m)

(* The scope's code keeps running and time passes; nothing is assumed of   *)
(* the child, its descendants or the sender of signals.                    *)
Fairness == WF_vars(Scope) /\ WF_vars(Expire)

Spec == Init /\ [][Next]_vars /\ Fairness

-----------------------------------------------------------------------------
Places == {"idle", "installInt", "installTerm", "open", "spawn", "poll", "decide",
           "signal", "grace", "term", "kill", "reap", "cleanup",
           "restoreTerm", "restoreInt", "deactivate", "snapshot"}

(* Type invariant of one supervised run (process_supervisor.ml:48-143).    *)
TypeOK ==
  /\ pc \in Places
  /\ active \in BOOLEAN
  /\ handler \in [Signals -> {"caller", "scope"}]
  /\ interrupted \in Signals \cup {None}
  /\ outcome \in Outcomes \cup Signals
  /\ launched \in BOOLEAN
  /\ status \in Codes \cup {None}
  /\ first \in Signals \cup {None}
  /\ expired \in BOOLEAN
  /\ proc \in [Procs -> {"absent", "alive", "dead"}]
  /\ code \in Codes \cup {None}
  /\ pinned \in BOOLEAN
  /\ sent \in Seq(Signals \cup {"KILL"})
  /\ cleanupError \in BOOLEAN
  /\ result \in Outcomes \cup Signals \cup {None}
  /\ calls \in 0..MaxCalls

(* Whatever ended the run (exit, signal, timeout, a hook that raised), no  *)
(* process of the owned group, forked at any moment, runs after the        *)
(* cleanup hook may rely on that and after the call has returned.          *)
GroupGone ==
  pc \in {"idle", "cleanup", "restoreTerm", "restoreInt", "deactivate", "snapshot"}
    => Alive = {} /\ ~pinned

(* A signal is only ever sent to the group while the leader's PID cannot   *)
(* have been given to another process (the WNOWAIT poll, then reap last).  *)
OnlySignalOwnGroup == [][sent' # sent /\ sent' # <<>> => pinned]_vars

(* Every signal the scope took from the caller's handlers shows as a       *)
(* Cancelled result: nothing caught while the hook runs, descriptors close *)
(* or handlers are given back hides behind an exit 0, a timeout or an      *)
(* error.                                                                  *)
CaughtSignalsSurface ==
  pc = "idle" /\ calls > 0 /\ result \notin Signals => interrupted = None

(* Success means what callers take it to mean: the leader had exited with  *)
(* 0 by itself, before anything was sent to the group, and neither timeout *)
(* nor signal had been seen; an exit 0 in answer to TERM does not count.   *)
SuccessIsGenuine ==
  [][outcome # "exit0" /\ outcome' = "exit0" =>
       sent = <<>> /\ code = "exit0" /\ ~expired /\ interrupted = None]_vars

(* A caught or polled cancellation always ends the call, even when the     *)
(* whole group ignores INT and TERM.                                       *)
CancellationReturns == (pc # "idle" /\ interrupted # None) ~> (pc = "idle")

(* With a timeout every call returns, whatever the child does.             *)
TimedCallsReturn == HasTimeout => (pc # "idle") ~> (pc = "idle")

(* The two reasons to end that do not depend on the child both end the     *)
(* call, however the group behaves.                                        *)
CallsReturn == CancellationReturns /\ TimedCallsReturn

-----------------------------------------------------------------------------
(* What holds at each place of the scope; with TypeOK it is inductive.     *)

Entering == {"installInt", "installTerm", "open", "spawn"}
Owning == {"poll", "decide", "signal", "grace", "term", "kill", "reap"}
Unwinding == {"cleanup", "restoreTerm", "restoreInt", "deactivate", "snapshot"}

(* The flag and the two handlers are the scope's exactly between taking    *)
(* and giving them back.                                                   *)
ScopeInv ==
  /\ pc # "idle" => calls # 0
  /\ active <=> pc \notin {"idle", "snapshot"}
  /\ handler["INT"] = "scope" <=> pc \notin {"idle", "installInt", "deactivate", "snapshot"}
  /\ handler["TERM"] = "scope" <=>
       pc \notin {"idle", "installInt", "installTerm", "restoreInt", "deactivate", "snapshot"}

(* The group exists from Spawn to SendKill, the leader's PID until Reap,   *)
(* and a dead leader has a wait status.                                    *)
GroupInv ==
  /\ pc \in Entering => ~launched /\ status = None /\ sent = <<>> /\ Alive = {} /\ ~pinned
  /\ pc \in Owning => launched /\ status = None /\ pinned
  /\ pc \in {"idle"} \cup Unwinding => Alive = {} /\ ~pinned
  /\ pc = "reap" => Alive = {}
  /\ proc[Leader] = "dead" => code \in Codes

(* How far the stop ladder has been climbed.                               *)
LadderInv ==
  /\ pc \in {"poll", "decide", "signal"} => sent = <<>>
  /\ pc \in {"signal", "grace"} => first \in Signals
  /\ pc = "grace" => sent = <<first>>
  /\ pc = "term" => sent = <<"INT">>
  /\ pc = "kill" => sent \in {<<"TERM">>, <<"INT", "TERM">>}
  /\ pc \in {"idle", "reap"} \cup Unwinding =>
       sent \in {<<>>, <<"TERM", "KILL">>, <<"INT", "TERM", "KILL">>}

(* The inductive invariant: type, places, and no caught signal hidden by a *)
(* delivered result.                                                       *)
IInv == TypeOK /\ ScopeInv /\ GroupInv /\ LadderInv /\ CaughtSignalsSurface

-----------------------------------------------------------------------------
(* The abstract promise this scope implements.                             *)
Promise == INSTANCE SupervisedRun WITH
  phase <- IF pc # "idle" THEN "open" ELSE IF calls = 0 THEN "idle" ELSE "closed",
  group <- Alive # {},
  caught <- interrupted,
  reported <- result

(* The scope implements SupervisedRun.                                     *)
ImplementsPromise == Promise!Spec
=============================================================================
