------------------------- MODULE ExecutionTransport -------------------------
(***************************************************************************)
(* execution/runtime/execution_transport.ml: one invocation of a client    *)
(* that may own a container.  The transport runs the client under          *)
(* Process_supervisor, then sweeps the container it named with `rm -f',    *)
(* each attempt a supervised run of its own, inside an outer scope that    *)
(* records the signals which arrive between the supervised runs.           *)
(*                                                                         *)
(* A supervised run is what SupervisedRun says of it: phase, group, caught *)
(* and reported below are that module's, and only its actions change them. *)
(* The container daemon is external: it may commit the client's creation   *)
(* request at any time after it was sent, long after the client is dead.   *)
(***************************************************************************)
EXTENDS Naturals

CONSTANT None

Signals == {"INT", "TERM"}
Outcomes == {"exit0", "exitN", "timeout", "failed"}

(* None stands beside signals and outcomes, errors and answers.            *)
ASSUME NoneIsNew ==
  None \notin Signals \cup Outcomes \cup {"not attempted", "removal failed", "raised",
                                         "asked", "removed", "absent", "error"}

VARIABLES
  phase, group, caught, reported, \* the supervised run in progress
  pc,          \* where the scope is in `run'
  owns,        \* the invocation carries a container name
  outer,       \* who handles each signal outside the supervised runs
  interrupted, \* first signal the outer scope recorded
  primary,     \* outcome of the client's own supervised run
  error,       \* the cleanup error reference
  expired,     \* the cleanup window (deadline - 150ms) is over
  result, vetoed, \* the delivered outcome and its cleanup_error
  client,      \* the client process
  request,     \* its creation request, as the daemon knows it
  container,   \* TRUE while the daemon has a container of that name
  served,      \* what the daemon answered the removal in progress
  late,        \* a container was committed after the last answered removal
  heard        \* history: first signal any handler of this call caught

runVars == <<phase, group, caught, reported>>
scopeVars == <<owns, outer, interrupted, primary, error, expired, result, vetoed>>
daemonVars == <<client, request, container, served, late>>
vars == <<runVars, pc, scopeVars, daemonVars, heard>>

Run == INSTANCE SupervisedRun

Init ==
  /\ Run!Init
  /\ pc = "idle"
  /\ owns \in BOOLEAN
  /\ outer = [s \in Signals |-> "caller"]
  /\ interrupted = None
  /\ primary = None
  /\ error = "not attempted"
  /\ expired = FALSE
  /\ result = None
  /\ vetoed = FALSE
  /\ client = "none"
  /\ request = "none"
  /\ container = FALSE
  /\ served = None
  /\ late = FALSE
  /\ heard = None

FirstOf(s, t) == IF s = None THEN t ELSE s

-----------------------------------------------------------------------------
(* The scope around both kinds of supervised run.                          *)

Handle(s, whom, from, to) ==
  /\ pc = from
  /\ pc' = to
  /\ outer' = [outer EXCEPT ![s] = whom]
  /\ UNCHANGED <<runVars, owns, interrupted, primary, error, expired, result, vetoed,
                 daemonVars, heard>>

Install ==
  \/ Handle("INT", "transport", "idle", "installTerm")
  \/ Handle("TERM", "transport", "installTerm", "enter")

Restore ==
  \/ Handle("INT", "caller", "restoreInt", "restoreTerm")
  \/ Handle("TERM", "caller", "restoreTerm", "snapshot")

EnterMain ==
  /\ pc = "enter"
  /\ pc' = "main"
  /\ Run!Enter
  /\ UNCHANGED <<scopeVars, daemonVars, heard>>

LaunchClient ==
  /\ pc = "main"
  /\ client = "none"
  /\ Run!Launch
  /\ client' = "running"
  /\ UNCHANGED <<pc, scopeVars, request, container, served, late, heard>>

(* main_cancel: a signal the outer scope recorded cancels the client.      *)
PollOuter ==
  /\ pc = "main"
  /\ group
  /\ interrupted # None
  /\ Run!Catch(interrupted)
  /\ UNCHANGED <<pc, scopeVars, daemonVars, heard>>

SettleClient ==
  /\ pc = "main"
  /\ Run!Settle
  /\ client' = IF client = "running" THEN "killed" ELSE client
  /\ UNCHANGED <<pc, scopeVars, request, container, served, late, heard>>

(* The client's exit status is only reported of a client that exited.      *)
Reports(o) == o \in {"exit0", "exitN"} => client = o

DeliverMain(o) ==
  /\ pc = "main"
  /\ o = "failed" \/ client # "none"
  /\ Reports(o)
  /\ Run!Deliver(o)
  /\ primary' = reported'
  /\ pc' = IF owns THEN "sweep" ELSE "restoreInt"
  /\ UNCHANGED <<owns, outer, interrupted, error, expired, result, vetoed, daemonVars, heard>>

-----------------------------------------------------------------------------
(* The sweep.                                                              *)

Definitive == primary = "exit0"

(* Mutants: one observed absence ends the sweep whatever became of the     *)
(* client; no deadline.                                                    *)
UntilAbsent == error # None
Goes == ~Definitive \/ error # None
Never == FALSE
TimeIsUp == expired

Attempt ==
  /\ pc = "sweep"
  /\ Goes
  /\ ~TimeIsUp
  /\ pc' = "remove"
  /\ Run!Enter
  /\ served' = None
  /\ UNCHANGED <<scopeVars, client, request, container, late, heard>>

LaunchRemoval ==
  /\ pc = "remove"
  /\ served = None
  /\ Run!Launch
  /\ served' = "asked"
  /\ UNCHANGED <<pc, scopeVars, client, request, container, late, heard>>

SettleRemoval ==
  /\ pc = "remove"
  /\ Run!Settle
  /\ UNCHANGED <<pc, scopeVars, daemonVars, heard>>

(* A removal's client speaks for the daemon: 0 for a container removed or  *)
(* already absent, nonzero for an absent one too or for a broken engine.   *)
Says(o) ==
  CASE o = "exit0"   -> served \in {"removed", "absent"}
    [] o = "exitN"   -> served \in {"asked", "absent", "error"}
    [] o = "timeout" -> served # None
    [] OTHER         -> TRUE

Gone(o) == o = "exit0" \/ (o = "exitN" /\ served = "absent")

(* Mutant: a cancelled removal is only a failed one.                       *)
FailureOnly(o) == interrupted
FromRemoval(o) == IF o \in Signals THEN FirstOf(interrupted, o) ELSE interrupted

(* The diagnostics file may be unreadable afterwards: the exception leaves *)
(* the loop, and the removal's result with it.                             *)
DeliverRemoval(o) ==
  /\ pc = "remove"
  /\ Says(o)
  /\ Run!Deliver(o)
  /\ \/ /\ pc' = "sweep"
        /\ interrupted' = FromRemoval(reported')
        /\ error' = IF Gone(reported') THEN None ELSE "removal failed"
     \/ /\ pc' = "restoreInt"
        /\ error' = "raised"
        /\ UNCHANGED interrupted
  /\ UNCHANGED <<owns, outer, primary, expired, result, vetoed, daemonVars, heard>>

(* No temporary file can be opened for the diagnostics.                    *)
SweepRaises ==
  /\ pc = "sweep"
  /\ Goes
  /\ ~TimeIsUp
  /\ error' = "raised"
  /\ pc' = "restoreInt"
  /\ UNCHANGED <<runVars, owns, outer, interrupted, primary, expired, result, vetoed,
                 daemonVars, heard>>

SweepOver ==
  /\ pc = "sweep"
  /\ ~Goes \/ TimeIsUp
  /\ pc' = "restoreInt"
  /\ UNCHANGED <<runVars, scopeVars, daemonVars, heard>>

Return ==
  /\ pc = "snapshot"
  /\ pc' = "done"
  /\ result' = IF interrupted # None /\ primary = "exit0" THEN interrupted ELSE primary
  /\ vetoed' = (interrupted # None /\ primary # "exit0")
  /\ UNCHANGED <<runVars, owns, outer, interrupted, primary, error, expired,
                 daemonVars, heard>>

-----------------------------------------------------------------------------
(* Signals, the clock, the client and the daemon.                          *)

(* Inside a supervised run its handlers take the signal, except in the     *)
(* windows where they are being installed or given back.                   *)
Signal(s) ==
  /\ \/ /\ Run!Catch(s)
        /\ UNCHANGED scopeVars
     \/ /\ outer[s] = "transport"
        /\ interrupted = None
        /\ interrupted' = s
        /\ UNCHANGED <<runVars, owns, outer, primary, error, expired, result, vetoed>>
  /\ heard' = FirstOf(heard, s)
  /\ UNCHANGED <<pc, daemonVars>>

Expire ==
  /\ pc \in {"sweep", "remove"}
  /\ ~expired
  /\ expired' = TRUE
  /\ UNCHANGED <<runVars, pc, owns, outer, interrupted, primary, error, result, vetoed,
                 daemonVars, heard>>

Send ==
  /\ client = "running"
  /\ owns
  /\ request = "none"
  /\ request' = "sent"
  /\ UNCHANGED <<runVars, pc, scopeVars, client, container, served, late, heard>>

ClientExits ==
  /\ client = "running"
  /\ \/ /\ owns => request = "committed"
        /\ client' = "exit0"
     \/ client' = "exitN"
  /\ UNCHANGED <<runVars, pc, scopeVars, request, container, served, late, heard>>

Commit ==
  /\ request = "sent"
  /\ request' = "committed"
  /\ container' = TRUE
  /\ late' = TRUE
  /\ UNCHANGED <<runVars, pc, scopeVars, client, served, heard>>

Refuse ==
  /\ request = "sent"
  /\ request' = "refused"
  /\ UNCHANGED <<runVars, pc, scopeVars, client, container, served, late, heard>>

(* --rm: the daemon removes a container whose command ended.               *)
AutoRemove ==
  /\ container
  /\ container' = FALSE
  /\ UNCHANGED <<runVars, pc, scopeVars, client, request, served, late, heard>>

Serve ==
  /\ pc = "remove"
  /\ served = "asked"
  /\ late' = FALSE
  /\ \/ /\ served' = IF container THEN "removed" ELSE "absent"
        /\ container' = FALSE
     \/ /\ served' = "error"
        /\ UNCHANGED container
  /\ UNCHANGED <<runVars, pc, scopeVars, client, request, heard>>

-----------------------------------------------------------------------------
Sweep ==
  \/ Attempt
  \/ LaunchRemoval
  \/ SettleRemoval
  \/ \E o \in Outcomes : DeliverRemoval(o)
  \/ SweepRaises
  \/ SweepOver
  \/ Restore
  \/ Return

Main ==
  \/ Install
  \/ EnterMain
  \/ LaunchClient
  \/ PollOuter
  \/ SettleClient
  \/ \E o \in Outcomes : DeliverMain(o)

Daemon == Send \/ ClientExits \/ Commit \/ Refuse \/ AutoRemove \/ Serve

Next == Main \/ Sweep \/ Daemon \/ Expire \/ \E s \in Signals : Signal(s)

(* The scope runs on whenever it can, and a removal, which is always timed, *)
(* returns (ProcessSupervisor's CallsReturn).  The client and the daemon   *)
(* owe nothing.                                                            *)
Fairness == WF_vars(Sweep) /\ WF_vars(Expire)

Spec == Init /\ [][Next]_vars /\ Fairness

-----------------------------------------------------------------------------
TypeOK ==
  /\ phase \in {"idle", "open", "closed"}
  /\ group \in BOOLEAN
  /\ caught \in Signals \cup {None}
  /\ reported \in Outcomes \cup Signals \cup {None}
  /\ pc \in {"idle", "installTerm", "enter", "main", "sweep", "remove", "restoreInt",
             "restoreTerm", "snapshot", "done"}
  /\ owns \in BOOLEAN
  /\ outer \in [Signals -> {"caller", "transport"}]
  /\ interrupted \in Signals \cup {None}
  /\ primary \in Outcomes \cup Signals \cup {None}
  /\ error \in {None, "not attempted", "removal failed", "raised"}
  /\ expired \in BOOLEAN
  /\ result \in Outcomes \cup Signals \cup {None}
  /\ vetoed \in BOOLEAN
  /\ client \in {"none", "running", "exit0", "exitN", "killed"}
  /\ request \in {"none", "sent", "committed", "refused"}
  /\ container \in BOOLEAN
  /\ served \in {None, "asked", "removed", "absent", "error"}
  /\ late \in BOOLEAN
  /\ heard \in Signals \cup {None}

Succeeded == pc = "done" /\ result = "exit0" /\ ~vetoed /\ (owns => error = None)

(* A success is clean: no container of the name this call owns exists, no  *)
(* request of its client can still create one, and no signal came, to      *)
(* whichever handler: the outer scope's or that of a supervised run, the   *)
(* client's or a removal's.                                                *)
SuccessIsClean ==
  TypeOK /\ (Succeeded => ~container /\ request # "sent" /\ heard = None)

(* A client that was killed, timed out or failed is swept after until the  *)
(* window is over, so a container survives a clean cleanup record only if  *)
(* the daemon committed it after the last attempt the window allowed.      *)
SweptToTheDeadline ==
  pc = "done" /\ owns /\ error = None /\ container => late /\ expired

(* The sweep ends, however often the engine refuses or the daemon commits. *)
CleanupEnds == (pc = "sweep") ~> (pc = "done")

(* A call's success and its silence about the container are both earned.   *)
CleanupIsHonest == SuccessIsClean /\ SweptToTheDeadline
=============================================================================
