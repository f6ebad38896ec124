--------------------------- MODULE SupervisedRun ---------------------------
(***************************************************************************)
(* What Process_supervisor.run promises its callers (process_supervisor.mli *)
(* and the code behind it), with none of the ladder that achieves it: one  *)
(* supervised process group exists between Launch and Settle, signals the  *)
(* scope catches are remembered in the order "first wins", and a result is *)
(* only delivered when the group is gone and no caught signal is hidden    *)
(* behind another outcome.                                                 *)
(***************************************************************************)
EXTENDS Naturals

CONSTANTS Signals,     \* the signals the scope catches
          Outcomes,    \* outcomes that do not come from a caught signal
          None         \* "no signal" and "no outcome yet"

VARIABLES phase,       \* "idle", "open" (the scope is entered), "closed"
          group,       \* some member of the owned process group may still run
          caught,      \* the first signal the scope caught
          reported     \* the delivered outcome

absVars == <<phase, group, caught, reported>>

Init ==
  /\ phase = "idle"
  /\ group = FALSE
  /\ caught = None
  /\ reported = None

Enter ==
  /\ phase \in {"idle", "closed"}
  /\ phase' = "open"
  /\ caught' = None
  /\ reported' = None
  /\ UNCHANGED group

Launch ==
  /\ phase = "open"
  /\ ~group
  /\ group' = TRUE
  /\ UNCHANGED <<phase, caught, reported>>

(* The group ends at once or not at all: a member that survives keeps it.  *)
Settle ==
  /\ phase = "open"
  /\ group
  /\ group' = FALSE
  /\ UNCHANGED <<phase, caught, reported>>

Catch(s) ==
  /\ phase = "open"
  /\ caught = None
  /\ caught' = s
  /\ UNCHANGED <<phase, group, reported>>

Deliver(o) ==
  /\ phase = "open"
  /\ ~group
  /\ phase' = "closed"
  /\ IF caught = None THEN reported' = o ELSE reported' = caught
  /\ UNCHANGED <<group, caught>>

Next ==
  \/ Enter
  \/ Launch
  \/ Settle
  \/ \E s \in Signals : Catch(s)
  \/ \E o \in Outcomes \cup Signals : Deliver(o)

Spec == Init /\ [][Next]_absVars
=============================================================================
