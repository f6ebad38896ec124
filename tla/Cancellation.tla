---------------------------- MODULE Cancellation ----------------------------
(***************************************************************************)
(* What the operations that hear SIGINT and SIGTERM share: a handler that  *)
(* remembers the first signal and leaves it to the operation to look.      *)
(***************************************************************************)
EXTENDS Naturals

CONSTANTS Signals,    \* SIGINT and SIGTERM
          MaxSignals, \* bound: signals sent during one operation
          None

ASSUME SignalsAreNamed == None \notin Signals /\ MaxSignals \in Nat

First(remembered, n) == IF remembered = None THEN n ELSE remembered
=============================================================================
