--------------------------- MODULE MemoryContract ---------------------------
(***************************************************************************)
(* What the single-port memory promises its consumer, whatever it is built *)
(* of: the request's port "1rw", disabled_output "hold", write_output      *)
(* "unspecified" and read_latency 1.  `written' is what the consumer may   *)
(* rely on: the words it has written, and nothing of the others.           *)
(***************************************************************************)
EXTENDS Naturals

CONSTANTS Depths,    \* how many words a memory may have
          Inputs(_), \* what the port of one of so many words can be driven with
          Words,     \* contents of a word
          None

VARIABLES depth,     \* words of the memory
          inputs,    \* driven by the consumer, sampled at the edge
          read_data,
          written    \* the last word written to each address, or None

InRange == inputs.address < depth

Init ==
  /\ depth \in Depths
  /\ inputs \in Inputs(depth)
  /\ read_data \in Words
  /\ written = [a \in 0..(depth - 1) |-> None]

(* A disabled cycle holds the output, whatever it was.                     *)
Hold ==
  /\ ~inputs.enable
  /\ UNCHANGED <<read_data, written>>

(* A read returns, one cycle later, what was written last, if anything was. *)
Read ==
  /\ inputs.enable /\ ~inputs.write_enable /\ InRange
  /\ read_data' \in Words
  /\ written[inputs.address] # None => read_data' = written[inputs.address]
  /\ UNCHANGED written

Write ==
  /\ inputs.enable /\ inputs.write_enable /\ InRange
  /\ read_data' \in Words
  /\ written' = [written EXCEPT ![inputs.address] = inputs.write_data]

(* Beyond the depth nothing is promised of the output, and no word that    *)
(* was written is lost.                                                    *)
OutOfContract ==
  /\ inputs.enable /\ ~InRange
  /\ read_data' \in Words
  /\ UNCHANGED written

Next ==
  /\ inputs' \in Inputs(depth)
  /\ Hold \/ Read \/ Write \/ OutOfContract
  /\ UNCHANGED depth

vars == <<depth, inputs, read_data, written>>

Spec == Init /\ [][Next]_vars
=============================================================================
