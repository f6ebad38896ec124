--------------------------- MODULE SinglePortRam ---------------------------
(***************************************************************************)
(* lib/single_port_ram.ml: the hardware that `create' builds of a memory,  *)
(* cycle by cycle: the behavioral model of a simulation, the synthesizable *)
(* flops, or the stock macro behind the adapter of its pins.  One step is  *)
(* one rising edge of the clock; a word is its bits.                       *)
(***************************************************************************)
EXTENDS Naturals

CONSTANTS Width,  \* bits of a word
          Depths, \* the numbers of words a memory is created with
          None

VARIABLES
  depth,     \* of the configuration it was created with
  backend,   \* what was built
  words,     \* the storage
  inputs, read_data,
  written    \* history: what the consumer wrote

vars == <<depth, backend, words, inputs, read_data, written>>

(* Config.create_exn.                                                      *)
ConfigIsValid == Width \in Nat \ {0} /\ \A d \in Depths : d \in Nat /\ d >= 2

Words == [0..(Width - 1) -> {0, 1}]
Range == 0..(depth - 1)

(* Int.ceil_log2 depth.                                                    *)
AddressBits(d) == CHOOSE n \in 0..d : 2 ^ n >= d /\ \A k \in 0..(n - 1) : 2 ^ k < d

Inputs(d) == [enable : BOOLEAN, write_enable : BOOLEAN,
              address : 0..(2 ^ AddressBits(d) - 1), write_data : Words]

(* Alternating bits, the least significant one set for even words.         *)
Poison(word) == [bit \in 0..(Width - 1) |-> IF (bit + word) % 2 = 0 THEN 1 ELSE 0]

(* address_valid: with a full address space there is nothing to compare.   *)
AddressValid == depth = 2 ^ AddressBits(depth) \/ inputs.address < depth

Stored(write) == IF write THEN [words EXCEPT ![inputs.address] = inputs.write_data] ELSE words

(* Mutant: a register that samples on every edge.                          *)
Sampled(enable, next) == next

(* Signal.reg ~enable.                                                     *)
Registered(enable, next) == IF enable THEN next ELSE read_data

(* The macro has exactly the words its addresses name.                     *)
Backends == {"behavioral", "flops"} \cup (IF depth = 2 ^ AddressBits(depth) THEN {"macro"} ELSE {})

Init ==
  /\ depth \in Depths
  /\ backend \in Backends
  /\ IF backend = "behavioral" THEN words = [w \in Range |-> Poison(w)] ELSE words \in [Range -> Words]
  /\ inputs \in Inputs(depth)
  /\ read_data \in Words
  /\ written = [w \in Range |-> None]

-----------------------------------------------------------------------------
BehavioralNext ==
  IF ~AddressValid THEN Poison(1) ELSE IF inputs.write_enable THEN Poison(0) ELSE words[inputs.address]

Behavioral ==
  /\ backend = "behavioral"
  /\ words' = Stored(inputs.enable /\ inputs.write_enable /\ AddressValid)
  /\ read_data' = Registered(inputs.enable, BehavioralNext)

(* Signal.mux repeats its last input.                                      *)
FlopData == words[IF inputs.address < depth THEN inputs.address ELSE depth - 1]

Flops ==
  /\ backend = "flops"
  /\ words' = [w \in Range |-> IF inputs.enable /\ inputs.write_enable /\ inputs.address = w
                              THEN inputs.write_data ELSE words[w]]
  /\ read_data' = Registered(inputs.enable /\ ~inputs.write_enable, FlopData)

(* The macro's pins as the adapter drives them, and the macro: with A_MEN  *)
(* it writes on A_WEN and reads on A_REN; its output after a write is its  *)
(* own affair.                                                             *)
Men == inputs.enable
Wen == inputs.enable /\ inputs.write_enable
Ren == inputs.enable /\ ~inputs.write_enable

StockMacro(men, wen, ren) ==
  /\ words' = Stored(men /\ wen)
  /\ read_data' \in IF men /\ wen THEN Words ELSE {Registered(men /\ ren, words[inputs.address])}

Macro == backend = "macro" /\ StockMacro(Men, Wen, Ren)

Written ==
  IF inputs.enable /\ inputs.write_enable /\ inputs.address < depth
  THEN [written EXCEPT ![inputs.address] = inputs.write_data] ELSE written

Next ==
  /\ Behavioral \/ Flops \/ Macro
  /\ inputs' \in Inputs(depth)
  /\ written' = Written
  /\ UNCHANGED <<depth, backend>>

Spec == Init /\ [][Next]_vars

-----------------------------------------------------------------------------
TypeOK ==
  /\ depth \in Depths
  /\ backend \in Backends
  /\ words \in [Range -> Words]
  /\ inputs \in Inputs(depth)
  /\ read_data \in Words
  /\ written \in [Range -> Words \cup {None}]

(* Every word the consumer wrote is in the storage, whatever was driven at *)
(* the port since.                                                         *)
WordsAreKept ==
  /\ TypeOK
  /\ \A w \in Range : written[w] # None => words[w] = written[w]

(* The hardware keeps the contract of the memory.                          *)
Contract == INSTANCE MemoryContract
ImplementsContract == Contract!Spec
=============================================================================
