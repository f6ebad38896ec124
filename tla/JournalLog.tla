----------------------------- MODULE JournalLog -----------------------------
(***************************************************************************)
(* What an observation journal promises, without files, links or locks:    *)
(* one owner appends records until it stops for good, and every reader has *)
(* been given some prefix of the records, in order and once each.          *)
(***************************************************************************)
EXTENDS Naturals

CONSTANTS Readers

VARIABLES length,   \* records promoted so far
          owned,    \* the owner may still append
          given     \* how many records each reader has been given

logVars == <<length, owned, given>>

Init ==
  /\ length = 0
  /\ owned = TRUE
  /\ given = [r \in Readers |-> 0]

Append ==
  /\ owned
  /\ length' = length + 1
  /\ UNCHANGED <<owned, given>>

Stop ==
  /\ owned
  /\ owned' = FALSE
  /\ UNCHANGED <<length, given>>

(* A reader may start behind a cursor it was given earlier, and is then    *)
(* taken further, never back.                                              *)
Give(r, n) ==
  /\ n \in given[r]..length
  /\ given' = [given EXCEPT ![r] = n]
  /\ UNCHANGED <<length, owned>>

Next == Append \/ Stop \/ \E r \in Readers : \E n \in 0..length : Give(r, n)

Spec == Init /\ [][Next]_logVars
=============================================================================
