---------------------------- MODULE JournalProofs ----------------------------
(***************************************************************************)
(* Proofs about the journal for any number of readers, records and cursors *)
(* - the bound on records is any - and that its files and locks implement  *)
(* the promised log.  The argument about a lost tail is TailInv: a reader  *)
(* gets the lock only after the writer gave it up for good, so what its    *)
(* second listing shows is all there will ever be.                         *)
(***************************************************************************)
EXTENDS Journal, SequenceTheorems, TLAPS

(* Unlinking the pending name touches nothing but a record's metadata.     *)
LEMMA UnlinkedLog ==
  ASSUME TypeOK, Len(log) > 0,
         log' \in {[log EXCEPT ![Len(log)] = x] : x \in Unlinked(log[Len(log)])}
  PROVE  /\ log' \in Seq([kind : Kinds, prev : Nat, meta : 0..1]) /\ Len(log') = Len(log)
         /\ \A i \in 1..Len(log) : log'[i].kind = log[i].kind /\ log'[i].prev = log[i].prev
<1> DEFINE Records == [kind : Kinds, prev : Nat, meta : 0..1]
<1>0. log \in Seq(Records)
  BY DEF TypeOK
<1> HIDE DEF Records
<1>1. log \in Seq(Records) /\ Len(log) \in Nat \ {0} /\ log[Len(log)] \in Records
  BY <1>0
<1>2. PICK x \in Unlinked(log[Len(log)]) : log' = [log EXCEPT ![Len(log)] = x]
  OBVIOUS
<1>3. x \in Records /\ x.kind = log[Len(log)].kind /\ x.prev = log[Len(log)].prev
  BY <1>1, SMTT(20) DEF Unlinked, Records
<1>4. log' \in Seq(Records) /\ Len(log') = Len(log)
  BY <1>1, <1>2, <1>3, ExceptSeq
<1>5. \A i \in 1..Len(log) : log'[i] = IF i = Len(log) THEN x ELSE log[i]
  BY <1>1, <1>2
<1>6. QED
  BY <1>3, <1>4, <1>5 DEF Records

(* What a reader does with one listed record: it goes on past one it       *)
(* knows, or takes down how a new one looks.                               *)
Examined(r) ==
  /\ rpc[r] = "record" /\ position[r] < listed[r]
  /\ UNCHANGED <<Others, lock, listed, cached, purpose, answer, after, delivered, origin, shown>>
  /\ before' \in [Readers -> 0..1] /\ position' \in [Readers -> Nat] /\ rpc' \in [Readers -> ReaderPlaces]
  /\ \/ /\ position[r] < Len(cached[r]) /\ position' = [position EXCEPT ![r] = position[r] + 1]
        /\ \E to \in {"record", "failed"} : rpc' = [rpc EXCEPT ![r] = to]
     \/ /\ position[r] = Len(cached[r]) /\ position' = position
        /\ rpc' = [rpc EXCEPT ![r] = "read"]

LEMMA ExamineFacts ==
  ASSUME TypeOK, RefreshInv, NEW r \in Readers, Examine(r)
  PROVE  Examined(r)
<1> DEFINE Records == [kind : Kinds, prev : Nat, meta : 0..1]
<1>0. /\ log \in Seq(Records) /\ cached[r] \in Seq(0..1)
      /\ position \in [Readers -> Nat] /\ listed \in [Readers -> Nat] /\ before \in [Readers -> 0..1]
      /\ rpc \in [Readers -> ReaderPlaces]
  BY DEF TypeOK
<1> HIDE DEF Records
<1>1. /\ position[r] \in Nat /\ listed[r] \in Nat /\ Len(cached[r]) \in Nat /\ Len(log) \in Nat
      /\ rpc[r] = "record" /\ position[r] + 1 <= listed[r] /\ position[r] <= Len(cached[r])
      /\ listed[r] <= Len(log)
  BY <1>0 DEF Examine, RefreshInv
<1>2. log[position[r] + 1].meta \in 0..1
  <2>1. log[position[r] + 1] \in Records
    BY <1>0, <1>1
  <2>2. QED
    BY <2>1 DEF Records
<1>3. /\ UNCHANGED <<Others, lock, listed, cached, purpose, answer, after, delivered, origin, shown>>
      /\ before' \in [Readers -> 0..1] /\ position' \in [Readers -> Nat]
  <2>1. before' = before \/ before' = [before EXCEPT ![r] = log[position[r] + 1].meta]
    BY DEF Examine
  <2>2. position' = position \/ position' = [position EXCEPT ![r] = position[r] + 1]
    BY DEF Examine
  <2>3. position[r] + 1 \in Nat
    BY <1>1
  <2>4. before' \in [Readers -> 0..1]
    BY <1>0, <1>2, <2>1
  <2>5. position' \in [Readers -> Nat]
    BY <1>0, <2>2, <2>3
  <2>6. QED
    BY <2>4, <2>5 DEF Examine
<1>4. {"record", "failed", "read"} \subseteq ReaderPlaces
  BY DEF ReaderPlaces
<1>5. CASE position[r] + 1 <= Len(cached[r])
  <2>1. /\ position[r] < Len(cached[r]) /\ position' = [position EXCEPT ![r] = position[r] + 1]
    BY <1>1, <1>5 DEF Examine
  <2>2. \E to \in {"record", "failed"} : rpc' = [rpc EXCEPT ![r] = to]
    BY <1>5 DEF Examine
  <2>3. rpc' \in [Readers -> ReaderPlaces]
    BY <1>0, <1>4, <2>2
  <2>4. rpc[r] = "record" /\ position[r] < listed[r]
    BY <1>1
  <2>5. QED
    BY <1>3, <2>1, <2>2, <2>3, <2>4, Zenon DEF Examined
<1>6. CASE ~(position[r] + 1 <= Len(cached[r]))
  <2>1. position[r] = Len(cached[r]) /\ position' = position /\ rpc' = [rpc EXCEPT ![r] = "read"]
    BY <1>1, <1>6 DEF Examine
  <2>2. rpc' \in [Readers -> ReaderPlaces]
    BY <1>0, <1>4, <2>1
  <2>3. QED
    BY <1>1, <1>3, <2>1, <2>2 DEF Examined
<1>7. QED
  BY <1>5, <1>6

(* A new record is validated, one more, or the reader fails.               *)
WasRead(r) ==
  /\ rpc[r] = "read" /\ position[r] = Len(cached[r]) /\ position[r] < listed[r]
  /\ UNCHANGED <<Others, lock, listed, before, purpose, answer, after, delivered, origin, shown>>
  /\ cached' \in [Readers -> Seq(0..1)] /\ position' \in [Readers -> Nat] /\ rpc' \in [Readers -> ReaderPlaces]
  /\ \/ /\ Len(cached'[r]) = Len(cached[r]) + 1
        /\ \A q \in Readers \ {r} : cached'[q] = cached[q]
        /\ position' = [position EXCEPT ![r] = position[r] + 1]
        /\ rpc' = [rpc EXCEPT ![r] = "record"]
     \/ cached' = cached /\ position' = position /\ rpc' = [rpc EXCEPT ![r] = "failed"]

LEMMA ReadFacts ==
  ASSUME TypeOK, RefreshInv, NEW r \in Readers, ReadRecord(r)
  PROVE  WasRead(r)
<1>1. /\ rpc[r] = "read" /\ position[r] = Len(cached[r]) /\ position[r] < listed[r]
      /\ cached[r] \in Seq(0..1) /\ before[r] \in 0..1
  BY DEF ReadRecord, TypeOK, RefreshInv
<1>2. Append(cached[r], before[r]) \in Seq(0..1) /\ Len(Append(cached[r], before[r])) = Len(cached[r]) + 1
  BY <1>1
<1>3. [cached EXCEPT ![r] = Append(@, before[r])] \in [Readers -> Seq(0..1)]
  BY <1>2 DEF TypeOK
<1>4. /\ rpc \in [Readers -> ReaderPlaces] /\ position \in [Readers -> Nat] /\ cached \in [Readers -> Seq(0..1)]
  BY DEF TypeOK
<1>5. {"record", "failed"} \subseteq ReaderPlaces
  BY DEF ReaderPlaces
<1>6. UNCHANGED <<Others, lock, listed, before, purpose, answer, after, delivered, origin, shown>>
  BY DEF ReadRecord
<1>7. CASE /\ cached' = [cached EXCEPT ![r] = Append(@, before[r])]
           /\ position' = [position EXCEPT ![r] = position[r] + 1]
           /\ rpc' = [rpc EXCEPT ![r] = "record"]
  <2>1. cached' \in [Readers -> Seq(0..1)] /\ cached'[r] = Append(cached[r], before[r])
    BY <1>3, <1>4, <1>7
  <2>2. \A q \in Readers \ {r} : cached'[q] = cached[q]
    BY <1>4, <1>7
  <2>3. position' \in [Readers -> Nat] /\ rpc' \in [Readers -> ReaderPlaces]
    BY <1>4, <1>5, <1>7
  <2>4. QED
    BY <1>1, <1>2, <1>6, <1>7, <2>1, <2>2, <2>3 DEF WasRead
<1>8. CASE cached' = cached /\ position' = position /\ rpc' = [rpc EXCEPT ![r] = "failed"]
  <2>1. rpc' \in [Readers -> ReaderPlaces]
    BY <1>4, <1>5, <1>8
  <2>2. QED
    BY <1>1, <1>4, <1>6, <1>8, <2>1 DEF WasRead
<1>9. QED
  BY <1>7, <1>8 DEF ReadRecord

(* What is delivered continues what was: nothing of it is empty but of     *)
(* nothing new.                                                            *)
Delivered(r) ==
  /\ rpc[r] = "deliver" /\ after[r] <= Len(cached[r])
  /\ UNCHANGED <<Others, lock, listed, position, before, cached, answer, origin>>
  /\ after' = [after EXCEPT ![r] = Len(cached[r])] /\ purpose' = [purpose EXCEPT ![r] = "probe"]
  /\ delivered' \in [Readers -> Seq(Nat)]
  /\ \A q \in Readers \ {r} : delivered'[q] = delivered[q]
  /\ delivered'[r] = <<>> => delivered[r] = <<>>
  /\ shown' \in [Readers -> {"live", "final", "writer_lost_or_unknown", None}]
  /\ \E to \in {"list", "done"} : rpc' = [rpc EXCEPT ![r] = to]

LEMMA DeliverFacts ==
  ASSUME TypeOK, CursorInv, NEW r \in Readers, Deliver(r)
  PROVE  Delivered(r)
<1> DEFINE n == Len(cached[r]) - after[r]
           more == [k \in 1..n |-> after[r] + k]
<1>1. /\ rpc[r] = "deliver" /\ after[r] <= Len(cached[r]) /\ after[r] \in Nat /\ n \in Nat
      /\ delivered[r] \in Seq(Nat)
  BY DEF Deliver, CursorInv, TypeOK
<1>2. more \in Seq(Nat) /\ Len(more) = n
  BY <1>1
<1> HIDE DEF more
<1>3. delivered[r] \o more \in Seq(Nat)
  BY <1>1, <1>2, ConcatProperties
<1>4. delivered[r] \o more = <<>> => delivered[r] = <<>>
  BY <1>1, <1>2, ConcatEqualIffEmpty
<1>5. delivered' = [delivered EXCEPT ![r] = @ \o more]
  BY DEF Deliver, Validated, more
<1>6. Status(r) \in {"live", "final", "writer_lost_or_unknown"}
  BY DEF Status
<1>7. shown' \in [Readers -> {"live", "final", "writer_lost_or_unknown", None}]
  BY <1>6 DEF Deliver, TypeOK
<1>8. /\ delivered' \in [Readers -> Seq(Nat)] /\ delivered'[r] = delivered[r] \o more
      /\ \A q \in Readers \ {r} : delivered'[q] = delivered[q]
  BY <1>3, <1>5 DEF TypeOK
<1>9. \E to \in {"list", "done"} : rpc' = [rpc EXCEPT ![r] = to]
  BY DEF Deliver
<1>10. QED
  BY <1>1, <1>4, <1>7, <1>8, <1>9 DEF Deliver, NewCursor, Validated, Delivered

(* The end of an append, good or bad: the record stays under its number.   *)
Settled ==
  /\ wpc = "linked" /\ wpc' = "ready" /\ Len(log) = sequence + 1 /\ sequence' = sequence + 1
  /\ pending' = "absent" /\ final' = (log[Len(log)].kind = "outcome") /\ UNCHANGED <<lock, readerVars>>
  /\ log' \in Seq([kind : Kinds, prev : Nat, meta : 0..1]) /\ Len(log') = Len(log)
  /\ \A i \in 1..Len(log) : log'[i].kind = log[i].kind /\ log'[i].prev = log[i].prev

LEMMA SettleFacts ==
  ASSUME TypeOK, WriterInv, Settle
  PROVE  Settled
<1>1. Len(log) = sequence + 1 /\ sequence \in Nat
  BY DEF Settle, WTransition, WriterInv, TypeOK
<1>2. Len(log) > 0 /\ log' \in {[log EXCEPT ![Len(log)] = x] : x \in Unlinked(log[Len(log)])}
  BY <1>1 DEF Settle
<1>3. /\ wpc = "linked" /\ wpc' = "ready" /\ sequence' = sequence + 1
      /\ pending' = "absent" /\ final' = (log[Len(log)].kind = "outcome") /\ UNCHANGED <<lock, readerVars>>
  BY DEF Settle, WTransition
<1>4. QED
  BY <1>1, <1>2, <1>3, UnlinkedLog DEF Settled

GaveUp ==
  /\ wpc \in {"opened", "saved", "linked"} /\ wpc' = "poisoned"
  /\ pending' = "absent" /\ UNCHANGED <<sequence, final, lock, readerVars>>
  /\ log' \in Seq([kind : Kinds, prev : Nat, meta : 0..1]) /\ Len(log') = Len(log)
  /\ \A i \in 1..Len(log) : log'[i].kind = log[i].kind /\ log'[i].prev = log[i].prev

LEMMA AppendFailsFacts ==
  ASSUME TypeOK, WriterInv, AppendFails
  PROVE  GaveUp
<1>1. log \in Seq([kind : Kinds, prev : Nat, meta : 0..1]) /\ sequence \in Nat
  BY DEF TypeOK
<1>2. CASE wpc = "linked"
  <2>1. Len(log) > 0
    BY <1>1, <1>2 DEF WriterInv
  <2>2. QED
    BY <1>2, <2>1, UnlinkedLog DEF AppendFails, GaveUp
<1>3. CASE wpc # "linked"
  BY <1>1, <1>3 DEF AppendFails, GaveUp
<1>4. QED
  BY <1>2, <1>3

(* The types; a reader indexes only records that are there.                *)
LEMMA TypeStep ==
  ASSUME TypeOK, WriterInv, RefreshInv, CursorInv, [Next]_vars
  PROVE  TypeOK'
<1> USE CursorsAreNaturals
<1>1. CASE Refuse
  BY <1>1 DEF Refuse, WTransition, TypeOK, Kinds, ReaderPlaces, WriterInv,
       writerVars, readerVars, Others
<1>2. CASE OpenPending
  BY <1>2 DEF OpenPending, Open, WTransition, TypeOK, Kinds, ReaderPlaces,
       WriterInv, writerVars, readerVars, Others
<1>3. CASE SavePending
  BY <1>3 DEF SavePending, WTransition, TypeOK, Kinds, ReaderPlaces,
       WriterInv, writerVars, readerVars, Others
<1>4. ASSUME NEW k \in Kinds, Promote(k)
      PROVE  TypeOK'
  BY <1>4 DEF Promote, WTransition, NameIsFree, TypeOK, Kinds, ReaderPlaces,
       WriterInv, writerVars, readerVars, Others
<1>5. CASE Settle
  <2>1. Settled
    BY <1>5, SettleFacts
  <2>2. QED
    BY <2>1 DEF Settled, TypeOK, Kinds, ReaderPlaces, WriterInv, writerVars,
         readerVars, Others
<1>6. CASE AppendFails
  <2>1. GaveUp
    BY <1>6, AppendFailsFacts
  <2>2. QED
    BY <2>1 DEF GaveUp, TypeOK, Kinds, ReaderPlaces, WriterInv, writerVars,
         readerVars, Others
<1>7. CASE Close
  BY <1>7 DEF Close, Released, TypeOK, Kinds, ReaderPlaces, WriterInv,
       writerVars, readerVars, Others
<1>8. CASE Die
  BY <1>8 DEF Die, TypeOK, Kinds, ReaderPlaces, WriterInv, writerVars,
       readerVars, Others
<1>9. ASSUME NEW r \in Readers, List(r)
      PROVE  TypeOK'
  BY <1>9 DEF List, TypeOK, Kinds, ReaderPlaces, WriterInv, writerVars,
       readerVars, Others
<1>10. ASSUME NEW r \in Readers, Examine(r)
      PROVE  TypeOK'
  <2>1. Examined(r)
    BY <1>10, ExamineFacts
  <2>2. QED
    BY <2>1 DEF Examined, TypeOK, Kinds, ReaderPlaces, WriterInv,
         writerVars, readerVars, Others
<1>11. ASSUME NEW r \in Readers, ReadRecord(r)
      PROVE  TypeOK'
  <2>1. WasRead(r)
    BY <1>11, ReadFacts
  <2>2. QED
    BY <2>1 DEF WasRead, TypeOK, Kinds, ReaderPlaces, WriterInv, writerVars,
         readerVars, Others
<1>12. ASSUME NEW r \in Readers, Refreshed(r)
      PROVE  TypeOK'
  BY <1>12 DEF Refreshed, Validated, TypeOK, Kinds, ReaderPlaces, WriterInv,
       writerVars, readerVars, Others
<1>13. ASSUME NEW r \in Readers, Probe(r)
      PROVE  TypeOK'
  BY <1>13 DEF Probe, TypeOK, Kinds, ReaderPlaces, WriterInv, writerVars,
       readerVars, Others
<1>14. ASSUME NEW r \in Readers, Unlock(r)
      PROVE  TypeOK'
  BY <1>14 DEF Unlock, SkipsDrain, TypeOK, Kinds, ReaderPlaces, WriterInv,
       writerVars, readerVars, Others
<1>15. ASSUME NEW r \in Readers, Deliver(r)
      PROVE  TypeOK'
  <2>1. Delivered(r)
    BY <1>15, DeliverFacts
  <2>2. QED
    BY <2>1, SMTT(20) DEF Delivered, TypeOK, Kinds, ReaderPlaces, WriterInv,
         writerVars, readerVars, Others
<1>16. ASSUME NEW r \in Readers, Leave(r)
      PROVE  TypeOK'
  BY <1>16 DEF Leave, TypeOK, Kinds, ReaderPlaces, WriterInv, writerVars,
       readerVars, Others
<1>17. ASSUME NEW r \in Readers, NEW c \in Cursors, Attach(r, c)
      PROVE  TypeOK'
  BY <1>17 DEF Attach, TypeOK, Kinds, ReaderPlaces, WriterInv, writerVars,
       readerVars, Others
<1>18. CASE UNCHANGED vars
  BY <1>18 DEF vars, TypeOK, Kinds, ReaderPlaces, WriterInv, writerVars,
       readerVars, Others
<1>19. QED
  BY <1>1, <1>2, <1>3, <1>4, <1>5, <1>6, <1>7, <1>8, <1>9, <1>10, <1>11, <1>12, <1>13, <1>14, <1>15, <1>16, <1>17, <1>18
     DEF Next, Writer, Reader, Follow

(* One chain: a record is linked under the next number or not at all.      *)
LEMMA ChainStep ==
  ASSUME TypeOK, TypeOK', ChainIsWhole, WriterInv, RefreshInv, CursorInv, [Next]_vars
  PROVE  ChainIsWhole'
<1>1. CASE Refuse
  BY <1>1 DEF Refuse, WTransition, TypeOK, ChainIsWhole, WriterInv, Kinds,
       writerVars, readerVars, Others
<1>2. CASE OpenPending
  BY <1>2 DEF OpenPending, Open, WTransition, TypeOK, ChainIsWhole,
       WriterInv, Kinds, writerVars, readerVars, Others
<1>3. CASE SavePending
  BY <1>3 DEF SavePending, WTransition, TypeOK, ChainIsWhole, WriterInv,
       Kinds, writerVars, readerVars, Others
<1>4. ASSUME NEW k \in Kinds, Promote(k)
      PROVE  ChainIsWhole'
  BY <1>4 DEF Promote, WTransition, NameIsFree, TypeOK, ChainIsWhole,
       WriterInv, Kinds, writerVars, readerVars, Others
<1>5. CASE Settle
  <2>1. Settled
    BY <1>5, SettleFacts
  <2>2. QED
    BY <2>1 DEF Settled, TypeOK, ChainIsWhole, WriterInv, Kinds, writerVars,
         readerVars, Others
<1>6. CASE AppendFails
  <2>1. GaveUp
    BY <1>6, AppendFailsFacts
  <2>2. QED
    BY <2>1 DEF GaveUp, TypeOK, ChainIsWhole, WriterInv, Kinds, writerVars,
         readerVars, Others
<1>7. CASE Close
  BY <1>7 DEF Close, Released, TypeOK, ChainIsWhole, WriterInv, Kinds,
       writerVars, readerVars, Others
<1>8. CASE Die
  BY <1>8 DEF Die, TypeOK, ChainIsWhole, WriterInv, Kinds, writerVars,
       readerVars, Others
<1>9. ASSUME NEW r \in Readers, List(r)
      PROVE  ChainIsWhole'
  BY <1>9 DEF List, TypeOK, ChainIsWhole, WriterInv, Kinds, writerVars,
       readerVars, Others
<1>10. ASSUME NEW r \in Readers, Examine(r)
      PROVE  ChainIsWhole'
  <2>1. Examined(r)
    BY <1>10, ExamineFacts
  <2>2. CASE position' = position /\ rpc' = [rpc EXCEPT ![r] = "read"] /\ position[r] = Len(cached[r])
    BY <2>1, <2>2 DEF Examined, TypeOK, ChainIsWhole, WriterInv, Kinds,
         writerVars, readerVars, Others
  <2>3. CASE position[r] < Len(cached[r]) /\ position' = [position EXCEPT ![r] = position[r] + 1]
    BY <2>1, <2>3 DEF Examined, TypeOK, ChainIsWhole, WriterInv, Kinds,
         writerVars, readerVars, Others
  <2>4. QED
    BY <2>1, <2>2, <2>3 DEF Examined
<1>11. ASSUME NEW r \in Readers, ReadRecord(r)
      PROVE  ChainIsWhole'
  <2>1. WasRead(r)
    BY <1>11, ReadFacts
  <2>2. CASE cached' = cached
    BY <2>1, <2>2 DEF WasRead, TypeOK, ChainIsWhole, WriterInv, Kinds,
         writerVars, readerVars, Others
  <2>3. CASE cached' # cached
    BY <2>1, <2>3 DEF WasRead, TypeOK, ChainIsWhole, WriterInv, Kinds,
         writerVars, readerVars, Others
  <2>4. QED
    BY <2>1, <2>2, <2>3 DEF WasRead
<1>12. ASSUME NEW r \in Readers, Refreshed(r)
      PROVE  ChainIsWhole'
  BY <1>12 DEF Refreshed, Validated, TypeOK, ChainIsWhole, WriterInv, Kinds,
       writerVars, readerVars, Others
<1>13. ASSUME NEW r \in Readers, Probe(r)
      PROVE  ChainIsWhole'
  BY <1>13 DEF Probe, TypeOK, ChainIsWhole, WriterInv, Kinds, writerVars,
       readerVars, Others
<1>14. ASSUME NEW r \in Readers, Unlock(r)
      PROVE  ChainIsWhole'
  BY <1>14 DEF Unlock, SkipsDrain, TypeOK, ChainIsWhole, WriterInv, Kinds,
       writerVars, readerVars, Others
<1>15. ASSUME NEW r \in Readers, Deliver(r)
      PROVE  ChainIsWhole'
  <2>1. Delivered(r)
    BY <1>15, DeliverFacts
  <2>2. QED
    BY <2>1 DEF Delivered, TypeOK, ChainIsWhole, WriterInv, Kinds,
         writerVars, readerVars, Others
<1>16. ASSUME NEW r \in Readers, Leave(r)
      PROVE  ChainIsWhole'
  BY <1>16 DEF Leave, TypeOK, ChainIsWhole, WriterInv, Kinds, writerVars,
       readerVars, Others
<1>17. ASSUME NEW r \in Readers, NEW c \in Cursors, Attach(r, c)
      PROVE  ChainIsWhole'
  BY <1>17 DEF Attach, TypeOK, ChainIsWhole, WriterInv, Kinds, writerVars,
       readerVars, Others
<1>18. CASE UNCHANGED vars
  BY <1>18 DEF vars, TypeOK, ChainIsWhole, WriterInv, Kinds, writerVars,
       readerVars, Others
<1>19. QED
  BY <1>1, <1>2, <1>3, <1>4, <1>5, <1>6, <1>7, <1>8, <1>9, <1>10, <1>11, <1>12, <1>13, <1>14, <1>15, <1>16, <1>17, <1>18
     DEF Next, Writer, Reader, Follow

(* The writer's memory agrees with the directory while it may append.      *)
LEMMA WriterStep ==
  ASSUME TypeOK, ChainIsWhole, WriterInv, RefreshInv, CursorInv, [Next]_vars
  PROVE  WriterInv'
<1> USE HoldersDiffer
<1>1. CASE Refuse
  BY <1>1 DEF Refuse, WTransition, TypeOK, ChainIsWhole, WriterInv,
       RefreshInv, WriterGone, Kinds, writerVars, readerVars, Others
<1>2. CASE OpenPending
  BY <1>2 DEF OpenPending, Open, WTransition, TypeOK, ChainIsWhole,
       WriterInv, RefreshInv, WriterGone, Kinds, writerVars, readerVars,
       Others
<1>3. CASE SavePending
  BY <1>3 DEF SavePending, WTransition, TypeOK, ChainIsWhole, WriterInv,
       RefreshInv, WriterGone, Kinds, writerVars, readerVars, Others
<1>4. ASSUME NEW k \in Kinds, Promote(k)
      PROVE  WriterInv'
  BY <1>4, SMTT(20) DEF Promote, WTransition, NameIsFree, TypeOK, ChainIsWhole,
       WriterInv, RefreshInv, WriterGone, Kinds, writerVars, readerVars,
       Others
<1>5. CASE Settle
  <2>1. Settled
    BY <1>5, SettleFacts
  <2>2. QED
    BY <2>1 DEF Settled, TypeOK, ChainIsWhole, WriterInv, RefreshInv,
         WriterGone, Kinds, writerVars, readerVars, Others
<1>6. CASE AppendFails
  <2>1. GaveUp
    BY <1>6, AppendFailsFacts
  <2>2. QED
    BY <2>1 DEF GaveUp, TypeOK, ChainIsWhole, WriterInv, RefreshInv,
         WriterGone, Kinds, writerVars, readerVars, Others
<1>7. CASE Close
  BY <1>7 DEF Close, Released, TypeOK, ChainIsWhole, WriterInv, RefreshInv,
       WriterGone, Kinds, writerVars, readerVars, Others
<1>8. CASE Die
  BY <1>8 DEF Die, TypeOK, ChainIsWhole, WriterInv, RefreshInv, WriterGone,
       Kinds, writerVars, readerVars, Others
<1>9. ASSUME NEW r \in Readers, List(r)
      PROVE  WriterInv'
  BY <1>9 DEF List, TypeOK, ChainIsWhole, WriterInv, RefreshInv, WriterGone,
       Kinds, writerVars, readerVars, Others
<1>10. ASSUME NEW r \in Readers, Examine(r)
      PROVE  WriterInv'
  <2>1. Examined(r)
    BY <1>10, ExamineFacts
  <2>2. CASE position' = position /\ rpc' = [rpc EXCEPT ![r] = "read"] /\ position[r] = Len(cached[r])
    BY <2>1, <2>2 DEF Examined, TypeOK, ChainIsWhole, WriterInv, RefreshInv,
         WriterGone, Kinds, writerVars, readerVars, Others
  <2>3. CASE position[r] < Len(cached[r]) /\ position' = [position EXCEPT ![r] = position[r] + 1]
    BY <2>1, <2>3 DEF Examined, TypeOK, ChainIsWhole, WriterInv, RefreshInv,
         WriterGone, Kinds, writerVars, readerVars, Others
  <2>4. QED
    BY <2>1, <2>2, <2>3 DEF Examined
<1>11. ASSUME NEW r \in Readers, ReadRecord(r)
      PROVE  WriterInv'
  <2>1. WasRead(r)
    BY <1>11, ReadFacts
  <2>2. CASE cached' = cached
    BY <2>1, <2>2 DEF WasRead, TypeOK, ChainIsWhole, WriterInv, RefreshInv,
         WriterGone, Kinds, writerVars, readerVars, Others
  <2>3. CASE cached' # cached
    BY <2>1, <2>3 DEF WasRead, TypeOK, ChainIsWhole, WriterInv, RefreshInv,
         WriterGone, Kinds, writerVars, readerVars, Others
  <2>4. QED
    BY <2>1, <2>2, <2>3 DEF WasRead
<1>12. ASSUME NEW r \in Readers, Refreshed(r)
      PROVE  WriterInv'
  BY <1>12 DEF Refreshed, Validated, TypeOK, ChainIsWhole, WriterInv,
       RefreshInv, WriterGone, Kinds, writerVars, readerVars, Others
<1>13. ASSUME NEW r \in Readers, Probe(r)
      PROVE  WriterInv'
  BY <1>13 DEF Probe, TypeOK, ChainIsWhole, WriterInv, RefreshInv,
       WriterGone, Kinds, writerVars, readerVars, Others
<1>14. ASSUME NEW r \in Readers, Unlock(r)
      PROVE  WriterInv'
  BY <1>14 DEF Unlock, SkipsDrain, TypeOK, ChainIsWhole, WriterInv,
       RefreshInv, WriterGone, Kinds, writerVars, readerVars, Others
<1>15. ASSUME NEW r \in Readers, Deliver(r)
      PROVE  WriterInv'
  <2>1. Delivered(r)
    BY <1>15, DeliverFacts
  <2>2. QED
    BY <2>1 DEF Delivered, TypeOK, ChainIsWhole, WriterInv, RefreshInv,
         WriterGone, Kinds, writerVars, readerVars, Others
<1>16. ASSUME NEW r \in Readers, Leave(r)
      PROVE  WriterInv'
  BY <1>16 DEF Leave, TypeOK, ChainIsWhole, WriterInv, RefreshInv,
       WriterGone, Kinds, writerVars, readerVars, Others
<1>17. ASSUME NEW r \in Readers, NEW c \in Cursors, Attach(r, c)
      PROVE  WriterInv'
  BY <1>17 DEF Attach, TypeOK, ChainIsWhole, WriterInv, RefreshInv,
       WriterGone, Kinds, writerVars, readerVars, Others
<1>18. CASE UNCHANGED vars
  BY <1>18 DEF vars, TypeOK, ChainIsWhole, WriterInv, RefreshInv,
       WriterGone, Kinds, writerVars, readerVars, Others
<1>19. QED
  BY <1>1, <1>2, <1>3, <1>4, <1>5, <1>6, <1>7, <1>8, <1>9, <1>10, <1>11, <1>12, <1>13, <1>14, <1>15, <1>16, <1>17, <1>18
     DEF Next, Writer, Reader, Follow

(* A refresh validates what it listed, in order, whatever is appended      *)
(* meanwhile.                                                              *)
LEMMA RefreshStep ==
  ASSUME TypeOK, WriterInv, RefreshInv, CursorInv, [Next]_vars
  PROVE  RefreshInv'
<1> USE HoldersDiffer
<1>1. CASE Refuse
  BY <1>1 DEF Refuse, WTransition, TypeOK, WriterInv, RefreshInv, Kinds,
       writerVars, readerVars, Others
<1>2. CASE OpenPending
  BY <1>2 DEF OpenPending, Open, WTransition, TypeOK, WriterInv, RefreshInv,
       Kinds, writerVars, readerVars, Others
<1>3. CASE SavePending
  BY <1>3 DEF SavePending, WTransition, TypeOK, WriterInv, RefreshInv,
       Kinds, writerVars, readerVars, Others
<1>4. ASSUME NEW k \in Kinds, Promote(k)
      PROVE  RefreshInv'
  BY <1>4 DEF Promote, WTransition, NameIsFree, TypeOK, WriterInv,
       RefreshInv, Kinds, writerVars, readerVars, Others
<1>5. CASE Settle
  <2>1. Settled
    BY <1>5, SettleFacts
  <2>2. QED
    BY <2>1 DEF Settled, TypeOK, WriterInv, RefreshInv, Kinds, writerVars,
         readerVars, Others
<1>6. CASE AppendFails
  <2>1. GaveUp
    BY <1>6, AppendFailsFacts
  <2>2. QED
    BY <2>1 DEF GaveUp, TypeOK, WriterInv, RefreshInv, Kinds, writerVars,
         readerVars, Others
<1>7. CASE Close
  BY <1>7 DEF Close, Released, TypeOK, WriterInv, RefreshInv, Kinds,
       writerVars, readerVars, Others
<1>8. CASE Die
  BY <1>8 DEF Die, TypeOK, WriterInv, RefreshInv, Kinds, writerVars,
       readerVars, Others
<1>9. ASSUME NEW r \in Readers, List(r)
      PROVE  RefreshInv'
  BY <1>9 DEF List, TypeOK, WriterInv, RefreshInv, Kinds, writerVars,
       readerVars, Others
<1>10. ASSUME NEW r \in Readers, Examine(r)
      PROVE  RefreshInv'
  <2>1. /\ rpc[r] = "record" /\ position[r] < listed[r]
        /\ UNCHANGED <<log, lock, listed, cached>>
        /\ \A q \in Readers \ {r} : rpc'[q] = rpc[q] /\ position'[q] = position[q]
        /\ \/ position[r] < Len(cached[r]) /\ position'[r] = position[r] + 1 /\ rpc'[r] \in {"record", "failed"}
           \/ position[r] = Len(cached[r]) /\ position'[r] = position[r] /\ rpc'[r] = "read"
    <3>1. rpc \in [Readers -> ReaderPlaces] /\ position \in [Readers -> Nat]
      BY DEF TypeOK
    <3>2. QED
      BY <1>10, <3>1, ExamineFacts DEF Examined, Others
  <2>2. listed \in [Readers -> Nat] /\ position[r] \in Nat /\ Len(cached[r]) \in Nat
    BY DEF TypeOK
  <2>3. QED
    BY <2>1, <2>2 DEF RefreshInv
<1>11. ASSUME NEW r \in Readers, ReadRecord(r)
      PROVE  RefreshInv'
  <2>1. /\ rpc[r] = "read" /\ position[r] = Len(cached[r]) /\ position[r] < listed[r]
        /\ UNCHANGED <<log, lock, listed, wpc>>
        /\ \A q \in Readers \ {r} : cached'[q] = cached[q] /\ rpc'[q] = rpc[q] /\ position'[q] = position[q]
        /\ \/ rpc'[r] = "record" /\ Len(cached'[r]) = Len(cached[r]) + 1 /\ position'[r] = position[r] + 1
           \/ rpc'[r] = "failed" /\ cached'[r] = cached[r] /\ position'[r] = position[r]
    <3>1. rpc \in [Readers -> ReaderPlaces] /\ position \in [Readers -> Nat]
      BY DEF TypeOK
    <3>2. QED
      BY <1>11, <3>1, ReadFacts DEF WasRead, Others, writerVars
  <2>2. listed \in [Readers -> Nat] /\ position[r] \in Nat /\ Len(cached[r]) \in Nat /\ Len(log) \in Nat
    BY DEF TypeOK
  <2>3. QED
    BY <2>1, <2>2 DEF RefreshInv
<1>12. ASSUME NEW r \in Readers, Refreshed(r)
      PROVE  RefreshInv'
  BY <1>12 DEF Refreshed, Validated, TypeOK, WriterInv, RefreshInv, Kinds,
       writerVars, readerVars, Others
<1>13. ASSUME NEW r \in Readers, Probe(r)
      PROVE  RefreshInv'
  BY <1>13 DEF Probe, TypeOK, WriterInv, RefreshInv, Kinds, writerVars,
       readerVars, Others
<1>14. ASSUME NEW r \in Readers, Unlock(r)
      PROVE  RefreshInv'
  BY <1>14 DEF Unlock, SkipsDrain, TypeOK, WriterInv, RefreshInv, Kinds,
       writerVars, readerVars, Others
<1>15. ASSUME NEW r \in Readers, Deliver(r)
      PROVE  RefreshInv'
  <2>1. Delivered(r)
    BY <1>15, DeliverFacts
  <2>2. QED
    BY <2>1 DEF Delivered, TypeOK, WriterInv, RefreshInv, Kinds, writerVars,
         readerVars, Others
<1>16. ASSUME NEW r \in Readers, Leave(r)
      PROVE  RefreshInv'
  BY <1>16 DEF Leave, TypeOK, WriterInv, RefreshInv, Kinds, writerVars,
       readerVars, Others
<1>17. ASSUME NEW r \in Readers, NEW c \in Cursors, Attach(r, c)
      PROVE  RefreshInv'
  BY <1>17 DEF Attach, TypeOK, WriterInv, RefreshInv, Kinds, writerVars,
       readerVars, Others
<1>18. CASE UNCHANGED vars
  BY <1>18 DEF vars, TypeOK, WriterInv, RefreshInv, Kinds, writerVars,
       readerVars, Others
<1>19. QED
  BY <1>1, <1>2, <1>3, <1>4, <1>5, <1>6, <1>7, <1>8, <1>9, <1>10, <1>11, <1>12, <1>13, <1>14, <1>15, <1>16, <1>17, <1>18
     DEF Next, Writer, Reader, Follow

(* The lock found free, then everything listed, then everything delivered. *)
LEMMA TailStep ==
  ASSUME TypeOK, WriterInv, RefreshInv, TailInv, CursorInv, [Next]_vars
  PROVE  TailInv'
<1> USE HoldersDiffer
<1>1. CASE Refuse
  BY <1>1 DEF Refuse, WTransition, TypeOK, WriterInv, RefreshInv, TailInv,
       WriterGone, Kinds, writerVars, readerVars, Others
<1>2. CASE OpenPending
  BY <1>2 DEF OpenPending, Open, WTransition, TypeOK, WriterInv, RefreshInv,
       TailInv, WriterGone, Kinds, writerVars, readerVars, Others
<1>3. CASE SavePending
  BY <1>3 DEF SavePending, WTransition, TypeOK, WriterInv, RefreshInv,
       TailInv, WriterGone, Kinds, writerVars, readerVars, Others
<1>4. ASSUME NEW k \in Kinds, Promote(k)
      PROVE  TailInv'
  BY <1>4 DEF Promote, WTransition, NameIsFree, TypeOK, WriterInv,
       RefreshInv, TailInv, WriterGone, Kinds, writerVars, readerVars,
       Others
<1>5. CASE Settle
  <2>1. Settled
    BY <1>5, SettleFacts
  <2>2. QED
    BY <2>1 DEF Settled, TypeOK, WriterInv, RefreshInv, TailInv, WriterGone,
         Kinds, writerVars, readerVars, Others
<1>6. CASE AppendFails
  <2>1. GaveUp
    BY <1>6, AppendFailsFacts
  <2>2. QED
    BY <2>1 DEF GaveUp, TypeOK, WriterInv, RefreshInv, TailInv, WriterGone,
         Kinds, writerVars, readerVars, Others
<1>7. CASE Close
  BY <1>7 DEF Close, Released, TypeOK, WriterInv, RefreshInv, TailInv,
       WriterGone, Kinds, writerVars, readerVars, Others
<1>8. CASE Die
  BY <1>8 DEF Die, TypeOK, WriterInv, RefreshInv, TailInv, WriterGone,
       Kinds, writerVars, readerVars, Others
<1>9. ASSUME NEW r \in Readers, List(r)
      PROVE  TailInv'
  BY <1>9 DEF List, TypeOK, WriterInv, RefreshInv, TailInv, WriterGone,
       Kinds, writerVars, readerVars, Others
<1>10. ASSUME NEW r \in Readers, Examine(r)
      PROVE  TailInv'
  <2>1. /\ rpc[r] = "record" /\ UNCHANGED <<log, listed, wpc, cached, answer, purpose, after>>
        /\ \A q \in Readers \ {r} : rpc'[q] = rpc[q]
        /\ rpc'[r] \in {"record", "failed", "read"}
    <3>1. rpc \in [Readers -> ReaderPlaces]
      BY DEF TypeOK
    <3>2. QED
      BY <1>10, <3>1, ExamineFacts DEF Examined, Others, writerVars
  <2>2. QED
    BY <2>1 DEF TailInv, WriterGone
<1>11. ASSUME NEW r \in Readers, ReadRecord(r)
      PROVE  TailInv'
  <2>1. /\ rpc[r] = "read" /\ position[r] < listed[r]
        /\ UNCHANGED <<log, listed, wpc, answer, purpose, after>>
        /\ \A q \in Readers \ {r} : cached'[q] = cached[q] /\ rpc'[q] = rpc[q]
        /\ rpc'[r] \in {"record", "failed"}
    <3>1. rpc \in [Readers -> ReaderPlaces]
      BY DEF TypeOK
    <3>2. QED
      BY <1>11, <3>1, ReadFacts DEF WasRead, Others, writerVars
  <2>2. QED
    BY <2>1 DEF TailInv, WriterGone
<1>12. ASSUME NEW r \in Readers, Refreshed(r)
      PROVE  TailInv'
  BY <1>12, SMTT(20) DEF Refreshed, Validated, TypeOK, WriterInv, RefreshInv, TailInv,
       WriterGone, Kinds, writerVars, readerVars, Others
<1>13. ASSUME NEW r \in Readers, Probe(r)
      PROVE  TailInv'
  BY <1>13, SMTT(20) DEF Probe, TypeOK, WriterInv, RefreshInv, TailInv, WriterGone,
       Kinds, writerVars, readerVars, Others
<1>14. ASSUME NEW r \in Readers, Unlock(r)
      PROVE  TailInv'
  BY <1>14 DEF Unlock, SkipsDrain, TypeOK, WriterInv, RefreshInv, TailInv,
       WriterGone, Kinds, writerVars, readerVars, Others
<1>15. ASSUME NEW r \in Readers, Deliver(r)
      PROVE  TailInv'
  <2>1. Delivered(r)
    BY <1>15, DeliverFacts
  <2>2. QED
    BY <2>1, SMTT(20) DEF Delivered, TypeOK, WriterInv, RefreshInv, TailInv,
         WriterGone, Kinds, writerVars, readerVars, Others
<1>16. ASSUME NEW r \in Readers, Leave(r)
      PROVE  TailInv'
  BY <1>16 DEF Leave, TypeOK, WriterInv, RefreshInv, TailInv, WriterGone,
       Kinds, writerVars, readerVars, Others
<1>17. ASSUME NEW r \in Readers, NEW c \in Cursors, Attach(r, c)
      PROVE  TailInv'
  BY <1>17 DEF Attach, TypeOK, WriterInv, RefreshInv, TailInv, WriterGone,
       Kinds, writerVars, readerVars, Others
<1>18. CASE UNCHANGED vars
  BY <1>18 DEF vars, TypeOK, WriterInv, RefreshInv, TailInv, WriterGone,
       Kinds, writerVars, readerVars, Others
<1>19. QED
  BY <1>1, <1>2, <1>3, <1>4, <1>5, <1>6, <1>7, <1>8, <1>9, <1>10, <1>11, <1>12, <1>13, <1>14, <1>15, <1>16, <1>17, <1>18
     DEF Next, Writer, Reader, Follow

(* A cursor beyond the end ends the watch before anything is delivered.    *)
LEMMA CursorStep ==
  ASSUME TypeOK, WriterInv, RefreshInv, CursorInv, [Next]_vars
  PROVE  CursorInv'
<1>1. CASE Refuse
  BY <1>1 DEF Refuse, WTransition, TypeOK, RefreshInv, CursorInv,
       writerVars, readerVars, Others
<1>2. CASE OpenPending
  BY <1>2 DEF OpenPending, Open, WTransition, TypeOK, RefreshInv, CursorInv,
       writerVars, readerVars, Others
<1>3. CASE SavePending
  BY <1>3 DEF SavePending, WTransition, TypeOK, RefreshInv, CursorInv,
       writerVars, readerVars, Others
<1>4. ASSUME NEW k \in Kinds, Promote(k)
      PROVE  CursorInv'
  BY <1>4 DEF Promote, WTransition, NameIsFree, TypeOK, RefreshInv,
       CursorInv, writerVars, readerVars, Others
<1>5. CASE Settle
  <2>1. Settled
    BY <1>5, SettleFacts
  <2>2. QED
    BY <2>1 DEF Settled, TypeOK, RefreshInv, CursorInv, writerVars,
         readerVars, Others
<1>6. CASE AppendFails
  <2>1. GaveUp
    BY <1>6, AppendFailsFacts
  <2>2. QED
    BY <2>1 DEF GaveUp, TypeOK, RefreshInv, CursorInv, writerVars,
         readerVars, Others
<1>7. CASE Close
  BY <1>7 DEF Close, Released, TypeOK, RefreshInv, CursorInv, writerVars,
       readerVars, Others
<1>8. CASE Die
  BY <1>8 DEF Die, TypeOK, RefreshInv, CursorInv, writerVars, readerVars,
       Others
<1>9. ASSUME NEW r \in Readers, List(r)
      PROVE  CursorInv'
  BY <1>9 DEF List, TypeOK, RefreshInv, CursorInv, writerVars, readerVars,
       Others
<1>10. ASSUME NEW r \in Readers, Examine(r)
      PROVE  CursorInv'
  <2>1. /\ rpc[r] = "record" /\ UNCHANGED <<cached, purpose, after, delivered>>
        /\ \A q \in Readers \ {r} : rpc'[q] = rpc[q]
        /\ rpc'[r] \in {"record", "failed", "read"}
    <3>1. rpc \in [Readers -> ReaderPlaces]
      BY DEF TypeOK
    <3>2. QED
      BY <1>10, <3>1, ExamineFacts DEF Examined
  <2>2. QED
    BY <2>1 DEF CursorInv
<1>11. ASSUME NEW r \in Readers, ReadRecord(r)
      PROVE  CursorInv'
  <2>1. /\ rpc[r] = "read" /\ UNCHANGED <<purpose, after, delivered>>
        /\ \A q \in Readers \ {r} : cached'[q] = cached[q] /\ rpc'[q] = rpc[q]
        /\ \/ rpc'[r] = "record" /\ Len(cached'[r]) = Len(cached[r]) + 1
           \/ rpc'[r] = "failed"
    <3>1. rpc \in [Readers -> ReaderPlaces]
      BY DEF TypeOK
    <3>2. QED
      BY <1>11, <3>1, ReadFacts DEF WasRead
  <2>2. after \in [Readers -> Nat] /\ Len(cached[r]) \in Nat
    BY DEF TypeOK
  <2>3. QED
    BY <2>1, <2>2 DEF CursorInv
<1>12. ASSUME NEW r \in Readers, Refreshed(r)
      PROVE  CursorInv'
  BY <1>12, SMTT(20) DEF Refreshed, Validated, TypeOK, RefreshInv, CursorInv,
       writerVars, readerVars, Others
<1>13. ASSUME NEW r \in Readers, Probe(r)
      PROVE  CursorInv'
  BY <1>13 DEF Probe, TypeOK, RefreshInv, CursorInv, writerVars, readerVars,
       Others
<1>14. ASSUME NEW r \in Readers, Unlock(r)
      PROVE  CursorInv'
  BY <1>14 DEF Unlock, SkipsDrain, TypeOK, RefreshInv, CursorInv,
       writerVars, readerVars, Others
<1>15. ASSUME NEW r \in Readers, Deliver(r)
      PROVE  CursorInv'
  <2>1. /\ rpc[r] = "deliver" /\ after' = [after EXCEPT ![r] = Len(cached[r])] /\ cached' = cached
        /\ purpose' = [purpose EXCEPT ![r] = "probe"]
        /\ \A q \in Readers \ {r} : delivered'[q] = delivered[q]
        /\ \E to \in {"list", "done"} : rpc' = [rpc EXCEPT ![r] = to]
    BY <1>15, DeliverFacts DEF Delivered
  <2>2. /\ rpc \in [Readers -> ReaderPlaces] /\ after \in [Readers -> Nat] /\ cached[r] \in Seq(0..1)
        /\ purpose \in [Readers -> {"attach", "probe", "deliver"}]
    BY DEF TypeOK
  <2>3. QED
    BY <2>1, <2>2, SMTT(20) DEF CursorInv
<1>16. ASSUME NEW r \in Readers, Leave(r)
      PROVE  CursorInv'
  BY <1>16 DEF Leave, TypeOK, RefreshInv, CursorInv, writerVars, readerVars,
       Others
<1>17. ASSUME NEW r \in Readers, NEW c \in Cursors, Attach(r, c)
      PROVE  CursorInv'
  BY <1>17 DEF Attach, TypeOK, RefreshInv, CursorInv, writerVars,
       readerVars, Others
<1>18. CASE UNCHANGED vars
  BY <1>18 DEF vars, TypeOK, RefreshInv, CursorInv, writerVars, readerVars,
       Others
<1>19. QED
  BY <1>1, <1>2, <1>3, <1>4, <1>5, <1>6, <1>7, <1>8, <1>9, <1>10, <1>11, <1>12, <1>13, <1>14, <1>15, <1>16, <1>17, <1>18
     DEF Next, Writer, Reader, Follow

LEMMA InitIInv == Init => IInv
<1> SUFFICES ASSUME Init PROVE IInv
  OBVIOUS
<1>1. log = <<>> /\ \A r \in Readers : cached[r] = <<>> /\ delivered[r] = <<>>
  BY DEF Init
<1>2. TypeOK
  <2>1. /\ log \in Seq([kind : Kinds, prev : Nat, meta : 0..1]) /\ <<>> \in Seq(0..1)
        /\ <<>> \in Seq(Nat)
    BY <1>1
  <2>2. /\ cached \in [Readers -> Seq(0..1)] /\ delivered \in [Readers -> Seq(Nat)]
    BY <2>1 DEF Init
  <2>3. /\ rpc \in [Readers -> ReaderPlaces] /\ purpose \in [Readers -> {"attach", "probe", "deliver"}]
        /\ answer \in [Readers -> {"active", "inactive", "unknown", None}]
        /\ shown \in [Readers -> {"live", "final", "writer_lost_or_unknown", None}]
    BY DEF Init, ReaderPlaces
  <2>4. /\ listed \in [Readers -> Nat] /\ position \in [Readers -> Nat] /\ before \in [Readers -> 0..1]
        /\ after \in [Readers -> Nat] /\ origin \in [Readers -> Nat]
    BY DEF Init
  <2>5. /\ wpc = "ready" /\ pending = "absent" /\ sequence = 0 /\ final = FALSE /\ lock = "writer"
    BY DEF Init
  <2>6. QED
    BY <2>1, <2>2, <2>3, <2>4, <2>5 DEF TypeOK
<1>3. ChainIsWhole /\ WriterInv /\ CursorInv
  <2>1. ChainIsWhole
    BY <1>1, <1>2 DEF ChainIsWhole
  <2>2. WriterInv
    BY <1>1 DEF Init, WriterInv, WriterGone
  <2>3. CursorInv
    BY <1>1 DEF Init, CursorInv
  <2>4. QED
    BY <2>1, <2>2, <2>3
<1>4. RefreshInv
  <2>1. /\ Len(log) = 0
        /\ \A r \in Readers : /\ listed[r] = 0 /\ position[r] = 0 /\ rpc[r] = "off" /\ lock # r
                              /\ Len(cached[r]) = 0
    BY <1>1, HoldersDiffer DEF Init
  <2>2. \A r \in Readers : rpc[r] # "record" /\ rpc[r] # "read"
    BY <2>1
  <2>3. ASSUME NEW r \in Readers
        PROVE  /\ listed[r] <= Len(log) /\ Len(cached[r]) <= listed[r] /\ position[r] <= listed[r]
               /\ rpc[r] = "record" => position[r] <= Len(cached[r])
               /\ rpc[r] = "read" => position[r] = Len(cached[r]) /\ position[r] < listed[r]
               /\ lock = r => rpc[r] = "unlock"
    <3>1. /\ Len(log) = 0 /\ listed[r] = 0 /\ position[r] = 0 /\ Len(cached[r]) = 0
          /\ rpc[r] # "record" /\ rpc[r] # "read" /\ lock # r
      BY <2>1, <2>2
    <3>2. QED
      BY <3>1
  <2>4. QED
    BY <2>3 DEF RefreshInv
<1>5. TailInv
  BY HoldersDiffer DEF Init, TailInv
<1>6. QED
  BY <1>3, <1>4, <1>5 DEF IInv

LEMMA IInvStep == IInv /\ [Next]_vars => IInv'
<1> SUFFICES ASSUME IInv, [Next]_vars PROVE IInv'
  OBVIOUS
<1>1. TypeOK /\ ChainIsWhole /\ WriterInv /\ RefreshInv /\ TailInv /\ CursorInv
  BY DEF IInv, ChainIsWhole
<1>2. TypeOK'
  BY <1>1, TypeStep
<1>3. QED
  BY <1>1, <1>2, ChainStep, WriterStep, RefreshStep, TailStep, CursorStep DEF IInv

(* The inductive invariant holds of every behaviour of writer and readers. *)
THEOREM AlwaysIInv == Spec => []IInv
  BY InitIInv, IInvStep, PTL DEF Spec

(* The promoted records are one chain that an outcome ends, for any number *)
(* of records and however often an append failed or a writer died: link(2) *)
(* under the next sequence number, never over a record, and a poisoned     *)
(* writer appends nothing (observation_writer.ml's append).                *)
THEOREM ChainAlwaysWhole == Spec => []ChainIsWhole
<1>1. IInv => ChainIsWhole
  BY DEF IInv
<1>2. QED
  BY <1>1, AlwaysIInv, PTL

(* No reader, of any number of them, ends its watch saying that the writer *)
(* is gone while a record it was not given is there: the second refresh of *)
(* observation.ml's poll comes after the lock was found free.              *)
THEOREM TailNeverLost == Spec => []NoLostTail
<1>1. IInv => NoLostTail
  BY DEF IInv, TailInv, NoLostTail
<1>2. QED
  BY <1>1, AlwaysIInv, PTL

-----------------------------------------------------------------------------
(* The refinement.  What a reader was given, of the promised log.          *)
Given == [r \in Readers |-> IF delivered[r] = <<>> THEN 0 ELSE after[r]]

(* A step that keeps the records, the owner and what was given is no step  *)
(* of the promised log.                                                    *)
LEMMA Stutter ==
  ASSUME Len(log') = Len(log), WriterGone' <=> WriterGone, Given' = Given
  PROVE  UNCHANGED <<Len(log), ~WriterGone, Given>>
  OBVIOUS

LEMMA GivenKept ==
  ASSUME UNCHANGED <<delivered, after>>
  PROVE  Given' = Given
  BY DEF Given

(* Given is a function of the readers.                                     *)
LEMMA GivenAt ==
  /\ Given = [r \in Readers |-> Given[r]] /\ Given' = [r \in Readers |-> Given'[r]]
  /\ \A r \in Readers : Given[r] = IF delivered[r] = <<>> THEN 0 ELSE after[r]
  /\ \A r \in Readers : Given'[r] = IF delivered'[r] = <<>> THEN 0 ELSE after'[r]
  BY DEF Given

(* Attaching moves a cursor before anything is delivered at it.            *)
LEMMA AttachGives ==
  ASSUME TypeOK, CursorInv, NEW r \in Readers, NEW c \in Cursors, Attach(r, c)
  PROVE  Given' = Given
<1>1. delivered[r] = <<>> /\ delivered' = delivered /\ after' = [after EXCEPT ![r] = c]
  BY DEF Attach, CursorInv
<1>2. \A q \in Readers \ {r} : after'[q] = after[q]
  BY <1>1 DEF TypeOK
<1>3. QED
  BY <1>1, <1>2 DEF Given

(* A delivery gives one reader more, up to what is there, and never takes  *)
(* back.                                                                   *)
LEMMA DeliverGives ==
  ASSUME TypeOK, RefreshInv, CursorInv, NEW r \in Readers, Deliver(r)
  PROVE  \E n \in 0..Len(log) : n \in Given[r]..Len(log) /\ Given' = [Given EXCEPT ![r] = n]
<1>1. Delivered(r)
  BY DeliverFacts
<1>2. /\ after \in [Readers -> Nat] /\ listed[r] \in Nat /\ Len(cached[r]) \in Nat /\ Len(log) \in Nat
  BY DEF TypeOK
<1>3. after[r] <= Len(cached[r]) /\ Len(cached[r]) <= Len(log)
  BY <1>1, <1>2 DEF Delivered, RefreshInv
<1>4. after'[r] = Len(cached[r]) /\ \A q \in Readers \ {r} : after'[q] = after[q] /\ delivered'[q] = delivered[q]
  BY <1>1, <1>2 DEF Delivered
<1>5. Given \in [Readers -> Nat] /\ Given[r] <= Len(cached[r])
  BY <1>2, <1>3 DEF Given
<1>6. \A q \in Readers \ {r} : Given'[q] = Given[q]
  BY <1>4, GivenAt
<1>7. CASE delivered'[r] = <<>>
  <2>1. Given'[r] = 0 /\ Given[r] = 0
    BY <1>1, <1>7, GivenAt DEF Delivered
  <2>2. 0 \in 0..Len(log) /\ 0 \in Given[r]..Len(log)
    BY <1>2, <2>1
  <2>3. Given' = [Given EXCEPT ![r] = 0]
    BY <1>6, <2>1, GivenAt
  <2>4. QED
    BY <2>2, <2>3
<1>8. CASE delivered'[r] # <<>>
  <2>1. Given'[r] = Len(cached[r])
    BY <1>4, <1>8, GivenAt
  <2>2. Len(cached[r]) \in 0..Len(log) /\ Len(cached[r]) \in Given[r]..Len(log)
    BY <1>2, <1>3, <1>5
  <2>3. Given' = [Given EXCEPT ![r] = Len(cached[r])]
    BY <1>6, <2>1, GivenAt
  <2>4. QED
    BY <2>2, <2>3
<1>9. QED
  BY <1>7, <1>8

LEMMA StepImplements ==
  ASSUME IInv, [Next]_vars
  PROVE  [Log!Next]_(Log!logVars)
<1>0. /\ TypeOK /\ WriterInv /\ RefreshInv /\ CursorInv
      /\ Len(log) \in Nat
  BY DEF IInv, ChainIsWhole, TypeOK
<1> DEFINE Same == UNCHANGED <<Len(log), ~WriterGone, Given>>
<1>1. Same => UNCHANGED Log!logVars
  BY DEF Log!logVars, Given
<1> HIDE DEF Same
<1>2. CASE Writer
  <2>1. ASSUME NEW k \in Kinds, Promote(k)
        PROVE  Log!Append
    <3>1. Len(log') = Len(log) + 1 /\ ~WriterGone /\ ~WriterGone'
      BY <2>1, <1>0 DEF Promote, WTransition, WriterGone, TypeOK
    <3>2. UNCHANGED <<delivered, after>>
      BY <2>1 DEF Promote, readerVars
    <3>3. QED
      BY <3>1, <3>2 DEF Log!Append
  <2>2. CASE Close \/ Die
    <3>1. log' = log /\ WriterGone' /\ UNCHANGED <<delivered, after>>
      BY <2>2 DEF Close, Die, WriterGone, readerVars
    <3>2. ~WriterGone
      BY <2>2 DEF Close, Die, WriterGone
    <3>3. QED
      BY <3>1, <3>2 DEF Log!Stop, Log!Next
  <2>3. CASE Settle
    <3>1. Len(log') = Len(log) /\ (WriterGone' <=> WriterGone) /\ UNCHANGED <<delivered, after>>
      BY <2>3, <1>0, SettleFacts DEF Settled, WriterGone, readerVars
    <3>2. QED
      BY <3>1, <1>1, GivenKept, Stutter DEF Same
  <2>4. CASE AppendFails
    <3>1. Len(log') = Len(log) /\ (WriterGone' <=> WriterGone) /\ UNCHANGED <<delivered, after>>
      BY <2>4, <1>0, AppendFailsFacts DEF GaveUp, WriterGone, readerVars
    <3>2. QED
      BY <3>1, <1>1, GivenKept, Stutter DEF Same
  <2>5. CASE Refuse \/ OpenPending \/ SavePending
    <3>1. log' = log /\ ~WriterGone /\ ~WriterGone' /\ UNCHANGED <<delivered, after>>
      BY <2>5 DEF Refuse, OpenPending, SavePending, WTransition, WriterGone, readerVars
    <3>2. QED
      BY <3>1, <1>1, GivenKept, Stutter DEF Same
  <2>6. QED
    BY <1>2, <2>1, <2>2, <2>3, <2>4, <2>5 DEF Writer, Log!Next
<1>3. ASSUME NEW r \in Readers, Reader(r)
      PROVE  [Log!Next]_(Log!logVars)
  <2>1. log' = log /\ wpc' = wpc
    BY <1>3 DEF Reader, Follow, List, Examine, ReadRecord, Refreshed, Probe, Unlock, Deliver,
         Leave, Attach, Others, writerVars
  <2>2. WriterGone' <=> WriterGone
    BY <2>1 DEF WriterGone
  <2>3. CASE Deliver(r)
    <3>1. PICK n \in 0..Len(log) : n \in Given[r]..Len(log) /\ Given' = [Given EXCEPT ![r] = n]
      BY <1>0, <2>3, DeliverGives
    <3>2. Log!Give(r, n)
      BY <2>1, <2>2, <3>1 DEF Log!Give, Given
    <3>3. QED
      BY <3>2 DEF Log!Next
  <2>4. ASSUME NEW c \in Cursors, Attach(r, c)
        PROVE  Same
    BY <1>0, <2>1, <2>2, <2>4, AttachGives, Stutter DEF Same
  <2>5. CASE List(r) \/ Examine(r) \/ ReadRecord(r) \/ Refreshed(r) \/ Probe(r) \/ Unlock(r) \/ Leave(r)
    <3>1. UNCHANGED <<delivered, after>>
      BY <2>5 DEF List, Examine, ReadRecord, Refreshed, Probe, Unlock, Leave
    <3>2. QED
      BY <2>1, <2>2, <3>1, <1>1, GivenKept, Stutter DEF Same
  <2>6. QED
    BY <1>1, <1>3, <2>3, <2>4, <2>5 DEF Reader, Follow
<1>4. CASE UNCHANGED vars
  <2>1. log' = log /\ (WriterGone' <=> WriterGone) /\ UNCHANGED <<delivered, after>>
    BY <1>4 DEF vars, writerVars, readerVars, WriterGone
  <2>2. QED
    BY <2>1, <1>1, GivenKept, Stutter DEF Same
<1>5. QED
  BY <1>2, <1>3, <1>4 DEF Next

(* Directory, pending file, links and lock file, with any number of        *)
(* readers reconnecting at any cursor, are an append-only log with one     *)
(* owner of which every reader is given a growing prefix.                  *)
THEOREM FilesImplementTheLog == Spec => ImplementsLog
<1>1. Init => Log!Init
  BY DEF Init, Log!Init, WriterGone
<1>2. IInv /\ [Next]_vars => [Log!Next]_(Log!logVars)
  BY StepImplements
<1>3. QED
  BY <1>1, <1>2, AlwaysIInv, PTL DEF Spec, ImplementsLog, Log!Spec
=============================================================================
