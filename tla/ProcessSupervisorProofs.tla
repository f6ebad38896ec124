----------------------- MODULE ProcessSupervisorProofs -----------------------
(***************************************************************************)
(* Proofs about ProcessSupervisor for every leader, every set of members,  *)
(* with or without a timeout and for any number of calls.  Everything      *)
(* rests on one inductive invariant, IInv; the Step lemmas show that each  *)
(* action keeps each of its parts.                                         *)
(***************************************************************************)
EXTENDS ProcessSupervisor, TLAPS, SequenceTheorems

(* Appending to the short sequences the ladder makes.                      *)
LEMMA AppendSecond ==
  ASSUME NEW a, NEW b
  PROVE  Append(<<a>>, b) = <<a, b>>
<1> DEFINE l == Append(<<a>>, b)
           r == <<a, b>>
           S == {a, b}
<1>0. <<a>> \in Seq(S) /\ Len(<<a>>) = 1
  OBVIOUS
<1>1. l \in Seq(S) /\ Len(l) = 2 /\ l[1] = a /\ l[2] = b
  BY <1>0
<1>2. r \in Seq(S) /\ Len(r) = 2 /\ r[1] = a /\ r[2] = b
  OBVIOUS
<1> HIDE DEF l, r, S
<1>3. \A i \in 1..2 : l[i] = r[i]
  BY <1>1, <1>2
<1> QED
  BY <1>1, <1>2, <1>3, SeqEqual DEF l, r

(* And once more, for the third rung.                                      *)
LEMMA AppendThird ==
  ASSUME NEW a, NEW b, NEW c
  PROVE  Append(<<a, b>>, c) = <<a, b, c>>
<1> DEFINE l == Append(<<a, b>>, c)
           r == <<a, b, c>>
           S == {a, b, c}
<1>0. <<a, b>> \in Seq(S) /\ Len(<<a, b>>) = 2
  OBVIOUS
<1>1. l \in Seq(S) /\ Len(l) = 3 /\ l[1] = a /\ l[2] = b /\ l[3] = c
  BY <1>0
<1>2. r \in Seq(S) /\ Len(r) = 3 /\ r[1] = a /\ r[2] = b /\ r[3] = c
  OBVIOUS
<1> HIDE DEF l, r, S
<1>3. \A i \in 1..3 : l[i] = r[i]
  BY <1>1, <1>2
<1> QED
  BY <1>1, <1>2, <1>3, SeqEqual DEF l, r

(* The type invariant in two halves, for the two provers.                  *)
Flags ==
  /\ active \in BOOLEAN
  /\ launched \in BOOLEAN
  /\ expired \in BOOLEAN
  /\ pinned \in BOOLEAN
  /\ cleanupError \in BOOLEAN

Values ==
  /\ pc \in Places
  /\ handler \in [Signals -> {"caller", "scope"}]
  /\ interrupted \in Signals \cup {None}
  /\ outcome \in Outcomes \cup Signals
  /\ status \in Codes \cup {None}
  /\ first \in Signals \cup {None}
  /\ proc \in [Procs -> {"absent", "alive", "dead"}]
  /\ code \in Codes \cup {None}
  /\ sent \in Seq(Signals \cup {"KILL"})
  /\ result \in Outcomes \cup Signals \cup {None}
  /\ calls \in 0..MaxCalls

(* Together the halves are the type invariant.                             *)
LEMMA TypeHalves == TypeOK <=> Flags /\ Values
BY DEF TypeOK, Flags, Values

(* The same of the next state.                                             *)
LEMMA TypeHalvesPrime == TypeOK' <=> Flags' /\ Values'
BY DEF TypeOK, Flags, Values

(* The initial state, before any call.                                     *)
LEMMA Initially == Init => IInv
<1> SUFFICES ASSUME Init PROVE IInv
    OBVIOUS
<1>1. TypeOK
  <2>1. Flags
    BY Zenon DEF Init, Flags
  <2>2. Values
    BY MaxCallsIsNat DEF Init, Values, Places, Signals, Outcomes, Codes
  <2> QED
    BY <2>1, <2>2, TypeHalves
<1>2. ScopeInv
  BY DEF Init, ScopeInv, Signals
<1>3. GroupInv
  BY DEF Init, GroupInv, Alive, Entering, Owning, Unwinding, Procs
<1>4. LadderInv
  BY DEF Init, LadderInv
<1>5. CaughtSignalsSurface
  BY DEF Init, CaughtSignalsSurface
<1> QED
  BY <1>1, <1>2, <1>3, <1>4, <1>5 DEF IInv

(* Every action keeps the flags Boolean.                                   *)
LEMMA FlagsStep == IInv /\ [Next]_vars => Flags'
<1> SUFFICES ASSUME IInv, [Next]_vars PROVE Flags'
    OBVIOUS
<1> USE DEF Flags, IInv, TypeOK, Transition, scopeVars, groupVars, hookVars
<1>1. CASE Enter
  BY Zenon, <1>1 DEF Enter
<1>2. CASE Install("INT", "installInt", "installTerm")
         \/ Install("TERM", "installTerm", "open")
  BY Zenon, <1>2 DEF Install
<1>3. CASE Launch
  BY Zenon, <1>3 DEF Launch, OpenOutputs, Spawn, Raise
<1>4. CASE PollCancel
  BY Zenon, <1>4 DEF PollCancel, Raise, Accepted
<1>5. CASE Decide
  BY Zenon, <1>5 DEF Decide, ChildExited
<1>6. CASE SendFirst
  BY Zenon, <1>6 DEF SendFirst
<1>7. CASE GraceOver
  BY Zenon, <1>7 DEF GraceOver, NextRung
<1>8. CASE SendTerm
  BY Zenon, <1>8 DEF SendTerm
<1>9. CASE SendKill
  BY Zenon, <1>9 DEF SendKill
<1>10. CASE Reap
  BY Zenon, <1>10 DEF Reap, OutcomeAfterReap
<1>11. CASE RunCleanup
  BY Zenon, <1>11 DEF RunCleanup
<1>12. CASE Restore("TERM", "restoreTerm", "restoreInt")
         \/ Restore("INT", "restoreInt", "deactivate")
  BY Zenon, <1>12 DEF Restore, GivenBack
<1>13. CASE Deactivate
  BY Zenon, <1>13 DEF Deactivate
<1>14. CASE Snapshot
  BY Zenon, <1>14 DEF Snapshot, Reported
<1>15. ASSUME NEW s \in Signals, Signal(s) PROVE Flags'
  BY Zenon, <1>15 DEF Signal, Caught
<1>16. CASE Expire
  BY Zenon, <1>16 DEF Expire
<1>17. ASSUME NEW p \in Procs, Exit(p) PROVE Flags'
  BY Zenon, <1>17 DEF Exit
<1>18. ASSUME NEW q \in Members, Fork(q) PROVE Flags'
  BY Zenon, <1>18 DEF Fork
<1>19. CASE UNCHANGED vars
  BY Zenon, <1>19 DEF vars
<1> QED
  BY <1>1, <1>2, <1>3, <1>4, <1>5, <1>6, <1>7, <1>8, <1>9, <1>10, <1>11,
      <1>12, <1>13, <1>14, <1>15, <1>16, <1>17, <1>18, <1>19 DEF Next, Scope

(* Every action keeps the other types.                                     *)
LEMMA ValuesStep == IInv /\ [Next]_vars => Values'
<1> SUFFICES ASSUME IInv, [Next]_vars PROVE Values'
    OBVIOUS
<1> USE MaxCallsIsNat DEF Values, Places, Signals, Outcomes, Codes, IInv,
    TypeOK, Transition, scopeVars, groupVars, hookVars
<1>1. CASE Enter
  BY <1>1 DEF Enter
<1>2. CASE Install("INT", "installInt", "installTerm")
         \/ Install("TERM", "installTerm", "open")
  BY <1>2 DEF Install
<1>3. CASE Launch
  BY <1>3 DEF Launch, OpenOutputs, Spawn, Raise, Procs
<1>4. CASE PollCancel
  BY <1>4 DEF PollCancel, Raise, Accepted
<1>5. CASE Decide
  BY <1>5 DEF Decide, ChildExited, Procs, GroupInv
<1>6. CASE SendFirst
  BY <1>6 DEF SendFirst, LadderInv
<1>7. CASE GraceOver
  BY <1>7 DEF GraceOver, NextRung
<1>8. CASE SendTerm
  BY <1>8 DEF SendTerm
<1>9. CASE SendKill
  BY <1>9 DEF SendKill
<1>10. CASE Reap
  BY <1>10 DEF Reap, OutcomeAfterReap
<1>11. CASE RunCleanup
  BY <1>11 DEF RunCleanup
<1>12. CASE Restore("TERM", "restoreTerm", "restoreInt")
         \/ Restore("INT", "restoreInt", "deactivate")
  BY <1>12 DEF Restore, GivenBack
<1>13. CASE Deactivate
  BY <1>13 DEF Deactivate
<1>14. CASE Snapshot
  BY <1>14 DEF Snapshot, Reported
<1>15. ASSUME NEW s \in Signals, Signal(s) PROVE Values'
  BY <1>15 DEF Signal, Caught
<1>16. CASE Expire
  BY <1>16 DEF Expire
<1>17. ASSUME NEW p \in Procs, Exit(p) PROVE Values'
  BY <1>17 DEF Exit
<1>18. ASSUME NEW q \in Members, Fork(q) PROVE Values'
  BY <1>18 DEF Fork, Procs
<1>19. CASE UNCHANGED vars
  BY <1>19 DEF vars
<1> QED
  BY <1>1, <1>2, <1>3, <1>4, <1>5, <1>6, <1>7, <1>8, <1>9, <1>10, <1>11,
      <1>12, <1>13, <1>14, <1>15, <1>16, <1>17, <1>18, <1>19 DEF Next, Scope

(* Every action keeps flag and handlers in step with the place.            *)
LEMMA ScopeStep == IInv /\ [Next]_vars => ScopeInv'
<1> SUFFICES ASSUME IInv, [Next]_vars PROVE ScopeInv'
    OBVIOUS
<1> USE MaxCallsIsNat DEF ScopeInv, IInv, TypeOK, Transition, scopeVars,
    groupVars, hookVars, Signals
<1>1. CASE Enter
  BY <1>1 DEF Enter
<1>2. CASE Install("INT", "installInt", "installTerm")
         \/ Install("TERM", "installTerm", "open")
  BY <1>2 DEF Install
<1>3. CASE Launch
  BY <1>3 DEF Launch, OpenOutputs, Spawn, Raise
<1>4. CASE PollCancel
  BY <1>4 DEF PollCancel, Raise, Accepted
<1>5. CASE Decide
  BY <1>5 DEF Decide, ChildExited
<1>6. CASE SendFirst
  BY <1>6 DEF SendFirst
<1>7. CASE GraceOver
  BY <1>7 DEF GraceOver, NextRung
<1>8. CASE SendTerm
  BY <1>8 DEF SendTerm
<1>9. CASE SendKill
  BY <1>9 DEF SendKill
<1>10. CASE Reap
  BY <1>10 DEF Reap, OutcomeAfterReap
<1>11. CASE RunCleanup
  BY <1>11 DEF RunCleanup
<1>12. CASE Restore("TERM", "restoreTerm", "restoreInt")
         \/ Restore("INT", "restoreInt", "deactivate")
  BY <1>12 DEF Restore, GivenBack
<1>13. CASE Deactivate
  BY <1>13 DEF Deactivate
<1>14. CASE Snapshot
  BY <1>14 DEF Snapshot, Reported
<1>15. ASSUME NEW s \in Signals, Signal(s) PROVE ScopeInv'
  BY <1>15 DEF Signal, Caught
<1>16. CASE Expire
  BY <1>16 DEF Expire
<1>17. ASSUME NEW p \in Procs, Exit(p) PROVE ScopeInv'
  BY <1>17 DEF Exit
<1>18. ASSUME NEW q \in Members, Fork(q) PROVE ScopeInv'
  BY <1>18 DEF Fork
<1>19. CASE UNCHANGED vars
  BY <1>19 DEF vars
<1> QED
  BY <1>1, <1>2, <1>3, <1>4, <1>5, <1>6, <1>7, <1>8, <1>9, <1>10, <1>11,
      <1>12, <1>13, <1>14, <1>15, <1>16, <1>17, <1>18, <1>19 DEF Next, Scope

(* Every action keeps the group inside its places.                         *)
LEMMA GroupStep == IInv /\ [Next]_vars => GroupInv'
<1> SUFFICES ASSUME IInv, [Next]_vars PROVE GroupInv'
    OBVIOUS
<1> USE LeaderIsNotAMember DEF GroupInv, Alive, IInv, TypeOK, Transition,
    scopeVars, groupVars, hookVars, Entering, Owning, Unwinding, Procs, Codes,
        Signals
<1>1. CASE Enter
  BY <1>1 DEF Enter
<1>2. CASE Install("INT", "installInt", "installTerm")
         \/ Install("TERM", "installTerm", "open")
  BY <1>2 DEF Install
<1>3. CASE Launch
  BY <1>3 DEF Launch, OpenOutputs, Spawn, Raise
<1>4. CASE PollCancel
  BY <1>4 DEF PollCancel, Raise, Accepted
<1>5. CASE Decide
  BY <1>5 DEF Decide, ChildExited
<1>6. CASE SendFirst
  BY <1>6 DEF SendFirst
<1>7. CASE GraceOver
  BY <1>7 DEF GraceOver, NextRung
<1>8. CASE SendTerm
  BY <1>8 DEF SendTerm
<1>9. CASE SendKill
  BY <1>9 DEF SendKill, Targets
<1>10. CASE Reap
  BY <1>10 DEF Reap, OutcomeAfterReap
<1>11. CASE RunCleanup
  BY <1>11 DEF RunCleanup
<1>12. CASE Restore("TERM", "restoreTerm", "restoreInt")
         \/ Restore("INT", "restoreInt", "deactivate")
  BY <1>12 DEF Restore, GivenBack
<1>13. CASE Deactivate
  BY <1>13 DEF Deactivate
<1>14. CASE Snapshot
  BY <1>14 DEF Snapshot, Reported
<1>15. ASSUME NEW s \in Signals, Signal(s) PROVE GroupInv'
  BY <1>15 DEF Signal, Caught
<1>16. CASE Expire
  BY <1>16 DEF Expire
<1>17. ASSUME NEW p \in Procs, Exit(p) PROVE GroupInv'
  BY <1>17 DEF Exit
<1>18. ASSUME NEW q \in Members, Fork(q) PROVE GroupInv'
  BY <1>18 DEF Fork
<1>19. CASE UNCHANGED vars
  BY <1>19 DEF vars
<1> QED
  BY <1>1, <1>2, <1>3, <1>4, <1>5, <1>6, <1>7, <1>8, <1>9, <1>10, <1>11,
      <1>12, <1>13, <1>14, <1>15, <1>16, <1>17, <1>18, <1>19 DEF Next, Scope

(* Every action keeps the ladder at its rung.                              *)
LEMMA LadderStep == IInv /\ [Next]_vars => LadderInv'
<1> SUFFICES ASSUME IInv, [Next]_vars PROVE LadderInv'
    OBVIOUS
<1> USE DEF LadderInv, IInv, TypeOK, Transition, scopeVars, groupVars,
    hookVars, Entering, Owning, Unwinding, Signals
<1>1. CASE Enter
  BY <1>1 DEF Enter
<1>2. CASE Install("INT", "installInt", "installTerm")
         \/ Install("TERM", "installTerm", "open")
  BY <1>2 DEF Install
<1>3. CASE Launch
  BY <1>3 DEF Launch, OpenOutputs, Spawn, Raise, GroupInv
<1>4. CASE PollCancel
  BY <1>4 DEF PollCancel, Raise, Accepted, GroupInv
<1>5. CASE Decide
  BY <1>5 DEF Decide, ChildExited
<1>6. CASE SendFirst
  BY <1>6 DEF SendFirst
<1>7. CASE GraceOver
  BY <1>7 DEF GraceOver, NextRung
<1>8. CASE SendTerm
  <2>1. Append(<<"INT">>, "TERM") = <<"INT", "TERM">>
    BY AppendSecond
  <2> QED
    BY <1>8, <2>1 DEF SendTerm
<1>9. CASE SendKill
  <2>1. Append(<<"TERM">>, "KILL") = <<"TERM", "KILL">>
    BY AppendSecond
  <2>2. Append(<<"INT", "TERM">>, "KILL") = <<"INT", "TERM", "KILL">>
    BY AppendThird
  <2> QED
    BY <1>9, <2>1, <2>2 DEF SendKill
<1>10. CASE Reap
  BY <1>10 DEF Reap, OutcomeAfterReap, GroupInv
<1>11. CASE RunCleanup
  BY <1>11 DEF RunCleanup
<1>12. CASE Restore("TERM", "restoreTerm", "restoreInt")
         \/ Restore("INT", "restoreInt", "deactivate")
  BY <1>12 DEF Restore, GivenBack
<1>13. CASE Deactivate
  BY <1>13 DEF Deactivate
<1>14. CASE Snapshot
  BY <1>14 DEF Snapshot, Reported
<1>15. ASSUME NEW s \in Signals, Signal(s) PROVE LadderInv'
  BY <1>15 DEF Signal, Caught
<1>16. CASE Expire
  BY <1>16 DEF Expire
<1>17. ASSUME NEW p \in Procs, Exit(p) PROVE LadderInv'
  BY <1>17 DEF Exit
<1>18. ASSUME NEW q \in Members, Fork(q) PROVE LadderInv'
  BY <1>18 DEF Fork
<1>19. CASE UNCHANGED vars
  BY <1>19 DEF vars
<1> QED
  BY <1>1, <1>2, <1>3, <1>4, <1>5, <1>6, <1>7, <1>8, <1>9, <1>10, <1>11,
      <1>12, <1>13, <1>14, <1>15, <1>16, <1>17, <1>18, <1>19 DEF Next, Scope

(* Every action keeps a caught signal from being hidden.                   *)
LEMMA CaughtStep == IInv /\ [Next]_vars => CaughtSignalsSurface'
<1> SUFFICES ASSUME IInv, [Next]_vars PROVE CaughtSignalsSurface'
    OBVIOUS
<1> USE NoneIsNew DEF CaughtSignalsSurface, IInv, TypeOK, ScopeInv,
    Transition, scopeVars, groupVars, hookVars, Signals
<1>1. CASE Enter
  BY <1>1 DEF Enter
<1>2. CASE Install("INT", "installInt", "installTerm")
         \/ Install("TERM", "installTerm", "open")
  BY <1>2 DEF Install
<1>3. CASE Launch
  BY <1>3 DEF Launch, OpenOutputs, Spawn, Raise
<1>4. CASE PollCancel
  BY <1>4 DEF PollCancel, Raise, Accepted
<1>5. CASE Decide
  BY <1>5 DEF Decide, ChildExited
<1>6. CASE SendFirst
  BY <1>6 DEF SendFirst
<1>7. CASE GraceOver
  BY <1>7 DEF GraceOver, NextRung
<1>8. CASE SendTerm
  BY <1>8 DEF SendTerm
<1>9. CASE SendKill
  BY <1>9 DEF SendKill
<1>10. CASE Reap
  BY <1>10 DEF Reap, OutcomeAfterReap
<1>11. CASE RunCleanup
  BY <1>11 DEF RunCleanup
<1>12. CASE Restore("TERM", "restoreTerm", "restoreInt")
         \/ Restore("INT", "restoreInt", "deactivate")
  BY <1>12 DEF Restore, GivenBack
<1>13. CASE Deactivate
  BY <1>13 DEF Deactivate
<1>14. CASE Snapshot
  BY <1>14 DEF Snapshot, Reported
<1>15. ASSUME NEW s \in Signals, Signal(s) PROVE CaughtSignalsSurface'
  BY <1>15 DEF Signal, Caught
<1>16. CASE Expire
  BY <1>16 DEF Expire
<1>17. ASSUME NEW p \in Procs, Exit(p) PROVE CaughtSignalsSurface'
  BY <1>17 DEF Exit
<1>18. ASSUME NEW q \in Members, Fork(q) PROVE CaughtSignalsSurface'
  BY <1>18 DEF Fork
<1>19. CASE UNCHANGED vars
  BY <1>19 DEF vars
<1> QED
  BY <1>1, <1>2, <1>3, <1>4, <1>5, <1>6, <1>7, <1>8, <1>9, <1>10, <1>11,
      <1>12, <1>13, <1>14, <1>15, <1>16, <1>17, <1>18, <1>19 DEF Next, Scope

(* IInv holds at every moment of every run, for every group.               *)
THEOREM AlwaysIInv == Spec => []IInv
<1>1. IInv /\ [Next]_vars => IInv'
  BY FlagsStep, ValuesStep, TypeHalvesPrime, ScopeStep, GroupStep, LadderStep,
     CaughtStep DEF IInv
<1> QED
  BY Initially, <1>1, PTL DEF Spec

(* However many processes the group forks and whatever they ignore, none   *)
(* runs once the cleanup hook is called or the call has returned.          *)
THEOREM GroupAlwaysGone == Spec => []GroupGone
<1>1. IInv => GroupGone
  BY DEF IInv, GroupInv, GroupGone, Unwinding
<1> QED
  BY AlwaysIInv, <1>1, PTL

(* A signal the scope caught is never hidden behind another outcome.       *)
THEOREM CaughtSignalsAlwaysSurface == Spec => []CaughtSignalsSurface
<1>1. IInv => CaughtSignalsSurface
  BY DEF IInv
<1> QED
  BY AlwaysIInv, <1>1, PTL

(* A signal is only sent while the leader's process ID is still its own.   *)
THEOREM OnlyOwnGroupSignalled == Spec => OnlySignalOwnGroup
<1>1. IInv /\ [Next]_vars => [sent' # sent /\ sent' # <<>> => pinned]_vars
  <2> SUFFICES ASSUME IInv, Next, sent' # sent, sent' # <<>>
               PROVE  pinned
      BY DEF vars
  <2>1. SendFirst \/ SendTerm \/ SendKill
    BY DEF Next, Scope, Enter, Install, Launch, OpenOutputs, Spawn, PollCancel, Decide,
           GraceOver, Reap, RunCleanup, Restore, Deactivate, Snapshot, Signal, Expire,
           Exit, Fork, groupVars
  <2>2. pc \in Owning
    BY <2>1 DEF SendFirst, SendTerm, SendKill, Transition, Owning
  <2> QED
    BY <2>2 DEF IInv, GroupInv
<1> QED
  BY AlwaysIInv, <1>1, PTL DEF Spec, OnlySignalOwnGroup

(* An exit 0 is only taken for the outcome when the leader had exited by   *)
(* itself, before anything was sent, and nothing else had been seen.       *)
THEOREM SuccessAlwaysGenuine == Spec => SuccessIsGenuine
<1>1. IInv /\ [Next]_vars =>
        [outcome # "exit0" /\ outcome' = "exit0" =>
           sent = <<>> /\ code = "exit0" /\ ~expired /\ interrupted = None]_vars
  <2> SUFFICES ASSUME IInv, Next, outcome # "exit0", outcome' = "exit0"
               PROVE  sent = <<>> /\ code = "exit0" /\ ~expired /\ interrupted = None
      BY DEF vars
  <2>1. Decide
    BY DEF Next, Scope, Enter, Install, Launch, OpenOutputs, Spawn, Raise, PollCancel,
           SendFirst, GraceOver, SendTerm, SendKill, Reap, OutcomeAfterReap, RunCleanup,
           Restore, Deactivate, Snapshot, Signal, Expire, Exit, Fork, scopeVars
  <2>2. sent = <<>>
    BY <2>1 DEF Decide, IInv, LadderInv
  <2>3. code = "exit0" /\ ~expired /\ interrupted = None
    BY <2>1 DEF Decide, IInv, TypeOK, Signals, TimeoutDue
  <2> QED
    BY <2>2, <2>3
<1> QED
  BY <1>1, AlwaysIInv, PTL DEF Spec, SuccessIsGenuine

(* The scope implements the abstract promise: every step is one of         *)
(* SupervisedRun's or leaves all it sees unchanged.                        *)
LEMMA InitImplements == Init => Promise!Init
BY DEF Init, Promise!Init, Alive

(* Each action of the scope, seen through the mapping.                     *)
LEMMA StepImplements == IInv /\ [Next]_vars => [Promise!Next]_Promise!absVars
<1> SUFFICES ASSUME IInv, [Next]_vars
             PROVE  Promise!Next \/ UNCHANGED Promise!absVars
    OBVIOUS
<1> USE DEF Promise!absVars, Transition, scopeVars, groupVars, hookVars
<1>1. CASE Enter
  <2>1. Alive = {} /\ Alive' = {}
    BY <1>1 DEF IInv, GroupInv, Enter, Alive
  <2>2. Promise!Enter
    BY <1>1, <2>1 DEF Enter, Promise!Enter
  <2> QED
    BY <2>2 DEF Promise!Next
<1>2. CASE \/ Install("INT", "installInt", "installTerm")
           \/ Install("TERM", "installTerm", "open")
  BY <1>2 DEF Install, Alive
<1>3. CASE Launch
  <2>1. CASE OpenOutputs /\ UNCHANGED <<launched, pinned, proc>>
    BY <1>3, <2>1 DEF Launch, OpenOutputs, Raise, Alive
  <2>2. CASE Spawn /\ proc' = proc
    BY <1>3, <2>2 DEF Launch, Spawn, Raise, Alive
  <2>3. CASE Spawn /\ proc' # proc
    <3>1. Alive = {}
      BY <2>3 DEF IInv, GroupInv, Spawn, Entering
    <3>2. Leader \in Alive'
      BY <2>3 DEF IInv, TypeOK, Spawn, Alive, Procs
    <3>3. Promise!Launch
      BY <1>3, <2>3, <3>1, <3>2 DEF Launch, Spawn, Promise!Launch
    <3> QED
      BY <3>3 DEF Promise!Next
  <2> QED
    BY <1>3, <2>1, <2>2, <2>3 DEF Launch
<1>4. CASE PollCancel
  <2>1. CASE interrupted' = interrupted
    BY <1>4, <2>1 DEF PollCancel, Raise, Alive
  <2>2. CASE interrupted' # interrupted
    <3>1. interrupted' \in Signals /\ Promise!Catch(interrupted')
      BY <1>4, <2>2 DEF PollCancel, Raise, Accepted, Alive, Promise!Catch
    <3> QED
      BY <3>1 DEF Promise!Next
  <2> QED
    BY <2>1, <2>2
<1>5. CASE Decide
  BY <1>5 DEF Decide, Alive
<1>6. CASE SendFirst \/ GraceOver \/ SendTerm
  BY <1>6 DEF SendFirst, GraceOver, NextRung, SendTerm, Alive
<1>7. CASE SendKill
  <2>1. Alive' = {}
    BY <1>7 DEF SendKill, Targets, Alive
  <2>2. CASE Alive = {}
    BY <1>7, <2>1, <2>2 DEF SendKill
  <2>3. CASE Alive # {}
    <3>1. Promise!Settle
      BY <1>7, <2>1, <2>3 DEF SendKill, Promise!Settle
    <3> QED
      BY <3>1 DEF Promise!Next
  <2> QED
    BY <2>2, <2>3
<1>8. CASE Reap \/ RunCleanup \/ Deactivate
  BY <1>8 DEF Reap, RunCleanup, Deactivate, Alive
<1>9. CASE \/ Restore("TERM", "restoreTerm", "restoreInt")
           \/ Restore("INT", "restoreInt", "deactivate")
  BY <1>9 DEF Restore, Alive
<1>10. CASE Snapshot
  <2>1. Alive = {} /\ Alive' = {}
    BY <1>10 DEF IInv, GroupInv, Snapshot, Unwinding, Alive
  <2>2. outcome \in Outcomes \cup Signals /\ calls # 0
    BY <1>10 DEF IInv, TypeOK, ScopeInv, Snapshot
  <2>3. Promise!Deliver(outcome)
    BY <1>10, <2>1, <2>2 DEF Snapshot, Reported, Promise!Deliver
  <2> QED
    BY <2>2, <2>3 DEF Promise!Next
<1>11. ASSUME NEW s \in Signals, Signal(s)
       PROVE  Promise!Next \/ UNCHANGED Promise!absVars
  <2>1. pc # "idle"
    BY <1>11 DEF IInv, ScopeInv, Signal, Signals
  <2>2. CASE interrupted = None
    <3>1. Promise!Catch(s)
      BY <1>11, <2>1, <2>2 DEF Signal, Caught, Promise!Catch, Alive
    <3> QED
      BY <3>1 DEF Promise!Next
  <2>3. CASE interrupted # None
    BY <1>11, <2>3 DEF Signal, Caught, Alive
  <2> QED
    BY <2>2, <2>3
<1>12. CASE Expire
  BY <1>12 DEF Expire, Alive
<1>13. ASSUME NEW p \in Procs, Exit(p)
       PROVE  Promise!Next \/ UNCHANGED Promise!absVars
  <2>1. Alive # {} /\ pc # "idle"
    BY <1>13 DEF Exit, IInv, GroupInv, Alive
  <2>2. CASE Alive' = {}
    <3>1. Promise!Settle
      BY <1>13, <2>1, <2>2 DEF Exit, Promise!Settle
    <3> QED
      BY <3>1 DEF Promise!Next
  <2>3. CASE Alive' # {}
    BY <1>13, <2>1, <2>3 DEF Exit
  <2> QED
    BY <2>2, <2>3
<1>14. ASSUME NEW q \in Members, Fork(q)
       PROVE  Promise!Next \/ UNCHANGED Promise!absVars
  <2>1. q \in Alive'
    BY <1>14 DEF Fork, IInv, TypeOK, Alive, Procs
  <2> QED
    BY <1>14, <2>1 DEF Fork
<1>15. CASE UNCHANGED vars
  BY <1>15 DEF vars, Alive
<1> QED
  BY <1>1, <1>2, <1>3, <1>4, <1>5, <1>6, <1>7, <1>8, <1>9, <1>10, <1>11, <1>12, <1>13,
     <1>14, <1>15 DEF Next, Scope

(* Whatever the group does and however many calls are made, callers see    *)
(* the abstract promise.                                                   *)
THEOREM Implements == Spec => ImplementsPromise
BY AlwaysIInv, InitImplements, StepImplements, PTL DEF Spec, ImplementsPromise, Promise!Spec
=============================================================================
