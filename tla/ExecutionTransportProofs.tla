----------------------- MODULE ExecutionTransportProofs -----------------------
(***************************************************************************)
(* Proofs about one invocation of the transport, with a container or       *)
(* without, however its client ends, whatever the daemon does when, and    *)
(* however many signals come, to whichever handlers.  The sweep may repeat *)
(* its removals without a bound.                                           *)
(***************************************************************************)
EXTENDS ExecutionTransport, TLAPS

(* Where the scope is: whose the handlers are, whether a supervised run is *)
(* in progress, and what there cannot be yet.                              *)
Sweeping == {"sweep", "remove"}
Leaving == {"restoreInt", "restoreTerm", "snapshot", "done"}

PlaceInv ==
  /\ pc \in {"idle", "snapshot", "done"} => \A s \in Signals : outer[s] = "caller"
  /\ pc = "restoreTerm" => outer["INT"] = "caller"
  /\ pc \in {"idle", "installTerm", "enter"} => phase = "idle" /\ client = "none"
  /\ phase = "open" <=> pc \in {"main", "remove"}
  /\ pc \notin Sweeping \cup Leaving => primary = None /\ error = "not attempted"
  /\ pc \in Sweeping => owns
  /\ ~owns => error = "not attempted"
  /\ error = "raised" => pc \in Leaving

(* What the daemon can do for the client of a call, and after it.          *)
ClientInv ==
  /\ ~owns \/ client = "none" => request = "none"
  /\ container => request = "committed"
  /\ client = "exit0" /\ owns => request = "committed"
  /\ primary = "exit0" => client = "exit0"

(* A removal that found nothing or removed it leaves a container only to a *)
(* later commit, and a client that reported success can have none.         *)
Left == container => late /\ primary # "exit0"
SweepInv ==
  /\ pc # "remove" /\ error = None => Left
  /\ pc = "remove" /\ served \in {"removed", "absent"} => Left
  /\ pc \in Leaving /\ error = None => expired \/ primary = "exit0"

(* A signal that was heard is remembered by the scope, was reported of the *)
(* client, is about to be reported, or was lost with the cleanup's failure.*)
HeardInv ==
  /\ heard # None =>
       \/ interrupted # None
       \/ primary \in Signals
       \/ phase = "open" /\ caught # None
       \/ error = "raised"
  /\ pc = "done" =>
       /\ result = (IF interrupted # None /\ primary = "exit0" THEN interrupted ELSE primary)
       /\ vetoed = (interrupted # None /\ primary # "exit0")

IInv == TypeOK /\ PlaceInv /\ ClientInv /\ SweepInv /\ HeardInv

-----------------------------------------------------------------------------
(* Outcomes, signals and None are different.                              *)
LEMMA Names ==
  /\ None \notin Signals /\ None \notin Outcomes
  /\ Signals \cap Outcomes = {}
  /\ "exit0" \in Outcomes /\ {"exit0", "exitN"} \cap Signals = {}
  /\ {"INT", "TERM"} \subseteq Signals
  /\ \A s \in Signals : s \in {"INT", "TERM"}
BY NoneIsNew DEF Signals, Outcomes

(* The types of the supervised run, of the scope and of what is outside.   *)
RunTyped ==
  /\ phase \in {"idle", "open", "closed"}
  /\ group \in BOOLEAN
  /\ caught \in Signals \cup {None}
  /\ reported \in Outcomes \cup Signals \cup {None}

ScopeTyped ==
  /\ owns \in BOOLEAN /\ expired \in BOOLEAN /\ vetoed \in BOOLEAN
  /\ outer \in [Signals -> {"caller", "transport"}]
  /\ interrupted \in Signals \cup {None}
  /\ primary \in Outcomes \cup Signals \cup {None}
  /\ result \in Outcomes \cup Signals \cup {None}
  /\ heard \in Signals \cup {None}

PlaceTyped ==
  /\ pc \in {"idle", "installTerm", "enter", "main", "sweep", "remove", "restoreInt",
             "restoreTerm", "snapshot", "done"}
  /\ error \in {None, "not attempted", "removal failed", "raised"}

DaemonTyped ==
  /\ client \in {"none", "running", "exit0", "exitN", "killed"}
  /\ request \in {"none", "sent", "committed", "refused"}
  /\ container \in BOOLEAN /\ late \in BOOLEAN
  /\ served \in {None, "asked", "removed", "absent", "error"}

LEMMA TypeParts == TypeOK <=> RunTyped /\ ScopeTyped /\ PlaceTyped /\ DaemonTyped
BY DEF TypeOK, RunTyped, ScopeTyped, PlaceTyped, DaemonTyped

(* Only a signal, a poll and the scope itself touch a supervised run.      *)
LEMMA RunTypeStep ==
  ASSUME RunTyped, ScopeTyped, [Next]_vars
  PROVE  RunTyped'
<1> USE Names DEF runVars, scopeVars, daemonVars, RunTyped, ScopeTyped
<1>1. CASE Install
  BY <1>1 DEF Install, Handle
<1>2. CASE EnterMain
  BY <1>2 DEF EnterMain, Run!Enter
<1>3. CASE LaunchClient
  BY <1>3 DEF LaunchClient, Run!Launch
<1>4. CASE PollOuter
  BY <1>4 DEF PollOuter, Run!Catch
<1>5. CASE SettleClient
  BY <1>5 DEF SettleClient, Run!Settle
<1>6. ASSUME NEW o \in Outcomes, DeliverMain(o)
      PROVE  RunTyped'
  BY <1>6 DEF DeliverMain, Reports, Run!Deliver
<1>7. CASE Attempt
  BY <1>7 DEF Attempt, Goes, Definitive, TimeIsUp, Run!Enter
<1>8. CASE LaunchRemoval
  BY <1>8 DEF LaunchRemoval, Run!Launch
<1>9. CASE SettleRemoval
  BY <1>9 DEF SettleRemoval, Run!Settle
<1>10. ASSUME NEW o \in Outcomes, DeliverRemoval(o)
      PROVE  RunTyped'
  BY <1>10 DEF DeliverRemoval, Says, Gone, FromRemoval, FirstOf, Run!Deliver
<1>11. CASE SweepRaises
  BY <1>11 DEF SweepRaises
<1>12. CASE SweepOver
  BY <1>12 DEF SweepOver, Goes, Definitive, TimeIsUp
<1>13. CASE Restore
  BY <1>13 DEF Restore, Handle
<1>14. CASE Return
  BY <1>14 DEF Return
<1>15. CASE Send
  BY <1>15 DEF Send
<1>16. CASE ClientExits
  BY <1>16 DEF ClientExits
<1>17. CASE Commit
  BY <1>17 DEF Commit
<1>18. CASE Refuse
  BY <1>18 DEF Refuse
<1>19. CASE AutoRemove
  BY <1>19 DEF AutoRemove
<1>20. CASE Serve
  BY <1>20 DEF Serve
<1>21. CASE Expire
  BY <1>21 DEF Expire
<1>22. ASSUME NEW s \in Signals, Signal(s)
      PROVE  RunTyped'
  BY <1>22 DEF Signal, FirstOf, Run!Catch
<1>23. CASE UNCHANGED vars
  BY <1>23 DEF vars
<1>24. QED
  BY <1>1, <1>2, <1>3, <1>4, <1>5, <1>6, <1>7, <1>8, <1>9, <1>10, <1>11, <1>12, <1>13, <1>14, <1>15, <1>16, <1>17, <1>18, <1>19, <1>20, <1>21, <1>22, <1>23 DEF Next, Main, Sweep, Daemon

(* What the scope holds.                                                   *)
LEMMA ScopeTypeStep ==
  ASSUME RunTyped, ScopeTyped, [Next]_vars
  PROVE  ScopeTyped'
<1> USE Names DEF runVars, scopeVars, daemonVars, RunTyped, ScopeTyped
<1>1. CASE Install
  BY <1>1 DEF Install, Handle
<1>2. CASE EnterMain
  BY <1>2 DEF EnterMain, Run!Enter
<1>3. CASE LaunchClient
  BY <1>3 DEF LaunchClient, Run!Launch
<1>4. CASE PollOuter
  BY <1>4 DEF PollOuter, Run!Catch
<1>5. CASE SettleClient
  BY <1>5 DEF SettleClient, Run!Settle
<1>6. ASSUME NEW o \in Outcomes, DeliverMain(o)
      PROVE  ScopeTyped'
  BY <1>6 DEF DeliverMain, Reports, Run!Deliver
<1>7. CASE Attempt
  BY <1>7 DEF Attempt, Goes, Definitive, TimeIsUp, Run!Enter
<1>8. CASE LaunchRemoval
  BY <1>8 DEF LaunchRemoval, Run!Launch
<1>9. CASE SettleRemoval
  BY <1>9 DEF SettleRemoval, Run!Settle
<1>10. ASSUME NEW o \in Outcomes, DeliverRemoval(o)
      PROVE  ScopeTyped'
  BY <1>10 DEF DeliverRemoval, Says, Gone, FromRemoval, FirstOf, Run!Deliver
<1>11. CASE SweepRaises
  BY <1>11 DEF SweepRaises
<1>12. CASE SweepOver
  BY <1>12 DEF SweepOver, Goes, Definitive, TimeIsUp
<1>13. CASE Restore
  BY <1>13 DEF Restore, Handle
<1>14. CASE Return
  BY <1>14 DEF Return
<1>15. CASE Send
  BY <1>15 DEF Send
<1>16. CASE ClientExits
  BY <1>16 DEF ClientExits
<1>17. CASE Commit
  BY <1>17 DEF Commit
<1>18. CASE Refuse
  BY <1>18 DEF Refuse
<1>19. CASE AutoRemove
  BY <1>19 DEF AutoRemove
<1>20. CASE Serve
  BY <1>20 DEF Serve
<1>21. CASE Expire
  BY <1>21 DEF Expire
<1>22. ASSUME NEW s \in Signals, Signal(s)
      PROVE  ScopeTyped'
  BY <1>22 DEF Signal, FirstOf, Run!Catch
<1>23. CASE UNCHANGED vars
  BY <1>23 DEF vars
<1>24. QED
  BY <1>1, <1>2, <1>3, <1>4, <1>5, <1>6, <1>7, <1>8, <1>9, <1>10, <1>11, <1>12, <1>13, <1>14, <1>15, <1>16, <1>17, <1>18, <1>19, <1>20, <1>21, <1>22, <1>23 DEF Next, Main, Sweep, Daemon

(* Its places.                                                             *)
LEMMA PlaceTypeStep ==
  ASSUME PlaceTyped, [Next]_vars
  PROVE  PlaceTyped'
<1> USE Names DEF runVars, scopeVars, daemonVars, PlaceTyped
<1>1. CASE Install
  BY <1>1 DEF Install, Handle
<1>2. CASE EnterMain
  BY <1>2 DEF EnterMain, Run!Enter
<1>3. CASE LaunchClient
  BY <1>3 DEF LaunchClient, Run!Launch
<1>4. CASE PollOuter
  BY <1>4 DEF PollOuter, Run!Catch
<1>5. CASE SettleClient
  BY <1>5 DEF SettleClient, Run!Settle
<1>6. ASSUME NEW o \in Outcomes, DeliverMain(o)
      PROVE  PlaceTyped'
  BY <1>6 DEF DeliverMain, Reports, Run!Deliver
<1>7. CASE Attempt
  BY <1>7 DEF Attempt, Goes, Definitive, TimeIsUp, Run!Enter
<1>8. CASE LaunchRemoval
  BY <1>8 DEF LaunchRemoval, Run!Launch
<1>9. CASE SettleRemoval
  BY <1>9 DEF SettleRemoval, Run!Settle
<1>10. ASSUME NEW o \in Outcomes, DeliverRemoval(o)
      PROVE  PlaceTyped'
  BY <1>10 DEF DeliverRemoval, Says, Gone, FromRemoval, FirstOf, Run!Deliver
<1>11. CASE SweepRaises
  BY <1>11 DEF SweepRaises
<1>12. CASE SweepOver
  BY <1>12 DEF SweepOver, Goes, Definitive, TimeIsUp
<1>13. CASE Restore
  BY <1>13 DEF Restore, Handle
<1>14. CASE Return
  BY <1>14 DEF Return
<1>15. CASE Send
  BY <1>15 DEF Send
<1>16. CASE ClientExits
  BY <1>16 DEF ClientExits
<1>17. CASE Commit
  BY <1>17 DEF Commit
<1>18. CASE Refuse
  BY <1>18 DEF Refuse
<1>19. CASE AutoRemove
  BY <1>19 DEF AutoRemove
<1>20. CASE Serve
  BY <1>20 DEF Serve
<1>21. CASE Expire
  BY <1>21 DEF Expire
<1>22. ASSUME NEW s \in Signals, Signal(s)
      PROVE  PlaceTyped'
  BY <1>22 DEF Signal, FirstOf, Run!Catch
<1>23. CASE UNCHANGED vars
  BY <1>23 DEF vars
<1>24. QED
  BY <1>1, <1>2, <1>3, <1>4, <1>5, <1>6, <1>7, <1>8, <1>9, <1>10, <1>11, <1>12, <1>13, <1>14, <1>15, <1>16, <1>17, <1>18, <1>19, <1>20, <1>21, <1>22, <1>23 DEF Next, Main, Sweep, Daemon

(* What is outside of it.                                                  *)
LEMMA DaemonTypeStep ==
  ASSUME DaemonTyped, [Next]_vars
  PROVE  DaemonTyped'
<1> USE Names DEF runVars, scopeVars, daemonVars, DaemonTyped
<1>1. CASE Install
  BY <1>1 DEF Install, Handle
<1>2. CASE EnterMain
  BY <1>2 DEF EnterMain, Run!Enter
<1>3. CASE LaunchClient
  BY <1>3 DEF LaunchClient, Run!Launch
<1>4. CASE PollOuter
  BY <1>4 DEF PollOuter, Run!Catch
<1>5. CASE SettleClient
  BY <1>5 DEF SettleClient, Run!Settle
<1>6. ASSUME NEW o \in Outcomes, DeliverMain(o)
      PROVE  DaemonTyped'
  BY <1>6 DEF DeliverMain, Reports, Run!Deliver
<1>7. CASE Attempt
  BY <1>7 DEF Attempt, Goes, Definitive, TimeIsUp, Run!Enter
<1>8. CASE LaunchRemoval
  BY <1>8 DEF LaunchRemoval, Run!Launch
<1>9. CASE SettleRemoval
  BY <1>9 DEF SettleRemoval, Run!Settle
<1>10. ASSUME NEW o \in Outcomes, DeliverRemoval(o)
      PROVE  DaemonTyped'
  BY <1>10 DEF DeliverRemoval, Says, Gone, FromRemoval, FirstOf, Run!Deliver
<1>11. CASE SweepRaises
  BY <1>11 DEF SweepRaises
<1>12. CASE SweepOver
  BY <1>12 DEF SweepOver, Goes, Definitive, TimeIsUp
<1>13. CASE Restore
  BY <1>13 DEF Restore, Handle
<1>14. CASE Return
  BY <1>14 DEF Return
<1>15. CASE Send
  BY <1>15 DEF Send
<1>16. CASE ClientExits
  BY <1>16 DEF ClientExits
<1>17. CASE Commit
  BY <1>17 DEF Commit
<1>18. CASE Refuse
  BY <1>18 DEF Refuse
<1>19. CASE AutoRemove
  BY <1>19 DEF AutoRemove
<1>20. CASE Serve
  BY <1>20 DEF Serve
<1>21. CASE Expire
  BY <1>21 DEF Expire
<1>22. ASSUME NEW s \in Signals, Signal(s)
      PROVE  DaemonTyped'
  BY <1>22 DEF Signal, FirstOf, Run!Catch
<1>23. CASE UNCHANGED vars
  BY <1>23 DEF vars
<1>24. QED
  BY <1>1, <1>2, <1>3, <1>4, <1>5, <1>6, <1>7, <1>8, <1>9, <1>10, <1>11, <1>12, <1>13, <1>14, <1>15, <1>16, <1>17, <1>18, <1>19, <1>20, <1>21, <1>22, <1>23 DEF Next, Main, Sweep, Daemon


(* What giving a handler to the scope, or back, leaves alone.              *)
LEMMA InstallFacts ==
  ASSUME Install
  PROVE  /\ pc \in {"idle", "installTerm"} /\ pc' \in {"installTerm", "enter"}
         /\ UNCHANGED <<runVars, owns, interrupted, primary, error, expired, result, vetoed, daemonVars, heard>>
BY DEF Install, Handle

LEMMA RestoreFacts ==
  ASSUME Restore
  PROVE  /\ pc \in {"restoreInt", "restoreTerm"} /\ pc' \in {"restoreTerm", "snapshot"}
         /\ UNCHANGED <<runVars, owns, interrupted, primary, error, expired, result, vetoed, daemonVars, heard>>
BY DEF Restore, Handle

(* The client's run reports no success the client did not have, and a      *)
(* removal's run none that the daemon did not answer.                      *)
LEMMA ClientDelivered ==
  ASSUME TypeOK, PlaceInv, NEW o \in Outcomes, DeliverMain(o)
  PROVE  /\ pc = "main" /\ pc' = (IF owns THEN "sweep" ELSE "restoreInt")
         /\ phase' = "closed" /\ error = "not attempted" /\ error # None /\ primary = None
         /\ primary' = "exit0" => client = "exit0"
         /\ caught # None => primary' \in Signals
         /\ UNCHANGED <<caught, owns, outer, interrupted, error, expired, result, vetoed, daemonVars, heard>>
<1>1. /\ pc = "main" /\ pc' = (IF owns THEN "sweep" ELSE "restoreInt")
      /\ phase' = "closed" /\ primary' = (IF caught = None THEN o ELSE caught) /\ Reports(o)
      /\ UNCHANGED <<caught, owns, outer, interrupted, error, expired, result, vetoed, daemonVars, heard>>
  BY DEF DeliverMain, Run!Deliver
<1>2. caught # None => caught \in Signals
  BY DEF TypeOK
<1>3. primary' = "exit0" => client = "exit0"
  BY <1>1, <1>2, Names DEF Reports
<1>4. error = "not attempted" /\ primary = None
  BY <1>1 DEF PlaceInv, Sweeping, Leaving
<1>5. QED
  BY <1>1, <1>2, <1>3, <1>4, NoneIsNew

LEMMA RemovalDelivered ==
  ASSUME TypeOK, NEW o \in Outcomes, DeliverRemoval(o)
  PROVE  /\ pc = "remove" /\ phase' = "closed"
         /\ \/ /\ pc' = "sweep" /\ error' \in {None, "removal failed"}
               /\ error' = None => served \in {"removed", "absent"}
               /\ interrupted # None \/ caught # None => interrupted' # None
            \/ pc' = "restoreInt" /\ error' = "raised" /\ interrupted' = interrupted
         /\ UNCHANGED <<caught, owns, outer, primary, expired, result, vetoed, daemonVars, heard>>
<1>1. /\ pc = "remove" /\ reported' = (IF caught = None THEN o ELSE caught) /\ phase' = "closed" /\ Says(o)
      /\ UNCHANGED <<caught, owns, outer, primary, expired, result, vetoed, daemonVars, heard>>
  BY DEF DeliverRemoval, Run!Deliver
<1>2. caught # None => caught \in Signals
  BY DEF TypeOK
<1>3. Gone(reported') => served \in {"removed", "absent"}
  BY <1>1, <1>2, Names DEF Gone, Says
<1>4. interrupted # None \/ caught # None => FromRemoval(reported') # None
  BY <1>1, <1>2, Names DEF FromRemoval, FirstOf
<1>5. \/ /\ pc' = "sweep"
         /\ interrupted' = FromRemoval(reported')
         /\ error' = IF Gone(reported') THEN None ELSE "removal failed"
      \/ pc' = "restoreInt" /\ error' = "raised" /\ interrupted' = interrupted
  BY DEF DeliverRemoval
<1>6. QED
  BY <1>1, <1>3, <1>4, <1>5, NoneIsNew

(* Only the scope itself moves from place to place.                        *)
LEMMA PlaceStep ==
  ASSUME TypeOK, PlaceInv, [Next]_vars
  PROVE  PlaceInv'
<1> USE Names DEF runVars, scopeVars, daemonVars, PlaceInv, Sweeping, Leaving
<1>1. CASE Install
  BY <1>1 DEF Install, Handle
<1>2. CASE EnterMain
  BY <1>2 DEF EnterMain, Run!Enter
<1>3. CASE LaunchClient
  BY <1>3 DEF LaunchClient, Run!Launch
<1>4. CASE PollOuter
  BY <1>4 DEF PollOuter, Run!Catch
<1>5. CASE SettleClient
  BY <1>5 DEF SettleClient, Run!Settle
<1>6. ASSUME NEW o \in Outcomes, DeliverMain(o)
      PROVE  PlaceInv'
  BY <1>6 DEF DeliverMain, Reports, Run!Deliver
<1>7. CASE Attempt
  BY <1>7 DEF Attempt, Goes, Definitive, TimeIsUp, Run!Enter
<1>8. CASE LaunchRemoval
  BY <1>8 DEF LaunchRemoval, Run!Launch
<1>9. CASE SettleRemoval
  BY <1>9 DEF SettleRemoval, Run!Settle
<1>10. ASSUME NEW o \in Outcomes, DeliverRemoval(o)
      PROVE  PlaceInv'
  <2>1. /\ pc = "remove" /\ phase' = "closed" /\ UNCHANGED <<owns, outer, primary, client>>
        /\ \/ pc' = "sweep" /\ error' \in {None, "removal failed"} /\ error' # "raised"
           \/ pc' = "restoreInt" /\ error' = "raised"
    <3> HIDE DEF PlaceInv
    <3>1. QED
      BY <1>10, RemovalDelivered, NoneIsNew
  <2>2. QED
    BY <2>1
<1>11. CASE SweepRaises
  BY <1>11 DEF SweepRaises
<1>12. CASE SweepOver
  BY <1>12 DEF SweepOver, Goes, Definitive, TimeIsUp
<1>13. CASE Restore
  <2>1. /\ UNCHANGED <<phase, owns, primary, error, client>>
        /\ outer \in [Signals -> {"caller", "transport"}]
        /\ \/ pc = "restoreInt" /\ pc' = "restoreTerm" /\ outer' = [outer EXCEPT !["INT"] = "caller"]
           \/ pc = "restoreTerm" /\ pc' = "snapshot" /\ outer' = [outer EXCEPT !["TERM"] = "caller"]
    BY <1>13 DEF Restore, Handle, TypeOK
  <2>2. QED
    BY <2>1
<1>14. CASE Return
  BY <1>14 DEF Return
<1>15. CASE Send
  BY <1>15 DEF Send
<1>16. CASE ClientExits
  BY <1>16 DEF ClientExits
<1>17. CASE Commit
  BY <1>17 DEF Commit
<1>18. CASE Refuse
  BY <1>18 DEF Refuse
<1>19. CASE AutoRemove
  BY <1>19 DEF AutoRemove
<1>20. CASE Serve
  BY <1>20 DEF Serve
<1>21. CASE Expire
  BY <1>21 DEF Expire
<1>22. ASSUME NEW s \in Signals, Signal(s)
      PROVE  PlaceInv'
  BY <1>22 DEF Signal, FirstOf, Run!Catch
<1>23. CASE UNCHANGED vars
  BY <1>23 DEF vars
<1>24. QED
  BY <1>1, <1>2, <1>3, <1>4, <1>5, <1>6, <1>7, <1>8, <1>9, <1>10, <1>11, <1>12, <1>13, <1>14, <1>15, <1>16, <1>17, <1>18, <1>19, <1>20, <1>21, <1>22, <1>23 DEF Next, Main, Sweep, Daemon

(* A client is launched once, and its request is answered once.            *)
LEMMA ClientStep ==
  ASSUME TypeOK, PlaceInv, ClientInv, [Next]_vars
  PROVE  ClientInv'
<1> USE Names DEF runVars, scopeVars, daemonVars, ClientInv
<1>1. CASE Install
  BY <1>1, InstallFacts
<1>2. CASE EnterMain
  BY <1>2 DEF EnterMain, Run!Enter
<1>3. CASE LaunchClient
  BY <1>3 DEF LaunchClient, Run!Launch
<1>4. CASE PollOuter
  BY <1>4 DEF PollOuter, Run!Catch
<1>5. CASE SettleClient
  BY <1>5 DEF SettleClient, Run!Settle
<1>6. ASSUME NEW o \in Outcomes, DeliverMain(o)
      PROVE  ClientInv'
  BY <1>6, ClientDelivered
<1>7. CASE Attempt
  BY <1>7 DEF Attempt, Goes, Definitive, TimeIsUp, Run!Enter
<1>8. CASE LaunchRemoval
  BY <1>8 DEF LaunchRemoval, Run!Launch
<1>9. CASE SettleRemoval
  BY <1>9 DEF SettleRemoval, Run!Settle
<1>10. ASSUME NEW o \in Outcomes, DeliverRemoval(o)
      PROVE  ClientInv'
  BY <1>10 DEF DeliverRemoval, Says, Gone, FromRemoval, FirstOf, Run!Deliver
<1>11. CASE SweepRaises
  BY <1>11 DEF SweepRaises
<1>12. CASE SweepOver
  BY <1>12 DEF SweepOver, Goes, Definitive, TimeIsUp
<1>13. CASE Restore
  BY <1>13, RestoreFacts
<1>14. CASE Return
  BY <1>14 DEF Return
<1>15. CASE Send
  BY <1>15 DEF Send
<1>16. CASE ClientExits
  BY <1>16 DEF ClientExits
<1>17. CASE Commit
  BY <1>17 DEF Commit
<1>18. CASE Refuse
  BY <1>18 DEF Refuse
<1>19. CASE AutoRemove
  BY <1>19 DEF AutoRemove
<1>20. CASE Serve
  <2>1. UNCHANGED <<pc, client, request, primary, owns>> /\ (container' => container)
    BY <1>20 DEF Serve
  <2>2. QED
    BY <2>1
<1>21. CASE Expire
  BY <1>21 DEF Expire
<1>22. ASSUME NEW s \in Signals, Signal(s)
      PROVE  ClientInv'
  <2>1. UNCHANGED <<pc, client, request, primary, owns, container>>
    BY <1>22 DEF Signal, Run!Catch
  <2>2. QED
    BY <2>1
<1>23. CASE UNCHANGED vars
  BY <1>23 DEF vars
<1>24. QED
  BY <1>1, <1>2, <1>3, <1>4, <1>5, <1>6, <1>7, <1>8, <1>9, <1>10, <1>11, <1>12, <1>13, <1>14, <1>15, <1>16, <1>17, <1>18, <1>19, <1>20, <1>21, <1>22, <1>23 DEF Next, Main, Sweep, Daemon

(* What a removal found stays true until the daemon commits a request.     *)
LEMMA SweepStep ==
  ASSUME TypeOK, PlaceInv, ClientInv, SweepInv, [Next]_vars
  PROVE  SweepInv'
<1> USE Names DEF runVars, scopeVars, daemonVars, PlaceInv, ClientInv, SweepInv, Left, Sweeping, Leaving
<1>1. CASE Install
  <2> HIDE DEF PlaceInv
  <2>1. QED
    BY <1>1, InstallFacts
<1>2. CASE EnterMain
  BY <1>2 DEF EnterMain, Run!Enter
<1>3. CASE LaunchClient
  BY <1>3 DEF LaunchClient, Run!Launch
<1>4. CASE PollOuter
  BY <1>4 DEF PollOuter, Run!Catch
<1>5. CASE SettleClient
  BY <1>5 DEF SettleClient, Run!Settle
<1>6. ASSUME NEW o \in Outcomes, DeliverMain(o)
      PROVE  SweepInv'
  BY <1>6, ClientDelivered
<1>7. CASE Attempt
  <2>1. pc' = "remove" /\ served' = None /\ served' \notin {"removed", "absent"}
    BY <1>7, NoneIsNew DEF Attempt
  <2>2. QED
    BY <2>1
<1>8. CASE LaunchRemoval
  BY <1>8 DEF LaunchRemoval, Run!Launch
<1>9. CASE SettleRemoval
  BY <1>9 DEF SettleRemoval, Run!Settle
<1>10. ASSUME NEW o \in Outcomes, DeliverRemoval(o)
      PROVE  SweepInv'
  <2>1. /\ pc = "remove" /\ UNCHANGED <<primary, expired, container, late>>
        /\ \/ pc' = "sweep" /\ (error' = None => served \in {"removed", "absent"})
           \/ pc' = "restoreInt" /\ error' = "raised"
    <3> HIDE DEF PlaceInv, SweepInv, ClientInv
    <3>1. QED
      BY <1>10, RemovalDelivered
  <2>2. error' = "raised" => error' # None
    BY NoneIsNew
  <2>3. QED
    BY <2>1, <2>2
<1>11. CASE SweepRaises
  BY <1>11, NoneIsNew DEF SweepRaises
<1>12. CASE SweepOver
  BY <1>12 DEF SweepOver, Goes, Definitive, TimeIsUp
<1>13. CASE Restore
  <2> HIDE DEF PlaceInv
  <2>1. QED
    BY <1>13, RestoreFacts
<1>14. CASE Return
  BY <1>14 DEF Return
<1>15. CASE Send
  BY <1>15 DEF Send
<1>16. CASE ClientExits
  BY <1>16 DEF ClientExits
<1>17. CASE Commit
  BY <1>17 DEF Commit
<1>18. CASE Refuse
  BY <1>18 DEF Refuse
<1>19. CASE AutoRemove
  BY <1>19 DEF AutoRemove
<1>20. CASE Serve
  BY <1>20 DEF Serve
<1>21. CASE Expire
  BY <1>21 DEF Expire
<1>22. ASSUME NEW s \in Signals, Signal(s)
      PROVE  SweepInv'
  BY <1>22 DEF Signal, FirstOf, Run!Catch
<1>23. CASE UNCHANGED vars
  BY <1>23 DEF vars
<1>24. QED
  BY <1>1, <1>2, <1>3, <1>4, <1>5, <1>6, <1>7, <1>8, <1>9, <1>10, <1>11, <1>12, <1>13, <1>14, <1>15, <1>16, <1>17, <1>18, <1>19, <1>20, <1>21, <1>22, <1>23 DEF Next, Main, Sweep, Daemon

(* Whoever handles a signal passes it on before it lets go of it.          *)
LEMMA HeardStep ==
  ASSUME TypeOK, PlaceInv, HeardInv, [Next]_vars
  PROVE  HeardInv'
<1> USE Names DEF runVars, scopeVars, daemonVars, PlaceInv, HeardInv, Sweeping, Leaving
<1>1. CASE Install
  BY <1>1 DEF Install, Handle
<1>2. CASE EnterMain
  BY <1>2 DEF EnterMain, Run!Enter
<1>3. CASE LaunchClient
  BY <1>3 DEF LaunchClient, Run!Launch
<1>4. CASE PollOuter
  BY <1>4 DEF PollOuter, Run!Catch
<1>5. CASE SettleClient
  BY <1>5 DEF SettleClient, Run!Settle
<1>6. ASSUME NEW o \in Outcomes, DeliverMain(o)
      PROVE  HeardInv'
  BY <1>6, ClientDelivered
<1>7. CASE Attempt
  BY <1>7 DEF Attempt, Goes, Definitive, TimeIsUp, Run!Enter
<1>8. CASE LaunchRemoval
  BY <1>8 DEF LaunchRemoval, Run!Launch
<1>9. CASE SettleRemoval
  BY <1>9 DEF SettleRemoval, Run!Settle
<1>10. ASSUME NEW o \in Outcomes, DeliverRemoval(o)
      PROVE  HeardInv'
  BY <1>10, RemovalDelivered
<1>11. CASE SweepRaises
  BY <1>11 DEF SweepRaises
<1>12. CASE SweepOver
  BY <1>12 DEF SweepOver, Goes, Definitive, TimeIsUp
<1>13. CASE Restore
  BY <1>13 DEF Restore, Handle
<1>14. CASE Return
  BY <1>14 DEF Return
<1>15. CASE Send
  BY <1>15 DEF Send
<1>16. CASE ClientExits
  BY <1>16 DEF ClientExits
<1>17. CASE Commit
  BY <1>17 DEF Commit
<1>18. CASE Refuse
  BY <1>18 DEF Refuse
<1>19. CASE AutoRemove
  BY <1>19 DEF AutoRemove
<1>20. CASE Serve
  BY <1>20 DEF Serve
<1>21. CASE Expire
  BY <1>21 DEF Expire
<1>22. ASSUME NEW s \in Signals, Signal(s)
      PROVE  HeardInv'
  BY <1>22 DEF Signal, FirstOf, Run!Catch
<1>23. CASE UNCHANGED vars
  BY <1>23 DEF vars
<1>24. QED
  BY <1>1, <1>2, <1>3, <1>4, <1>5, <1>6, <1>7, <1>8, <1>9, <1>10, <1>11, <1>12, <1>13, <1>14, <1>15, <1>16, <1>17, <1>18, <1>19, <1>20, <1>21, <1>22, <1>23 DEF Next, Main, Sweep, Daemon

(* The inductive invariant of an invocation (execution_transport.ml).      *)
THEOREM TransportInvariant == Spec => []IInv
<1>1. Init => IInv
  BY NoneIsNew DEF Init, Run!Init, IInv, TypeOK, PlaceInv, ClientInv, SweepInv, Left, HeardInv,
     Sweeping, Leaving, Signals, Outcomes
<1>2. IInv /\ [Next]_vars => IInv'
  <2> SUFFICES ASSUME IInv, [Next]_vars PROVE IInv'
    OBVIOUS
  <2>1. TypeOK'
    <3>1. RunTyped /\ ScopeTyped /\ PlaceTyped /\ DaemonTyped
      BY TypeParts DEF IInv
    <3>2. (RunTyped /\ ScopeTyped /\ PlaceTyped /\ DaemonTyped)'
      BY <3>1, RunTypeStep, ScopeTypeStep, PlaceTypeStep, DaemonTypeStep
    <3>3. QED
      BY <3>2 DEF TypeOK, RunTyped, ScopeTyped, PlaceTyped, DaemonTyped
  <2>2. QED
    BY <2>1, PlaceStep, ClientStep, SweepStep, HeardStep DEF IInv
<1>3. QED
  BY <1>1, <1>2, PTL DEF Spec

(* A call that reports success left no container, no request that may      *)
(* still make one and no signal behind it, and a call that is silent about *)
(* its container swept until the window was over (execution_transport.ml). *)
THEOREM CleanupIsAlwaysHonest == Spec => []CleanupIsHonest
<1>1. IInv => CleanupIsHonest
  <2> SUFFICES ASSUME IInv PROVE CleanupIsHonest
    OBVIOUS
  <2>1. SuccessIsClean
    <3> SUFFICES ASSUME Succeeded PROVE ~container /\ request # "sent" /\ heard = None
      BY DEF SuccessIsClean, IInv
    <3>1. primary = "exit0" /\ interrupted = None
      BY Names DEF Succeeded, IInv, HeardInv, TypeOK
    <3>2. client = "exit0"
      BY <3>1 DEF IInv, ClientInv
    <3>3. ~container /\ request # "sent"
      BY <3>1, <3>2 DEF Succeeded, IInv, ClientInv, SweepInv, Left
    <3>4. phase # "open" /\ error # "raised"
      BY NoneIsNew DEF Succeeded, IInv, PlaceInv
    <3>5. heard = None
      BY <3>1, <3>4, Names DEF IInv, HeardInv
    <3>6. QED
      BY <3>3, <3>5
  <2>2. SweptToTheDeadline
    BY DEF IInv, PlaceInv, SweepInv, Left, Leaving, SweptToTheDeadline
  <2>3. QED
    BY <2>1, <2>2 DEF CleanupIsHonest
<1>2. QED
  BY <1>1, TransportInvariant, PTL
=============================================================================
