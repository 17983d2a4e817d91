------------------------- MODULE SessionWatch_proofs -------------------------
(***************************************************************************)
(* Proofs about SessionWatch for any number of helpers, service processes   *)
(* and pending session changes: the two threads stay apart, although they   *)
(* share no lock, and with them the one handle is the one helper.           *)
(***************************************************************************)
EXTENDS SessionWatch, FiniteSetTheorems, TLAPS

(* Where the main thread can be, by the stage of the loop.                  *)
MainThread ==
  /\ stage \in {"down", "loop"} => pc["main"] = "out"
  /\ stage = "starting" => pc["main"] \in {"out", "check", "spawn"}
  /\ stage = "cleanup" => pc["main"] \in {"out", "flag", "wait", "close"}

(* What the SCM knows is what the loop does, and it has a control handled   *)
(* only while the loop waits and nobody has asked it to stop.               *)
Controls ==
  /\ stage = "down" => status = "stopped" /\ ~stop_event
  /\ stage = "starting" => status = "start_pending" /\ ~stop_event
  /\ stage = "loop" => status = IF stop_event THEN "stop_pending" ELSE "running"
  /\ stage = "cleanup" => status = "stop_pending"
  /\ pc["dispatcher"] # "out" => stage = "loop" /\ ~stop_event

(* The present service process started h, and h still runs.                 *)
Mine(h) == Alive(h) /\ parent[h] = starts

(* The handle is that of the one helper there can be. *)
Handles ==
  /\ stage # "down" => \A h \in Helper : Mine(h) => h = handle
  /\ \A t \in Threads : pc[t] \in {"spawn", "close"} => \A h \in Helper : ~Mine(h)
  /\ stage = "cleanup" /\ pc["main"] = "out" => \A h \in Helper : ~Mine(h)
  /\ \A g, h \in Helper : Mine(g) /\ Mine(h) => g = h
  /\ ~crashed => \A h \in Helper : Alive(h) => Mine(h) /\ stage # "down"

Past == \A h \in Helper : parent[h] <= starts

IInv == TypeOK /\ MainThread /\ Past /\ (~failed => Controls /\ Handles)

----------------------------------------------------------------------------
(* What the steps inside the two functions leave alone.                     *)
Inside(t) ==
  \/ StartCheck(t) \/ SpawnFails(t) \/ Spawn(t)
  \/ StopFlag(t) \/ StopWaited(t) \/ StopTimesOut(t) \/ StopClose(t)

OfHelper(h) == Maps(h) \/ OpensParent(h) \/ Leaves(h) \/ Fails(h)

OfUser == SignIn \/ Unlock \/ SignOut

LEMMA NextCases ==
  ASSUME [Next]_vars
  PROVE  \/ \E t \in Threads : Inside(t)
         \/ ServiceStarts \/ ServiceReady \/ LoopEnds \/ LoopFails
         \/ ServiceStopped \/ ServiceCrashes
         \/ StopControl \/ SessionChange
         \/ OfUser
         \/ \E h \in Helper : OfHelper(h)
         \/ UNCHANGED vars
BY DEF Next, Inside, OfHelper, OfUser

(* A helper's step changes that helper only, and starts none.               *)
LEMMA HelperEffect ==
  ASSUME NEW g \in Helper, OfHelper(g), TypeOK
  PROVE  /\ UNCHANGED <<service, stop_watch, session, starts, parent, history>>
         /\ helper' \in [Helper -> {"none", "starting", "mapped", "running", "unwatched", "hung"}]
         /\ \A h \in Helper : Alive(h)' => Alive(h)
<1>1. PICK old, new \in {"none", "starting", "mapped", "running", "unwatched", "hung"} :
        old # "none" /\ HelperIs(g, old, new)
  BY DEF OfHelper, Maps, OpensParent, Leaves, Fails
<1> QED BY <1>1 DEF HelperIs, TypeOK, Alive

LEMMA UserEffect ==
  ASSUME OfUser, TypeOK
  PROVE  /\ UNCHANGED <<service, stop_watch, starts, procs, history>>
         /\ signed_in' \in BOOLEAN
         /\ pending' \in Seq({"logon", "logoff"}) /\ Len(pending') <= MaxPending
<1>0. MaxPending \in Nat /\ <<>> \in Seq({"logon", "logoff"}) /\ Len(<<>>) = 0
  BY SessionAssumption
<1>1. ASSUME NEW change \in {"logon", "logoff"}, Len(pending) < MaxPending
      PROVE  Posted(change) \in Seq({"logon", "logoff"}) /\ Len(Posted(change)) <= MaxPending
  <2>1. CASE Accepts
    <3>1. Posted(change) = Append(pending, change)
      BY <2>1 DEF Posted
    <3>2. Append(pending, change) \in Seq({"logon", "logoff"})
          /\ Len(Append(pending, change)) = Len(pending) + 1 /\ Len(pending) \in Nat
      BY DEF TypeOK
    <3> QED BY <1>0, <1>1, <3>1, <3>2
  <2>2. CASE ~Accepts
    BY <1>0, <2>2 DEF Posted
  <2> QED BY <2>1, <2>2
<1> QED BY <1>1 DEF OfUser, SignIn, Unlock, SignOut, TypeOK

LEMMA InsideEffect ==
  ASSUME NEW t \in Threads, Inside(t), TypeOK
  PROVE  /\ UNCHANGED <<status, stage, stop_event, session, starts, history>>
         /\ pc' \in [Threads -> {"out", "check", "spawn", "flag", "wait", "close"}]
         /\ \A u \in Threads \ {t} : pc'[u] = pc[u]
         /\ pc[t] # "out"
         /\ pc[t] \in {"check", "spawn"} => pc'[t] \in {"out", "spawn"}
         /\ pc[t] \in {"flag", "wait", "close"} => pc'[t] \in {"out", "wait", "close"}
         /\ handle' \in Helper \cup {NoProcess} /\ stop_watch' \in BOOLEAN
         /\ helper' \in [Helper -> {"none", "starting", "mapped", "running", "unwatched", "hung"}]
         /\ parent' \in [Helper -> 0..MaxStarts]
<1> USE DEF TypeOK, Goto, session, procs, history
<1>1. CASE StartCheck(t)
  BY <1>1 DEF StartCheck
<1>2. CASE SpawnFails(t)
  BY <1>2 DEF SpawnFails
<1>3. CASE Spawn(t)
  BY <1>3 DEF Spawn
<1>4. CASE StopFlag(t)
  BY <1>4 DEF StopFlag
<1>5. CASE StopWaited(t)
  BY <1>5 DEF StopWaited
<1>6. CASE StopTimesOut(t)
  BY <1>6 DEF StopTimesOut
<1>7. CASE StopClose(t)
  BY <1>7 DEF StopClose
<1> QED BY <1>1, <1>2, <1>3, <1>4, <1>5, <1>6, <1>7 DEF Inside

----------------------------------------------------------------------------
(* Each part of the invariant is kept. *)

LEMMA TypeStep ==
  ASSUME TypeOK, [Next]_vars
  PROVE  TypeOK'
<1> USE DEF TypeOK
<1>1. ASSUME NEW t \in Threads, Inside(t) PROVE TypeOK'
  BY <1>1, InsideEffect DEF session, history
<1>2. CASE ServiceStarts
  <2>1. MaxStarts \in Nat
    BY SessionAssumption
  <2>2. starts' \in 0..MaxStarts
    BY <1>2, <2>1 DEF ServiceStarts
  <2>3. pc' \in [Threads -> {"out", "check", "spawn", "flag", "wait", "close"}]
    BY <1>2 DEF ServiceStarts, Goto
  <2>4. /\ UNCHANGED <<stop_event, handle, session, procs, history>> /\ stop_watch' = FALSE
        /\ status' = "start_pending" /\ stage' = "starting"
    BY <1>2 DEF ServiceStarts
  <2> QED BY <2>2, <2>3, <2>4 DEF session, procs, history
<1>3. CASE ServiceReady \/ LoopEnds \/ LoopFails \/ ServiceStopped \/ StopControl
  BY <1>3 DEF ServiceReady, LoopEnds, LoopFails, ServiceStopped, StopControl, Goto, Threads,
              session, procs, history
<1>4. CASE ServiceCrashes
  <2>1. <<>> \in Seq({"logon", "logoff"}) /\ Len(<<>>) <= MaxPending
    BY SessionAssumption
  <2> QED BY <1>4, <2>1 DEF ServiceCrashes, procs
<1>5. CASE SessionChange
  <2>1. Tail(pending) \in Seq({"logon", "logoff"}) /\ Len(Tail(pending)) <= MaxPending
    <3>1. pending # <<>> /\ Len(Tail(pending)) = Len(pending) - 1
      BY <1>5 DEF SessionChange
    <3> QED BY <3>1, SessionAssumption
  <2> QED BY <1>5, <2>1 DEF SessionChange, Goto, Threads, procs, history
<1>6. CASE OfUser
  BY <1>6, UserEffect DEF service, procs, history
<1>7. ASSUME NEW h \in Helper, OfHelper(h) PROVE TypeOK'
  BY <1>7, HelperEffect DEF service, session, history
<1>8. CASE UNCHANGED vars
  BY <1>8 DEF vars, service, session, procs, history
<1> QED BY <1>1, <1>2, <1>3, <1>4, <1>5, <1>6, <1>7, <1>8, NextCases

LEMMA MainThreadStep ==
  ASSUME TypeOK, MainThread, [Next]_vars
  PROVE  MainThread'
<1> USE DEF TypeOK, MainThread
<1>1. ASSUME NEW t \in Threads, Inside(t) PROVE MainThread'
  <2>1. CASE t = "main"
    BY <1>1, <2>1, InsideEffect
  <2>2. CASE t # "main"
    BY <1>1, <2>2, InsideEffect DEF Threads
  <2> QED BY <2>1, <2>2
<1>2. CASE ServiceStarts \/ ServiceReady \/ LoopEnds \/ LoopFails \/ ServiceStopped
  BY <1>2 DEF ServiceStarts, ServiceReady, LoopEnds, LoopFails, ServiceStopped, Goto, Threads
<1>3. CASE ServiceCrashes
  BY <1>3 DEF ServiceCrashes, Threads
<1>4. CASE StopControl \/ SessionChange
  BY <1>4 DEF StopControl, SessionChange, Goto, Threads
<1>5. CASE OfUser
  BY <1>5, UserEffect DEF service
<1>6. ASSUME NEW h \in Helper, OfHelper(h) PROVE MainThread'
  BY <1>6, HelperEffect DEF service
<1>7. CASE UNCHANGED vars
  BY <1>7 DEF vars, service
<1> QED BY <1>1, <1>2, <1>3, <1>4, <1>5, <1>6, <1>7, NextCases

LEMMA PastStep ==
  ASSUME TypeOK, Past, [Next]_vars
  PROVE  Past'
<1> USE DEF TypeOK, Past
<1>1. ASSUME NEW t \in Threads, Inside(t) PROVE Past'
  <2>1. CASE Spawn(t)
    BY <2>1 DEF Spawn
  <2>2. CASE ~Spawn(t)
    BY <1>1, <2>2 DEF Inside, StartCheck, SpawnFails, StopFlag, StopWaited, StopTimesOut,
                      StopClose, procs
  <2> QED BY <2>1, <2>2
<1>2. CASE ServiceStarts
  BY <1>2 DEF ServiceStarts, procs
<1>3. CASE \/ ServiceReady \/ LoopEnds \/ LoopFails \/ ServiceStopped \/ ServiceCrashes
           \/ StopControl \/ SessionChange
  BY <1>3 DEF ServiceReady, LoopEnds, LoopFails, ServiceStopped, ServiceCrashes, StopControl,
              SessionChange, procs
<1>4. CASE OfUser
  BY <1>4, UserEffect DEF procs
<1>5. ASSUME NEW h \in Helper, OfHelper(h) PROVE Past'
  BY <1>5, HelperEffect
<1>6. CASE UNCHANGED vars
  BY <1>6 DEF vars, procs
<1> QED BY <1>1, <1>2, <1>3, <1>4, <1>5, <1>6, NextCases

LEMMA ControlsStep ==
  ASSUME TypeOK, MainThread, Controls, ~failed', [Next]_vars
  PROVE  Controls'
<1> USE DEF TypeOK, Controls
<1>1. ASSUME NEW t \in Threads, Inside(t) PROVE Controls'
  <2>1. CASE t = "dispatcher"
    BY <1>1, <2>1, InsideEffect
  <2>2. CASE t # "dispatcher"
    BY <1>1, <2>2, InsideEffect DEF Threads
  <2> QED BY <2>1, <2>2
<1>2. CASE ServiceStarts \/ ServiceReady
  BY <1>2 DEF ServiceStarts, ServiceReady, Goto, Threads, ProcessLives
<1>9. CASE LoopEnds \/ ServiceStopped
  BY <1>9 DEF LoopEnds, ServiceStopped, Goto, Threads
<1>3. CASE LoopFails
  BY <1>3 DEF LoopFails
<1>4. CASE ServiceCrashes
  BY <1>4 DEF ServiceCrashes, Threads
<1>5. CASE StopControl \/ SessionChange
  BY <1>5 DEF StopControl, SessionChange, Goto, Threads, Accepts, Idle
<1>6. CASE OfUser
  BY <1>6, UserEffect DEF service
<1>7. ASSUME NEW h \in Helper, OfHelper(h) PROVE Controls'
  BY <1>7, HelperEffect DEF service
<1>8. CASE UNCHANGED vars
  BY <1>8 DEF vars, service
<1> QED BY <1>1, <1>2, <1>3, <1>4, <1>5, <1>6, <1>7, <1>8, <1>9, NextCases

LEMMA HandlesInside ==
  ASSUME TypeOK, MainThread, Controls, Handles, NEW t \in Threads, Inside(t)
  PROVE  Handles'
<1> USE DEF TypeOK
<1>0. /\ UNCHANGED <<stage, starts, crashed>> /\ stage # "down"
      /\ \A u \in Threads \ {t} : pc[u] = "out" /\ pc'[u] = "out"
      /\ t = "main" \/ stage = "loop"
  BY InsideEffect DEF MainThread, Controls, Threads, history
<1>1. CASE StartCheck(t)
  <2>1. UNCHANGED <<helper, parent>> /\ pc' = [pc EXCEPT ![t] = pc'[t]] /\ pc[t] = "check"
    BY <1>1 DEF StartCheck, Goto, procs
  <2>2. CASE handle # NoProcess /\ Alive(handle)
    BY <1>0, <1>1, <2>1, <2>2 DEF StartCheck, Goto, Handles, Mine, Alive, MainThread
  <2>3. CASE ~(handle # NoProcess /\ Alive(handle))
    <3>1. \A h \in Helper : ~Mine(h)
      BY <1>0, <2>3, SessionAssumption DEF Handles, Mine
    <3> QED BY <1>0, <1>1, <2>1, <3>1 DEF Handles, Mine, Alive
  <2> QED BY <2>2, <2>3
<1>2. CASE SpawnFails(t)
  <2>1. UNCHANGED <<helper, parent, handle>> /\ \A h \in Helper : ~Mine(h)
    BY <1>2 DEF SpawnFails, procs, Handles
  <2> QED BY <1>0, <2>1 DEF Handles, Mine, Alive
<1>3. CASE Spawn(t)
  <2>1. PICK h \in Helper :
          /\ helper' = [helper EXCEPT ![h] = "starting"]
          /\ parent' = [parent EXCEPT ![h] = starts]
          /\ handle' = h
    BY <1>3 DEF Spawn
  <2>2. pc[t] = "spawn" /\ pc'[t] = "out"
    BY <1>3 DEF Spawn, Goto
  <2>3. \A g \in Helper : Mine(g)' <=> g = h
    BY <1>0, <2>1, <2>2 DEF Handles, Mine, Alive
  <2>4. \A g \in Helper : g # h => (Alive(g)' <=> Alive(g))
    BY <2>1 DEF Alive
  <2>5. ~(stage = "cleanup" /\ t = "main")
    BY <2>2 DEF MainThread
  <2> QED BY <1>0, <2>1, <2>2, <2>3, <2>4, <2>5 DEF Handles
<1>4. CASE StopFlag(t)
  <2>1. UNCHANGED <<helper, parent, handle>> /\ pc[t] = "flag"
        /\ pc'[t] = IF handle = NoProcess THEN "out" ELSE "wait"
    BY <1>4 DEF StopFlag, Goto, procs
  <2>2. handle = NoProcess => \A h \in Helper : ~Mine(h)
    BY <1>0, SessionAssumption DEF Handles
  <2> QED BY <1>0, <2>1, <2>2 DEF Handles, Mine, Alive
<1>5. CASE StopWaited(t)
  <2>1. UNCHANGED <<helper, parent, handle>> /\ (handle # NoProcess => ~Alive(handle))
    BY <1>5 DEF StopWaited, procs
  <2>2. \A h \in Helper : ~Mine(h)
    BY <1>0, <2>1, SessionAssumption DEF Handles, Mine
  <2> QED BY <1>0, <2>1, <2>2 DEF Handles, Mine, Alive
<1>6. CASE StopTimesOut(t)
  <2>1. /\ helper' = [helper EXCEPT ![handle] = "none"] /\ handle \in Helper
        /\ UNCHANGED <<parent, handle>>
    BY <1>6 DEF StopTimesOut
  <2>2. \A h \in Helper : ~Mine(h)' /\ (Alive(h)' => Alive(h))
    BY <1>0, <2>1 DEF Handles, Mine, Alive
  <2>3. \A h \in Helper : Alive(h)' => h # handle
    BY <2>1 DEF Alive
  <2> QED BY <1>0, <2>1, <2>2, <2>3 DEF Handles, Mine, Alive
<1>7. CASE StopClose(t)
  <2>1. UNCHANGED <<helper, parent>> /\ \A h \in Helper : ~Mine(h)
    BY <1>7 DEF StopClose, procs, Handles
  <2> QED BY <1>0, <2>1 DEF Handles, Mine, Alive
<1> QED BY <1>1, <1>2, <1>3, <1>4, <1>5, <1>6, <1>7 DEF Inside

LEMMA HandlesStep ==
  ASSUME TypeOK, MainThread, Past, Controls, Handles, ~failed', [Next]_vars
  PROVE  Handles'
<1> USE DEF TypeOK
<1>1. ASSUME NEW t \in Threads, Inside(t) PROVE Handles'
  BY <1>1, HandlesInside
<1>2. CASE ServiceStarts
  <2>1. /\ UNCHANGED <<helper, parent, handle, crashed>> /\ starts' = starts + 1
        /\ stage = "down" /\ stage' = "starting"
        /\ pc' = [pc EXCEPT !["main"] = "check"]
    BY <1>2 DEF ServiceStarts, procs, history, ProcessLives, Goto
  <2>2. \A h \in Helper : ~Mine(h)'
    BY <2>1 DEF Past, Mine
  <2>3. ~crashed => \A h \in Helper : ~Alive(h)'
    BY <2>1 DEF Handles, Alive
  <2> QED BY <2>1, <2>2, <2>3 DEF Handles
<1>3. CASE ServiceReady \/ LoopEnds
  BY <1>3 DEF ServiceReady, LoopEnds, Goto, Threads, procs, history, Handles, Mine, Alive
<1>4. CASE LoopFails
  BY <1>4 DEF LoopFails
<1>5. CASE ServiceStopped
  <2>1. \A h \in Helper : ~Mine(h)
    BY <1>5 DEF ServiceStopped, Handles
  <2> QED BY <1>5, <2>1 DEF ServiceStopped, procs, history, Handles, Mine, Alive
<1>6. CASE ServiceCrashes
  BY <1>6 DEF ServiceCrashes, procs, Handles, Mine, Alive
<1>7. CASE StopControl
  BY <1>7 DEF StopControl, procs, history, Handles, Mine, Alive
<1>8. CASE SessionChange
  <2>1. /\ UNCHANGED <<helper, parent, handle, stage, starts, crashed>>
        /\ \A t \in Threads : pc'[t] = pc[t] \/ pc'[t] \in {"check", "flag"}
        /\ pc'["main"] = pc["main"]
    BY <1>8 DEF SessionChange, procs, history, Goto, Threads
  <2> QED BY <2>1 DEF Handles, Mine, Alive, Threads
<1>9. CASE OfUser
  BY <1>9, UserEffect DEF service, procs, history, Handles, Mine, Alive
<1>10. ASSUME NEW h \in Helper, OfHelper(h) PROVE Handles'
  <2>1. /\ UNCHANGED <<stage, pc, handle, starts, parent, crashed>>
        /\ \A g \in Helper : Alive(g)' => Alive(g)
    BY <1>10, HelperEffect DEF service, history
  <2> QED BY <2>1 DEF Handles, Mine
<1>11. CASE UNCHANGED vars
  BY <1>11 DEF vars, service, procs, history, Handles, Mine, Alive
<1> QED BY <1>1, <1>2, <1>3, <1>4, <1>5, <1>6, <1>7, <1>8, <1>9, <1>10, <1>11, NextCases

----------------------------------------------------------------------------
(* The theorems. *)

(* Every reachable state satisfies the inductive invariant. *)
THEOREM WatchInvariance == Spec => []IInv
<1>1. Init => IInv
  <2> SUFFICES ASSUME Init PROVE IInv
    OBVIOUS
  <2>1. TypeOK
    <3>1. /\ status \in {"stopped", "start_pending", "running", "stop_pending"}
          /\ stage \in {"down", "starting", "loop", "cleanup"}
          /\ pc \in [Threads -> {"out", "check", "spawn", "flag", "wait", "close"}]
          /\ handle \in Helper \cup {NoProcess}
      BY DEF Init
    <3>2. starts \in 0..MaxStarts /\ parent \in [Helper -> 0..MaxStarts]
      BY SessionAssumption DEF Init
    <3>3. helper \in [Helper -> {"none", "starting", "mapped", "running", "unwatched", "hung"}]
      BY DEF Init
    <3>4. pending \in Seq({"logon", "logoff"}) /\ Len(pending) <= MaxPending
      BY SessionAssumption DEF Init
    <3>5. /\ stop_event \in BOOLEAN /\ stop_watch \in BOOLEAN
          /\ signed_in \in BOOLEAN
          /\ crashed \in BOOLEAN /\ failed \in BOOLEAN
      BY Zenon DEF Init
    <3> QED BY Zenon, <3>1, <3>2, <3>3, <3>4, <3>5 DEF TypeOK
  <2>2. MainThread /\ Past /\ Controls
    BY DEF Init, MainThread, Past, Controls, Threads
  <2>3. Handles
    BY DEF Init, Handles, Mine, Alive
  <2> QED BY <2>1, <2>2, <2>3 DEF IInv
<1>2. IInv /\ [Next]_vars => IInv'
  <2> SUFFICES ASSUME IInv, [Next]_vars PROVE IInv'
    OBVIOUS
  <2>1. TypeOK' /\ MainThread' /\ Past'
    BY TypeStep, MainThreadStep, PastStep DEF IInv
  <2>2. ASSUME ~failed' PROVE ~failed
    BY <2>2 DEF Next, vars, history, StartCheck, SpawnFails, Spawn, StopFlag, StopWaited,
       StopTimesOut, StopClose, ServiceStarts, ServiceReady, LoopEnds, LoopFails,
       ServiceStopped, ServiceCrashes, StopControl, SessionChange, SignIn, Unlock, SignOut,
       Maps, OpensParent, Leaves, Fails, HelperIs
  <2>3. ASSUME ~failed' PROVE Controls' /\ Handles'
    BY <2>2, <2>3, ControlsStep, HandlesStep DEF IInv
  <2> QED BY <2>1, <2>3 DEF IInv
<1> QED BY <1>1, <1>2, PTL DEF Spec

(* Every variable keeps its type. *)
THEOREM WatchTypeCorrect == Spec => []TypeOK
BY WatchInvariance, PTL DEF IInv

(* The main thread and the dispatcher's are never together inside           *)
(* start_session_watch and stop_session_watch.                              *)
THEOREM ThreadsStayApart == Spec => []NotBoth
<1>1. IInv => NotBoth
  BY DEF IInv, MainThread, Controls, NotBoth
<1> QED BY <1>1, WatchInvariance, PTL

(* No service process has two helpers. *)
THEOREM AtMostOneHelper == Spec => []OneHelper
<1>1. IInv => OneHelper
  <2> SUFFICES ASSUME IInv, ~failed
               PROVE  Cardinality({h \in Helper : Mine(h)}) <= 1
    BY DEF OneHelper, Mine
  <2>1. CASE {h \in Helper : Mine(h)} = {}
    BY <2>1, FS_EmptySet
  <2>2. ASSUME NEW h \in Helper, Mine(h)
        PROVE  Cardinality({g \in Helper : Mine(g)}) <= 1
    <3>1. {g \in Helper : Mine(g)} = {h}
      BY <2>2 DEF IInv, Handles
    <3>2. Cardinality({h}) = 1
      BY FS_Singleton
    <3> QED BY <3>1, <3>2
  <2> QED BY <2>1, <2>2
<1> QED BY <1>1, WatchInvariance, PTL

(* A service that stopped has left no helper. *)
THEOREM StopLeavesNoHelper == Spec => []NoHelperLeft
<1>1. IInv => NoHelperLeft
  BY DEF IInv, Handles, NoHelperLeft
<1> QED BY <1>1, WatchInvariance, PTL

=============================================================================
