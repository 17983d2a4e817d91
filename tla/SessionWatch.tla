---------------------------- MODULE SessionWatch ----------------------------
(***************************************************************************)
(* The service and its helper process in the user's session: start, stop   *)
(* and session changes as the service control manager (SCM) delivers them, *)
(* start_session_watch and stop_session_watch (src/core/service.cpp), and   *)
(* the life of --foreground-watch (run_foreground_watch).                   *)
(*                                                                         *)
(* Two threads of the service call the two functions: the main thread while *)
(* it starts and cleans up, and the SCM's dispatcher thread on a session    *)
(* change.  Neither takes a lock; each step between two of their accesses   *)
(* to m_fg_watch_process or stop_watch is an action.  The SCM delivers one  *)
(* control at a time, and only the kinds the last SetServiceStatus accepts. *)
(***************************************************************************)
EXTENDS Integers, Sequences, FiniteSets

CONSTANTS
  Helper,      \* identities of helper processes
  SpawnMayFail, \* TRUE: CreateProcessAsUser may fail though a user is signed in
  HelperFails, \* TRUE: a helper may hang or be killed
  EarlySignIn, \* TRUE: a user may sign in while the service is starting
  MaxStarts,   \* bound on the number of service processes
  MaxPending   \* bound on session changes waiting for the dispatcher

NoProcess == "nullptr"
Threads   == {"main", "dispatcher"}

ASSUME SessionAssumption ==
  /\ IsFiniteSet(Helper) /\ NoProcess \notin Helper
  /\ {SpawnMayFail, HelperFails, EarlySignIn} \subseteq BOOLEAN
  /\ MaxStarts \in Nat /\ MaxPending \in Nat

VARIABLES
  status,     \* m_service_status.dwCurrentState, as the SCM knows it
  stage,      \* where run_daemon_loop is
  stop_event, \* m_stop_requested, m_stop_event
  pc,         \* where each thread is in the two functions
  handle,     \* m_fg_watch_process
  stop_watch, \* SharedUiState.stop_watch
  pending,    \* session changes the SCM has not delivered yet
  signed_in,  \* external: a user is signed in at the console
  starts,     \* number of service processes so far; the last is the present one
  helper,     \* the state of each helper process
  parent,     \* the service process that started it
  crashed,    \* history: a service process died
  failed      \* history: its loop ended because the wait failed

service == <<status, stage, stop_event, pc, handle>>
session == <<pending, signed_in>>
procs   == <<helper, parent>>
history == <<crashed, failed>>
vars    == <<service, stop_watch, session, starts, procs, history>>

Alive(h) == helper[h] # "none"

Init ==
  /\ status = "stopped" /\ stage = "down" /\ stop_event = FALSE
  /\ pc = [t \in Threads |-> "out"]
  /\ handle = NoProcess /\ stop_watch = FALSE
  /\ pending = <<>> /\ signed_in \in BOOLEAN
  /\ starts = 0
  /\ helper = [h \in Helper |-> "none"] /\ parent = [h \in Helper |-> 0]
  /\ crashed = FALSE /\ failed = FALSE

----------------------------------------------------------------------------
(* start_session_watch *)

Goto(t, where) == pc' = [pc EXCEPT ![t] = where]

(* Mutant: a helper that still runs is not noticed. *)
StartCheck_AlwaysSpawns(t) ==
  /\ pc[t] = "check"
  /\ handle' = NoProcess /\ Goto(t, "spawn")
  /\ UNCHANGED <<status, stage, stop_event, stop_watch, session, starts, procs, history>>

(* A helper that still runs is kept; the handle of one that ended is closed.*)
StartCheck(t) ==
  /\ pc[t] = "check"
  /\ IF handle # NoProcess /\ Alive(handle)
     THEN Goto(t, "out") /\ UNCHANGED handle
     ELSE handle' = NoProcess /\ Goto(t, "spawn")
  /\ UNCHANGED <<status, stage, stop_event, stop_watch, session, starts, procs, history>>

(* No session, no token, or CreateProcessAsUser fails. *)
SpawnFails(t) ==
  /\ pc[t] = "spawn"
  /\ SpawnMayFail \/ ~signed_in
  /\ Goto(t, "out")
  /\ UNCHANGED <<status, stage, stop_event, handle, stop_watch, session, starts, procs, history>>

Spawn(t) ==
  /\ pc[t] = "spawn"
  /\ signed_in
  /\ \E h \in Helper :
       /\ ~Alive(h)
       /\ helper' = [helper EXCEPT ![h] = "starting"]
       /\ parent' = [parent EXCEPT ![h] = starts]
       /\ handle' = h
  /\ Goto(t, "out")
  /\ UNCHANGED <<status, stage, stop_event, stop_watch, session, starts, history>>

----------------------------------------------------------------------------
(* stop_session_watch *)

StopFlag(t) ==
  /\ pc[t] = "flag"
  /\ IF handle = NoProcess
     THEN Goto(t, "out") /\ UNCHANGED stop_watch
     ELSE Goto(t, "wait") /\ stop_watch' = TRUE
  /\ UNCHANGED <<status, stage, stop_event, handle, session, starts, procs, history>>

StopWaited(t) ==
  /\ pc[t] = "wait"
  /\ handle # NoProcess => ~Alive(handle)
  /\ Goto(t, "close")
  /\ UNCHANGED <<status, stage, stop_event, handle, stop_watch, session, starts, procs, history>>

(* Mutant: the wait for the helper has no time limit. *)
StopTimesOut_Never(t) == FALSE /\ UNCHANGED vars

(* Mutant: on a timeout the helper is left alone. *)
StopTimesOut_LeavesIt(t) ==
  /\ pc[t] = "wait"
  /\ handle # NoProcess /\ Alive(handle)
  /\ Goto(t, "close")
  /\ UNCHANGED <<status, stage, stop_event, handle, stop_watch, session, starts, procs, history>>

(* The helper has not ended within 2 s: TerminateProcess. *)
StopTimesOut(t) ==
  /\ pc[t] = "wait"
  /\ handle # NoProcess /\ Alive(handle)
  /\ helper' = [helper EXCEPT ![handle] = "none"]
  /\ Goto(t, "close")
  /\ UNCHANGED <<status, stage, stop_event, handle, stop_watch, session, starts, parent, history>>

StopClose(t) ==
  /\ pc[t] = "close"
  /\ handle' = NoProcess
  /\ Goto(t, "out")
  /\ UNCHANGED <<status, stage, stop_event, stop_watch, session, starts, procs, history>>

----------------------------------------------------------------------------
(* The main thread: service_main and run_daemon_loop. *)

(* The process outlives service_main while a control is being handled.      *)
ProcessLives == stage # "down" \/ pc["dispatcher"] # "out"

(* The process starts; the IPC blocks are created and reset, then           *)
(* start_session_watch is called.                                           *)
ServiceStarts ==
  /\ status = "stopped" /\ ~ProcessLives /\ starts < MaxStarts
  /\ starts' = starts + 1
  /\ status' = "start_pending" /\ stage' = "starting"
  /\ stop_watch' = FALSE
  /\ Goto("main", "check")
  /\ UNCHANGED <<stop_event, handle, session, procs, history>>

ServiceReady ==
  /\ stage = "starting" /\ pc["main"] = "out"
  /\ stage' = "loop" /\ status' = "running"
  /\ UNCHANGED <<stop_event, pc, handle, stop_watch, session, starts, procs, history>>

(* The loop ends; close_fg_ipc calls stop_session_watch. *)
LoopEnds ==
  /\ stage = "loop" /\ stop_event
  /\ stage' = "cleanup"
  /\ Goto("main", "flag")
  /\ UNCHANGED <<status, stop_event, handle, stop_watch, session, starts, procs, history>>

(* The wait fails, and nobody has told the SCM: the service still accepts   *)
(* session changes while it cleans up.                                      *)
LoopFails ==
  /\ stage = "loop"
  /\ stage' = "cleanup" /\ failed' = TRUE
  /\ Goto("main", "flag")
  /\ UNCHANGED <<status, stop_event, handle, stop_watch, session, starts, procs, crashed>>

(* close_ui_ipc, and service_main reports SERVICE_STOPPED. *)
ServiceStopped ==
  /\ stage = "cleanup" /\ pc["main"] = "out"
  /\ stage' = "down" /\ status' = "stopped" /\ stop_event' = FALSE
  /\ stop_watch' = TRUE
  /\ UNCHANGED <<pc, handle, session, starts, procs, history>>

ServiceCrashes ==
  /\ ProcessLives
  /\ stage' = "down" /\ status' = "stopped" /\ stop_event' = FALSE
  /\ pc' = [t \in Threads |-> "out"] /\ handle' = NoProcess
  /\ pending' = <<>> /\ crashed' = TRUE
  /\ UNCHANGED <<stop_watch, signed_in, starts, procs, failed>>

----------------------------------------------------------------------------
(* The SCM and its dispatcher thread: service_handler_ex. *)

(* Mutant: a stopping service still accepts session changes. *)
Accepts_Stopping == status \in {"running", "stop_pending"}

(* update_service_status: controls are accepted only by a running service. *)
Accepts == status = "running"

Idle == pc["dispatcher"] = "out"

(* SERVICE_CONTROL_STOP, SERVICE_CONTROL_SHUTDOWN *)
StopControl ==
  /\ Accepts /\ Idle /\ ~stop_event
  /\ status' = "stop_pending"
  /\ stop_event' = TRUE
  /\ UNCHANGED <<stage, pc, handle, stop_watch, session, starts, procs, history>>

(* SERVICE_CONTROL_SESSIONCHANGE: logon, unlock and console connect start a *)
(* helper, logoff and console disconnect stop it.                           *)
SessionChange ==
  /\ Accepts /\ Idle /\ pending # <<>>
  /\ pending' = Tail(pending)
  /\ Goto("dispatcher", IF Head(pending) = "logon" THEN "check" ELSE "flag")
  /\ UNCHANGED <<status, stage, stop_event, handle, stop_watch, signed_in, starts, procs, history>>

----------------------------------------------------------------------------
(* The user.  A change the service does not accept is lost.                 *)

Posted(change) ==
  IF Accepts THEN Append(pending, change) ELSE <<>>

SignIn ==
  /\ ~signed_in /\ Len(pending) < MaxPending
  /\ status = "start_pending" => EarlySignIn
  /\ signed_in' = TRUE
  /\ pending' = Posted("logon")
  /\ UNCHANGED <<service, stop_watch, starts, procs, history>>

Unlock ==
  /\ signed_in /\ Len(pending) < MaxPending
  /\ pending' = Posted("logon")
  /\ UNCHANGED <<service, stop_watch, signed_in, starts, procs, history>>

(* The user signs out or disconnects. *)
SignOut ==
  /\ signed_in /\ Len(pending) < MaxPending
  /\ signed_in' = FALSE
  /\ pending' = Posted("logoff")
  /\ UNCHANGED <<service, stop_watch, starts, procs, history>>

----------------------------------------------------------------------------
(* The helper. *)

HelperIs(h, old, new) ==
  /\ helper[h] = old
  /\ helper' = [helper EXCEPT ![h] = new]
  /\ UNCHANGED <<service, stop_watch, session, starts, parent, history>>

ParentAlive(h) == ProcessLives /\ parent[h] = starts

(* It maps the shared blocks, which exist while someone holds them open ... *)
Maps(h) ==
  HelperIs(h, "starting",
    IF ProcessLives \/ \E o \in Helper : helper[o] \in {"mapped", "running", "unwatched"}
    THEN "mapped" ELSE "none")

(* ... and opens its parent, whose end it will then notice. *)
OpensParent(h) ==
  HelperIs(h, "mapped", IF ParentAlive(h) THEN "running" ELSE "unwatched")

(* A wake-up of its loop with the parent gone, or with stop_watch set.      *)
Leaves(h) ==
  \/ ~ParentAlive(h) /\ HelperIs(h, "running", "none")
  \/ stop_watch /\ HelperIs(h, "running", "none")
  \/ stop_watch /\ HelperIs(h, "unwatched", "none")

(* It hangs in a window procedure, or is killed. *)
Fails(h) ==
  /\ HelperFails
  /\ HelperIs(h, "running", "hung") \/ HelperIs(h, "running", "none")

Next ==
  \/ \E t \in Threads : StartCheck(t)
  \/ \E t \in Threads : SpawnFails(t)
  \/ \E t \in Threads : Spawn(t)
  \/ \E t \in Threads : StopFlag(t)
  \/ \E t \in Threads : StopWaited(t)
  \/ \E t \in Threads : StopTimesOut(t)
  \/ \E t \in Threads : StopClose(t)
  \/ ServiceStarts
  \/ ServiceReady
  \/ LoopEnds
  \/ LoopFails
  \/ ServiceStopped
  \/ ServiceCrashes
  \/ StopControl
  \/ SessionChange
  \/ SignIn
  \/ Unlock
  \/ SignOut
  \/ \E h \in Helper : Maps(h)
  \/ \E h \in Helper : OpensParent(h)
  \/ \E h \in Helper : Leaves(h)
  \/ \E h \in Helper : Fails(h)

(* Threads and helpers are scheduled; CreateProcessAsUser works; nobody has *)
(* to start or stop the service, sign in, or hang.                          *)
Fairness ==
  /\ \A t \in Threads :
       /\ WF_vars(StartCheck(t)) /\ WF_vars(Spawn(t))
       /\ WF_vars(~signed_in /\ SpawnFails(t))
       /\ WF_vars(StopFlag(t)) /\ WF_vars(StopWaited(t))
       /\ WF_vars(StopTimesOut(t)) /\ WF_vars(StopClose(t))
  /\ WF_vars(ServiceReady) /\ WF_vars(LoopEnds) /\ WF_vars(ServiceStopped)
  /\ WF_vars(SessionChange)
  /\ \A h \in Helper : WF_vars(Maps(h)) /\ WF_vars(OpensParent(h)) /\ WF_vars(Leaves(h))

Spec == Init /\ [][Next]_vars /\ Fairness

----------------------------------------------------------------------------
(* Properties. *)

TypeOK ==
  /\ status \in {"stopped", "start_pending", "running", "stop_pending"}
  /\ stage \in {"down", "starting", "loop", "cleanup"}
  /\ stop_event \in BOOLEAN /\ stop_watch \in BOOLEAN
  /\ pc \in [Threads -> {"out", "check", "spawn", "flag", "wait", "close"}]
  /\ handle \in Helper \cup {NoProcess}
  /\ pending \in Seq({"logon", "logoff"}) /\ Len(pending) <= MaxPending
  /\ signed_in \in BOOLEAN /\ starts \in 0..MaxStarts
  /\ helper \in [Helper -> {"none", "starting", "mapped", "running", "unwatched", "hung"}]
  /\ parent \in [Helper -> 0..MaxStarts]
  /\ crashed \in BOOLEAN /\ failed \in BOOLEAN

(* The two threads are never inside start_session_watch or                  *)
(* stop_session_watch together, although nothing but the order of controls  *)
(* keeps them apart: the handle is not closed or terminated twice.  Unless  *)
(* the loop ended by itself: no control precedes that end.                  *)
NotBoth == ~failed => pc["main"] = "out" \/ pc["dispatcher"] = "out"

(* A service process never has two helpers, however session changes, stops *)
(* and helper failures are ordered; a helper of a process that died does    *)
(* not count, nor one whose loop failed.                                    *)
OneHelper == ~failed => Cardinality({h \in Helper : Alive(h) /\ parent[h] = starts}) <= 1

(* A stopped service leaves no helper behind, even one that hangs; if it    *)
(* ended by itself, a helper started in the meantime may remain.            *)
NoHelperLeft == stage = "down" /\ ~crashed /\ ~failed => \A h \in Helper : ~Alive(h)

(* A stop that was accepted completes, though the helper may hang: waiting  *)
(* for it is bounded.                                                       *)
StopCompletes == stop_event ~> stage = "down"

HelperPresent == \E h \in Helper : Alive(h)

(* "After signing in the tray shows an icon" (README.md:38), put there by   *)
(* the helper the service opens in the session (README.md:39): as long as   *)
(* the service runs and the user is signed in there is a helper.            *)
(* stop_watch, once set by a sign-out, is never reset.                      *)
HelperWhileSignedIn ==
  <>[](status = "running" /\ signed_in) => []<>HelperPresent

(* The same for a service no sign-out has reached: it must hold too when    *)
(* the user signs in just as the service starts.                            *)
HelperAfterBoot ==
  <>[](status = "running" /\ signed_in /\ ~stop_watch) => []<>HelperPresent

=============================================================================
