---------------------------- MODULE PowerDaemon ----------------------------
(***************************************************************************)
(* The daemon around PowerManager (src/core/service.cpp): how what the      *)
(* machine does reaches the component of module PowerGovernor.              *)
(*                                                                         *)
(* Windows posts a notification for every change of the power source and   *)
(* of the battery level.  As a service the daemon receives them on the      *)
(* thread of the service dispatcher, next to the main loop; in a console   *)
(* the main loop receives them itself.  Each one makes two calls into       *)
(* PowerManager, each under its lock, with what the daemon remembers of     *)
(* both values: in between the main loop may call as well, and the loop may *)
(* end.  The death of the process is the subject of PowerGovernor.          *)
(***************************************************************************)
EXTENDS PowerGovernor, Sequences

CONSTANTS
  MaxPosted  \* bound on the notifications on their way

Notices == {"source", "level"}

ASSUME DaemonAssumption == MaxPosted \in Nat /\ MaxPosted >= 2

VARIABLES
  mains,    \* external: the power source in use
  level,    \* external: the charge of the battery
  posted,   \* external: notifications on their way to the daemon
  mode,     \* "service" or "console"
  loop,     \* where run_daemon_loop is
  handles,  \* m_power_notify_acdc, m_power_notify_battery that are not null
  is_ac,    \* m_current_is_ac
  percent,  \* m_current_battery_percent
  call,     \* the call into PowerManager the callback makes next
  heard,    \* history: kinds of notifications this process has received
  failed    \* history: some loop ended because its wait failed

machine  == <<mains, level>>
receiver == <<handles, posted, is_ac, percent, call, heard>>
daemon   == <<mode, loop, failed, receiver>>
governor == <<os, up, pm, trouble, history>>
dvars    == <<governor, machine, daemon>>

DInit ==
  /\ Init
  /\ mains \in {"AC", "Battery"} /\ level \in BatteryLevel
  /\ posted = <<>> /\ handles = {}
  /\ mode \in {"service", "console"} /\ loop = "gone"
  /\ is_ac = TRUE /\ percent = 100 /\ call = "none" /\ heard = {}
  /\ failed = FALSE

----------------------------------------------------------------------------
(* The machine. *)

Notice(kind) ==
  [kind |-> kind, value |-> IF kind = "source" THEN mains ELSE level]

Posts(kind) ==
  IF kind \in handles
  THEN /\ Len(posted) < MaxPosted
       /\ posted' = Append(posted, Notice(kind)')
  ELSE UNCHANGED posted

MainsChanges ==
  /\ mains' \in {"AC", "Battery"} \ {mains}
  /\ Posts("source")
  /\ UNCHANGED <<governor, level, mode, loop, failed, handles, is_ac, percent, call, heard>>

LevelChanges ==
  /\ level' \in BatteryLevel \ {level}
  /\ Posts("level")
  /\ UNCHANGED <<governor, mains, mode, loop, failed, handles, is_ac, percent, call, heard>>

----------------------------------------------------------------------------
(* run_daemon_loop. *)

(* GetSystemPowerStatus, if it succeeds, tells what the machine does, or    *)
(* that it does not know.                                                   *)
StatusRead ==
  \/ source' = source /\ battery' = battery
  \/ source' \in {mains, "Unknown"} /\ battery' \in {level, battery}

Begin ==
  /\ loop = "gone" /\ loop' = "starting"
  /\ mode' \in {"service", "console"}
  /\ InitializeFails \/ (Initialize /\ StatusRead)
  /\ UNCHANGED <<machine, failed, receiver>>

(* Windows posts the present value for each registration.  Those of a       *)
(* service may be lost: it does not accept them before SERVICE_RUNNING.     *)
Register ==
  /\ loop = "starting" /\ loop' = "looping"
  /\ handles' \in SUBSET Notices
  /\ posted' \in {<<>>, <<Notice("source")>>, <<Notice("level")>>,
                  <<Notice("source"), Notice("level")>>}
  /\ LET kinds == {posted'[i].kind : i \in DOMAIN posted'}
     IN  kinds = handles' \/ (mode = "service" /\ kinds \subseteq handles')
  /\ UNCHANGED <<governor, machine, mode, failed, is_ac, percent, call, heard>>

(* What else the main loop has PowerManager do; in a console it is the      *)
(* thread that makes the calls of the callback.                             *)
MainThread ==
  /\ loop = "looping"
  /\ mode = "console" => call = "none"
  /\ \/ \E p \in Pid : OnForegroundProcessChanged(p)
     \/ \E hold \in BOOLEAN : OnHousekeeping(hold)
     \/ \E p \in BOOLEAN : SetPaused(p)
  /\ UNCHANGED <<machine, daemon>>

(* Mutant: the end of the loop does not wait for the call in flight.        *)
LoopStops_Interrupts ==
  /\ loop = "looping" /\ loop' = "closing"
  /\ handles' = {} /\ posted' = <<>>
  /\ UNCHANGED <<governor, machine, mode, failed, is_ac, percent, call, heard>>

(* A stop from the SCM comes on the thread that receives notifications, and *)
(* none is accepted after it; one from the console finds the main loop, and *)
(* with it that thread, waiting.                                            *)
LoopStops ==
  /\ loop = "looping" /\ loop' = "closing"
  /\ call = "none"
  /\ handles' = {} /\ posted' = <<>>
  /\ UNCHANGED <<governor, machine, mode, failed, is_ac, percent, call, heard>>

(* The wait fails: the service still accepts notifications. *)
LoopFails ==
  /\ loop = "looping" /\ loop' = "failing"
  /\ mode = "console" => call = "none"
  /\ failed' = TRUE
  /\ UNCHANGED <<governor, machine, mode, receiver>>

Unregister ==
  /\ loop = "failing" /\ loop' = "closing"
  /\ handles' = {} /\ posted' = <<>>
  /\ UNCHANGED <<governor, machine, mode, failed, is_ac, percent, call, heard>>

(* PowerManager::shutdown, here apart from the end of the process. *)
ShutsDown ==
  /\ loop = "closing" /\ loop' = "shut"
  /\ RestoreBaseline
  /\ has_scheme' = FALSE
  /\ crashed' = (crashed \/ stale')
  /\ UNCHANGED <<up, guid, saved, saved_baseline, paused, source, battery, fast_ramp,
                 last_pid, applied, origin, misread, blind, ended>>
  /\ UNCHANGED <<machine, mode, failed, receiver>>

(* Mutant: the process ends under a call in flight. *)
Exit_Abrupt ==
  /\ loop = "shut" /\ loop' = "gone"
  /\ ProcessGone
  /\ ended' = "clean" /\ crashed' = (crashed \/ has_scheme)
  /\ is_ac' = TRUE /\ percent' = 100 /\ heard' = {}
  /\ UNCHANGED <<os, trouble, origin, misread, blind, machine, mode, failed, handles, posted, call>>

(* The dispatcher's thread ends the process, once its handler has returned. *)
Exit ==
  /\ loop = "shut" /\ loop' = "gone"
  /\ call = "none"
  /\ ProcessGone
  /\ ended' = "clean" /\ crashed' = (crashed \/ has_scheme)
  /\ is_ac' = TRUE /\ percent' = 100 /\ heard' = {}
  /\ UNCHANGED <<os, trouble, origin, misread, blind, machine, mode, failed, handles, posted, call>>

----------------------------------------------------------------------------
(* process_power_broadcast_setting and the callback run_daemon_loop sets.   *)

Receiving == loop = "looping" \/ (mode = "service" /\ loop = "failing")

(* Mutant: a battery notification is passed on without being remembered.    *)
Deliver_Forgets ==
  /\ Receiving /\ call = "none" /\ posted # <<>>
  /\ posted' = Tail(posted)
  /\ IF Head(posted).kind = "source" THEN is_ac' = (Head(posted).value = "AC")
                                     ELSE UNCHANGED is_ac
  /\ call' = "source"
  /\ heard' = heard \cup {Head(posted).kind}
  /\ UNCHANGED <<governor, machine, mode, loop, failed, handles, percent>>

Deliver ==
  /\ Receiving /\ call = "none" /\ posted # <<>>
  /\ posted' = Tail(posted)
  /\ IF Head(posted).kind = "source"
     THEN is_ac' = (Head(posted).value = "AC") /\ UNCHANGED percent
     ELSE percent' = Head(posted).value /\ UNCHANGED is_ac
  /\ call' = "source"
  /\ heard' = heard \cup {Head(posted).kind}
  /\ UNCHANGED <<governor, machine, mode, loop, failed, handles>>

CallSource ==
  /\ call = "source" /\ call' = "level"
  /\ LET src == IF is_ac THEN "AC" ELSE "Battery"
     IN  \/ OnPowerSourceChanged(src)
         \/ src = source /\ UNCHANGED governor
  /\ UNCHANGED <<machine, mode, loop, failed, handles, posted, is_ac, percent, heard>>

CallLevel ==
  /\ call = "level" /\ call' = "none"
  /\ OnBatteryPercentChanged(percent)
  /\ UNCHANGED <<machine, mode, loop, failed, handles, posted, is_ac, percent, heard>>

DNext ==
  \/ MainsChanges \/ LevelChanges
  \/ Begin \/ Register \/ MainThread
  \/ LoopStops \/ LoopFails \/ Unregister \/ ShutsDown \/ Exit
  \/ Deliver \/ CallSource \/ CallLevel

DSpec == DInit /\ [][DNext]_dvars

----------------------------------------------------------------------------
(* Properties. *)

(* Every variable keeps its type; notifications and calls are under way     *)
(* only while there is a process to take them.                              *)
DaemonTypeOK ==
  /\ TypeOK
  /\ mains \in {"AC", "Battery"} /\ level \in BatteryLevel
  /\ mode \in {"service", "console"}
  /\ loop \in {"gone", "starting", "looping", "failing", "closing", "shut"}
  /\ up <=> loop # "gone"
  /\ handles \subseteq Notices /\ heard \subseteq Notices
  /\ Len(posted) <= MaxPosted /\ (posted # <<>> => handles # {})
  /\ is_ac \in BOOLEAN /\ percent \in Percent
  /\ call \in {"none", "source", "level"} /\ (call # "none" => up)
  /\ failed \in BOOLEAN

Quiet == loop = "looping" /\ posted = <<>> /\ call = "none"

InForceFor(src, pct) ==
  LET want == Written(Plan(src, pct, fast_ramp))
  IN  /\ \A s \in Governed : reg[guid][Line(src)][s] = want[s]
      /\ active = guid => \A s \in Governed : live[Line(src)][s] = want[s]

(* Once notifications of both kinds have come and all are dealt with, the   *)
(* settings in force are those for the machine's real source and level,     *)
(* however the two calls of a notification interleave with focus changes,   *)
(* polls and pauses, and whatever came before the first of each kind        *)
(* (m_current_is_ac and m_current_battery_percent start with defaults).     *)
MachineInForce ==
  Quiet /\ heard = Notices /\ Governing /\ ~stale => InForceFor(mains, level)

(* A loop that was told to stop gives the machine back: no notification,    *)
(* not even one that is being dealt with, takes it again after shutdown()   *)
(* (a late on_power_source_changed would capture the scheme anew), and      *)
(* unless a call of some shutdown() failed every scheme is as it was, save  *)
(* what could not be read of it.                                            *)
StopGivesBack ==
  loop \in {"shut", "gone"} /\ ~failed =>
    /\ ~has_scheme
    /\ ~crashed /\ ~blind /\ Restorable =>
         /\ \A g \in Scheme : AsFound(g, reg[g])
         /\ live = reg[active]

(* The same when the loop ended because its wait failed.                    *)
FailureGivesBack ==
  loop \in {"shut", "gone"} /\ ~crashed /\ ~blind /\ Restorable =>
    \A g \in Scheme : AsFound(g, reg[g])

(* The power source PowerManager goes by changes only when Windows has said *)
(* that it did: a battery notification, which the callback answers with     *)
(* both values, invents none.                                               *)
SourceIsHeard ==
  [][up /\ up' /\ source' # source => "source" \in heard]_dvars

=============================================================================
