--------------------------- MODULE MemoryManager ---------------------------
(***************************************************************************)
(* MemoryManager (src/optimizer/memory_manager.cpp): trims the working sets *)
(* of background processes under memory pressure, and spares the foreground *)
(* process and those that recently were.                                    *)
(*                                                                         *)
(* A trim walks over all processes on the daemon's main thread.  The user   *)
(* goes on switching windows meanwhile, and the switch is only heard of     *)
(* (event) when the main thread is back in its loop; so a walk is one step  *)
(* per process.  Ages are in ticks and capped where no comparison can tell  *)
(* them apart any more.  How many bytes a trim frees is left out.  With no  *)
(* window in front (a locked screen) nothing is reported, and the process   *)
(* that was in front goes on counting as such.                              *)
(***************************************************************************)
EXTENDS Integers

CONSTANTS
  Process,      \* the user's processes
  System,       \* processes on an allowlist, pid 0, pid 4 and the daemon's own
  Watched,      \* the process whose history the properties follow
  GracePeriod,  \* m_grace_period_ms
  TrimInterval, \* trim_interval_seconds
  MinCooldown,  \* the 10 s floor of on_housekeeping
  Thresholds,   \* what the file may give for pressure_threshold_percent
  Loads,        \* the memory loads, in percent, that are told apart
  TrimOnAC, TrimOnDC,  \* trim_idle_processes_on_{ac,dc}
  StandbyPurge  \* enable_standby_purge

NoPid == "0"

Later(a, b) == IF a > b THEN a ELSE b

Critical == 85

Cooldown(percent) ==
  Later(MinCooldown, IF percent >= Critical THEN TrimInterval \div 2 ELSE TrimInterval)

Expired  == GracePeriod + 1
Rested   == Later(TrimInterval, MinCooldown)
Age(cap) == 0..cap

ASSUME MemoryAssumption ==
  /\ NoPid \notin Process \cup System
  /\ Process \cap System = {}
  /\ Watched \in Process
  /\ {GracePeriod, TrimInterval, MinCooldown} \subseteq Nat
  /\ Thresholds \subseteq 0..100 /\ Loads \subseteq 0..100
  /\ {TrimOnAC, TrimOnDC, StandbyPurge} \subseteq BOOLEAN

VARIABLES
  current,   \* m_current_foreground_pid
  history,   \* m_recent_foreground_history: time since each entry was set
  rest,      \* time since m_last_trim_time
  scan,      \* the processes the walk under way has still to visit
  walking,   \* optimize_memory runs
  purge,     \* its argument force_standby_purge
  load,      \* external: the memory load in percent
  is_ac,     \* m_current_is_ac
  paused,    \* the optimizer was switched off in the tray
  threshold, \* pressure_threshold_percent
  focused,   \* external: the process that owns the foreground window
  event,     \* external: a foreground change is waiting for the main thread
  gained,    \* history: time since the daemon saw Watched come to the front
  trimmed    \* history: time since Watched was last trimmed

manager == <<current, history, rest, scan, walking, purge>>
setting == <<is_ac, paused, threshold>>
world   == <<load, setting, focused, event>>
record  == <<gained, trimmed>>
vars    == <<manager, world, record>>

Init ==
  /\ current = NoPid
  /\ history = [p \in {} |-> 0]
  /\ rest = Rested
  /\ scan = {} /\ walking = FALSE /\ purge = FALSE
  /\ load \in Loads /\ threshold \in Thresholds
  /\ is_ac = TRUE /\ paused = FALSE
  /\ focused \in Process /\ event = TRUE
  /\ gained = Expired /\ trimmed = Rested

----------------------------------------------------------------------------
(* Mutant: an entry is dropped as soon as the process is not in front. *)
Cleaned_Eager(h, fg) ==
  [p \in {q \in DOMAIN h : q = fg} |-> h[p]]

(* cleanup_expired_focus_history_locked *)
Cleaned(h, fg) ==
  [p \in {q \in DOMAIN h : q = fg \/ h[q] <= GracePeriod} |-> h[p]]

Touched(h, fg) ==
  IF fg = NoPid THEN h
  ELSE [p \in DOMAIN h \cup {fg} |-> IF p = fg THEN 0 ELSE h[p]]

(* Mutant: only the entry in the history protects a process. *)
is_pid_protected_HistoryOnly(p) ==
  \/ p \in System
  \/ p \in DOMAIN history /\ history[p] < GracePeriod

is_pid_protected(p) ==
  \/ p \in System
  \/ p = current
  \/ p \in DOMAIN history /\ history[p] < GracePeriod

(* on_foreground_process_changed, called from the main loop ...             *)
OnForegroundProcessChanged ==
  /\ event /\ ~walking
  /\ event' = FALSE
  /\ current' = focused
  /\ history' = Cleaned(Touched(history, focused), focused)
  /\ gained' = IF focused = Watched THEN 0 ELSE gained
  /\ UNCHANGED <<rest, scan, walking, purge, load, setting, focused, trimmed>>

(* ... except in the service for the process it has seen last.              *)
SameForeground ==
  /\ event /\ ~walking
  /\ focused = current
  /\ event' = FALSE
  /\ UNCHANGED <<manager, load, setting, focused, record>>

(* The tray's command, carried out by the main loop. *)
SetPaused ==
  /\ ~walking
  /\ paused' = ~paused
  /\ UNCHANGED <<manager, load, is_ac, threshold, focused, event, record>>

(* Mutant: the settings for mains and battery are swapped. *)
Enabled_Swapped == IF is_ac THEN TrimOnDC ELSE TrimOnAC

Enabled == IF is_ac THEN TrimOnAC ELSE TrimOnDC

(* on_housekeeping, up to the walk of optimize_memory.  The list of         *)
(* processes may come out short, or empty when EnumProcesses fails.         *)
OnHousekeeping ==
  /\ ~walking /\ ~paused
  /\ Enabled
  /\ load >= threshold
  /\ rest >= Cooldown(load)
  /\ history' = Cleaned(Touched(history, current), current)
  /\ scan' \in SUBSET (Process \cup System)
  /\ walking' = TRUE
  /\ purge' = (StandbyPurge /\ load >= Critical)
  /\ UNCHANGED <<current, rest, world, record>>

(* One process of the walk; OpenProcess or EmptyWorkingSet may fail. *)
Trims(p) ==
  /\ p \in scan
  /\ ~is_pid_protected(p)
  /\ scan' = scan \ {p}
  /\ trimmed' = IF p = Watched THEN 0 ELSE trimmed
  /\ UNCHANGED <<current, history, rest, walking, purge, world, gained>>

Passes(p) ==
  /\ p \in scan
  /\ scan' = scan \ {p}
  /\ UNCHANGED <<current, history, rest, walking, purge, world, record>>

(* Mutant: the time of the trim is not recorded. *)
FinishWalk_KeepsTime ==
  /\ walking /\ scan = {}
  /\ walking' = FALSE
  /\ UNCHANGED <<current, history, rest, scan, purge, world, record>>

FinishWalk ==
  /\ walking /\ scan = {}
  /\ walking' = FALSE
  /\ rest' = 0
  /\ UNCHANGED <<current, history, scan, purge, world, record>>

----------------------------------------------------------------------------
(* The user and the machine. *)

UserSwitches(p) ==
  /\ p # focused
  /\ focused' = p
  /\ event' = TRUE
  /\ UNCHANGED <<manager, load, setting, record>>

LoadChanges ==
  /\ load' \in Loads \ {load}
  /\ UNCHANGED <<manager, setting, focused, event, record>>

SourceChanges ==
  /\ is_ac' = ~is_ac
  /\ UNCHANGED <<manager, load, paused, threshold, focused, event, record>>

Older(age, cap) == IF age < cap THEN age + 1 ELSE cap

Tick ==
  /\ rest' = Older(rest, Rested)
  /\ history' = [p \in DOMAIN history |-> Older(history[p], Expired)]
  /\ gained' = Older(gained, Expired)
  /\ trimmed' = Older(trimmed, Rested)
  /\ UNCHANGED <<current, scan, walking, purge, world>>

Next ==
  \/ OnForegroundProcessChanged
  \/ SameForeground
  \/ SetPaused
  \/ OnHousekeeping
  \/ \E p \in scan : Trims(p)
  \/ \E p \in scan : Passes(p)
  \/ FinishWalk
  \/ \E p \in Process : UserSwitches(p)
  \/ LoadChanges
  \/ SourceChanges
  \/ Tick

(* Time passes, a walk goes on, and housekeeping comes round again unless   *)
(* the optimizer is paused (its guard).                                     *)
Fairness ==
  /\ WF_vars(Tick)
  /\ WF_vars(OnHousekeeping)
  /\ WF_vars(\E p \in scan : Passes(p))
  /\ WF_vars(FinishWalk)

Spec == Init /\ [][Next]_vars /\ Fairness

----------------------------------------------------------------------------
(* Properties. *)

TypeOK ==
  /\ current \in Process \cup {NoPid}
  /\ DOMAIN history \subseteq Process
  /\ \A p \in DOMAIN history : history[p] \in Age(Expired)
  /\ rest \in Age(Rested) /\ scan \subseteq Process \cup System
  /\ walking \in BOOLEAN /\ purge \in BOOLEAN /\ (scan # {} => walking)
  /\ load \in Loads /\ threshold \in Thresholds
  /\ is_ac \in BOOLEAN /\ paused \in BOOLEAN
  /\ focused \in Process /\ event \in BOOLEAN
  /\ gained \in Age(Expired) /\ trimmed \in Age(Rested)

TrimsWatched == Trims(Watched)

(* The foreground process is trimmed only if it came to the front after the *)
(* main thread last looked, however long it has been there.                 *)
KnownForegroundSpared == [][TrimsWatched /\ focused = Watched => event]_vars

(* A process that the daemon saw come to the front is not trimmed for the   *)
(* grace period, whatever the user switches to in between.                  *)
GraceAfterFocus == [][TrimsWatched => gained >= GracePeriod]_vars

(* No process is trimmed again before the shorter cooldown has passed,      *)
(* although a walk takes time and the load may turn critical during it.     *)
NoThrashing == [][TrimsWatched => trimmed >= Cooldown(Critical)]_vars

(* Under lasting pressure on mains trims never cease, except while paused:  *)
(* not when the load moves between high and critical, the source or the     *)
(* pause have changed before, or a list of processes came out empty.        *)
PressureIsAnswered ==
  <>[](load >= threshold /\ is_ac /\ ~paused) => []<>walking /\ []<>~walking

(* "Active foreground PID is strictly excluded from EmptyWorkingSet"        *)
(* (e2e_runner.ps1:763): the switch may wait until the walk is over.        *)
ForegroundSpared == [][TrimsWatched => focused # Watched]_vars

=============================================================================
