# A TLA+ model of SurfaceOptimizer

SurfaceOptimizer is a Windows service for a Surface Pro 7. It rewrites the
active power scheme while the user works and promises to give it back, trims
working sets under memory pressure, slows background processes, and shows a
tray icon through a helper process in the user's session. It takes away things
that belong to the user (power settings, processor affinity, quality of service,
priority, memory), so most of its correctness is about *giving back the right
thing, in every order of events*.

This directory holds one TLA+ module per component, the TLC instances that
check it, and TLAPS proofs of all their safety properties. Every definition is
translated from the C++ sources; `PROJECT.json` gives the lines of each.

    tlc -config PowerGovernor_safety.cfg MCPowerGovernor     model-check a run
    tlapm PowerManager_proofs.tla                            check the proofs

Contents: 1 inventory, 2 modules, 3 runs, 4 bounds, 5 fairness, 6 proofs,
7 findings, 8 what is not modelled, 9 assumptions, 10 plan.

## 1. Inventory

### Processes and threads

| Process | Started by | Threads that matter |
|---|---|---|
| `--daemon` (the service) | the service control manager (SCM) | *main*: `service_main` and `run_daemon_loop`; *dispatcher*: `service_ctrl_handler` for controls, power and session notifications |
| `--interactive` | the user | main; a console control handler; a WinEvent hook |
| `--foreground-watch` (the helper) | the service, in the user's session | one loop: focus, last input, tray icon |
| `--install`, `--uninstall`, `--start`, `--stop`, `--status`, `--benchmark`, `--trim-memory` | the user | one |

They meet in: a named mutex (one instance at a time), the SCM's view of the
service, two blocks of shared memory (`SharedFgState`: focus and idle time;
`SharedUiState`: tray commands and status), an event `m_fg_event`, the Windows
power schemes, and the processes of the machine.

### Components

| Component | State it keeps | Operations | Correct when |
|---|---|---|---|
| PowerManager (`power_manager.cpp`) | captured scheme, saved baseline, what was applied last, source, battery, burst flag, paused; all under `m_mutex` | initialize, power source / battery / foreground / housekeeping events, set_paused, shutdown | the scheme always holds what the present inputs call for and it is in force; pausing and stopping give the baseline back |
| Burst policy (`burst_policy.hpp`, `sample_and_update_burst_hold`) | time of the last switch, quiet timer, previous counters, last idle time | the poll, focus changes, the helper's reports | a burst lasts as long as something calls for it, and no longer; no delta of two processes |
| MemoryManager (`memory_manager.cpp`) | current foreground, focus history, time of the last trim | focus change, housekeeping, the walk | nothing the user is using is trimmed; trims keep their distance and do not stop for good |
| ProcessGuardian (`process_guardian.cpp`, `cpu_reserve.hpp`, `memory_leak_policy.hpp`) | four maps keyed by PID, counters, previous snapshot | start, focus change, housekeeping (snapshot and three walks), enable / disable, shutdown | the foreground is fast, only an offender is demoted, the allowlist is spared, and everything is undone |
| Session helper (`service.cpp` 356-530) | the helper's handle, `stop_watch`, the shared blocks | start_session_watch, stop_session_watch, session changes | one helper while a user is signed in, none after a stop, the two threads never collide |
| Tray and UI IPC (`tray.cpp`, `consume_ui_commands`) | one command slot with a number and its acknowledgement, published status, icon | click, poll | what the user clicks is what happens, and the icon tells the truth |
| Service lifecycle and command line (`service.cpp`, `main.cpp`) | mutex, stop flag and event, SCM state, loop phase | start, ready, stop, crash, failure restart, install, uninstall, start, stop, status, benchmark | one instance governs; SERVICE_STOPPED means restored; a failed service returns; every client ends |
| Power notifications (`process_power_broadcast_setting`, the callback of `run_daemon_loop`) | last source and level, with defaults until told; the registrations | register, power broadcast (two locked calls each), unregister | the two values that reach PowerManager are the machine's, and none reaches it after the restore |
| Config (`config.cpp`) | the configuration; while loading, the current section | load line by line, save, default | what is written is what is read; lists and comments are read as TOML reads them |
| Logger, Utils | a log level and a file | formatting, single Win32 calls | no component depends on them |
| PlatformProbe (`platform_probe.cpp`) | none | read-only telemetry | `--status` changes nothing |
| Build and installation scripts, tests | none | | |

### What is hard about it

* **Two threads, partly without locks.** PowerManager is locked call by call;
  the helper's handle and `stop_watch` are not.
* **A main thread that is busy.** A trim or a guardian tick walks over all
  processes while focus changes, process ends and reused PIDs go on.
* **Shared memory without atomics**, and one slot for commands.
* **Failures of single calls.** A power write, a first read, an activation, a
  snapshot, a change of the start type, a timer, a wait or a query may fail; most
  results are not looked at.
* **Crashes.** A dead instance has restored nothing, and the SCM starts the
  next one, which knows nothing of it.
* **Windows' view against the program's.** SERVICE_STOPPED, the release of the
  mutex and the end of the process are three different moments.
* **Defaults that look like data**: an idle time nobody reports any more, a
  battery of 100 %, a built-in number where the user's own could not be read, a
  first sample without a predecessor, a snapshot without a process that is there.

The hazards in `PROJECT.json` list these at their lines, each with the
properties that watch it or with the reason why none does.

## 2. The modules

Each is one component with the part of its surroundings it races with; a
variable or action commented *external* is Windows or the user, one commented
*history* exists only for the properties. A name that begins with an action's
name and goes on after an underscore (`SetPaused_ResumesUnforced`) is a mutant:
that action with a plausible mistake, used only to show that a property notices.

**PowerGovernor** - `PowerManager`. Windows is three variables: the contents of
every scheme (`reg`), the active scheme (`active`) and the values in force
(`live`); a write changes `reg` only and PowerSetActiveScheme brings the scheme
in force. `Plan` is the governor's decision, `Evaluate` is
`evaluate_and_apply_governor` with its remembered scheme, its comparison with
`applied` and its `force` argument, `RestoreBaseline` and `WithFixed` the
restoration and the two settings written once. `Initialize`, `InitializeFails`,
`OnPowerSourceChanged`, `OnBatteryPercentChanged`, `OnForegroundProcessChanged`,
`OnHousekeeping`, `SetPaused` and `Shutdown` are the public operations (each one
critical section, hence one action); `Crash` and `UserActivates` surround them.
Fault model: any write and the activation of an operation may fail (`Faulty`
beside `Faultless`, for the sets of settings in `Missable`), and so may the query
at the start and the first reads (for the sets in `Unreadable`); the code looks at
none of these results. `stale` is TRUE from a failed write or activation until an
evaluation or restoration activates the scheme again: what the code repairs by
itself and when. A value that could not be read is saved as the built-in number of
`DefaultSaved` (`Captured`), and the history `misread` says which ones were;
`AsFound` compares a scheme with what it was, but for those.

**PowerDaemon** - PowerGovernor inside the daemon (EXTENDS it): the machine's real
source and battery level, the notifications Windows posts for them, and
`process_power_broadcast_setting`, whose callback makes two calls (`Deliver`,
`CallSource`, `CallLevel`), each under PowerManager's lock, with the values the
daemon remembers. In a service that happens on the dispatcher's thread while the
main loop makes its own calls (`MainThread`) and ends (`LoopStops`, `LoopFails`,
`Unregister`, `ShutsDown`, `Exit`); in a console the main loop receives them.

**SettingsCustody** - the abstract specification: a daemon takes charge of at most
one scheme, changes no other and gives it back as it was, unless values were
lost. PowerGovernor and ServiceLifecycle both implement it (`KeepsContract ==
Contract!Spec`): the first maps `taken` to the schemes that differ from `origin`
(misread values aside) and `charge` to the captured one, the second knows one scheme, the machine, in
the charge of whoever governs.

**BurstHold** - when a burst ends. `Poll` is the whole poll of the daemon loop
(read the helper's block, `sample_and_update_burst_hold`, `should_hold_boost`,
next period), `ConsumeEvent` a focus change, `HelperPublish` the helper's timer,
`Tick` the clock. The five signals (grace, input, CPU / I/O, GPU, fallback) are
kept apart; the percentages are abstracted to busy or not. It refines the
arbitrary `hold` that PowerGovernor's `OnHousekeeping` takes. At a turn the helper
publishes a process and the idle time together, or, when no window is in front (a
locked screen, a secure desktop), nothing at all (`HelperSilent`); `silent` and
`unheard` remember that.

**MemoryManager** - a trim is a walk: `OnHousekeeping` decides and takes the
list, `Trims` / `Passes` visit one process each, `FinishWalk` ends it; in between
the user switches windows and the main thread does not hear of it (`event`).
While the tray has paused the optimizer there is no housekeeping (`SetPaused`), and
the threshold may be one above the critical load of 85 %.

**SessionWatch** - the two threads inside `start_session_watch` and
`stop_session_watch`, one action between any two of their accesses to the handle
or the flag, against the SCM's controls, the life of the helpers and a loop that
ends without being told (`LoopFails`: the wait fails and the service cleans up
while the SCM takes it for running).

**ProcessGuardian** - processes are records, a housekeeping tick is
`TickSnapshot`, `TickQos`, `TickReserve`, `TickAnalyse`, and between these
processes are born, die and pass on their PIDs. A snapshot may miss any of them,
all when EnumProcesses fails; the records of a process it misses are erased though
the process lives, which the histories `eco_lost` and `mask_lost` remember, and
`heirs` are processes that found traces of an earlier one under their PID. Affinity
masks are sets of logical processors and cores are disjoint sets of them, so that
`should_reserve_os_core`, `user_affinity_mask` and `affinity_uses_os_core` are
the code's bit arithmetic; `Sustain` is its arithmetic of intervals.

**TrayMailbox** - every store of `post_cmd` and every load of
`consume_ui_commands` is an action, also the second look at the value when the
command is carried out; the order of the three stores is a constant. The change of
the start type may be `refused`, and the command is acknowledged all the same.

**ServiceLifecycle** - all processes, the mutex as the set of open handles, the
SCM, the failure action and the command-line clients. The power settings are one
value, "user" or "ours". After a failed wait (`failed`) a notification that the
dispatcher is still dealing with takes the settings once more after `Restores`
(`LateNotice`, `retook`): that process is in charge again (`InCharge`) until it
ends, and what it leaves is `abandoned`. The failure actions may not have been set
by `CliInstall` (`restarts`).

**ConfigFile** - `load_from_file` line by line (`SkipsLine`, `ReadsHeader`,
`ReadsEntry`) against a file that the user writes in any order of headers, keys,
comments and lists, and `save_to_file`. A line is what the reader tells apart;
`Accepted` and `Parsed` are the four parsers, with what they make of text they
were not meant for (`Garbled`).

The `MC` modules give constants to TLC. The theorems are in eight modules:
`PowerManager_proofs` (SettingsCustody, PowerGovernor and PowerDaemon),
`BurstHold_proofs`, `ServiceLifecycle_proofs`, `SessionWatch_proofs`,
`MemoryManager_proofs`, `ProcessGuardian_proofs`, `TrayMailbox_proofs` and
`ConfigFile_proofs`.

How they fit: ServiceLifecycle's `Initialise` and `Restores` are PowerGovernor's
`Initialize` and `Shutdown`, and its "user" / "ours" says whether the scheme
equals its origin; PowerGovernor's `SetPaused` is what TrayMailbox carries out;
BurstHold's `fast` is PowerGovernor's `fast_ramp`; SessionWatch's helper is the
one that publishes in BurstHold and clicks in TrayMailbox. PowerDaemon composes
PowerGovernor with the threads that call it; the others are checked one by one:
each leaves what the others decide free to happen in any order.

## 3. The runs

Runs that pass:

| Run | Shows |
|---|---|
| `power_safety` | No order of events, from two threads and the user, and no single failed operation leaves a setting stale once the code has activated the scheme again (`TargetInForce`); paused means baseline (`PausedIsBaseline`); without a crash a stop restores every scheme, up to the values that could not be read at a start (`CleanStopRestores`), and PowerManager keeps the contract of SettingsCustody (`KeepsContract`). The remembered plan makes this subtle: the scheme is re-activated only if the plan differs. |
| `notifications_safety` | Once Windows has told the daemon the source and the level, what is in force is what the machine's real state calls for, however the two calls of a notification, polls, focus changes and pauses interleave (`MachineInForce`); no notification, not even one under way, takes the machine again after a stop has restored what could be read of it (`StopGivesBack`). |
| `burst_safety` | While a helper reports the user's input a burst is not given up before its cause was absent for the hysteresis (`NoEarlyDrop`); in the service and in interactive mode it is gone in bounded time (`DropsInTime`) and in the long run (`QuietEndsBurst`), unless the helper is gone or has no window to report; deltas are of one process (`DeltaOfOneProcess`). |
| `memory_safety` | What the daemon knows to be in front is spared (`KnownForegroundSpared`), and for the grace period what it saw come to the front (`GraceAfterFocus`); no second trim within the shorter cooldown (`NoThrashing`), and trims never cease under lasting pressure that reaches the threshold, while the optimizer is not paused (`PressureIsAnswered`). |
| `session_safety` | The two unlocked threads never meet (`NotBoth`), one helper (`OneHelper`), a stop completes even with a hanging helper (`StopCompletes`) and leaves none (`NoHelperLeft`). The safety properties exclude a loop whose wait failed (section 7). |
| `guardian_safety` | One PID, two processes in turn, two instances, snapshots that may miss it: a pause undoes everything but priorities (`PauseUndoes`) and a stop gives affinities back (`StopGivesAffinityBack`), except what a missed snapshot made the guardian forget; no program outside the allowlist that the last snapshot saw is on the reserved core (`ReserveHeld`), the foreground is not in EcoQoS (`ForegroundFast`) and what a dead instance or a missed snapshot left there is repaired (`ForegroundRegainsSpeed`), demotion is for a process's own sustained doing (`DemotedForOwnDoing`) and comes at its tick (`OffenderDemoted`). |
| `mailbox_safety` | Clicks at any time, stores in either order. While commands do not meet in the one slot, only what was asked for happens (`NothingUnasked`) and no click is lost but one on the start type that the SCM refuses (`LastClickWins`); however fast one switch is clicked, it changes no more often than that (`ChangesAreClicks`); and the icon always ends up true (`IconTellsTruth`). |
| `lifecycle_safety` | Two service processes, a console, `--status`, every client, crashes, failed waits and late notifications: one instance is in charge of the settings (`OneGoverns`), they come back whenever none is, unless one was killed or ended while it was (`SettingsComeBack`), SERVICE_STOPPED means they are the user's (`StoppedMeansRestored`), and the processes together keep the contract of SettingsCustody (`KeepsContract`). |
| `lifecycle_progress` | An accepted stop completes (`StopCompletes`), a dead service whose failure actions were set returns (`FailedServiceReturns`), every client ends (`CliAnswers`). |
| `config_reads` | The last line that sets a key in its own section counts and the default where there is none, whatever else stands in the file (`ReadAsMeant`); what is saved is read back (`SavedIsReloaded`). |

Two runs end in a counterexample on purpose, `power_restart` and
`session_signin`: see section 7.

The larger ones have, in distinct states: `notifications_safety` 5.4 million,
`lifecycle_safety` 1.6 million, `guardian_safety` and `burst_safety` 600,000 each,
`power_safety` 490,000, `lifecycle_progress` 130,000, `memory_safety` 125,000.

Every property is also run against a mutant that breaks it. Most type invariants,
and PowerGovernor's `NothingPending` and `ReportIsCurrent`, are proved for every
instance and therefore not run as well; `DaemonTypeOK`, which says when
notifications and calls may be under way, and BurstHold's `TypeOK` are both.

## 4. Bounds

* **PowerGovernor**: two schemes, because every mistake about *which* scheme is
  written needs only one other (symmetric); battery levels 20 and 100, the two
  sides of the threshold with the boundary itself; one PID besides none. The
  instance gives bursts on battery and on mains the same settings, so that a plan
  is told apart by its line only, the hardest case for the "plan differs" test.
  `MaxFaults = 1`: one operation in which writes, the activation or first reads
  fail, on either line or both; the code forgets each alike, and a second one starts
  from the same `stale`. `Unreadable` takes a setting the governor rewrites and one
  it writes only once, and the factory values differ from the built-in numbers, or
  a misread value would be the right one by chance. `CrashesAgain = FALSE`: a daemon
  crashes only while there is still everything to lose, since after the first crash
  the properties promise no more. Nothing else is bounded in length.
* **PowerDaemon**: one scheme that the user leaves alone (PowerGovernor covers
  that), two notifications on their way (`MaxPosted = 2`: one of each kind, or
  two of one kind of which the first is out of date), one failing start, or one
  whose reads for mains fail.
* **BurstHold**: a tick is about 100 ms; grace, hysteresis, input hold and
  fallback keep the order of the defaults (2 < 3 <= 3 < 4, the long ones
  shortened), and an idle poll (4) is longer than the grace period, so that a
  burst can wait for it. `elapsed` and `quiet` are capped where no comparison
  distinguishes them; `CalmLimit` exceeds the right side of `DropsInTime`. One
  readable and one protected foreground process: a third would only repeat one
  of them. Both modes are initial states of the one run.
* **MemoryManager**: two applications and an allowlisted process; `Watched` is
  the one whose history is kept. Thresholds on both sides of the critical load, and
  loads between all of them. `TrimInterval \div 2` is longer than the floor,
  so both branches of the cooldown occur. Ages are capped.
* **SessionWatch**: two helpers (the second is the one too many), two service
  processes, two undelivered session changes.
* **ProcessGuardian**: one followed PID among others; the code treats each PID on
  its own, and only the foreground relates two, hence `Elsewhere`. `MaxLives = 2`
  is a PID reused once, `MaxStarts = 2` a restart. The four cores of a Surface Pro
  7 with two threads each; a process may ask for all of them, for part of the
  first core and more, or for others. `SustainSeconds = 3`, `IntervalMs = 2500`
  make both divisions cut off and give `Sustain = 2`, a counter that must hold over
  two ticks.
* **TrayMailbox**: four clicks on two switches: enough for one to overwrite
  another, to be torn, and to be followed by a patient one.
* **ServiceLifecycle**: two service processes, of which one is departing; one
  console; `MaxPolls` stands for 20 looks; one crash, while waits may fail and
  notifications come late at any time. `lifecycle_progress` has no
  console, because a restart that a console refuses is not repeated, which is
  what the code does.
* **ConfigFile**: one key of each kind in three sections, files of three lines, or
  as saved: a header, a line and one that repeats, interrupts or continues it.

The cfgs of SessionWatch and ProcessGuardian switch the deadlock check off: there
the last permitted instance may stop, after which nothing is left to happen. All
others are checked for deadlock.

## 5. Fairness

None is assumed for PowerGovernor, PowerDaemon and ConfigFile, which have safety
properties only.

* BurstHold: the two periodic timers fire and their loops run. A user who
  switches windows without end may interrupt a tick or a poll again and again,
  but not for ever, hence strong fairness of `Tick` and `Poll`. The helper takes its
  turns, with something to publish or without.
* MemoryManager: time passes, the walk goes on, housekeeping comes round unless
  the optimizer is paused (its guard; so nothing is asked of a pause that lasts). A
  process that cannot be trimmed (`Passes`) is enough; no trim has to succeed.
* SessionWatch: threads and helpers are scheduled and the SCM delivers what is
  pending. Nobody has to sign in, start, stop or hang.
* ProcessGuardian: the main loop runs housekeeping while the daemon is up.
* TrayMailbox: the helper's 100 ms timer and the service's poll timer. Nobody
  has to click, and the SCM may refuse every change and every question.
* ServiceLifecycle: processes are scheduled, the SCM carries out a due failure
  action, a client looks every 500 ms. Nobody has to start, stop or press Ctrl-C,
  and `WaitFails` and `LateNotice` need not happen.

## 6. Proofs

TLC examines two schemes, one PID, two helpers or three lines; TLAPS shows the
same for all. Eight modules hold the theorems: every safety property that a
passing run checks is one of them.

**PowerManager_proofs**, under `PowerAssumption` (factory contents are tables
of naturals, levels are percentages, the configuration is eight naturals, any
sets of settings may fail to be written or read together, any number of faults):

| Theorem | Says |
|---|---|
| `Invariance` | `Spec => []IInv` |
| `TypeCorrect` | `Spec => []TypeOK` |
| `TargetAlwaysInForce` | `Spec => [](TargetInForce /\ NothingPending)` |
| `ReportAndPause` | `Spec => [](ReportIsCurrent /\ PausedIsBaseline)` |
| `CleanStop` | `Spec => []CleanStopRestores` |
| `GovernorKeepsContract` | `Spec => KeepsContract`, the refinement of SettingsCustody |
| `OnlyTheCapturedDiffers` | `Spec => []Contract!Kept`: while nothing was lost, only the scheme in charge differs from what the user had; it follows from the contract alone (`ContractKeeps`) |
| `DaemonInvariance` | `DSpec => []DInv` |
| `DaemonTypeCorrect` | `DSpec => []DaemonTypeOK` |
| `MachineAlwaysInForce` | `DSpec => []MachineInForce` |
| `StopsGiveBack` | `DSpec => []StopGivesBack` |

None of the safety properties is inductive alone. The governor writes the line
of the scheme for the present power source at every evaluation, but activates
the scheme only when the plan changed or the caller forces it. An unforced step
with an unchanged plan leaves nothing pending only because the line *already
held* that plan: that takes `TargetWritten` (`TargetInForce` for `reg`, whether
or not the scheme is active), `ReportIsCurrent` (the remembered plan is the
current one), and that a change of the power source, which changes the line, is
always forced. A first evaluation after a blind start is safe because the
initial plan is none that the governor makes (`Idle`, `PlanType`).
`TargetWritten`, `NothingPending` and `PausedIsBaseline` are conditional on
`~stale`: after a failed call the code guarantees nothing until it next
activates the scheme, and an activation makes all three true again whatever was
missed before. `CleanStopRestores` needs `Custody`: the baseline held and every
other scheme are `AsFound`, that is what they were in `origin` but for the
values that some start could not read, which may be the built-in numbers; and
`Untouched` while nobody runs. A misread value that is given back so may be read
rightly by the next start; then that number is what is kept, and `misread` never
shrinks. The lemma `WriteEffect` says once what writing and activating leave;
`EvaluateEffect` and `GovernedStep` carry it to every event; `RestoreEffect`
serves pause and stop. The refinement needs no more than the same invariant:
each action is mapped to `Take`, `Rewrite`, `GiveBack`, `Lose` or a stutter.

The four theorems about PowerDaemon hold for any number of notifications under
way (`DaemonAssumption`: room for the two that a registration posts). Their
invariant `DInv` has two halves. Of the queue, `Followed`: the last notification
of a kind tells what the machine does now, and when none of a kind that was heard
is under way, the daemon remembers it; a change of a kind that is not registered
cannot matter, because only registered kinds are ever heard (`QueueInv`).
`PassedOn` takes what is remembered through the two calls to PowerManager, where
`TargetWritten` and `NothingPending` make it what is in force. Of the end,
`CallsEnd`: no call is in flight once a loop was told to stop, and only such a
call could take the scheme again; `GivenBack`: between shutdown() and the end of
the process the machine is the user's unless one did. PowerGovernor's invariant
holds until shutdown() and again after the process (`GovernorInv`); in between a
late call may break `Custody`, so that part is not carried through.

**BurstHold_proofs**, under `BurstAssumption` (any times, any two positive
periods):

| Theorem | Says |
|---|---|
| `BurstTypeCorrect` | `Spec => []TypeOK` |
| `DeltasAreOfOneProcess` | `Spec => []DeltaOfOneProcess` |
| `BurstsOutliveTheirCause` | `Timely` implies `Spec => NoEarlyDrop` |
| `BurstsEndInTime` | `Spec => []DropsInTime` |

Three lemmas reduce the policy to outcomes: a poll is paused, finds a reason or
finds none (`PollOutcomes`), a focus change begins a new subject or nothing
(`FocusOutcomes`); every step lemma then has the same seven cases (`Outcomes`).
`NoEarlyDrop` compares two clocks, the quiet timer that the code keeps and the
time for which nothing called for a burst, which it cannot see. `QuietSince`
relates them: the real quiet is at least as long as the timer says, or whatever
interrupted it came after the last poll, which the next poll will find: by
`worked`, by the age of the focus, or by the helper's next report. That the next
poll finds it takes the hypothesis `Timely == BusyPoll <= Grace /\ HelperPeriod +
BusyPoll <= InputHold`. The defaults fulfil it (100, 200, 100 and 1000 ms), a
configuration need not. Without the second half the input has aged past
`input_hold_ms` when the next poll looks at it; without the first half that poll
misses the moment, every 49.7 days, at which the age of the focus wraps and calls
for a burst once more. TLC finds the early drop in both cases. A helper without a
window to report breaks both promises, so both speak of one that has reported since
the quiet began (`~unheard`): `Unheard` says that a silent one is not heard, and every
bound on what the helper may not have reported yet is conditional on it. `DropsInTime`
has no hypothesis; its invariant bounds the time that nobody has noticed yet
(`UnnoticedCalm`, with `ReportEnds` and `IdlePeriodEnds` for the helper and for an
idle poll), then the time before the quiet timer runs (`UncountedCalm`) and while
it does (`CountedCalm`).

**ServiceLifecycle_proofs**, under `LifecycleAssumption` (finitely many
processes, services, consoles and benchmarks disjoint):

| Theorem | Says |
|---|---|
| `LifecycleInvariance` | `Spec => []IInv` |
| `LifecycleTypeCorrect` | `Spec => []TypeOK` |
| `SingleInstance` | `Spec => []OneGoverns` |
| `StoppedIsRestored` | `Benchmarks = {}` implies `Spec => []StoppedMeansRestored` |
| `SettingsGivenBack` | `Benchmarks = {}` implies `Spec => []SettingsComeBack` |
| `ProcessesKeepContract` | `Benchmarks = {}` implies `Spec => KeepsContract` |

The argument: whoever is past the mutex check holds a handle (`OwnersHold`), so
the mutex exists and no second process passes it (`OneOwner`); a service whose wait
failed counts as an owner until its process ends, because a late notification may
put it in charge again, and `PastWait` says where it can be. The SCM starts a
process only when the service is stopped, and a stopped service has no live
process (`OneLive`, `StoppedDead`). `Saved` adds the settings: the baseline of the
one that governs is the user's, and the settings are the user's while nobody is in
charge; from it follow `SettingsGivenBack` and, with `StoppedDead`,
`StoppedIsRestored`. A late notification is a `Take` or a `Rewrite` of the contract,
and the end of a process that is in charge a `Lose`. The hypothesis is needed: with
`--benchmark` the claims are false (section 7).

**SessionWatch_proofs**, under `SessionAssumption` (finitely many helpers):
`WatchInvariance`, `WatchTypeCorrect`, `ThreadsStayApart` (`NotBoth`),
`AtMostOneHelper` (`OneHelper`), `StopLeavesNoHelper` (`NoHelperLeft`). No lock
keeps the threads apart; what does is the SCM: it has a control handled only by a
running service, and that is one whose main thread is in the loop (`MainThread`,
`Controls`). Given that, the handle is the one helper there can be (`Handles`).
All of it is conditional on `~failed`: a loop whose wait failed breaks
`Controls`, and then the claim is false (section 7).

**MemoryManager_proofs**, under `MemoryAssumption` (any naturals for the times):
`MemoryInvariance`, `MemoryTypeCorrect`, `ForegroundIsSpared`
(`KnownForegroundSpared`), `GraceIsKept` (`GraceAfterFocus`), `TrimsArePaced`
(`NoThrashing`). `Focus`: what the code takes for the foreground lags behind the
real one only while an event waits. `Grace`: the history's entry exists and is no
older than the time since the daemon saw the process, whatever was cleaned up.
`Paced`: a walk that has yet to reach the process began after its cooldown.

**ProcessGuardian_proofs**, under `GuardianAssumption` (finitely many processors,
disjoint cores, an interval of at least 1000 ms, without which the code divides by
zero): `GuardianInvariance`, `GuardianTypeCorrect`, `PauseGivesBack`
(`PauseUndoes`), `StopRestoresAffinity` (`StopGivesAffinityBack`), `ReserveIsHeld`
(`ReserveHeld`), `ForegroundStaysFast` (`ForegroundFast`). A pause undoes what is
on record, so whatever was done must be on record, unless a snapshot missed the
process while it was: `Masked` for the affinity, `Slowed` for EcoQoS, both for
processes outside `heirs`, `mask_lost` and `eco_lost`. EcoQoS that a snapshot made
the guardian forget is put on record again by a tick that sees the process, an
affinity never, since the one found then passes for the process's own. `Sampled`
relates the snapshot and the sample before it to the process that has the PID now.
`OffCore` carries `ReserveHeld` through the middle of a tick.
Demotion has an invariant of its own, `Counting`, for `CountsAreOfTheProcess`,
`OffendersAreDemoted` (`OffenderDemoted`) and `OnlyOffendersAreDemoted`
(`DemotedForOwnDoing`): the counters follow a PID and the history `heat` a process,
and they agree between two ticks (`CountsAgree`); within a tick `heat` has counted
the sample and the counters have not (`HeatIsAhead`). The two directions have
different exceptions: the counters of a throttled process rest, and those of a
process that fires but cannot be opened begin anew.

**TrayMailbox_proofs**, under `MailboxAssumption` (any permutation of the three
stores): `MailboxInvariance`, `MailboxTypeCorrect`, `ChangesAreClicked`
(`ChangesAreClicks`), `NothingIsUnasked` (`NothingUnasked`). `Complete`: a field
whose store is not waiting is the command's. `Numbers`: no acknowledgement
overtakes the clicks. `Spent` counts what may still be carried out against the
clicks it stands for, `Alone` is the mailbox of a user who waits.

**ConfigFile_proofs**, under `ConfigAssumption` (any sections, keys and lines; a
layout that writes every key once under its section): `ReadingInvariance`,
`ConfigTypeCorrect`, `FilesAreReadAsMeant` (`ReadAsMeant`), `SavedFilesAreReloaded`
(`SavedIsReloaded`). The invariant says what the first `pos` lines make of the
section (`SectionInv`) and of every key (`ConfigInv`, by the last line among them
that sets it); reading one more line extends it.

Only model-checked is liveness: `QuietEndsBurst`, `PressureIsAnswered`,
`StopCompletes` (twice), `ForegroundRegainsSpeed`, `LastClickWins`,
`IconTellsTruth`, `FailedServiceReturns` and `CliAnswers`. Liveness under fairness
and ENABLED are beyond the installed provers, and so are induction over data and
RECURSIVE operators; none of the modules uses the latter.

Two properties were wrong as first stated, and the attempt to prove them showed it.
The bound of `DropsInTime` was right for the constants of the run only: an idle poll
that a focus switch does not cut short, or a slow helper, may postpone the first
quiet poll for longer (TLC refutes the old bound with a busy poll of 4 ticks and a
hysteresis of 1). And `StopGivesBack` said of every stop that the machine is as it
was: after a shutdown() one of whose writes failed, the next instance takes what is
left for the baseline, so the statement now excludes machines on which a call of
some shutdown() failed (`crashed`).

## 7. Findings

Two disagreements between the code and what the repository says of it are
runs of their own, because each takes several steps of several actors:

| Run | The code | What says otherwise |
|---|---|---|
| `power_restart` | a restarted instance takes its dead predecessor's values for the baseline and restores those | power_manager.hpp:88, README.md:37 |
| `session_signin` | `stop_watch` is never reset: after one sign-out every later helper leaves at once | README.md:38-39 |

The others are properties of the modules that no passing run contains. TLC
refutes each when it is checked alone with the constants of the module's run
(changed as the last column says):

| Property | The code | What says otherwise | Constants |
|---|---|---|---|
| PowerGovernor `RestoredExactly` | a boost mode above 2 is restored as 2 | e2e_runner.ps1:568 | `Factory <- MCFactoryTwo` |
| PowerGovernor `RestoredWhenBlind` | a first query of the scheme that fails leaves no baseline, yet a later event governs | power_manager.hpp:88 | |
| PowerGovernor `RestoredWhenMisread` | a first read of the scheme that fails leaves a built-in number for the baseline, which the stop writes as the user's value | power_manager.hpp:88 | |
| PowerDaemon `FailureGivesBack`, ServiceLifecycle `FailedWaitRestores` | a notification that comes while a loop whose wait failed is unregistering is dealt with after shutdown() has restored, and captures the scheme again | power_manager.hpp:88, service.cpp:870 | |
| PowerGovernor `AspmOffWhileGoverning` | resuming from the tray does not turn PCIe ASPM off again | README.md:15 | |
| BurstHold `SignOutEndsBurst` | the last idle time published before the helper ended holds the burst for ever | README.md:14 | |
| BurstHold `LockEndsBurst` | the helper publishes only while a window is in front: on a locked screen a small idle time stays and holds the burst for ever | README.md:14 | |
| BurstHold `InputAlwaysHolds` | for the same reason input on a locked screen is not heard, and the burst is given up early | README.md:14 | |
| MemoryManager `ForegroundSpared` | a program that comes to the front during a trim is trimmed there | e2e_runner.ps1:763 | |
| SessionWatch `HelperAfterBoot` | a sign-in while the service starts is noticed by nobody | README.md:38 | those of `session_signin`, `EarlySignIn = TRUE` |
| ProcessGuardian `ForegroundNotDemoted` | no priority is ever set back, not even for the foreground | README.md:33, e2e_runner.ps1:908 | |
| ProcessGuardian `PauseUndoesAll` | a snapshot that misses a process (EnumProcesses or OpenProcess failed) erases its records, and the pause undoes nothing for it | README.md:38 | |
| ProcessGuardian `StopUnthrottles` | a clean stop leaves EcoQoS behind | e2e_runner.ps1:1242 | |
| ProcessGuardian `AllowlistSpared` | a PID reused between snapshot and walk exposes an allowlisted process | README.md:32, e2e_runner.ps1:894 | |
| TrayMailbox `NoClickLost` | set_service_autostart fails, nobody looks at its result and the command is acknowledged | README.md:38 | |
| ServiceLifecycle `QueryRefusesNobody` | `--status` keeps the mutex alive and makes a starting instance give up | service.cpp:138, main.cpp:43 | |
| ServiceLifecycle `RestartNotRefused` | `--stop` then `--start`: the new process may find the old one's mutex and give up | README.md:167-168, service.cpp:658 | `Services = {s1, s2}`, `Consoles = {}`, `Benchmarks = {}`, `Queries = FALSE`, `MaxPolls = 2`, `MaxCrashes = 0` |
| ServiceLifecycle `CloseRestores` | closing the console window ends the process before it has restored | service.cpp:633 | |
| ServiceLifecycle `SettingsComeBack` | `--benchmark` ignores the mutex and may save an instance's values as the user's | README.md:42 | `Benchmarks = {b1}` |
| ServiceLifecycle `UninstalledStops` | `--uninstall` of a starting service reports success while it goes on running | service.cpp:1004, 1026 | those of `lifecycle_progress` |
| ConfigFile `ListsAsMeant` | a list over several lines ends at its first one; the allowlist of the shipped file is read as the single name `[` | surface_optimizer.toml:46-51, README.md:215 | |
| ConfigFile `SectionsAsMeant` | a header with a comment after it is none: its keys are read into the section before | surface_optimizer.toml (TOML) | |

And four that follow from reading the models, or that their properties exclude:
in interactive mode "no input known" counts as a report, so the user's input
never holds a burst (README.md:14; `NoEarlyDrop` asks for a helper); two clicks
within one poll lose one, and plain stores that the compiler reorders may lose a
single one (README.md:38; `overlap`); the grace period counts from gaining the
focus and not from losing it (README.md:24; `GraceAfterFocus`); children of the
foreground process are not protected (e2e_runner.ps1:765).

Seen while modelling, without a promise in the repository to check them
against: a helper that opens its parent only after the parent has died is
watched by nobody and outlives it ("unwatched" in SessionWatch); a restarted
guardian takes affinities restricted by its dead predecessor for the processes'
own; a service that a client found "already stopped" may be restarted by a
failure action that was still due; `--install` of an existing service does not
update its binary path; `elapsed_ms` wraps after 49.7 days; `sustain_ticks`
divides by zero
when `housekeeping_interval_ac_ms` is below 1000, and counts intervals of mains on
battery too, where 30 s (README.md:213) become 90; a PID that is reused within a
tick may receive EcoQoS that is on no record; a process pinned to part of the
first core is widened to all the other cores; a loop whose wait fails (a timer
that could not be created leads there) cleans up while the dispatcher still
handles session changes, so that the two threads may meet in the helper's start
and stop and a helper may be started late; a battery
notification before the first one of the source (service.cpp:190) tells
PowerManager the default, mains, as if Windows had reported it (`SourceIsHeard` of
PowerDaemon, which TLC refutes); nobody looks at the result of a power
write or an activation, so that a failed one lasts until the next activation; a
threshold configured above 85 % leaves a critical load below it unanswered
(memory_manager.cpp:339); `--install` reports success when the failure actions
could not be set, and then a service that dies stays down.

## 8. What is not modelled

* **Config**: that doubles are saved with six digits, the spellings of booleans,
  letter case, items that hold commas, quotes or a comment sign, and the wrap of
  `stoul`; the other modules take the configuration as constants.
* **The percentages** of CPU, GPU and memory, byte counts and the 100 MB threshold
  of the leak policy: abstracted to the decision they lead to.
* **Failures to read the processor topology**: then nothing is reserved. **Failures
  of calls on a process that could be opened** (its times, its mask, EcoQoS): the
  guardian's fault model is the snapshot and whether a process can be opened. **The
  4096 PIDs** a snapshot holds: one beyond them is one it misses.
* **`set_epp`, `set_boost_mode`**: nothing calls them. **`--trim-memory`** works
  in a process of its own and shares no state with the daemon.
* **Logger, Utils, PlatformProbe, the drawing of the icon and menu, scripts**:
  formatting, single Win32 calls, or pure reads.
* **Tests** were read for what they promise.

## 9. Assumptions about Windows

* The SCM delivers one control at a time, and only those the last SetServiceStatus
  accepts, none in START_PENDING and STOP_PENDING; it starts a service only when
  it is stopped. Controls, power and session notifications of a service come on
  one thread, one after the other.
* The failure action comes at least 5 s after the failure; by then the processes
  of the service that were leaving are gone.
* A console process is ended when its handler for a closing window returns.
* Registry values of a power scheme take effect when the scheme is (re)activated.
* Periodic timers fire in their tick (BurstHold) and their loops get to run.
* Physical cores have no logical processor in common.
* GetLastInputInfo succeeds (the helper, BurstHold).
* What a dispatcher is still dealing with when a service unregisters its
  notifications may be carried out at any time until its process ends, and only
  there: an accepted stop is handled on the same thread, after them.
* A guardian's walk treats each process on its own, so one that ends within the
  walk may be taken to end before or after it.
* The store order is the compiler's: GCC 12 at `-O3` increments `cmd_seq` first;
  the project's GCC 14.2 is free to do so as well.

## 10. Plan

Order of work: what takes things from the user first, then what decides, then
the rest.

Done: every module of section 2, with its run; the abstract specification and
its two refinements; the composition of PowerGovernor with its threads; the fault
models of the power calls, the first reads, the snapshots, the helper's reports and
the start type; the proofs of section 6.

The runs stay few: one or two for each module. The properties stay those a run
can break with a mutant; what is proved for every instance and says little more
than a type is not run as well.

Next, proofs: ServiceLifecycle with `--benchmark`, the weakest condition under
which `SettingsComeBack` holds.

Next, models: BurstHold as the `hold` of PowerGovernor's `OnHousekeeping`, in one
composed module.
