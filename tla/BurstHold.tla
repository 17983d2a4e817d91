----------------------------- MODULE BurstHold -----------------------------
(***************************************************************************)
(* When a burst ends: PowerManager::sample_and_update_burst_hold and        *)
(* should_hold_boost (src/optimizer/power_manager.cpp, burst_policy.hpp),   *)
(* driven by the poll timer of Service::run_daemon_loop and fed by the      *)
(* session helper (run_foreground_watch) through shared memory.             *)
(*                                                                         *)
(* Time is counted in ticks.  Both loops are woken by periodic timers and   *)
(* are assumed to run within the tick their timer is due; so Tick waits for *)
(* them.  Processor time and I/O are abstracted to whether the sampled      *)
(* subject (the foreground process, or the whole system while none is       *)
(* known) was busy since it was last sampled.                               *)
(***************************************************************************)
EXTENDS Integers

CONSTANTS
  Readable,    \* foreground processes whose times OpenProcess can read
  Unreadable,  \* foreground processes it cannot open
  Grace, Fallback, InputHold, Hysteresis,  \* boost_grace_ms .. idle_hysteresis_ms
  BusyPoll, IdlePoll,                      \* {busy,idle}_poll_interval_ms
  HelperPeriod,                            \* the helper's 100 ms timer
  CalmLimit    \* bound of the history counter calm

Pid  == Readable \cup Unreadable
Never == InputHold + 1  \* idle_ms that is not recent; UINT32_MAX is one

ASSUME BurstAssumption ==
  /\ {Grace, Fallback, InputHold, Hysteresis} \subseteq Nat
  /\ {BusyPoll, IdlePoll, HelperPeriod} \subseteq Nat \ {0}
  /\ CalmLimit \in Nat /\ CalmLimit >= Hysteresis
  /\ 0 \notin Pid

VARIABLES
  fg,        \* m_last_foreground_pid; 0 while none is known
  fast,      \* m_is_fast_ramp_active
  elapsed,   \* now - m_last_foreground_switch_time, capped at Late
  quiet,     \* now - m_quiet_since while m_quiet_timing, capped; else -1
  sampled,   \* m_have_process_sample, or m_have_system_sample while fg = 0
  owner,     \* whose counters m_prev_cpu_100ns and m_prev_io_ops are
  paused,    \* m_paused
  timer,     \* ticks until the poll timer fires
  period,    \* current_period_ms
  view,      \* SharedFgState: what the helper last published
  event,     \* m_fg_event is signalled
  helper,    \* the helper process; "none" in run_daemon_loop(true), which has
             \* a WinEvent hook instead
  publish,   \* ticks until the helper's own timer fires
  silent,    \* at its last turn the helper had nothing to publish
  input_age, \* external: time since the user's last input, capped
  worked,    \* external: the subject was busy since it was last sampled
  diluted,   \* external: polls skipped in a pause stretch the next sample
  gap,       \* history: polls were skipped since something called for a boost
  unheard,   \* history: the helper was silent since the quiet began
  calm       \* history: time since anything called for a boost, or since the
             \* poll that began one or saw the work done in a pause; capped

burst == <<fg, fast, elapsed, quiet, sampled, owner, paused>>
loop  == <<timer, period>>
ipc   == <<view, event, helper, publish, silent>>
world == <<input_age, worked, diluted, gap, unheard, calm>>
vars  == <<burst, loop, ipc, world>>

AtMost(n, bound) == IF n > bound THEN bound ELSE n
Longer(a, b) == IF a > b THEN a ELSE b

Late == Longer(Grace, Fallback)

(* elapsed_ms is a uint32_t of milliseconds: after 49 days without a switch *)
(* it is small again.  How long that takes is left open.                    *)
Aged == IF elapsed = Late THEN {Late, 0} ELSE {elapsed + 1}

Init ==
  /\ fg = 0 /\ fast = TRUE /\ elapsed = 0 /\ quiet = -1
  /\ sampled = FALSE /\ owner = 0 /\ paused = FALSE
  /\ timer = BusyPoll /\ period = BusyPoll
  /\ view = [pid |-> 0, idle |-> Never] /\ event = FALSE
  /\ helper \in {"none", "runs"} /\ publish = HelperPeriod /\ silent = FALSE
  /\ input_age = Never /\ worked = FALSE /\ diluted = FALSE
  /\ gap = FALSE /\ unheard = FALSE /\ calm = 0

----------------------------------------------------------------------------
(* PowerManager. *)

(* Mutant: the samples of the previous foreground process are kept. *)
Focus_KeepsSample(p) ==
  IF p = 0 \/ p = fg
  THEN UNCHANGED <<fg, fast, elapsed, quiet, sampled, owner, worked, diluted, gap,
                   unheard, calm>>
  ELSE /\ fg' = p /\ fast' = TRUE /\ elapsed' = 0 /\ quiet' = -1
       /\ UNCHANGED <<sampled, owner>>
       /\ worked' = FALSE /\ diluted' = FALSE /\ gap' = FALSE /\ unheard' = silent
       /\ calm' = 0

(* on_foreground_process_changed, which returns at once for the same pid.   *)
Focus(p) ==
  IF p = 0 \/ p = fg
  THEN UNCHANGED <<fg, fast, elapsed, quiet, sampled, owner, worked, diluted, gap,
                   unheard, calm>>
  ELSE /\ fg' = p /\ fast' = TRUE /\ elapsed' = 0 /\ quiet' = -1
       /\ sampled' = FALSE /\ owner' = 0
       /\ worked' = FALSE /\ diluted' = FALSE /\ gap' = FALSE /\ unheard' = silent
       /\ calm' = 0

Sampleable(p) == p \notin Unreadable

(* cpu_busy || io_busy, or system_busy.  The first sample counts as busy.   *)
(* Over an interval stretched by a pause the share of processor time may    *)
(* fall below the threshold although the process worked.                    *)
Busy(seen) ==
  IF sampled THEN seen \in {worked, worked /\ ~diluted} ELSE seen

should_hold_boost(p, age, idle, gpu, seen) ==
  \/ age < Grace
  \/ idle <= InputHold
  \/ gpu
  \/ Sampleable(p) /\ seen
  \/ (p = 0 \/ ~Sampleable(p)) /\ age < Fallback

(* Mutant: a busy sample does not restart the quiet period. *)
Hold_KeepsQuiet ==
  /\ quiet' = quiet
  /\ fast' = TRUE
  /\ elapsed' = IF fast THEN elapsed ELSE 0

Hold ==
  /\ quiet' = -1
  /\ fast' = TRUE
  /\ elapsed' = IF fast THEN elapsed ELSE 0

(* Mutant: the quiet period starts again at every quiet sample. *)
Quieten_Restarts ==
  /\ quiet' = 0
  /\ fast' = (fast /\ 0 < Hysteresis)
  /\ UNCHANGED elapsed

Quieten ==
  LET q == IF quiet = -1 THEN 0 ELSE quiet
  IN  /\ quiet' = q
      /\ fast' = (fast /\ q < Hysteresis)
      /\ UNCHANGED elapsed

sample_and_update_burst_hold(gpu) ==
  /\ \E seen \in BOOLEAN :
       /\ Busy(seen)
       /\ IF should_hold_boost(fg, elapsed, view.idle, gpu, seen)
          THEN Hold ELSE Quieten
  /\ sampled' = (sampled \/ Sampleable(fg))
  /\ owner' = IF Sampleable(fg) THEN fg ELSE owner
  /\ worked' = FALSE /\ diluted' = FALSE
  /\ gap' = (gap /\ quiet' # -1)
  /\ unheard' = (silent \/ (unheard /\ quiet' # -1))
  /\ calm' = IF gpu \/ (quiet' = -1 /\ (gap \/ ~fast)) THEN 0 ELSE calm
  /\ UNCHANGED fg

----------------------------------------------------------------------------
(* Service: the main thread. *)

(* Mutant: the period changes, the timer is armed with the old one. *)
Poll_ArmsOldPeriod(gpu) ==
  /\ timer = 0 /\ ~event
  /\ IF paused
     THEN UNCHANGED <<fg, fast, elapsed, quiet, sampled, owner, worked, diluted, gap,
                      unheard, calm>>
     ELSE sample_and_update_burst_hold(gpu)
  /\ period' = IF ~paused /\ fast' THEN BusyPoll ELSE IdlePoll
  /\ timer' = period
  /\ UNCHANGED <<paused, ipc, input_age>>

(* The poll timer fires: consume_fg_state, then on_housekeeping unless the  *)
(* optimizer is paused, then the period follows desired_poll_interval_ms.   *)
(* A pid the helper published is consumed when its event is, before a tick. *)
Poll(gpu) ==
  /\ timer = 0 /\ ~event
  /\ IF paused
     THEN /\ diluted' = sampled /\ gap' = TRUE
          /\ UNCHANGED <<fg, fast, elapsed, quiet, sampled, owner, worked, unheard, calm>>
     ELSE sample_and_update_burst_hold(gpu)
  /\ period' = IF ~paused /\ fast' THEN BusyPoll ELSE IdlePoll
  /\ timer' = period'
  /\ UNCHANGED <<paused, ipc, input_age>>

(* m_fg_event: consume_fg_state only. *)
ConsumeEvent ==
  /\ event
  /\ event' = FALSE
  /\ Focus(view.pid)
  /\ UNCHANGED <<paused, loop, view, helper, publish, silent, input_age>>

(* A tray command reaches set_paused.  While paused the poll goes on at the *)
(* idle rate and nothing is sampled.                                        *)
TogglePause ==
  /\ paused' = ~paused
  /\ UNCHANGED <<fg, fast, elapsed, quiet, sampled, owner, loop, ipc, world>>

----------------------------------------------------------------------------
(* The session: the user, and the helper's publish_watch_state. *)

Published(p) == [pid |-> p, idle |-> input_age]

(* The foreground window changes.  The helper's hook publishes it; in       *)
(* interactive mode win_event_proc hands it to the PowerManager directly.   *)
SwitchTo(p) ==
  \/ /\ helper = "none"
     /\ Focus(p)
     /\ UNCHANGED <<paused, loop, ipc, input_age>>
  \/ /\ helper = "runs"
     /\ p # view.pid
     /\ view' = Published(p)
     /\ event' = TRUE /\ silent' = FALSE
     /\ UNCHANGED <<burst, loop, helper, publish, world>>

(* Mutant: the helper's timer does not refresh the idle time. *)
HelperPublish_KeepsIdle(p) ==
  /\ helper = "runs" /\ publish = 0
  /\ publish' = HelperPeriod
  /\ event' = TRUE /\ silent' = FALSE
  /\ UNCHANGED <<burst, loop, view, helper, world>>

(* The helper's timer: it publishes the window p in front and the idle time *)
(* ...                                                                      *)
HelperPublish(p) ==
  /\ helper = "runs" /\ publish = 0
  /\ publish' = HelperPeriod
  /\ view' = Published(p)
  /\ event' = TRUE /\ silent' = FALSE
  /\ UNCHANGED <<burst, loop, helper, world>>

(* ... or nothing at all while no window is, as on a locked screen.         *)
HelperSilent ==
  /\ helper = "runs" /\ publish = 0
  /\ publish' = HelperPeriod
  /\ silent' = TRUE /\ unheard' = TRUE
  /\ UNCHANGED <<burst, loop, view, event, helper, input_age, worked, diluted, gap, calm>>

(* The user signs out, or the helper is killed: its last word stays.        *)
HelperGone ==
  /\ helper = "runs"
  /\ helper' = "gone"
  /\ UNCHANGED <<burst, loop, view, event, publish, silent, world>>

(* What calls for a boost, in truth. *)
Called(p, age, since_input, busy) ==
  \/ age < Grace
  \/ since_input <= InputHold
  \/ busy /\ Sampleable(p)
  \/ (p = 0 \/ ~Sampleable(p)) /\ age < Fallback

(* A tick in which the subject is busy or not, and the user acts or not.    *)
Tick(busy, input) ==
  /\ timer > 0 /\ ~event /\ (helper = "runs" => publish > 0)
  /\ timer' = timer - 1
  /\ publish' = IF helper = "runs" THEN publish - 1 ELSE publish
  /\ elapsed' \in Aged
  /\ quiet' = IF quiet = -1 THEN -1 ELSE AtMost(quiet + 1, Hysteresis)
  /\ input_age' = IF input THEN 0 ELSE AtMost(input_age + 1, Never)
  /\ worked' = (worked \/ busy)
  /\ calm' = IF Called(fg, elapsed', input_age', busy) THEN 0
             ELSE AtMost(calm + 1, CalmLimit)
  /\ UNCHANGED <<fg, fast, sampled, owner, paused, period, view, event, helper, silent,
                 diluted, gap, unheard>>

Next ==
  \/ \E gpu \in BOOLEAN : Poll(gpu)
  \/ ConsumeEvent
  \/ TogglePause
  \/ \E p \in Pid : SwitchTo(p)
  \/ \E p \in Pid : HelperPublish(p)
  \/ HelperSilent
  \/ HelperGone
  \/ \E busy, input \in BOOLEAN : Tick(busy, input)

(* Time passes and both loops are scheduled, however often the user acts:   *)
(* a window switch may keep interrupting the two, hence SF.                 *)
Fairness ==
  /\ SF_vars(\E busy, input \in BOOLEAN : Tick(busy, input))
  /\ SF_vars(\E gpu \in BOOLEAN : Poll(gpu))
  /\ WF_vars(ConsumeEvent)
  /\ WF_vars(HelperSilent \/ \E p \in Pid : HelperPublish(p))

Spec == Init /\ [][Next]_vars /\ Fairness

----------------------------------------------------------------------------
(* Properties. *)

TypeOK ==
  /\ fg \in Pid \cup {0} /\ fast \in BOOLEAN /\ elapsed \in 0..Late
  /\ quiet \in -1..Hysteresis /\ sampled \in BOOLEAN /\ owner \in Pid \cup {0}
  /\ paused \in BOOLEAN
  /\ timer \in 0..period /\ period \in {BusyPoll, IdlePoll}
  /\ view \in [pid : Pid \cup {0}, idle : 0..Never] /\ event \in BOOLEAN
  /\ helper \in {"none", "runs", "gone"} /\ publish \in 0..HelperPeriod
  /\ silent \in BOOLEAN /\ unheard \in BOOLEAN
  /\ input_age \in 0..Never /\ worked \in BOOLEAN /\ diluted \in BOOLEAN /\ gap \in BOOLEAN
  /\ calm \in 0..CalmLimit

(* A difference of counters is only ever taken between two readings of the  *)
(* same process: a focus switch between two polls never mixes two of them   *)
(* (m_prev_cpu_100ns, m_prev_io_ops, m_have_process_sample).                *)
DeltaOfOneProcess == sampled => owner = fg

(* While there is a helper and it reports the user's input, a burst is not  *)
(* given up before its cause has been absent for idle_hysteresis_ms.  Two   *)
(* exceptions are the code's: input so recent that it is not published yet, *)
(* and a quiet period that began before a pause, which goes on counting     *)
(* while nothing is sampled.                                                *)
NoEarlyDrop ==
  [][fast /\ ~fast' /\ helper = "runs" /\ ~unheard =>
       calm' >= Hysteresis \/ input_age <= HelperPeriod \/ gap]_vars

(* Bounded response: once nothing calls for a boost any more, it is gone    *)
(* within the hysteresis, two busy polls and the longest of a third one,    *)
(* the helper's delay, and what is left of an idle poll that a focus switch *)
(* does not cut short, unless the optimizer is, or has just been, paused,   *)
(* or the helper is gone, or is, or has just been, without a window.        *)
DropsInTime ==
  fast /\ ~paused /\ ~gap /\ ~unheard /\ helper # "gone" =>
    calm <= Hysteresis + 2 * BusyPoll
              + Longer(BusyPoll, Longer(HelperPeriod, IdlePoll - Grace))

(* "Drops after about 250 ms of quiet" (README.md:14): if from some time on *)
(* nothing calls for a boost, it does not stay, in either mode, whatever    *)
(* pauses and locked screens came before.  A helper that is gone, or has    *)
(* nothing to publish, however, leaves its last word behind.                *)
QuietEndsBurst ==
  <>[](calm > 0 /\ ~paused /\ helper # "gone" /\ ~silent) => []<>~fast

(* The same although the helper is gone, as after a sign-out.               *)
SignOutEndsBurst == <>[](calm > 0 /\ ~paused /\ ~silent) => []<>~fast

(* The same although the screen is locked and the helper silent.            *)
LockEndsBurst == <>[](calm > 0 /\ ~paused /\ helper # "gone") => []<>~fast

(* InstantBoost is kept while keyboard or mouse are in use (README.md:14),  *)
(* also when that was on a locked screen a moment ago.                      *)
InputAlwaysHolds ==
  [][fast /\ ~fast' /\ helper = "runs" =>
       calm' >= Hysteresis \/ input_age <= HelperPeriod \/ gap]_vars

=============================================================================
