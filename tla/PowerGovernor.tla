--------------------------- MODULE PowerGovernor ---------------------------
(***************************************************************************)
(* PowerManager (src/optimizer/power_manager.cpp): the component that      *)
(* rewrites the active Windows power scheme and promises to give it back.  *)
(*                                                                         *)
(* Every public operation of the class runs under its m_mutex, so each is  *)
(* one action.  Windows is three external variables: the registry of       *)
(* power schemes (reg), the active scheme (active) and the values in force *)
(* (live).  PowerWrite{AC,DC}ValueIndex changes reg only;                  *)
(* PowerSetActiveScheme makes a scheme active and its values the ones in   *)
(* force.  Any of these calls may fail; the code goes on as if it had not. *)
(* So may PowerRead{AC,DC}ValueIndex, and then initialize() takes a number  *)
(* of its own for what the user had.                                       *)
(*                                                                         *)
(* When a burst ends is decided by sample_and_update_burst_hold, which is  *)
(* the subject of module BurstHold; here its outcome is any Boolean.       *)
(***************************************************************************)
EXTENDS Integers

CONSTANTS
  Scheme,        \* power schemes known to Windows
  Factory,       \* scheme contents a machine may start with
  BatteryLevel,  \* battery percentages Windows may report
  Pid,           \* process ids of foreground windows
  Power,         \* the [power] section of the configuration
  Missable,      \* writes that may fail together, for each power source
  Unreadable,    \* first reads that may fail together, likewise
  MaxFaults,     \* bound on the operations in which a call fails
  CrashesAgain,  \* bound: FALSE if only daemons that can give all back crash
  UserSwitches,  \* TRUE: the user may activate another scheme at any time
  QueryFails     \* TRUE: PowerGetActiveScheme may fail

Lines    == {"ac", "dc"}
Governed == {"epp", "boost", "min", "unpark"}
Fixed    == {"smt", "aspm"}
Setting  == Governed \cup Fixed
Table    == [Lines -> [Setting -> Nat]]
Settings == [Lines -> SUBSET Setting]
Sources  == {"AC", "Battery", "Unknown"}
Profiles == {"BatterySaver", "Balanced", "HighPerformance", "InstantBoost"}
Plans    == [profile : Profiles, epp : Nat, boost : Nat, min : Nat, unpark : Nat]
Percent  == 0..100
NoGuid   == "GUID{}"

ASSUME PowerAssumption ==
  /\ Factory \subseteq Table
  /\ BatteryLevel \subseteq Percent
  /\ Power \in [ac_epp_active : Nat, dc_epp_active : Nat, ac_epp_idle : Nat,
                dc_epp_idle : Nat, battery_saver_epp : Nat, ac_boost_mode : Nat,
                dc_boost_mode : Nat, battery_saver_threshold_percent : Nat]
  /\ Missable \subseteq Settings /\ Unreadable \subseteq Settings /\ MaxFaults \in Nat
  /\ CrashesAgain \in BOOLEAN /\ UserSwitches \in BOOLEAN
  /\ QueryFails \in BOOLEAN

VARIABLES
  reg,            \* external: contents of every scheme
  active,         \* external: the active scheme
  live,           \* external: the values in force
  up,             \* a daemon process with this PowerManager exists
  guid,           \* m_active_scheme_guid
  has_scheme,     \* m_has_active_scheme
  saved,          \* m_saved_ac_epp .. m_saved_dc_aspm
  saved_baseline, \* m_saved_baseline
  paused,         \* m_paused
  source,         \* m_current_power_source
  battery,        \* m_current_battery_percent
  fast_ramp,      \* m_is_fast_ramp_active
  last_pid,       \* m_last_foreground_pid
  applied,        \* m_current_profile, m_active_epp .. m_active_unpark
  faults,         \* history: operations in which a call failed
  stale,          \* history: what such a call should have done is still undone
  origin,         \* history: reg before the daemon first touched it
  misread,        \* history: what some initialize() could not read
  crashed,        \* history: some instance died without a complete shutdown()
  blind,          \* history: some instance failed to capture a baseline
  ended           \* history: how the last instance ended, while none runs

os      == <<reg, active, live>>
pm      == <<guid, has_scheme, saved, saved_baseline, paused, source, battery,
             fast_ramp, last_pid, applied>>
trouble == <<faults, stale>>
history == <<origin, misread, crashed, blind, ended>>
vars    == <<os, up, pm, trouble, history>>

----------------------------------------------------------------------------
(* The governor's decision. *)

Line(src) == IF src = "AC" THEN "ac" ELSE "dc"

IsLow(pct) == pct <= Power.battery_saver_threshold_percent

SaverPlan ==
  [profile |-> "BatterySaver", epp |-> Power.battery_saver_epp, boost |-> 0,
   min |-> 5, unpark |-> 12]

BoostPlan(src) ==
  [profile |-> "InstantBoost",
   epp     |-> IF src = "AC" THEN Power.ac_epp_active ELSE Power.dc_epp_active,
   boost   |-> IF src = "AC" THEN Power.ac_boost_mode ELSE 2,
   min     |-> 100, unpark |-> 100]

IdleMainsPlan ==
  [profile |-> "HighPerformance", epp |-> Power.ac_epp_idle,
   boost |-> Power.ac_boost_mode, min |-> 5, unpark |-> 25]

IdleBatteryPlan ==
  [profile |-> "Balanced", epp |-> Power.dc_epp_idle,
   boost |-> Power.dc_boost_mode, min |-> 5, unpark |-> 12]

Plan(src, pct, boosted) ==
  IF IsLow(pct) /\ src # "AC" THEN SaverPlan
  ELSE IF boosted THEN BoostPlan(src)
  ELSE IF src = "AC" THEN IdleMainsPlan ELSE IdleBatteryPlan

AtMost(n, bound) == IF n > bound THEN bound ELSE n

(* write_ac_epp, write_dc_epp, write_ac_boost and write_dc_boost clamp;   *)
(* the other indexes are written as they come.                            *)
Clamped(values) ==
  [s \in Setting |-> IF s = "epp" THEN AtMost(values[s], 100)
                    ELSE IF s = "boost" THEN AtMost(values[s], 2)
                    ELSE values[s]]

Written(plan) ==
  [epp   |-> AtMost(plan.epp, 100), boost |-> AtMost(plan.boost, 2),
   min   |-> plan.min,              unpark |-> plan.unpark]

Overlay(old, plan) ==
  [s \in Setting |-> IF s \in Governed THEN Written(plan)[s] ELSE old[s]]

----------------------------------------------------------------------------
(* What Windows makes of the writes that turn reg into new and of the       *)
(* activation of g that may follow them.                                    *)

Faultless(new, g, activate) ==
  /\ reg' = new
  /\ IF activate THEN active' = g /\ live' = new[g] ELSE UNCHANGED <<active, live>>
  /\ stale' = (stale /\ ~activate)

(* The table new without the writes that failed. *)
Landed(new, missed) ==
  [g \in Scheme |-> [l \in Lines |-> [s \in Setting |->
     IF s \in missed[l] THEN reg[g][l][s] ELSE new[g][l][s]]]]

Faulty(new, g, activate) ==
  /\ \E missed \in Missable : reg' = Landed(new, missed)
  /\ \/ activate /\ active' = g /\ live' = reg'[g]
     \/ UNCHANGED <<active, live>>
  /\ stale' = TRUE

(* troubles: what the faults come to if no write fails. *)
Writes(new, g, activate, troubles) ==
  \/ Faultless(new, g, activate) /\ faults' = troubles
  \/ Faulty(new, g, activate) /\ faults < MaxFaults /\ faults' = faults + 1

(* evaluate_and_apply_governor, given the inputs as the caller leaves them *)

Skip == UNCHANGED <<os, guid, has_scheme, applied, trouble>>

WriteAndApply(table, g, force, src, pct, boosted, troubles) ==
  LET plan   == Plan(src, pct, boosted)
      values == [table EXCEPT ![g][Line(src)] = Overlay(@, plan)]
  IN  /\ guid' = g
      /\ has_scheme' = TRUE
      /\ applied' = plan
      /\ Writes(values, g, force \/ plan # applied, troubles)

(* Mutant: the governor also runs while the optimizer is paused. *)
Evaluate_IgnoresPause(force, src, pct, boosted) ==
  \/ ~has_scheme /\ QueryFails /\ Skip
  \/ WriteAndApply(reg, IF has_scheme THEN guid ELSE active,
                   force, src, pct, boosted, faults)

(* Mutant: the active scheme is looked up at every evaluation. *)
Evaluate_Recaptures(force, src, pct, boosted) ==
  \/ paused' /\ Skip
  \/ ~paused' /\ WriteAndApply(reg, active, force, src, pct, boosted, faults)

Evaluate(force, src, pct, boosted) ==
  \/ paused' /\ Skip
  \/ ~paused' /\ ~has_scheme /\ QueryFails /\ Skip
  \/ /\ ~paused'
     /\ WriteAndApply(reg, IF has_scheme THEN guid ELSE active,
                      force, src, pct, boosted, faults)

(* Mutant: only the half of the current power source is given back. *)
Restored_CurrentLineOnly ==
  [reg EXCEPT ![guid][Line(source)] = Clamped(saved[Line(source)])]

Restored == [reg EXCEPT ![guid] = [l \in Lines |-> Clamped(saved[l])]]

RestoreBaseline ==
  IF saved_baseline /\ has_scheme
  THEN Writes(Restored, guid, TRUE, faults)
  ELSE UNCHANGED <<os, trouble>>

----------------------------------------------------------------------------
(* A process that is not running holds the in-class initialisers. *)

DefaultSaved ==
  [ac |-> [epp |-> 60, boost |-> 2, min |-> 100, unpark |-> 100, smt |-> 0, aspm |-> 2],
   dc |-> [epp |-> 80, boost |-> 0, min |-> 30, unpark |-> 12, smt |-> 0, aspm |-> 2]]

DefaultPlan == [profile |-> "Balanced", epp |-> 60, boost |-> 2,
                min |-> 100, unpark |-> 100]

FreshProcess ==
  /\ up = FALSE
  /\ guid = NoGuid
  /\ has_scheme = FALSE
  /\ saved = DefaultSaved
  /\ saved_baseline = FALSE
  /\ paused = FALSE
  /\ source = "AC"
  /\ battery = 100
  /\ fast_ramp = FALSE
  /\ last_pid = 0
  /\ applied = DefaultPlan

ProcessGone ==
  /\ up' = FALSE
  /\ guid' = NoGuid
  /\ has_scheme' = FALSE
  /\ saved' = DefaultSaved
  /\ saved_baseline' = FALSE
  /\ paused' = FALSE
  /\ source' = "AC"
  /\ battery' = 100
  /\ fast_ramp' = FALSE
  /\ last_pid' = 0
  /\ applied' = DefaultPlan

AllRead == [l \in Lines |-> {}]

Init ==
  /\ reg \in [Scheme -> Factory]
  /\ active \in Scheme
  /\ live = reg[active]
  /\ FreshProcess
  /\ faults = 0 /\ stale = FALSE
  /\ origin = reg /\ misread = [g \in Scheme |-> AllRead]
  /\ crashed = FALSE
  /\ blind = FALSE
  /\ ended = "none"

----------------------------------------------------------------------------
(* Operations of PowerManager. *)

InitializeFails ==
  /\ ~up
  /\ QueryFails /\ faults < MaxFaults /\ faults' = faults + 1
  /\ up' = TRUE
  /\ blind' = TRUE
  /\ ended' = "none"
  /\ UNCHANGED <<os, pm, stale, origin, misread, crashed>>

(* The SMT and ASPM indexes are written once, before the first evaluation. *)
WithFixed(table, g) ==
  [table EXCEPT ![g] = [l \in Lines |->
      [@[l] EXCEPT !.smt = 1, !.aspm = IF l = "ac" THEN 0 ELSE 2]]]

BatteryKnown(pct) == pct # 255

(* A read that fails leaves the number its variable was declared with, and *)
(* these are the in-class initialisers once more.                          *)
Captured(bad) ==
  [l \in Lines |-> [s \in Setting |->
     IF s \in bad[l] THEN DefaultSaved[l][s] ELSE reg[active][l][s]]]

Initialize ==
  /\ ~up
  /\ up' = TRUE
  /\ saved_baseline' = TRUE
  /\ \/ UNCHANGED <<source, battery>>             \* GetSystemPowerStatus failed
     \/ \E src \in Sources, pct \in BatteryLevel \cup {255} :
          /\ source' = src
          /\ battery' = IF BatteryKnown(pct) THEN pct ELSE battery
  /\ fast_ramp' = TRUE
  /\ \E bad \in Unreadable \cup {AllRead} :
       /\ bad # AllRead => faults < MaxFaults
       /\ saved' = Captured(bad)
       /\ misread' = [misread EXCEPT ![active] = [l \in Lines |-> @[l] \cup bad[l]]]
       /\ WriteAndApply(WithFixed(reg, active), active, TRUE, source', battery', TRUE,
                        IF bad = AllRead THEN faults ELSE faults + 1)
  /\ ended' = "none"
  /\ UNCHANGED <<paused, last_pid, origin, crashed, blind>>

OnPowerSourceChanged(src) ==
  /\ up
  /\ src # source
  /\ source' = src
  /\ UNCHANGED <<up, saved, saved_baseline, paused, battery, fast_ramp, last_pid, history>>
  /\ Evaluate(TRUE, src, battery, fast_ramp)

OnBatteryPercentChanged(pct) ==
  /\ up
  /\ battery' = pct
  /\ UNCHANGED <<up, saved, saved_baseline, paused, source, fast_ramp, last_pid, history>>
  /\ IF IsLow(battery) # IsLow(pct)
     THEN Evaluate(TRUE, source, pct, fast_ramp)
     ELSE Skip

OnForegroundProcessChanged(p) ==
  /\ up
  /\ p # 0 /\ p # last_pid
  /\ last_pid' = p
  /\ fast_ramp' = TRUE
  /\ UNCHANGED <<up, saved, saved_baseline, paused, source, battery, history>>
  /\ Evaluate(TRUE, source, battery, TRUE)

(* hold: what sample_and_update_burst_hold leaves in m_is_fast_ramp_active. *)
OnHousekeeping(hold) ==
  /\ up
  /\ ~paused
  /\ hold # fast_ramp
  /\ fast_ramp' = hold
  /\ UNCHANGED <<up, saved, saved_baseline, paused, source, battery, last_pid, history>>
  /\ Evaluate(FALSE, source, battery, hold)

(* Mutant: resuming evaluates without forcing the scheme to be activated.  *)
SetPaused_ResumesUnforced(p) ==
  /\ up
  /\ p # paused
  /\ paused' = p
  /\ UNCHANGED <<up, saved, saved_baseline, source, battery, fast_ramp, last_pid, history>>
  /\ IF p THEN RestoreBaseline /\ UNCHANGED <<guid, has_scheme, applied>>
          ELSE Evaluate(FALSE, source, battery, fast_ramp)

SetPaused(p) ==
  /\ up
  /\ p # paused
  /\ paused' = p
  /\ UNCHANGED <<up, saved, saved_baseline, source, battery, fast_ramp, last_pid, history>>
  /\ IF p THEN RestoreBaseline /\ UNCHANGED <<guid, has_scheme, applied>>
          ELSE Evaluate(TRUE, source, battery, fast_ramp)

(* shutdown(), after which run_daemon_loop returns and the process exits.  *)
(* A shutdown in which a call fails is no better than a crash.             *)
Shutdown ==
  /\ up
  /\ RestoreBaseline
  /\ ProcessGone
  /\ ended' = "clean"
  /\ crashed' = (crashed \/ stale')
  /\ UNCHANGED <<origin, misread, blind>>

(* The process dies: nothing is restored, everything it knew is lost.      *)
Crash ==
  /\ up
  /\ crashed => CrashesAgain
  /\ ProcessGone
  /\ crashed' = TRUE
  /\ ended' = "crash"
  /\ UNCHANGED <<os, trouble, origin, misread, blind>>

(* The user, or another program, activates a scheme. *)
UserActivates(g) ==
  /\ UserSwitches
  /\ g # active
  /\ active' = g
  /\ live' = reg[g]
  /\ UNCHANGED <<reg, up, pm, trouble, history>>

Next ==
  \/ InitializeFails
  \/ Initialize
  \/ \E src \in {"AC", "Battery"} : OnPowerSourceChanged(src)
  \/ \E pct \in BatteryLevel : OnBatteryPercentChanged(pct)
  \/ \E p \in Pid : OnForegroundProcessChanged(p)
  \/ \E hold \in BOOLEAN : OnHousekeeping(hold)
  \/ \E p \in BOOLEAN : SetPaused(p)
  \/ Shutdown
  \/ Crash
  \/ \E g \in Scheme : UserActivates(g)

Spec == Init /\ [][Next]_vars

----------------------------------------------------------------------------
(* Properties. *)

(* Every variable keeps its type: the battery is a percentage although the *)
(* status API may answer 255, and a scheme is remembered before it is      *)
(* written (power_manager.cpp:165-188, 229-242).                           *)
TypeOK ==
  /\ reg \in [Scheme -> Table] /\ active \in Scheme /\ live \in Table
  /\ up \in BOOLEAN
  /\ guid \in Scheme \cup {NoGuid} /\ has_scheme \in BOOLEAN
  /\ has_scheme => guid \in Scheme
  /\ saved \in Table /\ saved_baseline \in BOOLEAN /\ paused \in BOOLEAN
  /\ source \in Sources /\ battery \in Percent /\ fast_ramp \in BOOLEAN
  /\ last_pid \in Pid \cup {0} /\ applied \in Plans
  /\ origin \in [Scheme -> Table] /\ misread \in [Scheme -> Settings]
  /\ crashed \in BOOLEAN /\ blind \in BOOLEAN
  /\ ended \in {"none", "clean", "crash"}
  /\ faults \in 0..MaxFaults /\ stale \in BOOLEAN

Governing == up /\ has_scheme /\ ~paused

(* Whenever the governor runs, the captured scheme holds, for the power     *)
(* source in use, the settings that the present source, battery level and   *)
(* burst flag call for, and they are in force unless the user has switched  *)
(* to another scheme: no order of source, battery, focus, burst and pause   *)
(* events leaves a stale setting behind (evaluate_and_apply_governor).  A   *)
(* call that failed leaves one, until the next evaluation that activates    *)
(* the scheme.                                                              *)
TargetInForce ==
  Governing /\ ~stale =>
    LET want == Written(Plan(source, battery, fast_ramp))
    IN  /\ \A s \in Governed : reg[guid][Line(source)][s] = want[s]
        /\ active = guid => \A s \in Governed : live[Line(source)][s] = want[s]

(* No write stays unapplied: the values in force are always those of the    *)
(* active scheme, although evaluate_and_apply_governor activates the scheme *)
(* only when the plan changed or the caller forces it.                      *)
NothingPending == ~stale => live = reg[active]

(* The profile and settings --status and the log report are the ones        *)
(* currently called for (m_current_profile, m_active_epp .. unpark).        *)
ReportIsCurrent == Governing => applied = Plan(source, battery, fast_ramp)

(* While the optimizer is paused from the tray the captured scheme holds    *)
(* exactly the (clamped) baseline, whatever events arrive meanwhile.        *)
PausedIsBaseline ==
  up /\ paused /\ saved_baseline /\ ~stale =>
    reg[guid] = [l \in Lines |-> Clamped(saved[l])]

InRange(table) == \A l \in Lines : Clamped(table[l]) = table[l]

Restorable == \A g \in Scheme : InRange(origin[g])

(* The table holds what scheme g did before the first start; only where a   *)
(* read of it failed may there be the number initialize() then goes by.     *)
AsFound(g, table) ==
  \A l \in Lines, s \in Setting :
    \/ table[l][s] = origin[g][l][s]
    \/ s \in misread[g][l] /\ table[l][s] = DefaultSaved[l][s]

(* When no instance crashed, started blind or failed to write what it gives *)
(* back, and the machine's own values lie in the range the daemon writes,   *)
(* then whenever no daemon runs every scheme is as it was before the first  *)
(* start, save the settings that could not be read, across any number of    *)
(* starts, stops, pauses, scheme switches and calls that failed before      *)
(* (initialize, set_paused, shutdown).                                      *)
CleanStopRestores ==
  ~up /\ ~crashed /\ ~blind /\ Restorable =>
    /\ \A g \in Scheme : AsFound(g, reg[g])
    /\ live = reg[active]

(* SettingsCustody as PowerGovernor implements it: a scheme is taken while  *)
(* its contents are not as found (AsFound: up to the values that could not  *)
(* be read), and in the charge of the daemon that remembers its GUID.       *)
Contract == INSTANCE SettingsCustody WITH
  taken  <- {g \in Scheme : ~AsFound(g, reg[g])},
  charge <- IF up /\ has_scheme THEN {guid} ELSE {},
  lost   <- crashed \/ blind \/ ~Restorable

(* Every operation keeps the contract: the daemon writes to no scheme but    *)
(* the one it captured, whichever the user activates meanwhile, never       *)
(* captures another, and gives back all it could read of it when it shuts   *)
(* down (m_has_active_scheme, restore_baseline).                            *)
KeepsContract == Contract!Spec

(* "Saved baseline state for clean restoration on shutdown"                 *)
(* (power_manager.hpp:88) should hold as well after a crash, which the      *)
(* service control manager answers with a restart: after a clean stop the   *)
(* machine is as it was before the daemon first ran.  It is not: the        *)
(* restarted instance takes what its predecessor left for the baseline.     *)
RestoredAfterRestart ==
  ended = "clean" /\ ~blind /\ Restorable => \A g \in Scheme : AsFound(g, reg[g])

(* The same promise when the machine's boost mode is one of those Windows   *)
(* defines above 2: restore_baseline writes through write_ac_boost, which   *)
(* clamps to 2.                                                             *)
RestoredExactly ==
  ~up /\ ~crashed /\ ~blind => \A g \in Scheme : AsFound(g, reg[g])

(* The same promise when the first query of the active scheme failed and a  *)
(* later one succeeded: nothing was saved, so nothing is restored.          *)
RestoredWhenBlind ==
  ~up /\ ~crashed /\ Restorable => \A g \in Scheme : AsFound(g, reg[g])

(* The same promise when a first read of the scheme failed: its result is   *)
(* not looked at, and the stop writes a built-in number for the user's own. *)
RestoredWhenMisread == ~up /\ ~crashed /\ ~blind /\ Restorable => reg = origin

(* The daemon turns PCIe ASPM off on AC while it optimizes (README.md:15).  *)
(* Pausing puts ASPM back, and resuming does not turn it off again.         *)
AspmOffWhileGoverning ==
  Governing /\ saved_baseline => reg[guid]["ac"].aspm = 0

=============================================================================
