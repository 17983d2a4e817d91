-------------------------- MODULE ProcessGuardian --------------------------
(***************************************************************************)
(* The process guardian (src/optimizer/process_guardian.cpp) and the        *)
(* processes of the machine: EcoQoS for the background, HighQoS for the     *)
(* foreground, the CPU core kept free for the system, and the demotion of   *)
(* processes that are busy or grow for several housekeeping ticks.          *)
(*                                                                         *)
(* The guardian runs on the daemon's main thread only; what it does races   *)
(* with the processes themselves, which end at any time and whose PIDs the  *)
(* system gives to new ones.  A process is a record; a housekeeping tick is *)
(* a snapshot and three walks.  A snapshot may miss processes, all of them  *)
(* if EnumProcesses fails.  A walk treats every process on its own, so a    *)
(* process that ends within a walk ends before or after it.  PIDs 0 and 4   *)
(* and the daemon's own process are never touched and left out.             *)
(***************************************************************************)
EXTENDS Integers, FiniteSets

CONSTANTS
  Pid,            \* process identifiers
  NoPid,          \* the initial m_current_foreground_pid (0)
  Elsewhere,      \* the PID of any process that is not followed here
  SustainSeconds, \* config.governor.cpu_hog_sustain_seconds
  IntervalMs,     \* config.daemon.housekeeping_interval_ac_ms
  EnableEco,      \* config.governor.enable_eco_qos
  EnableDemotion, \* config.governor.enable_priority_demotion
  Symptom,        \* what housekeeping looks for: "cpu", "memory"
  BirthKinds,     \* the kinds of processes that are started
  BirthMasks,     \* the affinity masks they choose
  Cpu,            \* the system's affinity mask: its logical processors
  Cores,          \* the physical cores: sets of logical processors
  FirstCore,      \* the one Windows lists first
  MaxLives,       \* bound on the processes that get the same PID
  MaxStarts       \* bound on the number of daemon instances

Mask   == (SUBSET Cpu) \ {{}}
NoMask == {}

(* A user's process, one of the allowlist, one that does not let itself be  *)
(* changed; "none": nothing has the PID.                                    *)
Kind   == {"none", "user", "allowed", "denied"}

ASSUME GuardianAssumption ==
  /\ NoPid \notin Pid /\ Elsewhere \notin Pid \cup {NoPid}
  /\ SustainSeconds \in Nat
  /\ IntervalMs \in Nat /\ IntervalMs >= 1000  \* or run_housekeeping divides by zero
  /\ EnableEco \in BOOLEAN /\ EnableDemotion \in BOOLEAN
  /\ Symptom \subseteq {"cpu", "memory"}
  /\ BirthKinds \subseteq Kind \ {"none"} /\ BirthMasks \subseteq Mask
  /\ IsFiniteSet(Cpu) /\ Cores \subseteq Mask /\ FirstCore \in Cores
  /\ \A c, d \in Cores : c = d \/ c \cap d = {}
  /\ MaxLives \in Nat \ {0} /\ MaxStarts \in Nat \ {0}

(* sustain_ticks: both divisions cut off, and the interval is the one on    *)
(* mains whatever the source is.                                            *)
Sustain ==
  LET ratio == SustainSeconds \div (IntervalMs \div 1000)
  IN  IF ratio < 2 THEN 2 ELSE ratio

(* m_user_affinity_mask, or 0 where nothing is reserved. *)
should_reserve_os_core == Cardinality(Cores) >= 4

user_affinity_mask ==
  IF ~should_reserve_os_core THEN NoMask
  ELSE IF Cpu \subseteq FirstCore THEN Cpu ELSE Cpu \ FirstCore

VARIABLES
  proc,     \* external: the process with each PID
  lives,    \* external: how many processes have had the PID
  up,       \* m_initialized
  enforce,  \* m_enforce
  fg,       \* m_current_foreground_pid
  qos_eco,  \* m_qos_eco: "unset", "eco" (true) or "high" (false)
  affinity_original, \* m_affinity_original
  ticks,    \* m_cpu_hog_ticks, m_mem_leak_ticks
  throttled, \* m_throttled_pids
  prev,     \* m_prev_snapshots: of "none", the "same" or an "other" process
  phase,    \* the walk on_housekeeping does next
  seen,     \* curr_map: the kind of process the snapshot saw
  hot,      \* the symptoms the snapshot shows
  fresh,    \* history: PIDs whose process is the one in the snapshot
  heat,     \* history: ticks in a row that showed the symptom in this process
  starts,   \* number of daemon instances so far
  crashed,  \* history: an instance died
  heirs,    \* history: PIDs whose process found traces of one before it
  eco_lost, \* history: processes whose entry in m_qos_eco a missed sample erased
  mask_lost \* history: the same of m_affinity_original

os       == <<proc, lives>>
maps     == <<qos_eco, affinity_original, ticks, throttled, prev>>
tick     == <<phase, seen, hot, fresh>>
lost     == <<eco_lost, mask_lost>>
history  == <<starts, crashed, heirs>>
vars     == <<os, up, enforce, fg, maps, tick, heat, history, lost>>

Nothing == [kind |-> "none", mine |-> NoMask, mask |-> NoMask, eco |-> FALSE, low |-> FALSE]
NewProcess(k, m) == [Nothing EXCEPT !.kind = k, !.mine = m, !.mask = m]

Alive(p)      == proc[p].kind # "none"
Accessible(p) == proc[p].kind \in {"user", "allowed"}
Live          == {p \in Pid : Alive(p)}

(* What the guardian still holds of the processes the PID p had before.     *)
Traces(p) ==
  \/ affinity_original[p] # NoMask \/ qos_eco[p] # "unset"
  \/ p \in throttled \/ \E s \in Symptom : ticks[s][p] # 0
  \/ prev[p] # "none" \/ seen[p] # "none"

AllPids(v)   == [p \in Pid |-> v]
NoTicks      == [s \in Symptom |-> AllPids(0)]

Init ==
  /\ proc = AllPids(Nothing) /\ lives = AllPids(0)
  /\ up = FALSE /\ enforce = FALSE /\ fg = NoPid
  /\ qos_eco = AllPids("unset") /\ affinity_original = AllPids(NoMask)
  /\ ticks = NoTicks /\ throttled = {} /\ prev = AllPids("none")
  /\ phase = "idle" /\ seen = AllPids("none")
  /\ hot = [s \in Symptom |-> {}] /\ fresh = {}
  /\ heat = NoTicks
  /\ starts = 0 /\ crashed = FALSE
  /\ heirs = {} /\ eco_lost = {} /\ mask_lost = {}

----------------------------------------------------------------------------
(* What the guardian does to a process *)

SetEco(r, on)  == [r EXCEPT !.eco = on]
SetMask(r, m)  == [r EXCEPT !.mask = m]
SetLow(r)      == [r EXCEPT !.low = TRUE]

affinity_uses_os_core(m) == m \cap FirstCore # {}

(* restrict_off_os_core, for the PIDs in S and the affinity records rec.    *)
Restricts(S, rec) ==
  {p \in S : /\ user_affinity_mask # NoMask
            /\ Accessible(p) /\ rec[p] = NoMask /\ affinity_uses_os_core(proc[p].mask)}

(* The records that apply_os_cpu_reserve keeps: of PIDs in its map. *)
Kept(S, rec) == [p \in Pid |-> IF p \in S THEN rec[p] ELSE NoMask]

(* Who loses its record although it is there. *)
MaskForgotten(S) == {p \in Live \ S : affinity_original[p] # NoMask}

(* The records after the masks of the processes in R are put on record.     *)
Recorded(R, rec) == [p \in Pid |-> IF p \in R THEN proc[p].mask ELSE rec[p]]

(* restore_restricted_affinity *)
Restored(p) ==
  IF affinity_original[p] # NoMask /\ Accessible(p)
  THEN SetMask(proc[p], affinity_original[p]) ELSE proc[p]

----------------------------------------------------------------------------
(* enable_enforcement, disable_enforcement, shutdown *)

UserPids == {p \in Pid : proc[p].kind \in {"user", "denied"}}

(* The affinity of the processes in S, with the records rec. *)
Reserve(S, rec) ==
  LET R == Restricts(S, rec) IN
  /\ proc' = [p \in Pid |-> IF p \in R THEN SetMask(proc[p], user_affinity_mask) ELSE proc[p]]
  /\ affinity_original' = Recorded(R, rec)

(* initialize, then enable_enforcement: run_daemon_loop calls both, and     *)
(* what either snapshot sees is known.                                      *)
Start ==
  /\ ~up /\ starts < MaxStarts
  /\ starts' = starts + 1
  /\ up' = TRUE /\ enforce' = TRUE /\ fg' = NoPid
  /\ \E scan \in SUBSET Live :
       /\ Reserve(scan \cap UserPids, AllPids(NoMask))
       /\ prev' = [p \in Pid |-> IF p \in scan THEN "same" ELSE "none"]
  /\ qos_eco' = AllPids("unset") /\ ticks' = NoTicks /\ throttled' = {}
  /\ heat' = NoTicks
  /\ UNCHANGED <<lives, tick, crashed, heirs, lost>>

(* The tray's "on"; the counters of a pause ago are kept.  The new snapshot *)
(* is put over the one before, and who is not in it is taken for what that  *)
(* one says: strangers are those that are not what it says.                 *)
EnableEnforcement ==
  /\ up /\ phase = "idle"
  /\ enforce' = TRUE
  /\ \E scan \in SUBSET Live :
       LET known   == scan \cup {p \in Pid : prev[p] # "none"}
           strange == {p \in known \ scan : prev[p] = "other"}
       IN
       /\ \E S \in SUBSET strange :
            Reserve(((known \ strange) \cap UserPids) \cup S, Kept(known, affinity_original))
       /\ prev' = [p \in Pid |-> IF p \in scan THEN "same" ELSE prev[p]]
       /\ mask_lost' = mask_lost \cup MaskForgotten(known)
  /\ UNCHANGED <<lives, up, fg, qos_eco, ticks, throttled, tick, heat, history, eco_lost>>

(* Mutant: the records of the affinities given back are kept. *)
DisableEnforcement_KeepsRecords ==
  /\ up /\ phase = "idle"
  /\ enforce' = FALSE
  /\ proc' = [p \in Pid |->
       IF qos_eco[p] = "eco" /\ Accessible(p) THEN SetEco(Restored(p), FALSE) ELSE Restored(p)]
  /\ qos_eco' = AllPids("unset")
  /\ UNCHANGED <<lives, up, fg, affinity_original, ticks, throttled, prev, tick, heat, history, lost>>

(* The tray's "off": affinity and EcoQoS are given back, priorities not. *)
DisableEnforcement ==
  /\ up /\ phase = "idle"
  /\ enforce' = FALSE
  /\ proc' = [p \in Pid |->
       IF qos_eco[p] = "eco" /\ Accessible(p) THEN SetEco(Restored(p), FALSE) ELSE Restored(p)]
  /\ affinity_original' = AllPids(NoMask)
  /\ qos_eco' = AllPids("unset")
  /\ UNCHANGED <<lives, up, fg, ticks, throttled, prev, tick, heat, history, lost>>

(* The end of an instance; only the affinity is given back. *)
Shutdown ==
  /\ up /\ phase = "idle"
  /\ up' = FALSE /\ enforce' = FALSE
  /\ proc' = [p \in Pid |-> Restored(p)]
  /\ affinity_original' = AllPids(NoMask) /\ qos_eco' = AllPids("unset")
  /\ ticks' = NoTicks /\ throttled' = {} /\ prev' = AllPids("none")
  /\ heat' = NoTicks
  /\ UNCHANGED <<lives, fg, tick, history, lost>>

Crash ==
  /\ up
  /\ up' = FALSE /\ enforce' = FALSE /\ crashed' = TRUE
  /\ affinity_original' = AllPids(NoMask) /\ qos_eco' = AllPids("unset")
  /\ ticks' = NoTicks /\ throttled' = {} /\ prev' = AllPids("none")
  /\ phase' = "idle" /\ seen' = AllPids("none") /\ fresh' = {}
  /\ hot' = [s \in Symptom |-> {}] /\ heat' = NoTicks
  /\ UNCHANGED <<os, fg, starts, heirs, lost>>

----------------------------------------------------------------------------
(* on_foreground_process_changed: the new foreground process is sped up and *)
(* kept off the system's core, the one before is slowed down.               *)

(* The process in front before gets EcoQoS; one that has ended has no name, *)
(* and no name counts as allowlisted.                                       *)
SlowsDown(p, now) ==
  /\ EnableEco /\ fg = p /\ p # now
  /\ proc[p].kind = "user"

(* Mutant: the process in front before is not marked as slowed down. *)
Focus_ForgetsEco(p) ==
  /\ up /\ phase = "idle"
  /\ fg' = p
  /\ proc' = [q \in Pid |->
       IF enforce /\ q = p /\ Accessible(p) THEN SetEco(proc[p], FALSE)
       ELSE IF enforce /\ SlowsDown(q, p) THEN SetEco(proc[q], TRUE) ELSE proc[q]]
  /\ UNCHANGED <<lives, up, enforce, maps, tick, heat, history, lost>>

Focus(p) ==
  /\ up /\ phase = "idle"
  /\ fg' = p
  /\ IF ~enforce
     THEN UNCHANGED <<proc, qos_eco, affinity_original>>
     ELSE
       LET high(q)  == q = p /\ Accessible(p)
           R        == Restricts({p} \cap UserPids, affinity_original)
           masked(q) == IF q \in R THEN SetMask(proc[q], user_affinity_mask) ELSE proc[q]
       IN
       /\ proc' = [q \in Pid |->
            CASE high(q)         -> SetEco(masked(q), FALSE)
              [] SlowsDown(q, p) -> SetEco(proc[q], TRUE)
              [] OTHER           -> proc[q]]
       /\ qos_eco' = [q \in Pid |->
            CASE high(q)         -> "high"
              [] SlowsDown(q, p) -> "eco"
              [] OTHER           -> qos_eco[q]]
       /\ affinity_original' = Recorded(R, affinity_original)
  /\ UNCHANGED <<lives, up, enforce, ticks, throttled, prev, tick, heat, history, lost>>

----------------------------------------------------------------------------
(* on_housekeeping: a snapshot, then three walks over it. *)

Seen == {p \in Pid : seen[p] # "none"}

(* Mutant: the foreground process is not protected. *)
Protected_AllowlistOnly(p, kind) == p \in Pid /\ kind = "allowed"

(* is_protected, by the name in the snapshot. *)
Protected(p, kind) == p = fg \/ kind = "allowed"

(* cleanup_stale_throttles and take_snapshot: a process that cannot be      *)
(* opened counts as gone, and its counters are dropped.  A process shows a  *)
(* symptom against the sample before, if there is one; which processes do   *)
(* is up to them.                                                           *)
TickSnapshot ==
  /\ up /\ enforce /\ phase = "idle"
  /\ phase' = "qos"
  /\ \E scan \in SUBSET Live :
       /\ seen' = [p \in Pid |-> IF p \in scan THEN proc[p].kind ELSE "none"]
       /\ fresh' = scan
       /\ hot' \in [Symptom -> SUBSET {p \in scan : prev[p] # "none"}]
       /\ ticks' = [s \in Symptom |-> [p \in Pid |-> IF p \in scan THEN ticks[s][p] ELSE 0]]
  /\ throttled' \in SUBSET (throttled \cap Live)
  /\ heat' = [s \in Symptom |-> [p \in Pid |->
       IF p \in hot'[s] /\ prev[p] = "same" /\ ~Protected(p, proc[p].kind)
       THEN IF heat[s][p] < Sustain THEN heat[s][p] + 1 ELSE Sustain
       ELSE 0]]
  /\ UNCHANGED <<os, up, enforce, fg, qos_eco, affinity_original, prev, history, lost>>

(* Mutant: the foreground process is left as it is. *)
SpedUp_Never(p) == FALSE /\ Accessible(p)

SpedUp(p) == p = fg /\ Accessible(p) /\ qos_eco[p] # "high"

SlowedDown(p) ==
  /\ EnableEco /\ ~Protected(p, seen[p])
  /\ Accessible(p) /\ qos_eco[p] # "eco"

(* apply_foreground_background_qos, up to its call of apply_os_cpu_reserve. *)
TickQos ==
  /\ phase = "qos"
  /\ phase' = "reserve"
  /\ qos_eco' = [p \in Pid |->
       IF p \notin Seen THEN "unset"
       ELSE IF SpedUp(p) THEN "high"
       ELSE IF SlowedDown(p) THEN "eco" ELSE qos_eco[p]]
  /\ proc' = [p \in Pid |->
       IF p \notin Seen THEN proc[p]
       ELSE IF SpedUp(p) THEN SetEco(proc[p], FALSE)
       ELSE IF SlowedDown(p) THEN SetEco(proc[p], TRUE) ELSE proc[p]]
  /\ eco_lost' = (eco_lost \ Seen) \cup {p \in Live \ Seen : qos_eco[p] = "eco"}
  /\ UNCHANGED <<lives, up, enforce, fg, affinity_original, ticks, throttled, prev,
                 seen, hot, fresh, heat, history, mask_lost>>

(* Mutant: the mask a process has now replaces the one on record. *)
TickReserve_Rerecords ==
  /\ phase = "reserve"
  /\ phase' = "hogs"
  /\ LET user == {p \in Seen : seen[p] # "allowed" /\ Accessible(p)} IN
       /\ proc' = [p \in Pid |-> IF p \in user THEN SetMask(proc[p], user_affinity_mask) ELSE proc[p]]
       /\ affinity_original' = [p \in Pid |->
            IF p \in user THEN proc[p].mask
            ELSE IF p \in Seen THEN affinity_original[p] ELSE NoMask]
  /\ mask_lost' = mask_lost \cup MaskForgotten(Seen)
  /\ UNCHANGED <<lives, up, enforce, fg, qos_eco, ticks, throttled, prev,
                 seen, hot, fresh, heat, history, eco_lost>>

(* apply_os_cpu_reserve *)
TickReserve ==
  /\ phase = "reserve"
  /\ phase' = "hogs"
  /\ Reserve({p \in Seen : seen[p] # "allowed"}, Kept(Seen, affinity_original))
  /\ mask_lost' = mask_lost \cup MaskForgotten(Seen)
  /\ UNCHANGED <<lives, up, enforce, fg, qos_eco, ticks, throttled, prev,
                 seen, hot, fresh, heat, history, eco_lost>>

(* Mutant: a count is kept while the process is protected. *)
Counted_ThroughFocus(s, p) ==
  IF Protected(p, seen[p]) \/ p \in throttled \/ prev[p] = "none" THEN ticks[s][p]
  ELSE IF p \in hot[s] THEN ticks[s][p] + 1 ELSE 0

(* The counter of a symptom, before it is compared with sustain_ticks. *)
Counted(s, p) ==
  IF Protected(p, seen[p]) THEN 0
  ELSE IF p \in throttled \/ prev[p] = "none" THEN ticks[s][p]
  ELSE IF p \in hot[s] THEN ticks[s][p] + 1 ELSE 0

(* Mutant: one tick more than sustain_ticks. *)
Fires_Late(s, p) ==
  /\ p \in Seen /\ ~Protected(p, seen[p]) /\ p \notin throttled /\ prev[p] # "none"
  /\ Counted(s, p) > Sustain

Fires(s, p) ==
  /\ p \in Seen /\ ~Protected(p, seen[p]) /\ p \notin throttled /\ prev[p] # "none"
  /\ Counted(s, p) >= Sustain

(* The analysis of each process.  One that is throttled is not looked at    *)
(* again, and nothing gives its priority back.                              *)
TickAnalyse ==
  /\ phase = "hogs"
  /\ phase' = "idle"
  /\ LET fires(p)    == \E s \in Symptom : Fires(s, p)
         throttle(r) == IF EnableDemotion THEN SetLow(IF EnableEco THEN SetEco(r, TRUE) ELSE r)
                        ELSE IF EnableEco THEN SetEco(r, TRUE) ELSE r
     IN
     /\ proc' = [p \in Pid |->
          IF fires(p) /\ Accessible(p) THEN throttle(proc[p]) ELSE proc[p]]
     /\ throttled' = throttled \cup
          {p \in Pid : (EnableEco \/ EnableDemotion) /\ fires(p) /\ Accessible(p)}
     /\ ticks' = [s \in Symptom |-> [p \in Pid |->
          IF p \notin Seen THEN ticks[s][p]
          ELSE IF Fires(s, p) THEN 0 ELSE Counted(s, p)]]
  /\ prev' = [p \in Pid |->
       IF p \in fresh THEN "same" ELSE IF p \in Seen THEN "other" ELSE "none"]
  /\ seen' = AllPids("none") /\ fresh' = {} /\ hot' = [s \in Symptom |-> {}]
  /\ UNCHANGED <<lives, up, enforce, fg, qos_eco, affinity_original, heat, history, lost>>

----------------------------------------------------------------------------
(* The processes *)

Birth(p) ==
  /\ ~Alive(p) /\ lives[p] < MaxLives
  /\ \E k \in BirthKinds, m \in BirthMasks :
       proc' = [proc EXCEPT ![p] = NewProcess(k, m)]
  /\ lives' = [lives EXCEPT ![p] = @ + 1]
  /\ heirs' = IF Traces(p) THEN heirs \cup {p} ELSE heirs \ {p}
  /\ eco_lost' = eco_lost \ {p} /\ mask_lost' = mask_lost \ {p}
  /\ UNCHANGED <<up, enforce, fg, maps, tick, heat, starts, crashed>>

Death(p) ==
  /\ Alive(p)
  /\ proc' = [proc EXCEPT ![p] = Nothing]
  /\ prev' = [prev EXCEPT ![p] = IF @ = "same" THEN "other" ELSE @]
  /\ fresh' = fresh \ {p}
  /\ heat' = [s \in Symptom |-> [heat[s] EXCEPT ![p] = 0]]
  /\ UNCHANGED <<lives, up, enforce, fg, qos_eco, affinity_original, ticks, throttled,
                 phase, seen, hot, history, lost>>

Tick == TickSnapshot \/ TickQos \/ TickReserve \/ TickAnalyse

Next ==
  \/ Start
  \/ EnableEnforcement
  \/ DisableEnforcement
  \/ Shutdown
  \/ Crash
  \/ \E p \in Pid \cup {Elsewhere} : Focus(p)
  \/ TickSnapshot
  \/ TickQos
  \/ TickReserve
  \/ TickAnalyse
  \/ \E p \in Pid : Birth(p)
  \/ \E p \in Pid : Death(p)

(* The main loop runs housekeeping as long as the daemon is up and governs. *)
Spec == Init /\ [][Next]_vars /\ WF_vars(Tick)

----------------------------------------------------------------------------
(* Properties. *)

Process == [kind : Kind, mine : Mask \cup {NoMask}, mask : Mask \cup {NoMask},
            eco : BOOLEAN, low : BOOLEAN]

TypeOK ==
  /\ proc \in [Pid -> Process] /\ lives \in [Pid -> 0..MaxLives]
  /\ up \in BOOLEAN /\ enforce \in BOOLEAN /\ fg \in Pid \cup {NoPid, Elsewhere}
  /\ qos_eco \in [Pid -> {"unset", "eco", "high"}]
  /\ affinity_original \in [Pid -> Mask \cup {NoMask}]
  /\ ticks \in [Symptom -> [Pid -> 0..(Sustain - 1)]]
  /\ throttled \subseteq Pid /\ prev \in [Pid -> {"none", "same", "other"}]
  /\ phase \in {"idle", "qos", "reserve", "hogs"}
  /\ seen \in [Pid -> Kind] /\ hot \in [Symptom -> SUBSET Pid] /\ fresh \subseteq Pid
  /\ heat \in [Symptom -> [Pid -> 0..Sustain]]
  /\ starts \in 0..MaxStarts /\ crashed \in BOOLEAN
  /\ heirs \subseteq Pid /\ eco_lost \subseteq Pid /\ mask_lost \subseteq Pid

(* Pausing undoes EcoQoS and affinity, whatever focus changes, ticks and    *)
(* ends came before (README.md:38: a click turns the optimizer off):        *)
(* disable_enforcement knows every process it has to give back.  Not so     *)
(* what a missed sample made it forget: EcoQoS until a tick sees the        *)
(* process again, the affinity for good.  And not so for an heir: the       *)
(* analysis slows it down and m_qos_eco does not hear of it.                *)
PauseUndoes ==
  up /\ ~enforce /\ starts = 1 =>
    \A p \in Pid \ heirs :
      /\ p \notin eco_lost => ~proc[p].eco
      /\ p \notin mask_lost => proc[p].mask = proc[p].mine

(* A clean stop gives each process the affinity it had before, unless a     *)
(* sample missed it while it was on record (the maps forget whom a snapshot *)
(* does not show, process_guardian.cpp:470) or it is an heir: the code      *)
(* takes a PID for the process it was (process_guardian.cpp:426).           *)
StopGivesAffinityBack ==
  ~up /\ ~crashed =>
    \A p \in Pid \ (heirs \cup mask_lost) : proc[p].mask = proc[p].mine

(* No program outside the allowlist uses the core reserved for the system,  *)
(* whether in the foreground or not, from the first tick or resumption that *)
(* sees it until one misses it or a pause (README.md:29), unless it is an   *)
(* heir.                                                                    *)
ReserveHeld ==
  up /\ enforce /\ user_affinity_mask # NoMask =>
    \A p \in Pid \ heirs :
      proc[p].kind = "user" /\ prev[p] = "same" => ~affinity_uses_os_core(proc[p].mask)

(* The foreground process never has EcoQoS while the first instance         *)
(* governs, however focus changes, pauses and ticks are ordered, unless the *)
(* EcoQoS is one it forgot of (then a pause leaves it) or an heir's.        *)
ForegroundFast ==
  up /\ enforce /\ starts = 1 /\ fg \in Pid \ (heirs \cup eco_lost) => ~proc[fg].eco

(* A process is demoted for its own doing only: it showed the symptom in    *)
(* sustain_ticks samples in a row, each against its own sample before, none *)
(* of them in the foreground (README.md:30).                                *)
DemotedForOwnDoing ==
  [][\A p \in Pid \ heirs : proc'[p].low /\ ~proc[p].low
       => \E s \in Symptom : heat[s][p] >= Sustain]_vars

(* And one that did that has been demoted when the tick is over. *)
OffenderDemoted ==
  up /\ phase = "idle" /\ EnableDemotion =>
    \A p \in Pid \ heirs, s \in Symptom :
      proc[p].kind = "user" /\ heat[s][p] >= Sustain => proc[p].low

(* EcoQoS that an instance before this one, or a sample that missed it,     *)
(* left on the foreground process does not last if samples go on seeing it. *)
ForegroundRegainsSpeed ==
  \A p \in Pid : []<>(seen[p] # "none") =>
    ((up /\ enforce /\ fg = p /\ proc[p].eco)
       ~> ~(up /\ enforce /\ fg = p /\ proc[p].eco))

(* A pause undoes what was done to every process (README.md:38), whatever   *)
(* the snapshots saw.                                                       *)
PauseUndoesAll ==
  up /\ ~enforce /\ starts = 1 =>
    \A p \in Pid \ heirs : ~proc[p].eco /\ proc[p].mask = proc[p].mine

(* "The foreground loses neither QoS nor priority" (README.md:33).          *)
ForegroundNotDemoted ==
  up /\ enforce /\ fg \in Pid => ~proc[fg].low

(* "Service shutdown ... guarantees all throttled apps restored"            *)
(* (tests/e2e_runner.ps1:1242).                                             *)
StopUnthrottles ==
  ~up /\ ~crashed => \A p \in Pid : ~proc[p].eco

(* "The allowlist ... is never demoted" (README.md:32). *)
AllowlistSpared ==
  \A p \in Pid : proc[p].kind = "allowed" => ~proc[p].low /\ ~proc[p].eco

=============================================================================
