----------------------- MODULE ProcessGuardian_proofs -----------------------
(***************************************************************************)
(* What the guardian does to a process it can undo, for any processes,      *)
(* cores and configuration: the theorems at the end.                        *)
(*                                                                         *)
(* The argument.  A pause and a stop undo what is on record, so all that    *)
(* was done must be on record under the PID it was done to, unless a sample *)
(* missed the process: Masked says it of the affinity and Slowed of EcoQoS. *)
(* The walks learn from a snapshot who is there, hence Sampled: what the    *)
(* snapshot and the sample before it say of the process that has the PID    *)
(* now.  OffCore, with the pairwise disjoint cores, keeps off the first     *)
(* core whom a tick has once seen.  A PID whose process found traces of one *)
(* before it is left out everywhere: there a record of one process meets    *)
(* another.  Demotion has an invariant of its own, further down: the        *)
(* counters of a PID against what its process showed.                       *)
(***************************************************************************)
EXTENDS ProcessGuardian, FiniteSetTheorems, TLAPS

(* The parts of the inductive invariant that speak of the daemon as a whole.*)
Daemon ==
  /\ enforce => up
  /\ phase # "idle" => up /\ enforce
  /\ phase = "idle" => fresh = {}
  /\ ~enforce => \A p \in Pid : affinity_original[p] = NoMask /\ qos_eco[p] = "unset"
  /\ starts = 0 => ~up /\ ~crashed
  /\ starts = 1 /\ up => ~crashed

(* What samples and snapshots say of the process that has the PID p.        *)
Sampled(p) ==
  /\ ~Alive(p) => proc[p] = Nothing
  /\ prev[p] = "same" => Alive(p)
  /\ p \in fresh => Alive(p) /\ seen[p] = proc[p].kind
  /\ Alive(p) /\ p \notin heirs /\ seen[p] # "none" => p \in fresh

(* The affinity of p: as it was, or on record and off the first core.       *)
Masked(p) ==
  Alive(p) /\ p \notin heirs =>
    /\ affinity_original[p] # NoMask => /\ Accessible(p)
                                        /\ ~affinity_uses_os_core(proc[p].mask)
    /\ ~crashed /\ p \notin mask_lost =>
         proc[p].mine = IF affinity_original[p] = NoMask
                        THEN proc[p].mask ELSE affinity_original[p]

(* The EcoQoS of p: what the first instance gives is on record or lost.     *)
Slowed(p) ==
  /\ starts = 0 => ~proc[p].eco
  /\ starts = 1 /\ up /\ p \notin heirs /\ proc[p].eco =>
       /\ proc[p].kind = "user" /\ EnableEco
       /\ IF p \in eco_lost THEN qos_eco[p] # "high" ELSE qos_eco[p] = "eco"
  /\ phase \in {"reserve", "hogs"} /\ EnableEco /\ p \notin heirs /\ Accessible(p)
       /\ seen[p] # "none" /\ ~Protected(p, seen[p]) => qos_eco[p] = "eco"
  /\ up /\ enforce /\ starts = 1 /\ fg = p /\ p \notin heirs \cup eco_lost => ~proc[p].eco

(* ReserveHeld, which the walk establishes before the sample is taken over. *)
OffCore(p) ==
  up /\ enforce /\ user_affinity_mask # NoMask
    /\ proc[p].kind = "user" /\ p \notin heirs
    /\ (prev[p] = "same" \/ (phase = "hogs" /\ p \in fresh)) =>
      ~affinity_uses_os_core(proc[p].mask)

Own(p) == Sampled(p) /\ Masked(p) /\ Slowed(p) /\ OffCore(p)

IInv ==
  /\ TypeOK
  /\ Daemon
  /\ \A p \in Pid : Own(p)

----------------------------------------------------------------------------
(* The core kept free is no user program's: with four cores or more, the    *)
(* mask given to the others leaves the first one out.                       *)
LEMMA ReserveMask ==
  /\ user_affinity_mask \in Mask \cup {NoMask}
  /\ user_affinity_mask # NoMask => ~affinity_uses_os_core(user_affinity_mask)
<1>1. user_affinity_mask \in Mask \cup {NoMask}
  BY DEF user_affinity_mask, Mask, NoMask
<1>2. ASSUME user_affinity_mask # NoMask
      PROVE  ~affinity_uses_os_core(user_affinity_mask)
  <2>1. should_reserve_os_core
    BY <1>2 DEF user_affinity_mask
  <2>2. PICK d \in Cores : d # FirstCore
    <3> SUFFICES ASSUME \A d \in Cores : d = FirstCore PROVE FALSE
      OBVIOUS
    <3>1. Cores = {FirstCore}
      BY GuardianAssumption
    <3>2. Cardinality(Cores) = 1
      BY <3>1, FS_Singleton
    <3> QED BY <2>1, <3>2 DEF should_reserve_os_core
  <2>3. ~(Cpu \subseteq FirstCore)
    BY <2>2, GuardianAssumption DEF Mask
  <2>4. user_affinity_mask = Cpu \ FirstCore
    BY <2>1, <2>3 DEF user_affinity_mask
  <2> QED BY <2>4 DEF affinity_uses_os_core
<1> QED BY <1>1, <1>2

LEMMA SustainType == Sustain \in Nat /\ Sustain >= 2
<1>1. IntervalMs \div 1000 \in Nat /\ IntervalMs \div 1000 >= 1
  BY GuardianAssumption
<1>2. SustainSeconds \div (IntervalMs \div 1000) \in Nat
  BY <1>1, GuardianAssumption
<1> QED BY <1>2 DEF Sustain

(* What the guardian makes of a process is a process. *)
LEMMA EcoEffect ==
  \A r \in Process, b \in BOOLEAN :
    /\ SetEco(r, b) \in Process
    /\ SetEco(r, b).kind = r.kind /\ SetEco(r, b).mine = r.mine
    /\ SetEco(r, b).mask = r.mask /\ SetEco(r, b).eco = b
BY DEF SetEco, Process

LEMMA LowEffect ==
  \A r \in Process :
    /\ SetLow(r) \in Process
    /\ SetLow(r).kind = r.kind /\ SetLow(r).mine = r.mine
    /\ SetLow(r).mask = r.mask /\ SetLow(r).eco = r.eco
BY DEF SetLow, Process

LEMMA MaskEffect ==
  \A r \in Process, m \in Mask \cup {NoMask} :
    /\ SetMask(r, m) \in Process
    /\ SetMask(r, m).kind = r.kind /\ SetMask(r, m).mine = r.mine
    /\ SetMask(r, m).mask = m /\ SetMask(r, m).eco = r.eco
BY DEF SetMask, Process

----------------------------------------------------------------------------
(* Types. *)

LEMMA NothingType ==
  /\ Nothing \in Process
  /\ \A k \in BirthKinds, m \in BirthMasks : NewProcess(k, m) \in Process
BY GuardianAssumption DEF Nothing, NewProcess, Process, Kind, Mask, NoMask

LEMMA ReserveType ==
  ASSUME TypeOK, NEW rec \in [Pid -> Mask \cup {NoMask}], NEW R \in SUBSET Pid
  PROVE  /\ Recorded(R, rec) \in [Pid -> Mask \cup {NoMask}]
         /\ [p \in Pid |-> IF p \in R THEN SetMask(proc[p], user_affinity_mask) ELSE proc[p]]
              \in [Pid -> Process]
<1>1. \A p \in Pid : proc[p].mask \in Mask \cup {NoMask}
  BY DEF TypeOK, Process
<1>2. \A p \in Pid : SetMask(proc[p], user_affinity_mask) \in Process
  BY MaskEffect, ReserveMask DEF TypeOK
<1> QED BY <1>1, <1>2 DEF Recorded, TypeOK

LEMMA ReserveStepType ==
  ASSUME TypeOK, NEW S \in SUBSET Pid, NEW rec \in [Pid -> Mask \cup {NoMask}],
         Reserve(S, rec)
  PROVE  proc' \in [Pid -> Process] /\ affinity_original' \in [Pid -> Mask \cup {NoMask}]
<1>1. Restricts(S, rec) \in SUBSET Pid
  BY DEF Restricts
<1> QED BY <1>1, ReserveType DEF Reserve

(* What a resumption walks over: the PIDs that are known, as users those    *)
(* whose samples say so.                                                    *)
LEMMA EnableWalk ==
  ASSUME EnableEnforcement
  PROVE  \E scan \in SUBSET Live, known \in SUBSET Pid, S \in SUBSET Pid :
           /\ known = scan \cup {p \in Pid : prev[p] # "none"}
           /\ S \subseteq known
           /\ \A p \in known : p \in scan \/ prev[p] # "other" => (p \in S <=> p \in UserPids)
           /\ Reserve(S, Kept(known, affinity_original))
           /\ prev' = [p \in Pid |-> IF p \in scan THEN "same" ELSE prev[p]]
           /\ mask_lost' = mask_lost \cup MaskForgotten(known)
<1>1. PICK scan \in SUBSET Live :
        LET known   == scan \cup {p \in Pid : prev[p] # "none"}
            strange == {p \in known \ scan : prev[p] = "other"}
        IN
        /\ \E S \in SUBSET strange :
             Reserve(((known \ strange) \cap UserPids) \cup S, Kept(known, affinity_original))
        /\ prev' = [p \in Pid |-> IF p \in scan THEN "same" ELSE prev[p]]
        /\ mask_lost' = mask_lost \cup MaskForgotten(known)
  BY DEF EnableEnforcement
<1> DEFINE known   == scan \cup {p \in Pid : prev[p] # "none"}
           strange == {p \in known \ scan : prev[p] = "other"}
<1>2. PICK S0 \in SUBSET strange :
        Reserve(((known \ strange) \cap UserPids) \cup S0, Kept(known, affinity_original))
  BY <1>1
<1> DEFINE S == ((known \ strange) \cap UserPids) \cup S0
<1>3. known \in SUBSET Pid /\ S \in SUBSET Pid /\ S \subseteq known
  BY DEF Live
<1>4. \A p \in known : p \in scan \/ prev[p] # "other" => (p \in S <=> p \in UserPids)
  OBVIOUS
<1>5. Reserve(S, Kept(known, affinity_original))
  BY <1>2
<1>6. /\ prev' = [p \in Pid |-> IF p \in scan THEN "same" ELSE prev[p]]
      /\ mask_lost' = mask_lost \cup MaskForgotten(known)
      /\ known = scan \cup {p \in Pid : prev[p] # "none"}
  BY <1>1
<1> HIDE DEF known, S
<1> QED BY <1>3, <1>4, <1>5, <1>6

LEMMA KeptType ==
  ASSUME TypeOK, NEW S \in SUBSET Pid
  PROVE  Kept(S, affinity_original) \in [Pid -> Mask \cup {NoMask}]
BY DEF Kept, TypeOK

LEMMA RestoredType ==
  ASSUME TypeOK, NEW p \in Pid
  PROVE  Restored(p) \in Process /\ SetEco(Restored(p), FALSE) \in Process
<1>1. proc[p] \in Process /\ affinity_original[p] \in Mask \cup {NoMask}
  BY DEF TypeOK
<1>2. Restored(p) \in Process
  BY <1>1, MaskEffect DEF Restored
<1> QED BY <1>2, EcoEffect

LEMMA TypeStep == TypeOK /\ [Next]_vars => TypeOK'
<1> SUFFICES ASSUME TypeOK, [Next]_vars PROVE TypeOK'
  OBVIOUS
<1>0. /\ Sustain \in Nat /\ Sustain >= 2
      /\ AllPids(NoMask) \in [Pid -> Mask \cup {NoMask}]
      /\ AllPids("unset") \in [Pid -> {"unset", "eco", "high"}]
      /\ AllPids("none") \in [Pid -> {"none", "same", "other"}]
      /\ AllPids("none") \in [Pid -> Kind]
      /\ NoTicks \in [Symptom -> [Pid -> 0..(Sustain - 1)]]
      /\ NoTicks \in [Symptom -> [Pid -> 0..Sustain]]
      /\ [s \in Symptom |-> {}] \in [Symptom -> SUBSET Pid]
      /\ Live \in SUBSET Pid /\ \A S : MaskForgotten(S) \in SUBSET Pid
  BY SustainType DEF AllPids, NoTicks, Kind, Live, MaskForgotten
<1>1. CASE Start
  <2>1. PICK scan \in SUBSET Live :
          /\ Reserve(scan \cap UserPids, AllPids(NoMask))
          /\ prev' = [p \in Pid |-> IF p \in scan THEN "same" ELSE "none"]
    BY <1>1 DEF Start
  <2>2. scan \cap UserPids \in SUBSET Pid
    BY DEF UserPids
  <2>3. proc' \in [Pid -> Process] /\ affinity_original' \in [Pid -> Mask \cup {NoMask}]
    BY <1>0, <2>1, <2>2, ReserveStepType
  <2> QED BY <1>0, <1>1, <2>1, <2>3, GuardianAssumption DEF Start, tick, lost, TypeOK
<1>2. CASE EnableEnforcement
  <2>1. PICK scan \in SUBSET Live, known \in SUBSET Pid, S \in SUBSET Pid :
          /\ Reserve(S, Kept(known, affinity_original))
          /\ prev' = [p \in Pid |-> IF p \in scan THEN "same" ELSE prev[p]]
          /\ mask_lost' = mask_lost \cup MaskForgotten(known)
    BY <1>0, <1>2, EnableWalk
  <2>2. proc' \in [Pid -> Process] /\ affinity_original' \in [Pid -> Mask \cup {NoMask}]
    BY <2>1, KeptType, ReserveStepType
  <2>3. mask_lost' \subseteq Pid
    BY <1>0, <2>1 DEF TypeOK
  <2> QED BY <1>2, <2>1, <2>2, <2>3 DEF EnableEnforcement, tick, history, TypeOK
<1>3. CASE DisableEnforcement
  <2>1. proc' \in [Pid -> Process]
    BY <1>3, RestoredType DEF DisableEnforcement
  <2> QED BY <1>0, <1>3, <2>1 DEF DisableEnforcement, tick, history, lost, TypeOK
<1>4. CASE Shutdown
  <2>1. proc' \in [Pid -> Process]
    BY <1>4, RestoredType DEF Shutdown
  <2> QED BY <1>0, <1>4, <2>1 DEF Shutdown, tick, history, lost, TypeOK
<1>5. CASE Crash
  BY <1>0, <1>5 DEF Crash, os, lost, TypeOK
<1>6. ASSUME NEW p \in Pid \cup {Elsewhere}, Focus(p) PROVE TypeOK'
  <2>1. CASE ~enforce
    BY <1>6, <2>1 DEF Focus, tick, history, lost, TypeOK
  <2>2. CASE enforce
    <3> DEFINE R == Restricts({p} \cap UserPids, affinity_original)
               masked(q) == IF q \in R THEN SetMask(proc[q], user_affinity_mask) ELSE proc[q]
    <3>1. R \in SUBSET Pid
      BY DEF Restricts, UserPids
    <3>2. ASSUME NEW q \in Pid PROVE proc[q] \in Process /\ masked(q) \in Process
      <4>1. proc[q] \in Process
        BY DEF TypeOK
      <4> QED BY <4>1, MaskEffect, ReserveMask
    <3>3. \A q \in Pid : SetEco(proc[q], TRUE) \in Process /\ SetEco(masked(q), FALSE) \in Process
      BY <3>2, EcoEffect
    <3>4. affinity_original' = Recorded(R, affinity_original)
      BY <1>6, <2>2 DEF Focus
    <3>5. affinity_original' \in [Pid -> Mask \cup {NoMask}]
      BY <3>1, <3>4, ReserveType DEF TypeOK
    <3>6. proc' \in [Pid -> Process]
      <4>1. proc' = [q \in Pid |->
                       CASE q = p /\ Accessible(p) -> SetEco(masked(q), FALSE)
                         [] SlowsDown(q, p) -> SetEco(proc[q], TRUE)
                         [] OTHER -> proc[q]]
        BY <1>6, <2>2 DEF Focus
      <4> HIDE DEF masked
      <4> QED BY <4>1, <3>2, <3>3
    <3>7. qos_eco' \in [Pid -> {"unset", "eco", "high"}]
      BY <1>6, <2>2 DEF Focus, TypeOK
    <3> QED BY <1>6, <3>5, <3>6, <3>7 DEF Focus, tick, history, lost, TypeOK
  <2> QED BY <2>1, <2>2
<1>7. CASE TickSnapshot
  <2>1. PICK scan \in SUBSET Live :
          /\ seen' = [p \in Pid |-> IF p \in scan THEN proc[p].kind ELSE "none"]
          /\ fresh' = scan
          /\ hot' \in [Symptom -> SUBSET {p \in scan : prev[p] # "none"}]
          /\ ticks' = [s \in Symptom |-> [p \in Pid |-> IF p \in scan THEN ticks[s][p] ELSE 0]]
    BY <1>7 DEF TickSnapshot
  <2>2. ticks' \in [Symptom -> [Pid -> 0..(Sustain - 1)]]
    BY <1>0, <2>1 DEF TypeOK
  <2>3. heat' \in [Symptom -> [Pid -> 0..Sustain]]
    BY <1>0, <1>7 DEF TickSnapshot, TypeOK
  <2>4. seen' \in [Pid -> Kind] /\ fresh' \subseteq Pid
    BY <1>0, <2>1 DEF TypeOK, Process, Kind
  <2>5. hot' \in [Symptom -> SUBSET Pid] /\ throttled' \subseteq Pid
    BY <1>0, <1>7, <2>1 DEF TickSnapshot, TypeOK
  <2> QED BY <1>7, <2>2, <2>3, <2>4, <2>5 DEF TickSnapshot, os, history, lost, TypeOK
<1>8. CASE TickQos
  <2>1. \A b \in BOOLEAN, p \in Pid : SetEco(proc[p], b) \in Process
    BY EcoEffect DEF TypeOK
  <2>2. proc' \in [Pid -> Process] /\ eco_lost' \subseteq Pid
    BY <1>0, <1>8, <2>1 DEF TickQos, TypeOK
  <2> QED BY <1>8, <2>2 DEF TickQos, history, TypeOK
<1>9. CASE TickReserve
  <2>1. Seen \in SUBSET Pid /\ {p \in Seen : seen[p] # "allowed"} \in SUBSET Pid
    BY DEF Seen
  <2>2. proc' \in [Pid -> Process] /\ affinity_original' \in [Pid -> Mask \cup {NoMask}]
    BY <1>9, <2>1, KeptType, ReserveStepType DEF TickReserve
  <2>3. mask_lost' \subseteq Pid
    BY <1>0, <1>9 DEF TickReserve, TypeOK
  <2> QED BY <1>9, <2>2, <2>3 DEF TickReserve, history, TypeOK
<1>10. CASE TickAnalyse
  <2>1. ASSUME NEW p \in Pid
        PROVE  SetEco(proc[p], TRUE) \in Process /\ SetLow(proc[p]) \in Process
               /\ SetLow(SetEco(proc[p], TRUE)) \in Process
    <3>1. proc[p] \in Process
      BY DEF TypeOK
    <3>2. SetEco(proc[p], TRUE) \in Process /\ SetLow(proc[p]) \in Process
      BY <3>1, EcoEffect, LowEffect
    <3> QED BY <3>2, LowEffect
  <2>2. proc' \in [Pid -> Process]
    BY <1>10, <2>1 DEF TickAnalyse, TypeOK
  <2>3. ticks' \in [Symptom -> [Pid -> 0..(Sustain - 1)]]
    <3>1. ASSUME NEW s \in Symptom, NEW p \in Pid, ~Fires(s, p), p \in Seen
          PROVE  Counted(s, p) \in 0..(Sustain - 1)
      BY <1>0, <3>1 DEF Fires, Counted, TypeOK
    <3> QED BY <1>0, <1>10, <3>1 DEF TickAnalyse, TypeOK
  <2> QED BY <1>0, <1>10, <2>2, <2>3 DEF TickAnalyse, history, lost, TypeOK
<1>11. ASSUME NEW p \in Pid, Birth(p) PROVE TypeOK'
  <2>1. proc' \in [Pid -> Process]
    BY <1>11, NothingType DEF Birth, TypeOK
  <2>2. lives' \in [Pid -> 0..MaxLives]
    BY <1>11, GuardianAssumption DEF Birth, TypeOK
  <2> QED BY <1>11, <2>1, <2>2 DEF Birth, maps, tick, history, TypeOK
<1>12. ASSUME NEW p \in Pid, Death(p) PROVE TypeOK'
  <2>1. proc' \in [Pid -> Process]
    BY <1>12, NothingType DEF Death, TypeOK
  <2>2. heat' \in [Symptom -> [Pid -> 0..Sustain]]
    BY <1>0, <1>12 DEF Death, TypeOK
  <2> QED BY <1>12, <2>1, <2>2 DEF Death, history, lost, TypeOK
<1>13. CASE UNCHANGED vars
  BY <1>13 DEF vars, os, maps, tick, history, lost, TypeOK
<1> QED BY <1>1, <1>2, <1>3, <1>4, <1>5, <1>6, <1>7, <1>8, <1>9, <1>10, <1>11, <1>12, <1>13
        DEF Next

----------------------------------------------------------------------------
(* The daemon. *)

LEMMA DaemonStep == TypeOK /\ Daemon /\ [Next]_vars => Daemon'
<1> SUFFICES ASSUME TypeOK, Daemon, [Next]_vars PROVE Daemon'
  OBVIOUS
<1>0. /\ starts \in Nat
      /\ \A p \in Pid : AllPids(NoMask)[p] = NoMask /\ AllPids("unset")[p] = "unset"
  BY GuardianAssumption DEF TypeOK, AllPids
<1>1. CASE Start
  BY <1>0, <1>1 DEF Start, tick, Daemon
<1>2. CASE EnableEnforcement
  BY <1>2 DEF EnableEnforcement, tick, history, Daemon
<1>3. CASE DisableEnforcement
  BY <1>0, <1>3 DEF DisableEnforcement, tick, history, Daemon
<1>8. CASE Shutdown \/ Crash
  BY <1>0, <1>8 DEF Shutdown, Crash, tick, history, Daemon
<1>4. ASSUME NEW p \in Pid \cup {Elsewhere}, Focus(p) PROVE Daemon'
  BY <1>4 DEF Focus, tick, history, Daemon
<1>5. CASE TickSnapshot
  <2>1. /\ up /\ enforce /\ phase' = "qos"
        /\ UNCHANGED <<up, enforce, starts, crashed>>
    BY <1>5 DEF TickSnapshot, history
  <2> QED BY <2>1 DEF Daemon
<1>9. CASE TickAnalyse
  <2>1. /\ phase = "hogs" /\ phase' = "idle" /\ fresh' = {}
        /\ UNCHANGED <<up, enforce, starts, crashed>>
    BY <1>9 DEF TickAnalyse, history
  <2> QED BY <2>1 DEF Daemon
<1>10. CASE TickQos \/ TickReserve
  <2>1. /\ phase # "idle" /\ phase' # "idle"
        /\ UNCHANGED <<up, enforce, starts, crashed>>
    BY <1>10 DEF TickQos, TickReserve, history
  <2> QED BY <2>1 DEF Daemon
<1>6. ASSUME NEW p \in Pid, Birth(p) \/ Death(p) PROVE Daemon'
  BY <1>6 DEF Birth, Death, maps, tick, history, Daemon
<1>7. CASE UNCHANGED vars
  BY <1>7 DEF vars, maps, tick, history, Daemon
<1> QED BY <1>1, <1>2, <1>3, <1>4, <1>5, <1>6, <1>7, <1>8, <1>9, <1>10 DEF Next

----------------------------------------------------------------------------
(* What happens to the process that has the PID p. *)

(* Restricting the process r with the record o makes it r2 with o2.         *)
Reserves(r, o, r2, o2) ==
  \/ /\ r.kind \in {"user", "allowed"} /\ user_affinity_mask # NoMask
     /\ o = NoMask /\ affinity_uses_os_core(r.mask)
     /\ r2 = SetMask(r, user_affinity_mask) /\ o2 = r.mask
  \/ r2 = r /\ o2 = o

(* It was not in need of it, if it was left alone. *)
Reserved(o, r2, o2) ==
  user_affinity_mask # NoMask /\ r2.kind = "user" /\ o2 = o /\ o = NoMask =>
    ~affinity_uses_os_core(r2.mask)

LEMMA UsesMask == ~affinity_uses_os_core(NoMask)
BY DEF affinity_uses_os_core, NoMask

LEMMA Walk ==
  ASSUME TypeOK, NEW rec \in [Pid -> Mask \cup {NoMask}], NEW S \in SUBSET Pid,
         NEW p \in Pid
  PROVE  LET R  == Restricts(S, rec)
             r2 == IF p \in R THEN SetMask(proc[p], user_affinity_mask) ELSE proc[p]
             o2 == Recorded(R, rec)[p]
         IN  /\ Reserves(proc[p], rec[p], r2, o2)
             /\ p \in S => Reserved(rec[p], r2, o2)
             /\ r2.kind = proc[p].kind /\ r2.mine = proc[p].mine /\ r2.eco = proc[p].eco
<1>1. proc[p] \in Process
  BY DEF TypeOK
<1>2. CASE p \in Restricts(S, rec)
  <2>1. proc[p].mask # NoMask /\ rec[p] = NoMask
    BY <1>2, UsesMask DEF Restricts
  <2> QED BY <1>1, <1>2, <2>1, MaskEffect, ReserveMask
          DEF Restricts, Recorded, Reserves, Reserved, Accessible
<1>3. CASE p \notin Restricts(S, rec)
  BY <1>1, <1>3 DEF Restricts, Recorded, Reserves, Reserved, Accessible
<1> QED BY <1>2, <1>3

(* A start, a resumption or a tick does it to the processes in S.           *)
LEMMA ReserveOwn ==
  ASSUME TypeOK, NEW S \in SUBSET Pid, NEW rec \in [Pid -> Mask \cup {NoMask}],
         Reserve(S, rec), NEW p \in Pid
  PROVE  /\ Reserves(proc[p], rec[p], proc'[p], affinity_original'[p])
         /\ p \in S => Reserved(rec[p], proc'[p], affinity_original'[p])
         /\ p \notin S => proc'[p] = proc[p] /\ affinity_original'[p] = rec[p]
         /\ proc'[p].kind = proc[p].kind /\ proc'[p].mine = proc[p].mine
         /\ proc'[p].eco = proc[p].eco
<1> DEFINE R == Restricts(S, rec)
<1>1. /\ proc'[p] = IF p \in R THEN SetMask(proc[p], user_affinity_mask) ELSE proc[p]
      /\ affinity_original'[p] = Recorded(R, rec)[p]
  BY DEF Reserve
<1>2. p \notin S => p \notin R
  BY DEF Restricts
<1>3. p \notin R => Recorded(R, rec)[p] = rec[p]
  BY DEF Recorded
<1> HIDE DEF R
<1>4. p \notin S => proc'[p] = proc[p] /\ affinity_original'[p] = rec[p]
  BY <1>1, <1>2, <1>3
<1> USE DEF R
<1> QED BY <1>1, <1>4, Walk

(* Off the first core after it, if it was one to look at or was before.     *)
LEMMA SpareReserved ==
  ASSUME TypeOK, NEW p \in Pid, NEW o, NEW r2, NEW o2, Reserves(proc[p], o, r2, o2),
         user_affinity_mask # NoMask,
         \/ /\ proc[p].kind = "user" /\ Reserved(o, r2, o2)
            /\ o # NoMask => ~affinity_uses_os_core(proc[p].mask)
         \/ ~affinity_uses_os_core(proc[p].mask)
  PROVE  ~affinity_uses_os_core(r2.mask)
<1>1. proc[p] \in Process
  BY DEF TypeOK
<1> QED BY <1>1, MaskEffect, ReserveMask, UsesMask DEF Reserves, Reserved

(* The mask: what a restriction preserves. *)
LEMMA MaskReserved ==
  ASSUME TypeOK, NEW p \in Pid, NEW o, NEW r2, NEW o2, Reserves(proc[p], o, r2, o2),
         o # NoMask => /\ proc[p].kind \in {"user", "allowed"}
                       /\ ~affinity_uses_os_core(proc[p].mask)
  PROVE  /\ o2 # NoMask => /\ r2.kind \in {"user", "allowed"}
                           /\ ~affinity_uses_os_core(r2.mask)
         /\ proc[p].mine = (IF o = NoMask THEN proc[p].mask ELSE o) =>
              r2.mine = IF o2 = NoMask THEN r2.mask ELSE o2
<1>1. proc[p] \in Process
  BY DEF TypeOK
<1> QED BY <1>1, MaskEffect, ReserveMask, UsesMask DEF Reserves

LEMMA StartOwn ==
  ASSUME TypeOK, Daemon, NEW p \in Pid, Own(p), Start PROVE Own(p)'
<1> USE DEF Own
<1>0. PICK scan \in SUBSET Live :
        /\ Reserve(scan \cap UserPids, AllPids(NoMask))
        /\ prev' = [q \in Pid |-> IF q \in scan THEN "same" ELSE "none"]
  BY DEF Start
<1>1. /\ Reserves(proc[p], NoMask, proc'[p], affinity_original'[p])
      /\ p \in scan /\ proc[p].kind = "user" =>
           Reserved(NoMask, proc'[p], affinity_original'[p])
      /\ proc'[p].kind = proc[p].kind /\ proc'[p].mine = proc[p].mine
      /\ proc'[p].eco = proc[p].eco
  <2>1. AllPids(NoMask) \in [Pid -> Mask \cup {NoMask}] /\ AllPids(NoMask)[p] = NoMask
    BY DEF AllPids
  <2>2. /\ scan \cap UserPids \in SUBSET Pid
        /\ p \in scan /\ proc[p].kind = "user" => p \in scan \cap UserPids
    BY DEF UserPids
  <2> QED BY <1>0, <2>1, <2>2, ReserveOwn
<1>2. /\ UNCHANGED <<lives, phase, seen, hot, fresh, crashed, heirs, eco_lost, mask_lost>>
      /\ starts' = starts + 1 /\ ~up /\ phase = "idle" /\ fresh = {} /\ fg' = NoPid
      /\ qos_eco'[p] = "unset"
      /\ prev'[p] = IF p \in scan THEN "same" ELSE "none"
      /\ p \in scan => Alive(p)
      /\ affinity_original[p] = NoMask
  BY <1>0 DEF Start, tick, lost, AllPids, Daemon, Live
<1>3. proc[p].kind = "none" => proc'[p] = proc[p] /\ affinity_original'[p] = NoMask
  BY <1>1 DEF Reserves
<1>4. Sampled(p)'
  BY <1>1, <1>2, <1>3 DEF Sampled, Alive
<1>5. Masked(p)'
  <2>1. /\ affinity_original'[p] # NoMask => /\ proc'[p].kind \in {"user", "allowed"}
                                            /\ ~affinity_uses_os_core(proc'[p].mask)
        /\ proc[p].mine = proc[p].mask =>
             proc'[p].mine = IF affinity_original'[p] = NoMask
                               THEN proc'[p].mask ELSE affinity_original'[p]
    <3>1. Reserves(proc[p], NoMask, proc'[p], affinity_original'[p])
      BY <1>1
    <3> QED BY <3>1, MaskReserved
  <2>2. /\ affinity_original[p] = NoMask
        /\ proc'[p].kind = proc[p].kind
        /\ heirs' = heirs /\ mask_lost' = mask_lost /\ crashed' = crashed
    BY <1>1, <1>2
  <2>3. Masked(p)
    OBVIOUS
  <2> QED BY <2>1, <2>2, <2>3 DEF Masked, Alive, Accessible
<1>6. Slowed(p)'
  BY <1>1, <1>2, GuardianAssumption DEF Slowed, Alive, TypeOK
<1>7. OffCore(p)'
  BY <1>1, <1>2, SpareReserved DEF OffCore
<1> QED BY <1>4, <1>5, <1>6, <1>7

LEMMA EnableOwn ==
  ASSUME TypeOK, Daemon, NEW p \in Pid, Own(p), EnableEnforcement PROVE Own(p)'
<1> USE DEF Own
<1>0. PICK scan \in SUBSET Live, known \in SUBSET Pid, S \in SUBSET Pid :
        /\ known = scan \cup {q \in Pid : prev[q] # "none"}
        /\ S \subseteq known
        /\ \A q \in known : q \in scan \/ prev[q] # "other" => (q \in S <=> q \in UserPids)
        /\ Reserve(S, Kept(known, affinity_original))
        /\ prev' = [q \in Pid |-> IF q \in scan THEN "same" ELSE prev[q]]
        /\ mask_lost' = mask_lost \cup MaskForgotten(known)
  BY EnableWalk
<1> DEFINE o == Kept(known, affinity_original)[p]
<1>1. /\ Reserves(proc[p], o, proc'[p], affinity_original'[p])
      /\ p \in S => Reserved(o, proc'[p], affinity_original'[p])
      /\ proc'[p].kind = proc[p].kind /\ proc'[p].mine = proc[p].mine
      /\ proc'[p].eco = proc[p].eco
  BY <1>0, KeptType, ReserveOwn
<1>2. /\ UNCHANGED <<lives, phase, seen, hot, fresh, crashed, starts, up, fg, qos_eco, heirs,
                     eco_lost>>
      /\ up /\ phase = "idle" /\ fresh = {}
      /\ prev'[p] = IF p \in scan THEN "same" ELSE prev[p]
      /\ p \in scan => Alive(p)
      /\ ~enforce => qos_eco[p] = "unset"
      /\ p \in mask_lost => p \in mask_lost'
  BY <1>0 DEF EnableEnforcement, tick, history, Daemon, Live
<1>3. /\ o = affinity_original[p] \/ o = NoMask
      /\ p \notin mask_lost' /\ Alive(p) => o = affinity_original[p]
      /\ prev'[p] = "same" /\ proc[p].kind = "user" => p \in S
  <2>1. o = IF p \in known THEN affinity_original[p] ELSE NoMask
    BY DEF Kept
  <2>2. p \notin mask_lost' /\ Alive(p) /\ p \notin known => affinity_original[p] = NoMask
    BY <1>0 DEF MaskForgotten, Live
  <2>3. prev'[p] = "same" /\ proc[p].kind = "user" => p \in S
    BY <1>0, <1>2 DEF UserPids
  <2> HIDE DEF o
  <2> QED BY <2>1, <2>2, <2>3
<1> HIDE DEF o
<1>4. Sampled(p)'
  <2>1. proc[p].kind = "none" => proc'[p] = proc[p]
    BY <1>1 DEF Reserves
  <2> QED BY <1>1, <1>2, <2>1 DEF Sampled, Alive
<1>5. Masked(p)'
  <2> SUFFICES ASSUME proc[p].kind # "none", p \notin heirs PROVE Masked(p)'
    BY <1>1, <1>2 DEF Masked, Alive
  <2>1. /\ affinity_original[p] # NoMask => /\ proc[p].kind \in {"user", "allowed"}
                                            /\ ~affinity_uses_os_core(proc[p].mask)
        /\ ~crashed /\ p \notin mask_lost =>
             proc[p].mine = IF affinity_original[p] = NoMask
                            THEN proc[p].mask ELSE affinity_original[p]
    BY DEF Masked, Alive, Accessible
  <2>2. /\ affinity_original'[p] # NoMask =>
             /\ proc'[p].kind \in {"user", "allowed"}
             /\ ~affinity_uses_os_core(proc'[p].mask)
        /\ proc[p].mine = (IF o = NoMask THEN proc[p].mask ELSE o) =>
             proc'[p].mine = IF affinity_original'[p] = NoMask
                             THEN proc'[p].mask ELSE affinity_original'[p]
    <3> DEFINE r2 == proc'[p]
               o2 == affinity_original'[p]
    <3>1. Reserves(proc[p], o, r2, o2)
      BY <1>1
    <3>2. o # NoMask => /\ proc[p].kind \in {"user", "allowed"}
                        /\ ~affinity_uses_os_core(proc[p].mask)
      BY <1>3, <2>1
    <3> HIDE DEF r2, o2
    <3>3. /\ o2 # NoMask => /\ r2.kind \in {"user", "allowed"}
                            /\ ~affinity_uses_os_core(r2.mask)
          /\ proc[p].mine = (IF o = NoMask THEN proc[p].mask ELSE o) =>
               r2.mine = IF o2 = NoMask THEN r2.mask ELSE o2
      BY <3>1, <3>2, MaskReserved
    <3> QED BY <3>3 DEF r2, o2
  <2>3. ~crashed /\ p \notin mask_lost' =>
          proc[p].mine = IF o = NoMask THEN proc[p].mask ELSE o
    BY <1>2, <1>3, <2>1 DEF Alive
  <2> QED BY <1>2, <2>2, <2>3 DEF Masked, Accessible
<1>6. Slowed(p)'
  BY <1>1, <1>2 DEF Slowed, Accessible
<1>7. OffCore(p)'
  <2> SUFFICES ASSUME user_affinity_mask # NoMask, proc[p].kind = "user", p \notin heirs,
                      prev'[p] = "same"
               PROVE  ~affinity_uses_os_core(proc'[p].mask)
    BY <1>1, <1>2 DEF OffCore
  <2>1. o # NoMask => ~affinity_uses_os_core(proc[p].mask)
    BY <1>3 DEF Masked, Alive
  <2> QED BY <1>1, <1>3, <2>1, SpareReserved
<1> QED BY <1>4, <1>5, <1>6, <1>7

(* Giving the affinity back. *)
LEMMA RestoredOwn ==
  ASSUME TypeOK, NEW p \in Pid
  PROVE  /\ Restored(p) \in Process
         /\ Restored(p).kind = proc[p].kind /\ Restored(p).mine = proc[p].mine
         /\ Restored(p).eco = proc[p].eco
         /\ ~Accessible(p) => Restored(p) = proc[p]
         /\ Restored(p).mask = IF affinity_original[p] # NoMask /\ Accessible(p)
                               THEN affinity_original[p] ELSE proc[p].mask
<1>1. proc[p] \in Process /\ affinity_original[p] \in Mask \cup {NoMask}
  BY DEF TypeOK
<1> QED BY <1>1, MaskEffect DEF Restored

LEMMA DisableOwn ==
  ASSUME TypeOK, Daemon, NEW p \in Pid, Own(p), DisableEnforcement PROVE Own(p)'
<1> USE DEF Own
<1>1. /\ UNCHANGED <<lives, phase, seen, hot, fresh, crashed, starts, up, fg, prev, heirs,
                     eco_lost, mask_lost>>
      /\ up /\ ~enforce' /\ phase = "idle" /\ fresh = {}
      /\ qos_eco'[p] = "unset" /\ affinity_original'[p] = NoMask
      /\ proc'[p] = IF qos_eco[p] = "eco" /\ Accessible(p)
                    THEN SetEco(Restored(p), FALSE) ELSE Restored(p)
  BY DEF DisableEnforcement, tick, history, lost, Daemon, AllPids
<1>2. /\ proc'[p].kind = proc[p].kind /\ proc'[p].mine = proc[p].mine
      /\ proc'[p].mask = Restored(p).mask
      /\ proc'[p].eco = IF qos_eco[p] = "eco" /\ Accessible(p) THEN FALSE ELSE proc[p].eco
      /\ ~Accessible(p) => proc'[p] = proc[p]
  <2>1. CASE qos_eco[p] = "eco" /\ Accessible(p)
    <3>1. /\ proc'[p] = SetEco(Restored(p), FALSE) /\ Restored(p) \in Process
          /\ FALSE \in BOOLEAN
      BY <1>1, <2>1, RestoredOwn
    <3>2. /\ proc'[p].kind = Restored(p).kind /\ proc'[p].mine = Restored(p).mine
          /\ proc'[p].mask = Restored(p).mask /\ proc'[p].eco = FALSE
      BY <3>1, EcoEffect
    <3> QED BY <2>1, <3>2, RestoredOwn
  <2>2. CASE ~(qos_eco[p] = "eco" /\ Accessible(p))
    BY <1>1, <2>2, RestoredOwn
  <2> QED BY <2>1, <2>2
<1>3. Sampled(p)'
  BY <1>1, <1>2 DEF Sampled, Alive, Accessible
<1>4. Masked(p)'
  BY <1>1, <1>2, RestoredOwn DEF Masked, Alive, Accessible
<1>5. Slowed(p)'
  BY <1>1, <1>2 DEF Slowed, Accessible
<1>6. OffCore(p)'
  BY <1>1 DEF OffCore
<1> QED BY <1>3, <1>4, <1>5, <1>6

LEMMA ShutdownOwn ==
  ASSUME TypeOK, Daemon, NEW p \in Pid, Own(p), Shutdown PROVE Own(p)'
<1> USE DEF Own
<1>1. /\ UNCHANGED <<lives, phase, seen, hot, fresh, crashed, starts, fg, heirs, eco_lost,
                     mask_lost>>
      /\ ~up' /\ up /\ phase = "idle" /\ fresh = {} /\ starts # 0
      /\ qos_eco'[p] = "unset" /\ affinity_original'[p] = NoMask /\ prev'[p] = "none"
      /\ proc'[p] = Restored(p)
  BY DEF Shutdown, tick, history, lost, Daemon, AllPids
<1>2. /\ proc'[p].kind = proc[p].kind /\ proc'[p].mine = proc[p].mine
      /\ proc'[p].mask = Restored(p).mask
      /\ ~Accessible(p) => proc'[p] = proc[p]
  BY <1>1, RestoredOwn
<1>3. Sampled(p)'
  BY <1>1, <1>2 DEF Sampled, Alive, Accessible
<1>4. Masked(p)'
  BY <1>1, <1>2, RestoredOwn DEF Masked, Alive, Accessible
<1>5. Slowed(p)' /\ OffCore(p)'
  BY <1>1 DEF Slowed, OffCore
<1> QED BY <1>3, <1>4, <1>5

LEMMA CrashOwn ==
  ASSUME TypeOK, Daemon, NEW p \in Pid, Own(p), Crash PROVE Own(p)'
<1> USE DEF Own
<1>1. /\ UNCHANGED <<proc, lives, starts, fg, heirs, eco_lost, mask_lost>>
      /\ ~up' /\ crashed' /\ phase' = "idle" /\ fresh' = {} /\ starts # 0
      /\ seen'[p] = "none" /\ prev'[p] = "none"
      /\ qos_eco'[p] = "unset" /\ affinity_original'[p] = NoMask
  BY DEF Crash, os, lost, Daemon, AllPids
<1>2. Sampled(p)'
  BY <1>1 DEF Sampled, Alive
<1>3. Masked(p)' /\ Slowed(p)' /\ OffCore(p)'
  BY <1>1 DEF Masked, Slowed, OffCore
<1> QED BY <1>2, <1>3

LEMMA FocusOwn ==
  ASSUME TypeOK, Daemon, NEW p \in Pid, Own(p), NEW f \in Pid \cup {Elsewhere}, Focus(f)
  PROVE  Own(p)'
<1> USE DEF Own
<1>1. /\ UNCHANGED <<lives, up, enforce, phase, seen, hot, fresh, prev, starts, crashed, heirs,
                     eco_lost, mask_lost>>
      /\ up /\ phase = "idle" /\ fresh = {} /\ fg' = f
      /\ proc[p] \in Process
  BY DEF Focus, tick, history, lost, Daemon, TypeOK
<1>2. CASE ~enforce
  <2>1. UNCHANGED <<proc, qos_eco, affinity_original>>
    BY <1>2 DEF Focus
  <2> QED BY <1>1, <1>2, <2>1 DEF Sampled, Masked, Slowed, OffCore, Alive, Accessible
<1>3. CASE enforce
  <2> DEFINE R  == Restricts({f} \cap UserPids, affinity_original)
             r2 == IF p \in R THEN SetMask(proc[p], user_affinity_mask) ELSE proc[p]
  <2>1. /\ Reserves(proc[p], affinity_original[p], r2, Recorded(R, affinity_original)[p])
        /\ r2.kind = proc[p].kind /\ r2.mine = proc[p].mine /\ r2.eco = proc[p].eco
        /\ r2 \in Process /\ (p \in R => p = f)
    <3>1. affinity_original \in [Pid -> Mask \cup {NoMask}] /\ {f} \cap UserPids \in SUBSET Pid
      BY DEF TypeOK, UserPids
    <3>2. r2 \in Process /\ (p \in R => p = f)
      BY <1>1, MaskEffect, ReserveMask DEF Restricts
    <3> QED BY <3>1, <3>2, Walk
  <2>2. /\ affinity_original'[p] = Recorded(R, affinity_original)[p]
        /\ proc'[p] = CASE p = f /\ Accessible(f) -> SetEco(r2, FALSE)
                        [] SlowsDown(p, f)        -> SetEco(proc[p], TRUE)
                        [] OTHER                  -> proc[p]
        /\ qos_eco'[p] = CASE p = f /\ Accessible(f) -> "high"
                           [] SlowsDown(p, f)        -> "eco"
                           [] OTHER                  -> qos_eco[p]
    BY <1>3 DEF Focus
  <2>3. /\ p \in R => Accessible(f)
        /\ p \notin R => r2 = proc[p]
        /\ SetEco(r2, FALSE).kind = r2.kind /\ SetEco(r2, FALSE).mine = r2.mine
        /\ SetEco(r2, FALSE).mask = r2.mask /\ SetEco(r2, FALSE).eco = FALSE
        /\ SetEco(proc[p], TRUE).kind = proc[p].kind /\ SetEco(proc[p], TRUE).mine = proc[p].mine
        /\ SetEco(proc[p], TRUE).mask = proc[p].mask
    BY <1>1, <2>1, EcoEffect DEF Restricts
  <2> HIDE DEF R, r2
  <2>4. /\ proc'[p].kind = proc[p].kind /\ proc'[p].mine = proc[p].mine
        /\ proc'[p].mask = r2.mask
    BY <2>1, <2>2, <2>3 DEF SlowsDown
  <2>5. proc'[p].kind = "none" =>
          proc'[p] = proc[p] /\ affinity_original'[p] = affinity_original[p]
                             /\ qos_eco'[p] = qos_eco[p]
    BY <2>1, <2>2, <2>3, <2>4 DEF SlowsDown, Accessible, Reserves
  <2>6. Sampled(p)'
    BY <1>1, <2>4, <2>5 DEF Sampled, Alive
  <2>7. Masked(p)'
    <3> SUFFICES ASSUME proc[p].kind # "none", p \notin heirs PROVE Masked(p)'
      BY <1>1, <2>4 DEF Masked, Alive
    <3>1. /\ affinity_original[p] # NoMask => /\ proc[p].kind \in {"user", "allowed"}
                                              /\ ~affinity_uses_os_core(proc[p].mask)
          /\ ~crashed /\ p \notin mask_lost =>
               proc[p].mine = IF affinity_original[p] = NoMask
                              THEN proc[p].mask ELSE affinity_original[p]
      BY DEF Masked, Alive, Accessible
    <3>2. /\ affinity_original'[p] # NoMask =>
               /\ r2.kind \in {"user", "allowed"}
               /\ ~affinity_uses_os_core(r2.mask)
          /\ ~crashed /\ p \notin mask_lost =>
               r2.mine = IF affinity_original'[p] = NoMask
                         THEN r2.mask ELSE affinity_original'[p]
      <4>1. Reserves(proc[p], affinity_original[p], r2, affinity_original'[p])
        BY <2>1, <2>2
      <4>2. /\ affinity_original'[p] # NoMask =>
                 /\ r2.kind \in {"user", "allowed"}
                 /\ ~affinity_uses_os_core(r2.mask)
            /\ proc[p].mine = (IF affinity_original[p] = NoMask
                               THEN proc[p].mask ELSE affinity_original[p]) =>
               r2.mine = IF affinity_original'[p] = NoMask
                         THEN r2.mask ELSE affinity_original'[p]
        BY <3>1, <4>1, MaskReserved
      <4> QED BY <3>1, <4>2
    <3> QED BY <1>1, <2>1, <2>4, <3>2 DEF Masked, Accessible
  <2>8. Slowed(p)'
    BY <1>1, <1>3, <2>1, <2>2, <2>3, <2>4 DEF Slowed, SlowsDown, Accessible, Daemon
  <2>9. OffCore(p)'
    BY <1>1, <1>3, <2>1, <2>4, SpareReserved DEF OffCore
  <2> QED BY <2>6, <2>7, <2>8, <2>9
<1> QED BY <1>2, <1>3

LEMMA SnapshotOwn ==
  ASSUME TypeOK, Daemon, NEW p \in Pid, Own(p), TickSnapshot PROVE Own(p)'
<1> USE DEF Own
<1>1. /\ UNCHANGED <<proc, lives, up, enforce, fg, qos_eco, affinity_original, prev,
                     starts, crashed, heirs, eco_lost, mask_lost>>
      /\ phase = "idle" /\ phase' = "qos" /\ fresh = {}
      /\ seen'[p] = IF p \in fresh' THEN proc[p].kind ELSE "none"
      /\ p \in fresh' => Alive(p)
  BY DEF TickSnapshot, os, history, lost, Live, Daemon
<1>2. Sampled(p)'
  BY <1>1 DEF Sampled, Alive
<1>3. Masked(p)' /\ Slowed(p)'
  BY <1>1 DEF Masked, Slowed, Alive, Accessible
<1>4. OffCore(p)'
  BY <1>1 DEF OffCore
<1> QED BY <1>2, <1>3, <1>4

LEMMA QosOwn ==
  ASSUME TypeOK, Daemon, NEW p \in Pid, Own(p), TickQos PROVE Own(p)'
<1> USE DEF Own
<1>1. /\ UNCHANGED <<lives, up, enforce, fg, affinity_original, prev, seen, fresh,
                     starts, crashed, heirs, mask_lost>>
      /\ phase = "qos" /\ phase' = "reserve" /\ up /\ enforce /\ starts # 0
      /\ proc[p] \in Process
      /\ qos_eco[p] \in {"unset", "eco", "high"}
  BY DEF TickQos, history, Daemon, TypeOK
<1>2. /\ qos_eco'[p] = IF seen[p] = "none" THEN "unset"
                       ELSE IF SpedUp(p) THEN "high"
                       ELSE IF SlowedDown(p) THEN "eco" ELSE qos_eco[p]
      /\ proc'[p] = IF seen[p] = "none" THEN proc[p]
                    ELSE IF SpedUp(p) THEN SetEco(proc[p], FALSE)
                    ELSE IF SlowedDown(p) THEN SetEco(proc[p], TRUE) ELSE proc[p]
      /\ p \in eco_lost' <=>
           seen[p] = "none" /\ (p \in eco_lost \/ (Alive(p) /\ qos_eco[p] = "eco"))
  BY DEF TickQos, Seen, Live
<1>3. /\ proc'[p].kind = proc[p].kind /\ proc'[p].mine = proc[p].mine
      /\ proc'[p].mask = proc[p].mask
      /\ proc'[p].eco = IF seen[p] = "none" THEN proc[p].eco
                        ELSE IF SpedUp(p) THEN FALSE
                        ELSE IF SlowedDown(p) THEN TRUE ELSE proc[p].eco
      /\ ~Accessible(p) => proc'[p] = proc[p]
  BY <1>1, <1>2, EcoEffect DEF SpedUp, SlowedDown
<1>4. Sampled(p)'
  BY <1>1, <1>2, <1>3 DEF Sampled, Alive, Accessible
<1>5. Masked(p)'
  BY <1>1, <1>3 DEF Masked, Alive, Accessible
<1>6. Slowed(p)'
  <2>1. p \notin heirs /\ Alive(p) /\ seen[p] # "none" => seen[p] = proc[p].kind
    BY DEF Sampled
  <2>2. starts = 1 /\ p \notin heirs /\ proc'[p].eco =>
          /\ proc[p].kind = "user" /\ EnableEco
          /\ IF p \in eco_lost' THEN qos_eco'[p] # "high" ELSE qos_eco'[p] = "eco"
    <3> SUFFICES ASSUME starts = 1, p \notin heirs, proc'[p].eco
                 PROVE  /\ proc[p].kind = "user" /\ EnableEco
                        /\ IF p \in eco_lost' THEN qos_eco'[p] # "high" ELSE qos_eco'[p] = "eco"
      OBVIOUS
    <3>1. CASE seen[p] = "none"
      <4>1. proc[p].eco
        BY <1>3, <3>1
      <4>2. proc[p].kind = "user" /\ EnableEco /\ (p \in eco_lost \/ qos_eco[p] = "eco")
        BY <1>1, <4>1 DEF Slowed
      <4>3. p \in eco_lost' /\ qos_eco'[p] = "unset"
        BY <1>2, <3>1, <4>2 DEF Alive
      <4> QED BY <4>2, <4>3
    <3>2. CASE seen[p] # "none" /\ SpedUp(p)
      BY <1>3, <3>2
    <3>3. CASE seen[p] # "none" /\ ~SpedUp(p) /\ SlowedDown(p)
      <4>1. proc[p].kind = "user" /\ EnableEco
        BY <2>1, <3>3 DEF SlowedDown, Accessible, Alive, Protected
      <4> QED BY <1>2, <3>3, <4>1
    <3>4. CASE seen[p] # "none" /\ ~SpedUp(p) /\ ~SlowedDown(p)
      <4>1. proc[p].eco /\ qos_eco'[p] = qos_eco[p] /\ p \notin eco_lost'
        BY <1>2, <1>3, <3>4
      <4>2. proc[p].kind = "user" /\ EnableEco /\ qos_eco[p] # "high"
        BY <1>1, <4>1 DEF Slowed
      <4>3. qos_eco[p] = "eco"
        BY <2>1, <3>4, <4>2 DEF SpedUp, SlowedDown, Protected, Accessible, Alive
      <4> QED BY <4>1, <4>2, <4>3
    <3> QED BY <3>1, <3>2, <3>3, <3>4
  <2>3. EnableEco /\ Accessible(p) /\ seen[p] # "none" /\ ~Protected(p, seen[p]) =>
          qos_eco'[p] = "eco"
    BY <1>2 DEF SpedUp, SlowedDown, Protected
  <2>4. starts = 1 /\ fg = p /\ p \notin heirs \cup eco_lost' => ~proc'[p].eco
    <3> SUFFICES ASSUME starts = 1, fg = p, p \notin heirs, p \notin eco_lost', proc'[p].eco
                 PROVE  FALSE
      OBVIOUS
    <3>1. qos_eco'[p] = "eco" /\ proc[p].kind = "user"
      BY <2>2
    <3>2. seen[p] # "none" /\ ~SpedUp(p) /\ ~SlowedDown(p) /\ qos_eco[p] = "eco"
      BY <1>2, <1>3, <3>1 DEF SlowedDown, Protected
    <3> QED BY <3>1, <3>2 DEF SpedUp, Accessible
  <2> QED BY <1>1, <1>3, <2>2, <2>3, <2>4 DEF Slowed, Protected, Accessible
<1>7. OffCore(p)'
  BY <1>1, <1>3 DEF OffCore
<1> QED BY <1>4, <1>5, <1>6, <1>7

LEMMA WalkOwn ==
  ASSUME TypeOK, Daemon, NEW p \in Pid, Own(p), TickReserve PROVE Own(p)'
<1> USE DEF Own
<1> DEFINE S  == {q \in Seen : seen[q] # "allowed"}
           o  == Kept(Seen, affinity_original)[p]
           r2 == proc'[p]
           o2 == affinity_original'[p]
<1>1. /\ UNCHANGED <<lives, up, enforce, fg, qos_eco, prev, seen, fresh, starts, crashed, heirs,
                     eco_lost>>
      /\ phase = "reserve" /\ phase' = "hogs" /\ up /\ enforce
      /\ mask_lost' = mask_lost \cup MaskForgotten(Seen)
  BY DEF TickReserve, history, Daemon
<1>2. /\ Seen \in SUBSET Pid /\ S \in SUBSET Pid
      /\ o = IF seen[p] # "none" THEN affinity_original[p] ELSE NoMask
      /\ seen[p] \notin {"none", "allowed"} => p \in S
      /\ p \notin mask_lost' /\ Alive(p) => o = affinity_original[p]
  BY <1>1 DEF Seen, Kept, MaskForgotten, Live
<1>3. /\ Reserves(proc[p], o, r2, o2)
      /\ p \in S => Reserved(o, r2, o2)
      /\ r2.kind = proc[p].kind /\ r2.mine = proc[p].mine /\ r2.eco = proc[p].eco
  BY <1>2, KeptType, ReserveOwn DEF TickReserve
<1> HIDE DEF S, o
<1>5. proc[p].kind = "none" => proc'[p] = proc[p]
  BY <1>3 DEF Reserves
<1>6. Sampled(p)'
  BY <1>1, <1>3, <1>5 DEF Sampled, Alive
<1>7. Masked(p)'
  <2> SUFFICES ASSUME proc[p].kind # "none", p \notin heirs PROVE Masked(p)'
    BY <1>1, <1>3 DEF Masked, Alive
  <2>2. /\ affinity_original[p] # NoMask => /\ proc[p].kind \in {"user", "allowed"}
                                            /\ ~affinity_uses_os_core(proc[p].mask)
        /\ ~crashed /\ p \notin mask_lost =>
             proc[p].mine = IF affinity_original[p] = NoMask
                            THEN proc[p].mask ELSE affinity_original[p]
    BY DEF Masked, Alive, Accessible
  <2>3. /\ o2 # NoMask => /\ r2.kind \in {"user", "allowed"}
                          /\ ~affinity_uses_os_core(r2.mask)
        /\ proc[p].mine = (IF o = NoMask THEN proc[p].mask ELSE o) =>
             r2.mine = IF o2 = NoMask THEN r2.mask ELSE o2
    <3>1. o # NoMask => /\ proc[p].kind \in {"user", "allowed"}
                        /\ ~affinity_uses_os_core(proc[p].mask)
      BY <1>2, <2>2
    <3>2. Reserves(proc[p], o, r2, o2)
      BY <1>3
    <3> HIDE DEF r2, o2
    <3> QED BY <3>1, <3>2, MaskReserved
  <2>4. ~crashed /\ p \notin mask_lost' =>
          proc[p].mine = IF o = NoMask THEN proc[p].mask ELSE o
    BY <1>1, <1>2, <2>2 DEF Alive
  <2> QED BY <1>1, <2>3, <2>4 DEF Masked, Accessible
<1>8. Slowed(p)'
  BY <1>1, <1>3 DEF Slowed, Protected, Accessible
<1>9. OffCore(p)'
  <2> SUFFICES ASSUME user_affinity_mask # NoMask, proc[p].kind = "user", p \notin heirs,
                      prev[p] = "same" \/ p \in fresh
               PROVE  ~affinity_uses_os_core(r2.mask)
    BY <1>1, <1>3 DEF OffCore
  <2>0. o # NoMask => ~affinity_uses_os_core(proc[p].mask)
    BY <1>2 DEF Masked, Alive
  <2>1. CASE prev[p] = "same"
    BY <1>1, <1>3, <2>0, <2>1, SpareReserved DEF OffCore
  <2>2. CASE p \in fresh
    <3>1. p \in S
      BY <1>2, <2>2 DEF Sampled
    <3> QED BY <1>3, <2>0, <3>1, SpareReserved
  <2> QED BY <2>1, <2>2
<1> QED BY <1>6, <1>7, <1>8, <1>9

LEMMA AnalyseOwn ==
  ASSUME TypeOK, Daemon, NEW p \in Pid, Own(p), TickAnalyse PROVE Own(p)'
<1> USE DEF Own
<1> DEFINE fires == \E s \in Symptom : Fires(s, p)
           changed == fires /\ Accessible(p)
<1>1. /\ UNCHANGED <<lives, up, enforce, fg, qos_eco, affinity_original, starts, crashed,
                     heirs, eco_lost, mask_lost>>
      /\ phase = "hogs" /\ phase' = "idle" /\ up /\ enforce /\ fresh' = {}
      /\ seen'[p] = "none"
      /\ prev'[p] = IF p \in fresh THEN "same" ELSE IF p \in Seen THEN "other" ELSE "none"
      /\ proc[p] \in Process
  BY DEF TickAnalyse, history, lost, Daemon, TypeOK, AllPids
<1>2. fires => seen[p] # "none" /\ ~Protected(p, seen[p])
  BY DEF Fires, Seen
<1>3. /\ ~changed => proc'[p] = proc[p]
      /\ changed => \/ proc'[p] = SetLow(IF EnableEco THEN SetEco(proc[p], TRUE) ELSE proc[p])
                    \/ proc'[p] = IF EnableEco THEN SetEco(proc[p], TRUE) ELSE proc[p]
  BY DEF TickAnalyse
<1>4. SetEco(proc[p], TRUE) \in Process
  BY <1>1, EcoEffect
<1> HIDE DEF fires
<1>5. /\ proc'[p].kind = proc[p].kind /\ proc'[p].mine = proc[p].mine
      /\ proc'[p].mask = proc[p].mask
      /\ ~changed \/ ~EnableEco => proc'[p].eco = proc[p].eco
      /\ proc[p].kind = "none" => proc'[p] = proc[p]
  <2>1. CASE ~changed
    BY <1>3, <2>1
  <2>2. CASE changed /\ EnableEco
    <3> DEFINE e == SetEco(proc[p], TRUE)
    <3>1. proc'[p] = SetLow(e) \/ proc'[p] = e
      BY <1>3, <2>2
    <3>2. e.kind = proc[p].kind /\ e.mine = proc[p].mine /\ e.mask = proc[p].mask
      BY <1>1, EcoEffect
    <3>3. /\ SetLow(e).kind = e.kind /\ SetLow(e).mine = e.mine
          /\ SetLow(e).mask = e.mask
      BY <1>4, LowEffect
    <3>4. proc[p].kind # "none"
      BY <2>2 DEF Accessible
    <3> HIDE DEF e
    <3> QED BY <2>2, <3>1, <3>2, <3>3, <3>4
  <2>3. CASE changed /\ ~EnableEco
    BY <1>1, <1>3, <2>3, LowEffect DEF Accessible
  <2> QED BY <2>1, <2>2, <2>3
<1>6. Sampled(p)'
  BY <1>1, <1>5 DEF Sampled, Alive, Seen
<1>7. Masked(p)'
  BY <1>1, <1>5 DEF Masked, Alive, Accessible
<1>8. Slowed(p)'
  <2>1. starts # 0
    BY <1>1 DEF Daemon
  <2>2. CASE changed /\ EnableEco
    <3>1. p \notin heirs => qos_eco[p] = "eco" /\ proc[p].kind = "user"
      BY <1>1, <1>2, <2>2 DEF Slowed, Sampled, Protected, Accessible, Alive
    <3>2. fg # p
      BY <1>2, <2>2 DEF Protected
    <3> QED BY <1>1, <1>5, <2>1, <2>2, <3>1, <3>2 DEF Slowed, Accessible
  <2>3. CASE ~(changed /\ EnableEco)
    BY <1>1, <1>5, <2>1, <2>3 DEF Slowed, Accessible
  <2> QED BY <2>2, <2>3
<1>9. OffCore(p)'
  BY <1>1, <1>5 DEF OffCore
<1> QED BY <1>6, <1>7, <1>8, <1>9

LEMMA BirthOwn ==
  ASSUME TypeOK, Daemon, NEW p \in Pid, Own(p), NEW b \in Pid, Birth(b) PROVE Own(p)'
<1> USE DEF Own
<1>1. UNCHANGED <<up, enforce, fg, qos_eco, affinity_original, prev, phase, seen, fresh,
                  starts, crashed>>
  BY DEF Birth, maps, tick
<1>2. CASE p # b
  <2>1. /\ proc'[p] = proc[p] /\ (p \in heirs' <=> p \in heirs)
        /\ p \in eco_lost' <=> p \in eco_lost
        /\ p \in mask_lost' <=> p \in mask_lost
    BY <1>2 DEF Birth, TypeOK
  <2> QED BY <1>1, <2>1 DEF Sampled, Masked, Slowed, OffCore, Alive, Accessible, Protected
<1>3. CASE p = b
  <2>1. PICK k \in BirthKinds, m \in BirthMasks : proc'[p] = NewProcess(k, m)
    BY <1>3 DEF Birth, TypeOK
  <2>2. /\ proc'[p].kind # "none" /\ proc'[p].mine = proc'[p].mask /\ ~proc'[p].eco
        /\ ~Alive(p) /\ (p \in heirs' <=> Traces(p))
    BY <1>3, <2>1, GuardianAssumption DEF Birth, NewProcess, Nothing, TypeOK
  <2>3. /\ prev[p] # "same" /\ p \notin fresh
        /\ p \notin heirs' => /\ affinity_original[p] = NoMask
                              /\ qos_eco[p] = "unset" /\ seen[p] = "none"
    BY <1>1, <2>2 DEF Sampled, Traces
  <2>4. Sampled(p)' /\ Masked(p)'
    BY <1>1, <2>2, <2>3 DEF Sampled, Masked, Alive, Accessible
  <2>5. Slowed(p)' /\ OffCore(p)'
    BY <1>1, <2>2, <2>3 DEF Slowed, OffCore
  <2> QED BY <2>4, <2>5
<1> QED BY <1>2, <1>3

LEMMA DeathOwn ==
  ASSUME TypeOK, Daemon, NEW p \in Pid, Own(p), NEW d \in Pid, Death(d) PROVE Own(p)'
<1> USE DEF Own
<1>1. /\ UNCHANGED <<lives, up, enforce, fg, qos_eco, affinity_original, phase, seen,
                     starts, crashed, heirs, eco_lost, mask_lost>>
      /\ fresh' = fresh \ {d}
  BY DEF Death, history, lost
<1>2. CASE p # d
  <2>1. proc'[p] = proc[p] /\ prev'[p] = prev[p]
    BY <1>2 DEF Death, TypeOK
  <2> QED BY <1>1, <1>2, <2>1
          DEF Sampled, Masked, Slowed, OffCore, Alive, Accessible, Protected
<1>3. CASE p = d
  <2>1. /\ proc'[p] = Nothing /\ prev'[p] # "same" /\ Alive(p)
    BY <1>3 DEF Death, TypeOK
  <2>2. Nothing.kind = "none" /\ Nothing.mask = NoMask /\ ~Nothing.eco
    BY DEF Nothing
  <2> QED BY <1>1, <1>3, <2>1, <2>2
          DEF Sampled, Masked, Slowed, OffCore, Alive, Accessible, Protected
<1> QED BY <1>2, <1>3

----------------------------------------------------------------------------
(* The theorems. *)

(* Every reachable state satisfies the inductive invariant. *)
THEOREM GuardianInvariance == Spec => []IInv
<1>1. Init => IInv
  <2> SUFFICES ASSUME Init PROVE IInv
    OBVIOUS
  <2>1. TypeOK
    <3>1. /\ up \in BOOLEAN /\ enforce \in BOOLEAN /\ crashed \in BOOLEAN
      BY Zenon DEF Init
    <3>2. proc \in [Pid -> Process]
      BY NothingType DEF Init, AllPids
    <3>3. /\ lives \in [Pid -> 0..MaxLives] /\ fg \in Pid \cup {NoPid, Elsewhere}
          /\ qos_eco \in [Pid -> {"unset", "eco", "high"}]
          /\ affinity_original \in [Pid -> Mask \cup {NoMask}]
          /\ prev \in [Pid -> {"none", "same", "other"}]
          /\ seen \in [Pid -> Kind] /\ starts \in 0..MaxStarts
      BY GuardianAssumption DEF Init, AllPids, Kind
    <3>4. /\ ticks \in [Symptom -> [Pid -> 0..(Sustain - 1)]]
          /\ heat \in [Symptom -> [Pid -> 0..Sustain]]
          /\ hot \in [Symptom -> SUBSET Pid]
      BY SustainType DEF Init, NoTicks, AllPids
    <3> QED BY <3>1, <3>2, <3>3, <3>4 DEF Init, TypeOK
  <2>2. Daemon
    BY DEF Init, Daemon, AllPids
  <2>3. ASSUME NEW p \in Pid PROVE Own(p)
    <3>1. /\ proc[p] = Nothing /\ lives[p] = 0 /\ affinity_original[p] = NoMask
          /\ qos_eco[p] = "unset" /\ prev[p] = "none" /\ seen[p] = "none"
          /\ phase = "idle" /\ fresh = {} /\ ~up /\ Nothing.kind = "none" /\ ~Nothing.eco
      BY DEF Init, AllPids, Nothing
    <3> QED BY <3>1 DEF Own, Sampled, Masked, Slowed, OffCore, Alive
  <2> QED BY <2>1, <2>2, <2>3 DEF IInv
<1>2. IInv /\ [Next]_vars => IInv'
  <2> SUFFICES ASSUME IInv, [Next]_vars PROVE IInv'
    OBVIOUS
  <2>1. TypeOK' /\ Daemon'
    BY TypeStep, DaemonStep DEF IInv
  <2>2. ASSUME NEW p \in Pid PROVE Own(p)'
    <3>1. TypeOK /\ Daemon /\ Own(p)
      BY DEF IInv
    <3>2. CASE UNCHANGED vars
      BY <3>1, <3>2 DEF vars, os, maps, tick, history, lost, Own, Sampled, Masked, Slowed, OffCore,
                        Alive, Accessible, Protected
    <3> QED BY <3>1, <3>2, StartOwn, EnableOwn, DisableOwn, ShutdownOwn, CrashOwn, FocusOwn,
               SnapshotOwn, QosOwn, WalkOwn, AnalyseOwn, BirthOwn, DeathOwn DEF Next
  <2> QED BY <2>1, <2>2 DEF IInv
<1> QED BY <1>1, <1>2, PTL DEF Spec

(* Every variable keeps its type. *)
THEOREM GuardianTypeCorrect == Spec => []TypeOK
BY GuardianInvariance, PTL DEF IInv

(* A pause of the first instance undoes EcoQoS and affinity, but for what a *)
(* missed sample made the daemon forget.                                    *)
THEOREM PauseGivesBack == Spec => []PauseUndoes
<1>1. IInv => PauseUndoes
  <2> SUFFICES ASSUME IInv, up, ~enforce, starts = 1, NEW p \in Pid, p \notin heirs
               PROVE  /\ p \notin eco_lost => ~proc[p].eco
                      /\ p \notin mask_lost => proc[p].mask = proc[p].mine
    BY DEF PauseUndoes
  <2>1. Sampled(p) /\ Masked(p) /\ Slowed(p)
    BY DEF IInv, Own
  <2>2. affinity_original[p] = NoMask /\ qos_eco[p] = "unset" /\ ~crashed
    BY DEF IInv, Daemon
  <2>3. Nothing.mask = Nothing.mine
    BY DEF Nothing
  <2> QED BY <2>1, <2>2, <2>3 DEF Sampled, Masked, Slowed
<1> QED BY <1>1, GuardianInvariance, PTL

(* A clean stop gives each process its affinity back, if no sample missed   *)
(* it while its affinity was on record.                                     *)
THEOREM StopRestoresAffinity == Spec => []StopGivesAffinityBack
<1>1. IInv => StopGivesAffinityBack
  <2> SUFFICES ASSUME IInv, ~up, ~crashed, NEW p \in Pid, p \notin heirs, p \notin mask_lost
               PROVE  proc[p].mask = proc[p].mine
    BY DEF StopGivesAffinityBack
  <2>1. Sampled(p) /\ Masked(p)
    BY DEF IInv, Own
  <2>2. affinity_original[p] = NoMask
    BY DEF IInv, Daemon
  <2>3. Nothing.mask = Nothing.mine
    BY DEF Nothing
  <2> QED BY <2>1, <2>2, <2>3 DEF Sampled, Masked
<1> QED BY <1>1, GuardianInvariance, PTL

(* The first core stays free of programs outside the allowlist.             *)
THEOREM ReserveIsHeld == Spec => []ReserveHeld
<1>1. IInv => ReserveHeld
  BY DEF IInv, Own, OffCore, ReserveHeld
<1> QED BY <1>1, GuardianInvariance, PTL

(* The foreground process has no EcoQoS while the first instance governs.   *)
THEOREM ForegroundStaysFast == Spec => []ForegroundFast
<1>1. IInv => ForegroundFast
  BY DEF IInv, Own, Slowed, ForegroundFast
<1> QED BY <1>1, GuardianInvariance, PTL

----------------------------------------------------------------------------
(* Demotion: what m_cpu_hog_ticks and m_mem_leak_ticks count.  The counters *)
(* follow a PID, the histories in heat a process; where no process found    *)
(* the traces of another they agree between two ticks, as long as the       *)
(* process is not demoted.  The counters of one that fires begin anew.      *)

(* The count of a symptom goes up in the tick under way.                    *)
Rises(s, p) == p \in hot[s] /\ prev[p] = "same" /\ ~Protected(p, seen[p])

ToDemote(p) == EnableDemotion /\ ~proc[p].low

(* Between two ticks.                                                       *)
CountsAgree(p) ==
  \A s \in Symptom :
    /\ ticks[s][p] <= heat[s][p]
    /\ proc[p].kind = "user" => heat[s][p] <= ticks[s][p]

(* Within one, after the snapshot: heat is ahead.                           *)
HeatIsAhead(p) ==
  \A s \in Symptom :
    /\ Rises(s, p) => ticks[s][p] < heat[s][p]
    /\ proc[p].kind = "user" => heat[s][p] <= IF Rises(s, p) THEN ticks[s][p] + 1 ELSE 0

NotCounted(p) == \A s \in Symptom : ticks[s][p] = 0

Counting(p) ==
  /\ ~Alive(p) => \A s \in Symptom : heat[s][p] = 0
  /\ Alive(p) /\ p \notin heirs =>
       /\ prev[p] # "other"
       /\ prev[p] = "none" => NotCounted(p)
       /\ EnableDemotion /\ p \in throttled => proc[p].low
       /\ phase = "idle" /\ ToDemote(p) => CountsAgree(p)
       /\ phase # "idle" =>
            \/ p \in fresh /\ (ToDemote(p) => HeatIsAhead(p))
            \/ /\ p \notin fresh /\ seen[p] = "none"
               /\ NotCounted(p) /\ \A s \in Symptom : heat[s][p] = 0

AllCounting == \A p \in Pid : Counting(p)

LEMMA LowKept ==
  \A r \in Process, b \in BOOLEAN, m \in Mask \cup {NoMask} :
    SetEco(r, b).low = r.low /\ SetMask(r, m).low = r.low /\ SetLow(r).low = TRUE
BY DEF SetEco, SetMask, SetLow, Process

(* A snapshot, a walk of EcoQoS or affinity, a pause or a focus change      *)
(* leaves the kind and the priority of every process as they are.           *)
LEMMA PriorityKept ==
  ASSUME TypeOK, NEW p \in Pid,
         \/ Start \/ EnableEnforcement \/ DisableEnforcement \/ Shutdown \/ Crash
         \/ \E q \in Pid \cup {Elsewhere} : Focus(q)
         \/ TickSnapshot \/ TickQos \/ TickReserve
  PROVE  proc'[p].low = proc[p].low /\ proc'[p].kind = proc[p].kind
<1>1. proc[p] \in Process
  BY DEF TypeOK
<1> DEFINE Same(r) == r \in Process /\ r.low = proc[p].low /\ r.kind = proc[p].kind
<1>2. Same(proc[p]) /\ Same(SetMask(proc[p], user_affinity_mask))
  BY <1>1, MaskEffect, ReserveMask, LowKept
<1>3. \A b \in BOOLEAN : Same(SetEco(proc[p], b))
                       /\ Same(SetEco(SetMask(proc[p], user_affinity_mask), b))
  BY <1>1, <1>2, EcoEffect, LowKept
<1>4. Same(Restored(p)) /\ Same(SetEco(Restored(p), FALSE))
  <2>1. affinity_original[p] \in Mask \cup {NoMask}
    BY DEF TypeOK
  <2>2. Same(Restored(p))
    BY <1>1, <1>2, <2>1, MaskEffect, LowKept DEF Restored
  <2> QED BY <2>2, EcoEffect, LowKept
<1> HIDE DEF Same
<1>5. CASE Start \/ EnableEnforcement
  <2>1. PICK S, rec : Reserve(S, rec)
    BY <1>5, EnableWalk DEF Start
  <2>2. Same(proc'[p])
    BY <1>2, <2>1 DEF Reserve
  <2> QED BY <2>2 DEF Same
<1>6. CASE DisableEnforcement \/ Shutdown
  <2>1. Same(proc'[p])
    BY <1>4, <1>6 DEF DisableEnforcement, Shutdown
  <2> QED BY <2>1 DEF Same
<1>7. ASSUME NEW q \in Pid \cup {Elsewhere}, Focus(q) PROVE Same(proc'[p])
  <2>1. CASE ~enforce
    BY <1>2, <1>7, <2>1 DEF Focus
  <2>2. CASE enforce
    <3> DEFINE R == Restricts({q} \cap UserPids, affinity_original)
               masked(t) == IF t \in R THEN SetMask(proc[t], user_affinity_mask) ELSE proc[t]
    <3>1. proc' = [t \in Pid |->
                     CASE t = q /\ Accessible(q) -> SetEco(masked(t), FALSE)
                       [] SlowsDown(t, q) -> SetEco(proc[t], TRUE)
                       [] OTHER -> proc[t]]
      BY <1>7, <2>2 DEF Focus
    <3>2. Same(SetEco(masked(p), FALSE))
      BY <1>3
    <3> HIDE DEF masked
    <3>3. Same(CASE p = q /\ Accessible(q) -> SetEco(masked(p), FALSE)
                 [] SlowsDown(p, q) -> SetEco(proc[p], TRUE)
                 [] OTHER -> proc[p])
      BY <1>2, <1>3, <3>2
    <3> QED BY <3>1, <3>3
  <2> QED BY <2>1, <2>2
<1>8. CASE TickQos
  <2>1. Same(proc'[p])
    BY <1>2, <1>3, <1>8 DEF TickQos
  <2> QED BY <2>1 DEF Same
<1>9. CASE TickReserve
  <2>1. PICK S, rec : Reserve(S, rec)
    BY <1>9 DEF TickReserve
  <2>2. Same(proc'[p])
    BY <1>2, <2>1 DEF Reserve
  <2> QED BY <2>2 DEF Same
<1>10. CASE Crash \/ TickSnapshot
  BY <1>10 DEF Crash, TickSnapshot, os
<1> QED BY <1>5, <1>6, <1>7, <1>8, <1>9, <1>10 DEF Same

(* The life of a process: it counts from zero, and ends with it.            *)
LEMMA LifeCounts ==
  ASSUME TypeOK, Daemon, NEW p \in Pid, Own(p), Counting(p),
         NEW q \in Pid, Birth(q) \/ Death(q)
  PROVE  Counting(p)'
<1>1. UNCHANGED <<ticks, throttled, phase, seen, hot, fg>>
  BY DEF Birth, Death, maps, tick
<1>2. CASE p # q
  <2>1. /\ proc'[p] = proc[p] /\ prev'[p] = prev[p] /\ (p \in heirs' <=> p \in heirs)
        /\ \A s \in Symptom : heat'[s][p] = heat[s][p]
        /\ p \in fresh' <=> p \in fresh
    BY <1>2 DEF Birth, Death, maps, tick, history, TypeOK
  <2> QED BY <1>1, <2>1 DEF Counting, CountsAgree, HeatIsAhead, NotCounted, ToDemote, Rises,
                            Protected, Alive
<1>3. CASE p = q /\ Birth(p)
  <2>1. /\ UNCHANGED <<prev, heat, fresh>> /\ ~Alive(p) /\ Alive(p)'
        /\ p \in heirs' <=> Traces(p)
    <3>1. PICK k \in BirthKinds, m \in BirthMasks : proc' = [proc EXCEPT ![p] = NewProcess(k, m)]
      BY <1>3 DEF Birth
    <3>2. NewProcess(k, m).kind = k /\ k # "none" /\ proc'[p] = NewProcess(k, m)
      BY <3>1, GuardianAssumption DEF NewProcess, Nothing, TypeOK
    <3> QED BY <1>3, <3>2 DEF Birth, maps, tick, Alive
  <2>2. p \notin heirs' => /\ p \notin throttled /\ prev[p] = "none" /\ NotCounted(p)
                          /\ seen[p] = "none"
    BY <2>1 DEF Traces, NotCounted
  <2>3. p \notin fresh /\ \A s \in Symptom : heat[s][p] = 0
    BY <2>1 DEF Counting, Own, Sampled
  <2> QED BY <1>1, <2>1, <2>2, <2>3 DEF Counting, CountsAgree, NotCounted
<1>4. CASE p = q /\ Death(p)
  <2>1. ~Alive(p)' /\ \A s \in Symptom : heat'[s][p] = 0
    BY <1>4 DEF Death, TypeOK, Alive, Nothing
  <2> QED BY <2>1 DEF Counting
<1> QED BY <1>2, <1>3, <1>4

(* A new instance, like none, has counted nothing.                          *)
LEMMA BoundsCount ==
  ASSUME Daemon, NEW p \in Pid, Own(p), Start \/ Shutdown \/ Crash
  PROVE  Counting(p)'
<1>1. /\ throttled' = {} /\ phase' = "idle"
      /\ \A s \in Symptom : ticks'[s][p] = 0 /\ heat'[s][p] = 0
  BY DEF Start, Shutdown, Crash, tick, NoTicks, AllPids, Daemon
<1>2. prev'[p] \in {"none", "same"}
  BY DEF Start, Shutdown, Crash, AllPids
<1> QED BY <1>1, <1>2 DEF Counting, CountsAgree, NotCounted

(* Pauses, resumptions and focus changes come between ticks.                *)
LEMMA PausesCount ==
  ASSUME TypeOK, Daemon, NEW p \in Pid, Own(p), Counting(p),
         \/ EnableEnforcement \/ DisableEnforcement
         \/ \E q \in Pid \cup {Elsewhere} : Focus(q)
  PROVE  Counting(p)'
<1>1. /\ UNCHANGED <<heirs, ticks, throttled, phase, heat>> /\ phase = "idle"
      /\ prev'[p] = prev[p] \/ prev'[p] = "same"
  <2>1. CASE EnableEnforcement
    BY <2>1, EnableWalk DEF EnableEnforcement, tick, history
  <2> QED BY <2>1 DEF DisableEnforcement, Focus, tick, history
<1>2. proc'[p].low = proc[p].low /\ proc'[p].kind = proc[p].kind
  BY PriorityKept
<1> QED BY <1>1, <1>2 DEF Counting, CountsAgree, NotCounted, ToDemote, Alive

(* The snapshot: heat counts the tick, the counters do not yet.             *)
LEMMA SnapshotCounts ==
  ASSUME TypeOK, Daemon, NEW p \in Pid, Own(p), Counting(p), TickSnapshot
  PROVE  Counting(p)'
<1>1. /\ UNCHANGED <<proc, heirs, prev, fg>> /\ phase = "idle" /\ phase' = "qos"
      /\ seen'[p] = IF p \in fresh' THEN proc[p].kind ELSE "none"
      /\ p \in fresh' => Alive(p)
      /\ p \in throttled' => p \in throttled
      /\ \A s \in Symptom : p \in hot'[s] => p \in fresh' /\ prev[p] # "none"
      /\ \A s \in Symptom : ticks'[s][p] = IF p \in fresh' THEN ticks[s][p] ELSE 0
  BY DEF TickSnapshot, os, history, Live
<1>2. \A s \in Symptom :
        heat'[s][p] = IF p \in hot'[s] /\ prev[p] = "same" /\ ~Protected(p, proc[p].kind)
                      THEN IF heat[s][p] < Sustain THEN heat[s][p] + 1 ELSE Sustain
                      ELSE 0
  BY DEF TickSnapshot
<1>3. /\ Sustain \in Nat
      /\ \A s \in Symptom : ticks[s][p] \in 0..(Sustain - 1) /\ heat[s][p] \in 0..Sustain
  BY SustainType DEF TypeOK
<1>4. CASE p \notin fresh'
  <2>1. seen'[p] = "none" /\ \A s \in Symptom : ticks'[s][p] = 0 /\ heat'[s][p] = 0
    BY <1>1, <1>2, <1>4
  <2> QED BY <1>1, <1>4, <2>1 DEF Counting, NotCounted, Alive
<1>5. CASE p \in fresh'
  <2>2. ASSUME p \notin heirs, ToDemote(p) PROVE HeatIsAhead(p)'
    <3>1. CountsAgree(p)
      BY <1>1, <1>5, <2>2 DEF Counting
    <3>2. ASSUME NEW s \in Symptom
          PROVE  /\ Rises(s, p)' <=> heat'[s][p] # 0
                 /\ Rises(s, p)' =>
                      \/ heat[s][p] < Sustain /\ heat'[s][p] = heat[s][p] + 1
                      \/ heat'[s][p] = Sustain /\ heat[s][p] = Sustain
      <4>1. Protected(p, seen[p])' <=> Protected(p, proc[p].kind)
        BY <1>1, <1>5 DEF Protected
      <4>2. Rises(s, p)' <=> p \in hot'[s] /\ prev[p] = "same" /\ ~Protected(p, proc[p].kind)
        BY <1>1, <4>1 DEF Rises
      <4> QED BY <1>2, <1>3, <4>2, SustainType
    <3>3. ASSUME NEW s \in Symptom
          PROVE  /\ Rises(s, p)' => ticks'[s][p] < heat'[s][p]
                 /\ proc'[p].kind = "user" =>
                      heat'[s][p] <= IF Rises(s, p)' THEN ticks'[s][p] + 1 ELSE 0
      <4>1. ticks'[s][p] = ticks[s][p] /\ proc'[p] = proc[p]
        BY <1>1, <1>5
      <4>2. /\ ticks[s][p] <= heat[s][p]
            /\ proc[p].kind = "user" => heat[s][p] <= ticks[s][p]
        BY <3>1 DEF CountsAgree
      <4> QED BY <1>3, <3>2, <4>1, <4>2
    <3> QED BY <3>3 DEF HeatIsAhead
  <2>3. ASSUME p \notin heirs
        PROVE  /\ prev'[p] # "other"
               /\ prev'[p] = "none" => NotCounted(p)'
               /\ EnableDemotion /\ p \in throttled' => proc'[p].low
               /\ ToDemote(p)' => HeatIsAhead(p)'
    <3>1. ToDemote(p)' <=> ToDemote(p)
      BY <1>1 DEF ToDemote
    <3> QED BY <1>1, <1>5, <2>2, <2>3, <3>1 DEF Counting, NotCounted
  <2> QED BY <1>1, <1>5, <2>3 DEF Counting, Alive
<1> QED BY <1>4, <1>5

(* The walks before the analysis.                                           *)
LEMMA WalksCount ==
  ASSUME TypeOK, NEW p \in Pid, Counting(p), TickQos \/ TickReserve
  PROVE  Counting(p)'
<1>1. /\ UNCHANGED <<heirs, fg, ticks, throttled, prev, seen, hot, fresh, heat>>
      /\ phase # "idle" /\ phase' # "idle"
  BY DEF TickQos, TickReserve, history
<1>2. proc'[p].low = proc[p].low /\ proc'[p].kind = proc[p].kind
  BY PriorityKept
<1> QED BY <1>1, <1>2 DEF Counting, HeatIsAhead, NotCounted, ToDemote, Rises, Protected, Alive

(* What the analysis does to the priority of a process.                     *)
LEMMA AnalysisDemotes ==
  ASSUME TypeOK, NEW p \in Pid, TickAnalyse
  PROVE  /\ proc'[p].kind = proc[p].kind
         /\ (\E s \in Symptom : Fires(s, p)) /\ Accessible(p) /\ EnableDemotion => proc'[p].low
         /\ proc'[p].low = proc[p].low \/ (/\ \E s \in Symptom : Fires(s, p)
                                          /\ Accessible(p) /\ EnableDemotion)
         /\ proc[p].low => proc'[p].low
<1> DEFINE throttle(r) ==
             IF EnableDemotion THEN SetLow(IF EnableEco THEN SetEco(r, TRUE) ELSE r)
             ELSE IF EnableEco THEN SetEco(r, TRUE) ELSE r
<1>1. proc'[p] = IF (\E s \in Symptom : Fires(s, p)) /\ Accessible(p) THEN throttle(proc[p])
                 ELSE proc[p]
  BY DEF TickAnalyse
<1>2. /\ throttle(proc[p]).kind = proc[p].kind
      /\ EnableDemotion => throttle(proc[p]).low = TRUE
      /\ ~EnableDemotion => throttle(proc[p]).low = proc[p].low
  <2>1. proc[p] \in Process /\ SetEco(proc[p], TRUE) \in Process
    BY EcoEffect DEF TypeOK
  <2>2. /\ SetEco(proc[p], TRUE).kind = proc[p].kind
        /\ SetEco(proc[p], TRUE).low = proc[p].low
    BY <2>1, EcoEffect, LowKept
  <2>3. \A r \in Process : SetLow(r).kind = r.kind /\ SetLow(r).low = TRUE
    BY LowEffect, LowKept
  <2> QED BY <2>1, <2>2, <2>3
<1> HIDE DEF throttle
<1> QED BY <1>1, <1>2

(* The analysis: the counters catch up, or begin anew when one fires.       *)
LEMMA AnalysisCounts ==
  ASSUME TypeOK, Daemon, NEW p \in Pid, Own(p), Counting(p), TickAnalyse
  PROVE  Counting(p)'
<1>1. /\ UNCHANGED <<heirs, heat>> /\ phase = "hogs" /\ phase' = "idle"
      /\ p \in Seen <=> seen[p] # "none"
      /\ prev'[p] = IF p \in fresh THEN "same" ELSE IF p \in Seen THEN "other" ELSE "none"
      /\ p \in throttled' <=>
           \/ p \in throttled
           \/ /\ EnableEco \/ EnableDemotion
              /\ (\E s \in Symptom : Fires(s, p)) /\ Accessible(p)
      /\ \A s \in Symptom :
           ticks'[s][p] = IF p \notin Seen THEN ticks[s][p]
                          ELSE IF Fires(s, p) THEN 0 ELSE Counted(s, p)
  BY DEF TickAnalyse, Seen, history
<1>2. /\ proc'[p].kind = proc[p].kind
      /\ (\E s \in Symptom : Fires(s, p)) /\ Accessible(p) /\ EnableDemotion => proc'[p].low
      /\ proc[p].low => proc'[p].low
  BY AnalysisDemotes
<1>3. /\ Sustain \in Nat
      /\ \A s \in Symptom : ticks[s][p] \in 0..(Sustain - 1) /\ heat[s][p] \in 0..Sustain
      /\ prev[p] \in {"none", "same", "other"}
  BY SustainType DEF TypeOK
<1>4. CASE p \notin Seen
  <2>1. /\ p \notin fresh /\ prev'[p] = "none"
        /\ p \in throttled' <=> p \in throttled
        /\ \A s \in Symptom : ticks'[s][p] = ticks[s][p]
    BY <1>1, <1>4 DEF Fires, Own, Sampled, Alive
  <2> QED BY <1>1, <1>2, <1>3, <2>1 DEF Counting, CountsAgree, NotCounted, Alive
<1>5. CASE p \in Seen
  <2>2. ASSUME Alive(p), p \notin heirs
        PROVE  /\ prev'[p] = "same" /\ (ToDemote(p)' => CountsAgree(p)')
               /\ EnableDemotion /\ p \in throttled' => proc'[p].low
    <3>1. /\ p \in fresh /\ (ToDemote(p) => HeatIsAhead(p)) /\ prev[p] # "other"
          /\ prev[p] = "none" => NotCounted(p)
          /\ EnableDemotion /\ p \in throttled => proc[p].low
      BY <1>1, <1>5, <2>2 DEF Counting
    <3>2. ASSUME ToDemote(p)', NEW s \in Symptom
          PROVE  /\ ticks'[s][p] <= heat[s][p]
                 /\ proc'[p].kind = "user" => heat[s][p] <= ticks'[s][p]
      <4>1. ToDemote(p) /\ p \notin throttled /\ (Fires(s, p) => ~Accessible(p))
        BY <1>2, <3>1, <3>2 DEF ToDemote
      <4>2. /\ Rises(s, p) => ticks[s][p] < heat[s][p]
            /\ proc[p].kind = "user" => heat[s][p] <= IF Rises(s, p) THEN ticks[s][p] + 1 ELSE 0
        BY <3>1, <4>1 DEF HeatIsAhead
      <4>3. CASE Fires(s, p)
        BY <1>1, <1>2, <1>3, <1>5, <4>1, <4>3 DEF Accessible
      <4>4. CASE ~Fires(s, p)
        <5>1. ticks'[s][p] = Counted(s, p)
          BY <1>1, <1>5, <4>4
        <5>2. CASE Rises(s, p)
          BY <1>2, <1>3, <4>1, <4>2, <5>1, <5>2 DEF Counted, Rises
        <5>3. CASE ~Rises(s, p)
          BY <1>2, <1>3, <3>1, <4>1, <4>2, <5>1, <5>3 DEF Counted, Rises, NotCounted
        <5> QED BY <5>2, <5>3
      <4> QED BY <4>3, <4>4
    <3>3. EnableDemotion /\ p \in throttled' => proc'[p].low
      BY <1>1, <1>2, <3>1
    <3> QED BY <1>1, <3>1, <3>2, <3>3 DEF CountsAgree
  <2> QED BY <1>1, <1>2, <2>2 DEF Counting, Alive
<1> QED BY <1>4, <1>5

----------------------------------------------------------------------------
(* The theorems about demotion. *)

(* In every reachable state the counters agree with the histories.          *)
THEOREM CountsAreOfTheProcess == Spec => []AllCounting
<1>1. Init => AllCounting
  <2> SUFFICES ASSUME Init, NEW p \in Pid PROVE Counting(p)
    BY DEF AllCounting
  <2>1. /\ proc[p].kind = "none"
        /\ \A s \in Symptom : ticks[s][p] = 0 /\ heat[s][p] = 0
    BY DEF Init, NoTicks, AllPids, Nothing
  <2> QED BY <2>1 DEF Counting, NotCounted, Alive
<1>2. IInv /\ AllCounting /\ [Next]_vars => AllCounting'
  <2> SUFFICES ASSUME IInv, AllCounting, [Next]_vars, NEW p \in Pid PROVE Counting(p)'
    BY DEF AllCounting
  <2>1. TypeOK /\ Daemon /\ Own(p) /\ Counting(p)
    BY DEF IInv, AllCounting
  <2>2. CASE UNCHANGED vars
    BY <2>1, <2>2 DEF vars, os, maps, tick, history, Counting, CountsAgree, HeatIsAhead,
                      NotCounted, ToDemote, Rises, Protected, Alive
  <2> QED BY <2>1, <2>2, LifeCounts, BoundsCount, PausesCount, SnapshotCounts, WalksCount,
             AnalysisCounts DEF Next
<1> QED BY <1>1, <1>2, GuardianInvariance, PTL DEF Spec

(* Whoever showed a symptom for sustain_ticks samples in a row, in the      *)
(* background, is demoted when the tick is over (run_housekeeping).         *)
THEOREM OffendersAreDemoted == Spec => []OffenderDemoted
<1>1. IInv /\ AllCounting => OffenderDemoted
  <2> SUFFICES ASSUME IInv, AllCounting, up, phase = "idle", EnableDemotion,
                      NEW p \in Pid, NEW s \in Symptom,
                      proc[p].kind = "user", p \notin heirs, heat[s][p] >= Sustain, ~proc[p].low
               PROVE  FALSE
    BY DEF OffenderDemoted
  <2>1. heat[s][p] <= ticks[s][p]
    BY DEF AllCounting, Counting, CountsAgree, ToDemote, Alive
  <2>2. ticks[s][p] \in 0..(Sustain - 1) /\ heat[s][p] \in 0..Sustain /\ Sustain \in Nat
    BY SustainType DEF IInv, TypeOK
  <2> QED BY <2>1, <2>2
<1> QED BY <1>1, GuardianInvariance, CountsAreOfTheProcess, PTL

(* And nobody else: a process loses its priority only if it showed one of   *)
(* the symptoms itself, in that many samples, never in the foreground, and  *)
(* not for what a process before it with the same PID did.                  *)
THEOREM OnlyOffendersAreDemoted == Spec => DemotedForOwnDoing
<1>1. ASSUME IInv, AllCounting, [Next]_vars, NEW p \in Pid,
             p \notin heirs, proc'[p].low, ~proc[p].low
      PROVE  \E s \in Symptom : heat[s][p] >= Sustain
  <2>1. TypeOK /\ Daemon /\ Own(p) /\ Counting(p)
    BY <1>1 DEF IInv, AllCounting
  <2>2. ~UNCHANGED vars
    BY <1>1 DEF vars, os
  <2>3. ASSUME NEW q \in Pid, Birth(q) \/ Death(q) PROVE FALSE
    <3>1. ~Nothing.low /\ \A k \in BirthKinds, m \in BirthMasks : ~NewProcess(k, m).low
      BY DEF Nothing, NewProcess
    <3>2. proc'[p] = proc[p] \/ ~proc'[p].low
      BY <2>1, <2>3, <3>1 DEF Birth, Death, TypeOK
    <3> QED BY <1>1, <3>2
  <2>4. TickAnalyse
    BY <1>1, <2>1, <2>2, <2>3, PriorityKept DEF Next
  <2>5. PICK s \in Symptom : Fires(s, p) /\ Accessible(p)
    BY <1>1, <2>1, <2>4, AnalysisDemotes
  <2>6. /\ phase = "hogs" /\ Alive(p) /\ p \in Seen /\ seen[p] # "none"
        /\ ~Protected(p, seen[p]) /\ p \notin throttled /\ prev[p] # "none"
        /\ Counted(s, p) >= Sustain
    BY <2>4, <2>5 DEF TickAnalyse, Fires, Accessible, Alive, Seen
  <2>7. /\ Sustain \in Nat /\ Sustain >= 2 /\ ticks[s][p] \in Nat /\ heat[s][p] \in Nat
        /\ prev[p] \in {"none", "same", "other"}
    BY <2>1, SustainType DEF TypeOK
  <2>8. HeatIsAhead(p) /\ prev[p] = "same"
    <3>1. EnableDemotion
      BY <1>1, <2>1, <2>4, AnalysisDemotes
    <3> QED BY <1>1, <2>1, <2>6, <2>7, <3>1 DEF Counting, ToDemote
  <2>9. p \in hot[s] /\ ticks[s][p] + 1 >= Sustain
    BY <2>6, <2>7 DEF Counted
  <2>10. ticks[s][p] < heat[s][p]
    BY <2>6, <2>8, <2>9 DEF HeatIsAhead, Rises
  <2> QED BY <2>7, <2>9, <2>10
<1>2. IInv /\ AllCounting /\ [Next]_vars =>
        [\A p \in Pid \ heirs : proc'[p].low /\ ~proc[p].low
           => \E s \in Symptom : heat[s][p] >= Sustain]_vars
  BY <1>1
<1> QED BY <1>2, GuardianInvariance, CountsAreOfTheProcess, PTL DEF Spec, DemotedForOwnDoing

=============================================================================
