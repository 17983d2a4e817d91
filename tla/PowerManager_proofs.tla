------------------------ MODULE PowerManager_proofs ------------------------
(* Proofs about PowerGovernor and about PowerDaemon, which composes it with *)
(* the notifications of Windows, for every set of schemes and factory       *)
(* values, every configuration and any number of notifications under way.   *)
EXTENDS PowerDaemon, TLAPS

----------------------------------------------------------------------------
(* The strengthening of the safety properties that is inductive.            *)

(* A process that has captured no scheme has applied nothing; one that does *)
(* not run is neither paused nor holds a scheme.                            *)
Idle ==
  /\ ~has_scheme => applied = DefaultPlan
  /\ ~up => ~has_scheme /\ ~paused

(* A saved baseline belongs to a captured scheme. *)
BaselineHeld == saved_baseline => has_scheme

(* While a daemon runs and nothing went wrong before, the baseline it holds *)
(* is what the machine had, as far as it could be read, and so is every     *)
(* other scheme.                                                            *)
Custody ==
  up /\ ~crashed /\ ~blind /\ Restorable =>
    /\ saved_baseline
    /\ has_scheme
    /\ AsFound(guid, saved)
    /\ \A g \in Scheme \ {guid} : AsFound(g, reg[g])

(* Scheme g of table tab holds a plan for the power source src. *)
Holds(tab, g, src, plan) ==
  \A s \in Governed : tab[g][Line(src)][s] = Written(plan)[s]

(* The first half of TargetInForce, to which NothingPending adds the rest.  *)
TargetWritten ==
  Governing /\ ~stale => Holds(reg, guid, source, Plan(source, battery, fast_ramp))

Untouched ==
  ~up /\ ~crashed /\ ~blind /\ Restorable =>
    (\A g \in Scheme : AsFound(g, reg[g])) /\ ~stale

IInv ==
  /\ TypeOK
  /\ Idle
  /\ BaselineHeld
  /\ NothingPending
  /\ TargetWritten
  /\ ReportIsCurrent
  /\ PausedIsBaseline
  /\ Custody
  /\ Untouched

----------------------------------------------------------------------------
(* The operators. *)

(* The plan of every source, level and burst flag is a plan, and never the  *)
(* one a fresh process starts with.                                         *)
LEMMA PlanType ==
  ASSUME NEW src \in Sources, NEW pct \in Percent, NEW boosted
  PROVE  /\ Plan(src, pct, boosted) \in Plans
         /\ Plan(src, pct, boosted) # DefaultPlan
BY PowerAssumption DEF Plan, SaverPlan, BoostPlan, IdleMainsPlan,
                       IdleBatteryPlan, DefaultPlan, Plans, Profiles

(* Clamping keeps a column of the scheme a column of natural numbers.       *)
LEMMA ClampedType ==
  ASSUME NEW col \in [Setting -> Nat]
  PROVE  Clamped(col) \in [Setting -> Nat]
BY DEF Clamped, AtMost, Setting, Governed, Fixed

(* Overlaying a plan gives a column that holds the plan's written settings  *)
(* and the column's own fixed ones; overlaying it twice changes nothing.    *)
LEMMA OverlayType ==
  ASSUME NEW col \in [Setting -> Nat], NEW plan \in Plans
  PROVE  /\ Overlay(col, plan) \in [Setting -> Nat]
         /\ \A s \in Governed : Overlay(col, plan)[s] = Written(plan)[s]
         /\ (\A s \in Governed : col[s] = Written(plan)[s])
              => Overlay(col, plan) = col
<1>1. \A s \in Governed : Written(plan)[s] \in Nat
  BY DEF Written, AtMost, Plans, Governed
<1>2. Overlay(col, plan) \in [Setting -> Nat]
  BY <1>1 DEF Overlay
<1>3. \A s \in Governed : Overlay(col, plan)[s] = Written(plan)[s]
  BY DEF Overlay, Setting
<1>4. ASSUME \A s \in Governed : col[s] = Written(plan)[s]
      PROVE  Overlay(col, plan) = col
  BY <1>4 DEF Overlay
<1>5. QED
  BY <1>2, <1>3, <1>4

OsType == reg \in [Scheme -> Table] /\ active \in Scheme /\ live \in Table

TroubleType == faults \in 0..MaxFaults /\ stale \in BOOLEAN

(* Writing and activating, whatever fails: the contents stay of their type, *)
(* a scheme that was not to change does not, and either everything is done  *)
(* or something is known to be stale.                                       *)
LEMMA WritesEffect ==
  ASSUME TypeOK,
         NEW new \in [Scheme -> Table], NEW g \in Scheme, NEW activate \in BOOLEAN,
         NEW troubles \in 0..MaxFaults, Writes(new, g, activate, troubles)
  PROVE  /\ OsType' /\ TroubleType'
         /\ \A h \in Scheme : new[h] = reg[h] => reg'[h] = reg[h]
         /\ ~stale' => reg' = new
         /\ ~stale' /\ activate => active' = g /\ live' = new[g]
         /\ ~stale' /\ ~activate => ~stale /\ UNCHANGED <<active, live>>
<1>1. CASE Faultless(new, g, activate) /\ faults' = troubles
  BY <1>1 DEF Faultless, OsType, TroubleType, TypeOK
<1>2. CASE Faulty(new, g, activate) /\ faults < MaxFaults /\ faults' = faults + 1
  <2>1. PICK missed \in Missable : reg' = Landed(new, missed)
    BY <1>2 DEF Faulty
  <2>2. reg \in [Scheme -> Table]
    BY DEF TypeOK
  <2>3. reg' \in [Scheme -> Table]
    BY <2>1, <2>2 DEF Landed, Table
  <2>4. ASSUME NEW h \in Scheme, new[h] = reg[h] PROVE reg'[h] = reg[h]
    BY <2>1, <2>2, <2>4 DEF Landed, Table
  <2>5. active' \in Scheme /\ live' \in Table /\ TroubleType' /\ stale'
    BY <1>2, <2>3, PowerAssumption DEF Faulty, TypeOK, TroubleType
  <2>6. QED
    BY <2>3, <2>4, <2>5 DEF OsType
<1>3. QED
  BY <1>1, <1>2 DEF Writes

(* A write and its activation leave the wanted settings in the scheme and   *)
(* no other scheme changed.  Nothing is pending afterwards if they were     *)
(* forced, if the plan is new, or if nothing was pending and the scheme     *)
(* held the plan already; always provided that no call failed.              *)
LEMMA WriteEffect ==
  ASSUME TypeOK,
         NEW table \in [Scheme -> Table], NEW g \in Scheme,
         \A h \in Scheme \ {g} : table[h] = reg[h],
         NEW force \in BOOLEAN, NEW src \in Sources, NEW pct \in Percent,
         NEW boosted, NEW troubles \in 0..MaxFaults,
         WriteAndApply(table, g, force, src, pct, boosted, troubles)
  PROVE  /\ OsType' /\ TroubleType'
         /\ guid' = g /\ has_scheme'
         /\ applied' = Plan(src, pct, boosted) /\ applied' \in Plans
         /\ \A h \in Scheme \ {g} : reg'[h] = reg[h]
         /\ ~stale' => Holds(reg', g, src, applied')
         /\ force \/ applied' # applied => NothingPending'
         /\ (~stale => live = table[active] /\ Holds(table, g, src, applied))
            => NothingPending'
<1> DEFINE plan == Plan(src, pct, boosted)
           line == Line(src)
           col  == Overlay(table[g][line], plan)
           new  == [table EXCEPT ![g][line] = col]
           act  == force \/ plan # applied
<1>1. plan \in Plans
  BY PlanType
<1>2. line \in Lines
  BY DEF Line, Lines
<1>3. table[g][line] \in [Setting -> Nat]
  BY <1>2 DEF Table
<1>4. /\ col \in [Setting -> Nat]
      /\ \A s \in Governed : col[s] = Written(plan)[s]
      /\ (\A s \in Governed : table[g][line][s] = Written(plan)[s])
           => col = table[g][line]
  BY <1>1, <1>3, OverlayType
<1>5. guid' = g /\ has_scheme' = TRUE /\ applied' = plan
      /\ Writes(new, g, act, troubles)
  BY DEF WriteAndApply
<1> HIDE DEF plan, line, col
<1>6. /\ new \in [Scheme -> Table] /\ act \in BOOLEAN
      /\ new[g][line] = col
      /\ \A h \in Scheme \ {g} : new[h] = reg[h]
  BY <1>2, <1>4 DEF Table
<1>7. col = table[g][line] => new = table
  BY <1>2 DEF Table
<1> HIDE DEF new, act
<1>8. /\ OsType' /\ TroubleType'
      /\ \A h \in Scheme : new[h] = reg[h] => reg'[h] = reg[h]
      /\ ~stale' => reg' = new
      /\ ~stale' /\ act => active' = g /\ live' = new[g]
      /\ ~stale' /\ ~act => ~stale /\ UNCHANGED <<active, live>>
  BY <1>5, <1>6, WritesEffect
<1>9. ~stale' => Holds(reg', g, src, plan)
  BY <1>4, <1>6, <1>8 DEF Holds, line
<1>10. act => NothingPending'
  BY <1>8 DEF NothingPending
<1>11. ASSUME ~act, ~stale => live = table[active] /\ Holds(table, g, src, applied)
       PROVE  NothingPending'
  <2>1. plan = applied
    BY <1>11 DEF act
  <2>2. SUFFICES ASSUME ~stale' PROVE live' = reg'[active']
    BY DEF NothingPending
  <2>3. Holds(table, g, src, plan) /\ live = table[active]
    BY <1>8, <1>11, <2>1, <2>2
  <2>4. reg' = table
    BY <1>4, <1>7, <1>8, <2>2, <2>3 DEF Holds, line
  <2>5. QED
    BY <1>8, <1>11, <2>2, <2>3, <2>4
<1>12. QED
  BY <1>1, <1>5, <1>6, <1>8, <1>9, <1>10, <1>11 DEF plan, act

(* One evaluation: either nothing happens (the optimizer is paused, or no   *)
(* scheme can be found) or the wanted settings are written to the captured  *)
(* scheme.  Nothing is pending afterwards if the evaluation is forced or if *)
(* the scheme held whatever plan was applied before on the same line.       *)
LEMMA EvaluateEffect ==
  ASSUME TypeOK, NothingPending,
         NEW force \in BOOLEAN, NEW src \in Sources, NEW pct \in Percent,
         NEW boosted,
         Evaluate(force, src, pct, boosted),
         \/ force = TRUE
         \/ Idle /\ (~has_scheme \/ stale \/ Holds(reg, guid, src, applied))
  PROVE  /\ OsType' /\ TroubleType' /\ NothingPending'
         /\ \/ paused' /\ Skip
            \/ ~has_scheme /\ Skip
            \/ /\ ~paused'
               /\ guid' \in Scheme /\ has_scheme'
               /\ has_scheme => guid' = guid
               /\ applied' = Plan(src, pct, boosted) /\ applied' \in Plans
               /\ ~stale' => Holds(reg', guid', src, applied')
               /\ \A h \in Scheme \ {guid'} : reg'[h] = reg[h]
<1>1. CASE Skip /\ (paused' \/ ~has_scheme)
  BY <1>1 DEF Skip, OsType, TroubleType, TypeOK, NothingPending, os, trouble
<1>2. ASSUME ~paused',
             NEW g \in Scheme,
             g = IF has_scheme THEN guid ELSE active,
             WriteAndApply(reg, g, force, src, pct, boosted, faults)
      PROVE  /\ OsType' /\ TroubleType' /\ NothingPending'
             /\ guid' = g /\ has_scheme'
             /\ applied' = Plan(src, pct, boosted) /\ applied' \in Plans
             /\ ~stale' => Holds(reg', guid', src, applied')
             /\ \A h \in Scheme \ {guid'} : reg'[h] = reg[h]
  <2>1. reg \in [Scheme -> Table] /\ faults \in 0..MaxFaults
    BY DEF TypeOK
  <2>2. /\ OsType' /\ TroubleType'
        /\ guid' = g /\ has_scheme'
        /\ applied' = Plan(src, pct, boosted) /\ applied' \in Plans
        /\ \A h \in Scheme \ {g} : reg'[h] = reg[h]
        /\ ~stale' => Holds(reg', g, src, applied')
        /\ force \/ applied' # applied => NothingPending'
        /\ (~stale => live = reg[active] /\ Holds(reg, g, src, applied))
           => NothingPending'
    BY <1>2, <2>1, WriteEffect
  <2>3. force = TRUE \/ (~has_scheme => applied' # applied)
    BY <2>2, PlanType DEF Idle
  <2>4. QED
    BY <1>2, <2>2, <2>3 DEF NothingPending
<1>3. (IF has_scheme THEN guid ELSE active) \in Scheme
  BY DEF TypeOK
<1>4. QED
  BY <1>1, <1>2, <1>3 DEF Evaluate
----------------------------------------------------------------------------
(* The steps. *)

(* Every handler that ends in evaluate_and_apply_governor keeps the         *)
(* invariant, if it evaluates for the source, level and burst flag it       *)
(* leaves behind and does not pause.                                        *)
LEMMA GovernedStep ==
  ASSUME IInv, NEW force \in BOOLEAN,
         up, up', Evaluate(force, source', battery', fast_ramp'),
         force = TRUE \/ ~has_scheme \/ stale \/ Holds(reg, guid, source', applied),
         source' \in Sources, battery' \in Percent, fast_ramp' \in BOOLEAN,
         last_pid' \in Pid \cup {0}, paused' \in BOOLEAN, paused' => paused,
         UNCHANGED <<saved, saved_baseline, history>>
  PROVE  IInv'
<1>1. /\ OsType' /\ TroubleType' /\ NothingPending'
      /\ \/ paused' /\ Skip
         \/ ~has_scheme /\ Skip
         \/ /\ ~paused'
            /\ guid' \in Scheme /\ has_scheme'
            /\ has_scheme => guid' = guid
            /\ applied' = Plan(source', battery', fast_ramp') /\ applied' \in Plans
            /\ ~stale' => Holds(reg', guid', source', applied')
            /\ \A h \in Scheme \ {guid'} : reg'[h] = reg[h]
  BY EvaluateEffect DEF IInv
<1>2. Restorable' = Restorable
  BY DEF Restorable, history
<1>3. CASE Skip /\ (paused' \/ ~has_scheme)
  <2>1. TypeOK'
    BY <1>1, <1>3 DEF IInv, TypeOK, OsType, TroubleType, Skip, history
  <2>2. Idle' /\ BaselineHeld' /\ Custody' /\ Untouched' /\ PausedIsBaseline'
    BY <1>2, <1>3 DEF IInv, Idle, BaselineHeld, Custody, Untouched, PausedIsBaseline,
                      AsFound, Skip, os, trouble, history
  <2>3. ~Governing'
    BY <1>3 DEF Skip, Governing
  <2>4. QED
    BY <1>1, <2>1, <2>2, <2>3 DEF IInv, TargetWritten, ReportIsCurrent
<1>4. CASE /\ ~paused'
           /\ guid' \in Scheme /\ has_scheme'
           /\ has_scheme => guid' = guid
           /\ applied' = Plan(source', battery', fast_ramp') /\ applied' \in Plans
           /\ ~stale' => Holds(reg', guid', source', applied')
           /\ \A h \in Scheme \ {guid'} : reg'[h] = reg[h]
  <2>1. TypeOK'
    BY <1>1, <1>4 DEF IInv, TypeOK, OsType, TroubleType, history
  <2>2. Idle' /\ BaselineHeld' /\ Untouched' /\ PausedIsBaseline'
    BY <1>4 DEF Idle, BaselineHeld, Untouched, PausedIsBaseline
  <2>3. Custody'
    BY <1>2, <1>4 DEF IInv, Custody, AsFound, history
  <2>4. TargetWritten' /\ ReportIsCurrent'
    BY <1>4 DEF TargetWritten, ReportIsCurrent
  <2>5. QED
    BY <1>1, <2>1, <2>2, <2>3, <2>4 DEF IInv
<1>5. QED
  BY <1>1, <1>3, <1>4

(* A process that has ended holds the initial values again. *)
LEMMA FreshType ==
  /\ DefaultSaved \in Table /\ DefaultPlan \in Plans
  /\ "AC" \in Sources /\ 100 \in Percent
BY DEF DefaultSaved, DefaultPlan, Table, Plans, Profiles, Lines, Setting, Governed,
       Fixed, Sources, Percent

LEMMA InitInvariant == Init => IInv
<1> SUFFICES ASSUME Init PROVE IInv
  OBVIOUS
<1>1. /\ reg \in [Scheme -> Table] /\ live \in Table
  BY PowerAssumption DEF Init
<1>2. /\ active \in Scheme /\ origin = reg /\ misread = [g \in Scheme |-> AllRead]
      /\ crashed = FALSE /\ blind = FALSE
      /\ ended = "none" /\ faults = 0 /\ stale = FALSE
  BY DEF Init
<1>3. /\ up = FALSE /\ guid = NoGuid /\ has_scheme = FALSE /\ saved = DefaultSaved
      /\ saved_baseline = FALSE /\ paused = FALSE /\ source = "AC" /\ battery = 100
      /\ fast_ramp = FALSE /\ last_pid = 0 /\ applied = DefaultPlan
  BY DEF Init, FreshProcess
<1>4. TypeOK
  <2>1. faults \in 0..MaxFaults
    BY <1>2, PowerAssumption
  <2>2. misread \in [Scheme -> Settings]
    BY <1>2 DEF AllRead, Settings
  <2>3. QED
    BY <1>1, <1>2, <1>3, <2>1, <2>2, FreshType DEF TypeOK
<1>5. Idle /\ BaselineHeld /\ NothingPending /\ TargetWritten /\ ReportIsCurrent /\ PausedIsBaseline
      /\ Custody /\ Untouched
  BY DEF Init, FreshProcess, Idle, BaselineHeld, NothingPending, TargetWritten, ReportIsCurrent,
         PausedIsBaseline, Custody, Untouched, AsFound, Governing
<1>6. QED
  BY <1>4, <1>5 DEF IInv

(* The baseline initialize() captures of a scheme is what the scheme held,  *)
(* but for what it could not read; of other schemes it reads nothing.       *)
LEMMA InitializeReads ==
  ASSUME TypeOK, Initialize
  PROVE  /\ saved' \in Table /\ misread' \in [Scheme -> Settings]
         /\ AsFound(active, reg[active]) =>
              \A l \in Lines, s \in Setting :
                \/ saved'[l][s] = origin[active][l][s]
                \/ s \in misread'[active][l] /\ saved'[l][s] = DefaultSaved[l][s]
         /\ \A h \in Scheme \ {active} : misread'[h] = misread[h]
         /\ \E troubles \in 0..MaxFaults :
              WriteAndApply(WithFixed(reg, active), active, TRUE, source', battery',
                            TRUE, troubles)
<1>1. PICK bad \in Unreadable \cup {AllRead} :
        /\ bad # AllRead => faults < MaxFaults
        /\ saved' = Captured(bad)
        /\ misread' = [misread EXCEPT ![active] = [l \in Lines |-> @[l] \cup bad[l]]]
        /\ WriteAndApply(WithFixed(reg, active), active, TRUE, source', battery', TRUE,
                         IF bad = AllRead THEN faults ELSE faults + 1)
  BY DEF Initialize
<1>2. bad \in Settings
  BY <1>1, PowerAssumption DEF Settings, AllRead
<1>3. reg[active] \in Table /\ misread[active] \in Settings /\ active \in Scheme
  BY DEF TypeOK
<1>4. saved' \in Table
  BY <1>1, <1>3, FreshType DEF Captured, Table
<1>5. /\ misread' \in [Scheme -> Settings]
      /\ \A h \in Scheme \ {active} : misread'[h] = misread[h]
      /\ \A l \in Lines : misread'[active][l] = misread[active][l] \cup bad[l]
  BY <1>1, <1>2, <1>3 DEF TypeOK, Settings
<1>6. (IF bad = AllRead THEN faults ELSE faults + 1) \in 0..MaxFaults
  BY <1>1, PowerAssumption DEF TypeOK
<1>7. ASSUME AsFound(active, reg[active]),
             NEW l \in Lines, NEW s \in Setting
      PROVE  \/ saved'[l][s] = origin[active][l][s]
             \/ s \in misread'[active][l] /\ saved'[l][s] = DefaultSaved[l][s]
  <2>1. saved'[l][s] = IF s \in bad[l] THEN DefaultSaved[l][s] ELSE reg[active][l][s]
    BY <1>1 DEF Captured
  <2>2. \/ reg[active][l][s] = origin[active][l][s]
        \/ s \in misread[active][l] /\ reg[active][l][s] = DefaultSaved[l][s]
    BY <1>7 DEF AsFound
  <2>3. QED
    BY <1>5, <2>1, <2>2
<1>8. QED
  BY <1>1, <1>4, <1>5, <1>6, <1>7

LEMMA InitializeStep == IInv /\ Initialize => IInv'
<1> SUFFICES ASSUME IInv, Initialize PROVE IInv'
  OBVIOUS
<1> DEFINE fixed == WithFixed(reg, active)
<1>1. active \in Scheme /\ reg \in [Scheme -> Table]
  BY DEF IInv, TypeOK
<1>2. source' \in Sources /\ battery' \in Percent
  BY PowerAssumption DEF Initialize, IInv, TypeOK, BatteryKnown, Percent
<1>3. /\ fixed \in [Scheme -> Table]
      /\ \A h \in Scheme \ {active} : fixed[h] = reg[h]
  BY <1>1 DEF WithFixed, Table, Lines, Setting, Governed, Fixed
<1>4. PICK troubles \in 0..MaxFaults :
        WriteAndApply(fixed, active, TRUE, source', battery', TRUE, troubles)
  BY InitializeReads DEF IInv
<1> HIDE DEF fixed
<1>5. /\ OsType' /\ TroubleType' /\ NothingPending'
      /\ guid' = active /\ has_scheme'
      /\ applied' = Plan(source', battery', TRUE) /\ applied' \in Plans
      /\ ~stale' => Holds(reg', active, source', applied')
      /\ \A h \in Scheme \ {active} : reg'[h] = reg[h]
  BY <1>1, <1>2, <1>3, <1>4, WriteEffect DEF IInv
<1>6. /\ up' = TRUE /\ ~up /\ saved_baseline' = TRUE
      /\ fast_ramp' = TRUE /\ ended' = "none"
      /\ UNCHANGED <<paused, last_pid, origin, crashed, blind>>
      /\ saved' \in Table /\ misread' \in [Scheme -> Settings]
  BY InitializeReads DEF Initialize, IInv
<1>7. TypeOK'
  BY <1>1, <1>2, <1>5, <1>6 DEF IInv, TypeOK, OsType, TroubleType
<1>8. ~paused'
  BY <1>6 DEF IInv, Idle
<1>9. /\ Idle' /\ BaselineHeld' /\ TargetWritten' /\ ReportIsCurrent'
      /\ PausedIsBaseline' /\ Untouched'
  BY <1>5, <1>6, <1>8
     DEF Idle, BaselineHeld, TargetWritten, ReportIsCurrent, PausedIsBaseline, Untouched
<1>10. Custody'
  <2>1. SUFFICES ASSUME ~crashed, ~blind, Restorable
                 PROVE  /\ AsFound(guid, saved)'
                        /\ \A g \in Scheme \ {active} : AsFound(g, reg[g])'
    BY <1>5, <1>6 DEF Custody, Restorable
  <2>2. \A g \in Scheme : AsFound(g, reg[g])
    BY <1>6, <2>1 DEF IInv, Untouched
  <2>3. AsFound(guid, saved)'
    BY <1>1, <1>5, <1>6, <2>2, InitializeReads DEF AsFound, IInv
  <2>4. \A g \in Scheme \ {active} : misread'[g] = misread[g] /\ origin' = origin
    BY <1>6, InitializeReads DEF IInv
  <2>5. \A g \in Scheme \ {active} : AsFound(g, reg[g])'
    BY <1>5, <2>2, <2>4 DEF AsFound
  <2>6. QED
    BY <2>3, <2>5
<1>11. QED
  BY <1>5, <1>7, <1>9, <1>10 DEF IInv

(* Giving the baseline back touches no scheme but the captured one, which   *)
(* then holds the baseline unless a call failed.                            *)
LEMMA RestoreEffect ==
  ASSUME IInv, RestoreBaseline
  PROVE  /\ OsType' /\ TroubleType' /\ NothingPending'
         /\ saved_baseline /\ has_scheme /\ ~stale' =>
              reg'[guid] = [l \in Lines |-> Clamped(saved[l])]
         /\ ~(saved_baseline /\ has_scheme) => UNCHANGED <<reg, stale>>
         /\ \A h \in Scheme \ {guid} : reg'[h] = reg[h]
<1>1. TypeOK /\ NothingPending
  BY DEF IInv
<1>2. CASE saved_baseline /\ has_scheme
  <2>1. guid \in Scheme /\ reg \in [Scheme -> Table] /\ saved \in Table
    BY <1>1, <1>2 DEF TypeOK
  <2>2. [l \in Lines |-> Clamped(saved[l])] \in Table
    BY <2>1, ClampedType DEF Table
  <2>3. /\ Restored \in [Scheme -> Table]
        /\ Restored[guid] = [l \in Lines |-> Clamped(saved[l])]
        /\ \A h \in Scheme \ {guid} : Restored[h] = reg[h]
    BY <2>1, <2>2 DEF Restored
  <2>4. Writes(Restored, guid, TRUE, faults) /\ faults \in 0..MaxFaults
    BY <1>1, <1>2 DEF RestoreBaseline, TypeOK
  <2>5. /\ OsType' /\ TroubleType'
        /\ \A h \in Scheme : Restored[h] = reg[h] => reg'[h] = reg[h]
        /\ ~stale' => reg' = Restored /\ active' = guid /\ live' = Restored[guid]
    BY <1>1, <2>1, <2>3, <2>4, WritesEffect
  <2>6. QED
    BY <1>2, <2>3, <2>5 DEF NothingPending
<1>3. CASE ~(saved_baseline /\ has_scheme)
  BY <1>1, <1>3 DEF RestoreBaseline, os, trouble, OsType, TroubleType, NothingPending, TypeOK
<1>4. QED
  BY <1>2, <1>3

(* What was read of a scheme whose own values are in range is written back  *)
(* as it was read: the built-in numbers are in range as well.               *)
LEMMA BaselineUnclamped ==
  ASSUME NEW g \in Scheme, NEW table \in Table, origin \in [Scheme -> Table],
         InRange(origin[g]), AsFound(g, table)
  PROVE  [l \in Lines |-> Clamped(table[l])] = table
<1>1. ASSUME NEW l \in Lines, NEW s \in Setting
      PROVE  Clamped(table[l])[s] = table[l][s]
  <2>1. origin[g][l][s] \in Nat /\ table[l][s] \in Nat
    BY DEF Table
  <2>2. Clamped(origin[g][l])[s] = origin[g][l][s]
    BY DEF InRange
  <2>3. CASE table[l][s] = origin[g][l][s]
    BY <2>2, <2>3 DEF Clamped
  <2>4. CASE table[l][s] = DefaultSaved[l][s]
    <3>1. /\ s = "epp" => DefaultSaved[l][s] \in 0..100
          /\ s = "boost" => DefaultSaved[l][s] \in 0..2
      BY DEF DefaultSaved, Lines
    <3>2. QED
      BY <2>4, <3>1 DEF Clamped, AtMost
  <2>5. QED
    BY <2>3, <2>4 DEF AsFound
<1>2. \A l \in Lines : Clamped(table[l]) = table[l]
  BY <1>1 DEF Clamped, Table
<1>3. QED
  BY <1>2 DEF Table

(* A daemon that gives the baseline back when nothing went wrong leaves     *)
(* every scheme as it was found.                                            *)
LEMMA GivenBackAsFound ==
  ASSUME IInv, up, RestoreBaseline, ~stale', ~crashed, ~blind, Restorable,
         UNCHANGED <<origin, misread>>
  PROVE  \A g \in Scheme : AsFound(g, reg'[g])
<1>1. /\ saved_baseline /\ has_scheme /\ AsFound(guid, saved)
      /\ \A g \in Scheme \ {guid} : AsFound(g, reg[g])
  BY DEF IInv, Custody
<1>2. guid \in Scheme /\ origin \in [Scheme -> Table] /\ saved \in Table
  BY <1>1 DEF IInv, TypeOK
<1>3. [l \in Lines |-> Clamped(saved[l])] = saved
  BY <1>1, <1>2, BaselineUnclamped DEF Restorable
<1>4. /\ reg'[guid] = saved
      /\ \A g \in Scheme \ {guid} : reg'[g] = reg[g]
  BY <1>1, <1>3, RestoreEffect
<1>5. QED
  BY <1>1, <1>4 DEF AsFound

LEMMA PauseStep ==
  ASSUME IInv, SetPaused(TRUE) PROVE IInv'
<1>1. /\ up /\ paused' = TRUE /\ RestoreBaseline
      /\ UNCHANGED <<up, guid, has_scheme, applied, saved, saved_baseline, source,
                     battery, fast_ramp, last_pid, history>>
  BY DEF SetPaused
<1>2. /\ OsType' /\ TroubleType' /\ NothingPending'
      /\ saved_baseline /\ has_scheme /\ ~stale' =>
           reg'[guid] = [l \in Lines |-> Clamped(saved[l])]
      /\ ~(saved_baseline /\ has_scheme) => reg' = reg
      /\ \A h \in Scheme \ {guid} : reg'[h] = reg[h]
  BY <1>1, RestoreEffect
<1>3. TypeOK'
  BY <1>1, <1>2 DEF IInv, TypeOK, OsType, TroubleType, history
<1>4. PausedIsBaseline'
  BY <1>1, <1>2 DEF PausedIsBaseline, IInv, BaselineHeld
<1>5. Custody'
  BY <1>1, <1>2 DEF IInv, Custody, Restorable, AsFound, history
<1>6. Idle' /\ BaselineHeld' /\ TargetWritten' /\ ReportIsCurrent' /\ Untouched'
  BY <1>1 DEF IInv, Idle, BaselineHeld, TargetWritten, ReportIsCurrent, Untouched, Governing, history
<1>7. QED
  BY <1>2, <1>3, <1>4, <1>5, <1>6 DEF IInv

(* The end of a process, clean or not, given what it leaves in the registry. *)
LEMMA EndStep ==
  ASSUME TypeOK, up, ProcessGone, OsType', TroubleType', NothingPending',
         crashed' \in BOOLEAN, UNCHANGED <<origin, misread, blind>>,
         ended' \in {"clean", "crash"},
         ~crashed' /\ ~blind /\ Restorable =>
           (\A g \in Scheme : AsFound(g, reg'[g])) /\ ~stale'
  PROVE  IInv'
<1>1. /\ up' = FALSE /\ guid' = NoGuid /\ has_scheme' = FALSE /\ saved' = DefaultSaved
      /\ saved_baseline' = FALSE /\ paused' = FALSE /\ source' = "AC" /\ battery' = 100
      /\ fast_ramp' = FALSE /\ last_pid' = 0 /\ applied' = DefaultPlan
  BY DEF ProcessGone
<1>2. TypeOK'
  BY <1>1, FreshType DEF TypeOK, OsType, TroubleType
<1>3. /\ Idle' /\ BaselineHeld' /\ TargetWritten' /\ ReportIsCurrent'
      /\ PausedIsBaseline' /\ Custody'
  BY <1>1 DEF Idle, BaselineHeld, TargetWritten, ReportIsCurrent, PausedIsBaseline,
              Custody, Governing
<1>4. Untouched'
  BY DEF Untouched, Restorable, AsFound
<1>5. QED
  BY <1>2, <1>3, <1>4 DEF IInv

LEMMA ShutdownStep == IInv /\ Shutdown => IInv'
<1> SUFFICES ASSUME IInv, Shutdown PROVE IInv'
  OBVIOUS
<1>1. /\ up /\ RestoreBaseline /\ ProcessGone /\ ended' = "clean"
      /\ crashed' = (crashed \/ stale') /\ UNCHANGED <<origin, misread, blind>>
  BY DEF Shutdown
<1>2. OsType' /\ TroubleType' /\ NothingPending'
  BY <1>1, RestoreEffect
<1>3. ~crashed' /\ ~blind /\ Restorable =>
        (\A g \in Scheme : AsFound(g, reg'[g])) /\ ~stale'
  BY <1>1, GivenBackAsFound
<1>4. crashed' \in BOOLEAN
  BY <1>1, <1>2 DEF IInv, TypeOK, TroubleType
<1>5. QED
  BY <1>1, <1>2, <1>3, <1>4, EndStep DEF IInv

LEMMA CrashStep == IInv /\ Crash => IInv'
<1> SUFFICES ASSUME IInv, Crash PROVE IInv'
  OBVIOUS
<1>1. /\ up /\ ProcessGone /\ crashed' = TRUE /\ ended' = "crash"
      /\ UNCHANGED <<reg, active, live, faults, stale, origin, misread, blind>>
  BY DEF Crash, os, trouble
<1>2. OsType' /\ TroubleType' /\ NothingPending'
  BY <1>1 DEF IInv, TypeOK, OsType, TroubleType, NothingPending
<1>3. QED
  BY <1>1, <1>2, EndStep DEF IInv

LEMMA UserStep ==
  ASSUME IInv, NEW g \in Scheme, UserActivates(g) PROVE IInv'
<1>1. /\ active' = g /\ live' = reg[g]
      /\ UNCHANGED <<reg, up, guid, has_scheme, saved, saved_baseline, paused, source,
                     battery, fast_ramp, last_pid, applied, faults, stale, origin,
                     misread, crashed, blind, ended>>
  BY DEF UserActivates, pm, trouble, history
<1>2. TypeOK' /\ NothingPending'
  BY <1>1 DEF IInv, TypeOK, NothingPending
<1>3. /\ Idle' /\ BaselineHeld' /\ TargetWritten' /\ ReportIsCurrent'
      /\ PausedIsBaseline' /\ Custody' /\ Untouched'
  BY <1>1 DEF IInv, Idle, BaselineHeld, TargetWritten, ReportIsCurrent, PausedIsBaseline,
              Custody, Untouched, AsFound, Governing, Restorable
<1>4. QED
  BY <1>2, <1>3 DEF IInv

LEMMA BlindStep == IInv /\ InitializeFails => IInv'
<1> SUFFICES ASSUME IInv, InitializeFails PROVE IInv'
  OBVIOUS
<1>1. /\ ~up /\ up' = TRUE /\ blind' = TRUE /\ ended' = "none"
      /\ UNCHANGED <<reg, active, live, guid, has_scheme, saved, saved_baseline, paused,
                     source, battery, fast_ramp, last_pid, applied, stale, origin,
                     misread, crashed>>
      /\ faults < MaxFaults /\ faults' = faults + 1
  BY DEF InitializeFails, os, pm
<1>2. TypeOK' /\ NothingPending'
  <2>1. faults' \in 0..MaxFaults
    BY <1>1, PowerAssumption DEF IInv, TypeOK
  <2>2. QED
    BY <1>1, <2>1 DEF IInv, TypeOK, NothingPending
<1>3. /\ Idle' /\ BaselineHeld' /\ TargetWritten' /\ ReportIsCurrent'
      /\ PausedIsBaseline' /\ Custody' /\ Untouched'
  BY <1>1 DEF IInv, Idle, BaselineHeld, TargetWritten, ReportIsCurrent, PausedIsBaseline,
              Custody, Untouched, Governing
<1>4. QED
  BY <1>2, <1>3 DEF IInv

LEMMA StutterStep == IInv /\ UNCHANGED vars => IInv'
BY DEF IInv, TypeOK, Idle, BaselineHeld, NothingPending, TargetWritten, ReportIsCurrent,
       PausedIsBaseline, Custody, Untouched, AsFound, Governing, Restorable, vars, os, pm, trouble, history

LEMMA EventSteps ==
  ASSUME IInv
  PROVE  /\ \A src \in {"AC", "Battery"} : OnPowerSourceChanged(src) => IInv'
         /\ \A pct \in Percent : OnBatteryPercentChanged(pct) => IInv'
         /\ \A p \in Pid : OnForegroundProcessChanged(p) => IInv'
         /\ \A hold \in BOOLEAN : OnHousekeeping(hold) => IInv'
         /\ SetPaused(FALSE) => IInv'
<1>1. TypeOK
  BY DEF IInv
<1>2. ASSUME NEW src \in {"AC", "Battery"}, OnPowerSourceChanged(src) PROVE IInv'
  <2>1. /\ up /\ up' /\ Evaluate(TRUE, source', battery', fast_ramp')
        /\ source' \in Sources /\ paused' = paused
        /\ UNCHANGED <<battery, fast_ramp, last_pid, saved, saved_baseline, history>>
    BY <1>2 DEF OnPowerSourceChanged, Sources
  <2>2. /\ battery' \in Percent /\ fast_ramp' \in BOOLEAN
        /\ last_pid' \in Pid \cup {0} /\ paused' \in BOOLEAN
    BY <1>1, <2>1 DEF TypeOK
  <2>3. QED
    BY <2>1, <2>2, GovernedStep
<1>3. ASSUME NEW pct \in Percent, OnBatteryPercentChanged(pct) PROVE IInv'
  <2>1. /\ up /\ up' /\ battery' = pct /\ battery' \in Percent
        /\ UNCHANGED <<paused, source, fast_ramp, last_pid, saved, saved_baseline, history>>
    BY <1>3 DEF OnBatteryPercentChanged
  <2>2. CASE IsLow(battery) # IsLow(pct)
    <3>1. Evaluate(TRUE, source', battery', fast_ramp')
      BY <1>3, <2>1, <2>2 DEF OnBatteryPercentChanged
    <3>2. /\ source' \in Sources /\ fast_ramp' \in BOOLEAN
          /\ last_pid' \in Pid \cup {0} /\ paused' \in BOOLEAN
      BY <1>1, <2>1 DEF TypeOK
    <3>3. QED
      BY <2>1, <3>1, <3>2, GovernedStep
  <2>3. CASE IsLow(battery) = IsLow(pct)
    <3>1. UNCHANGED <<reg, active, live, guid, has_scheme, applied, faults, stale>>
      BY <1>3, <2>3 DEF OnBatteryPercentChanged, Skip, os, trouble
    <3>2. Plan(source', battery', fast_ramp') = Plan(source, battery, fast_ramp)
      BY <2>1, <2>3 DEF Plan
    <3>3. UNCHANGED <<up, origin, misread, crashed, blind, ended>>
      BY <2>1, <1>3 DEF history, OnBatteryPercentChanged
    <3>4. TypeOK' /\ NothingPending'
      BY <2>1, <3>1, <3>3 DEF IInv, TypeOK, NothingPending
    <3>5. TargetWritten' /\ ReportIsCurrent'
      BY <2>1, <3>1, <3>2, <3>3 DEF IInv, TargetWritten, ReportIsCurrent, Governing
    <3>6. Idle' /\ BaselineHeld' /\ PausedIsBaseline' /\ Custody' /\ Untouched'
      BY <2>1, <3>1, <3>3 DEF IInv, Idle, BaselineHeld, PausedIsBaseline, Custody,
                              Untouched, AsFound, Restorable
    <3>7. QED
      BY <3>4, <3>5, <3>6 DEF IInv
  <2>4. QED
    BY <2>2, <2>3
<1>4. ASSUME NEW p \in Pid, OnForegroundProcessChanged(p) PROVE IInv'
  <2>1. /\ up /\ up' /\ Evaluate(TRUE, source', battery', fast_ramp')
        /\ fast_ramp' = TRUE /\ last_pid' = p
        /\ UNCHANGED <<paused, source, battery, saved, saved_baseline, history>>
    BY <1>4 DEF OnForegroundProcessChanged
  <2>2. /\ source' \in Sources /\ battery' \in Percent /\ paused' \in BOOLEAN
    BY <1>1, <2>1 DEF TypeOK
  <2>3. QED
    BY <2>1, <2>2, GovernedStep
<1>5. ASSUME NEW hold \in BOOLEAN, OnHousekeeping(hold) PROVE IInv'
  <2>1. /\ up /\ up' /\ Evaluate(FALSE, source', battery', fast_ramp')
        /\ fast_ramp' = hold /\ ~paused
        /\ UNCHANGED <<paused, source, battery, last_pid, saved, saved_baseline, history>>
    BY <1>5 DEF OnHousekeeping
  <2>2. /\ source' \in Sources /\ battery' \in Percent
        /\ last_pid' \in Pid \cup {0} /\ paused' \in BOOLEAN
    BY <1>1, <2>1 DEF TypeOK
  <2>3. ~has_scheme \/ stale \/ Holds(reg, guid, source', applied)
    BY <2>1 DEF IInv, TargetWritten, ReportIsCurrent, Governing
  <2>4. QED
    BY <2>1, <2>2, <2>3, GovernedStep
<1>6. ASSUME SetPaused(FALSE) PROVE IInv'
  <2>1. /\ up /\ up' /\ Evaluate(TRUE, source', battery', fast_ramp')
        /\ paused' = FALSE
        /\ UNCHANGED <<source, battery, fast_ramp, last_pid, saved, saved_baseline, history>>
    BY <1>6 DEF SetPaused
  <2>2. /\ source' \in Sources /\ battery' \in Percent /\ fast_ramp' \in BOOLEAN
        /\ last_pid' \in Pid \cup {0}
    BY <1>1, <2>1 DEF TypeOK
  <2>3. QED
    BY <2>1, <2>2, GovernedStep
<1>7. QED
  BY <1>2, <1>3, <1>4, <1>5, <1>6

LEMMA NextStep == IInv /\ [Next]_vars => IInv'
<1> SUFFICES ASSUME IInv, [Next]_vars PROVE IInv'
  OBVIOUS
<1>1. ASSUME NEW p \in BOOLEAN, SetPaused(p) PROVE IInv'
  BY <1>1, EventSteps, PauseStep
<1>2. CASE Next
  BY <1>1, <1>2, BlindStep, InitializeStep, EventSteps, ShutdownStep, CrashStep, UserStep,
     PowerAssumption DEF Next
<1>3. QED
  BY <1>2, StutterStep

----------------------------------------------------------------------------
(* The theorems. *)

(* IInv holds in every reachable state. *)
THEOREM Invariance == Spec => []IInv
<1>1. Init => IInv
  BY InitInvariant
<1>2. IInv /\ [Next]_vars => IInv'
  BY NextStep
<1>3. QED
  BY <1>1, <1>2, PTL DEF Spec

(* Type correctness (power_manager.cpp:165-622). *)
THEOREM TypeCorrect == Spec => []TypeOK
<1>1. IInv => TypeOK
  BY DEF IInv
<1>2. QED
  BY <1>1, Invariance, PTL

(* evaluate_and_apply_governor never leaves a stale setting in force.       *)
THEOREM TargetAlwaysInForce == Spec => [](TargetInForce /\ NothingPending)
<1>1. IInv => TargetInForce /\ NothingPending
  <2> SUFFICES ASSUME IInv PROVE TargetInForce
    BY DEF IInv
  <2>1. ASSUME Governing, ~stale
        PROVE  Holds(reg, guid, source, Plan(source, battery, fast_ramp))
    BY <2>1 DEF IInv, TargetWritten
  <2>2. ASSUME Governing, ~stale, active = guid
        PROVE  Holds([g \in {guid} |-> live], guid, source,
                     Plan(source, battery, fast_ramp))
    BY <2>1, <2>2 DEF IInv, NothingPending, Holds
  <2>3. QED
    BY <2>1, <2>2 DEF TargetInForce, Holds
<1>2. QED
  BY <1>1, Invariance, PTL

(* The reported profile is current, and a paused optimizer has given the    *)
(* baseline back (get_current_profile, set_paused).                         *)
THEOREM ReportAndPause == Spec => [](ReportIsCurrent /\ PausedIsBaseline)
<1>1. IInv => ReportIsCurrent /\ PausedIsBaseline
  BY DEF IInv
<1>2. QED
  BY <1>1, Invariance, PTL

(* A machine on which no instance crashed or started blind is, whenever no  *)
(* daemon runs, as it was before the first one did, save what some          *)
(* initialize() could not read (initialize, shutdown).                      *)
THEOREM CleanStop == Spec => []CleanStopRestores
<1>1. IInv => CleanStopRestores
  BY DEF IInv, CleanStopRestores, Untouched, NothingPending
<1>2. QED
  BY <1>1, Invariance, PTL

----------------------------------------------------------------------------
(* The contract: every step of PowerGovernor is one of SettingsCustody, or  *)
(* a stutter.                                                               *)

USE DEF Contract!OthersUntouched

Keeping == [Contract!Next]_(Contract!vars)

(* What the contract sees unchanged is a stutter. *)
LEMMA QuietMaps ==
  ASSUME UNCHANGED <<reg, up, has_scheme, guid, origin, misread, crashed, blind>>
  PROVE  Keeping
BY DEF Keeping, Contract!vars, Restorable, AsFound

(* A step that rewrites no scheme but the captured one is a Rewrite, and    *)
(* one that captures a scheme first is a Take.                              *)
LEMMA WriteMaps ==
  ASSUME up', has_scheme', guid' \in Scheme,
         up /\ has_scheme => guid' = guid,
         \A h \in Scheme \ {guid'} : reg'[h] = reg[h] /\ misread'[h] = misread[h],
         UNCHANGED <<origin, crashed, blind>>
  PROVE  Keeping
<1>1. /\ Restorable' = Restorable
      /\ \A h \in Scheme \ {guid'} : AsFound(h, reg[h])' <=> AsFound(h, reg[h])
  BY DEF Restorable, AsFound
<1>2. CASE up /\ has_scheme
  <2>1. Contract!Rewrite
    BY <1>1, <1>2 DEF Contract!Rewrite
  <2>2. QED
    BY <2>1 DEF Keeping, Contract!Next
<1>3. CASE ~(up /\ has_scheme)
  <2>1. PICK g \in Scheme : g = guid'
    OBVIOUS
  <2>2. Contract!Take(g)
    BY <1>1, <1>3, <2>1 DEF Contract!Take
  <2>3. QED
    BY <2>2 DEF Keeping, Contract!Next
<1>4. QED
  BY <1>2, <1>3

LEMMA GovernedMaps ==
  ASSUME IInv, NEW force \in BOOLEAN,
         up, up', Evaluate(force, source', battery', fast_ramp'),
         force = TRUE \/ ~has_scheme \/ stale \/ Holds(reg, guid, source', applied),
         source' \in Sources, battery' \in Percent, UNCHANGED history
  PROVE  Keeping
<1>1. \/ Skip
      \/ /\ guid' \in Scheme /\ has_scheme'
         /\ has_scheme => guid' = guid
         /\ \A h \in Scheme \ {guid'} : reg'[h] = reg[h]
  BY EvaluateEffect DEF IInv
<1>2. CASE Skip
  BY <1>2, QuietMaps DEF Skip, os, history
<1>3. QED
  BY <1>1, <1>2, WriteMaps DEF history

LEMMA EventMaps ==
  ASSUME IInv
  PROVE  /\ \A src \in {"AC", "Battery"} : OnPowerSourceChanged(src) => Keeping
         /\ \A pct \in BatteryLevel : OnBatteryPercentChanged(pct) => Keeping
         /\ \A p \in Pid : OnForegroundProcessChanged(p) => Keeping
         /\ \A hold \in BOOLEAN : OnHousekeeping(hold) => Keeping
         /\ SetPaused(FALSE) => Keeping
<1>1. source \in Sources /\ battery \in Percent
  BY DEF IInv, TypeOK
<1>2. ASSUME NEW src \in {"AC", "Battery"}, OnPowerSourceChanged(src) PROVE Keeping
  BY <1>1, <1>2, GovernedMaps DEF OnPowerSourceChanged, Sources
<1>3. ASSUME NEW pct \in BatteryLevel, OnBatteryPercentChanged(pct) PROVE Keeping
  <2>1. battery' \in Percent
    BY <1>3, PowerAssumption DEF OnBatteryPercentChanged
  <2>2. CASE IsLow(battery) # IsLow(pct)
    BY <1>1, <1>3, <2>1, <2>2, GovernedMaps DEF OnBatteryPercentChanged
  <2>3. CASE IsLow(battery) = IsLow(pct)
    BY <1>3, <2>3, QuietMaps DEF OnBatteryPercentChanged, Skip, os, history
  <2>4. QED
    BY <2>2, <2>3
<1>4. ASSUME NEW p \in Pid, OnForegroundProcessChanged(p) PROVE Keeping
  BY <1>1, <1>4, GovernedMaps DEF OnForegroundProcessChanged
<1>5. ASSUME NEW hold \in BOOLEAN, OnHousekeeping(hold) PROVE Keeping
  <2>1. ~has_scheme \/ stale \/ Holds(reg, guid, source', applied)
    BY <1>5 DEF OnHousekeeping, IInv, TargetWritten, ReportIsCurrent, Governing
  <2>2. QED
    BY <1>1, <1>5, <2>1, GovernedMaps DEF OnHousekeeping
<1>6. ASSUME SetPaused(FALSE) PROVE Keeping
  BY <1>1, <1>6, GovernedMaps DEF SetPaused
<1>7. QED
  BY <1>2, <1>3, <1>4, <1>5, <1>6

LEMMA InitializeMaps == IInv /\ Initialize => Keeping
<1> SUFFICES ASSUME IInv, Initialize PROVE Keeping
  OBVIOUS
<1>1. active \in Scheme /\ reg \in [Scheme -> Table] /\ ~up
  BY DEF IInv, TypeOK, Initialize
<1> DEFINE fixed == WithFixed(reg, active)
<1>2. /\ fixed \in [Scheme -> Table]
      /\ \A h \in Scheme \ {active} : fixed[h] = reg[h]
  BY <1>1 DEF WithFixed, Table, Lines, Setting, Governed, Fixed
<1>3. PICK troubles \in 0..MaxFaults :
        WriteAndApply(fixed, active, TRUE, source', battery', TRUE, troubles)
  BY InitializeReads DEF IInv
<1>4. source' \in Sources /\ battery' \in Percent
  BY PowerAssumption DEF Initialize, IInv, TypeOK, BatteryKnown, Percent
<1> HIDE DEF fixed
<1>5. /\ has_scheme' /\ guid' = active
      /\ \A h \in Scheme \ {active} : reg'[h] = reg[h]
  BY <1>1, <1>2, <1>3, <1>4, WriteEffect DEF IInv
<1>6. /\ up' /\ UNCHANGED <<origin, crashed, blind>>
      /\ \A h \in Scheme \ {active} : misread'[h] = misread[h]
  BY InitializeReads DEF Initialize, IInv
<1>7. QED
  BY <1>1, <1>5, <1>6, WriteMaps

LEMMA PauseMaps == IInv /\ SetPaused(TRUE) => Keeping
<1> SUFFICES ASSUME IInv, SetPaused(TRUE) PROVE Keeping
  OBVIOUS
<1>1. /\ up /\ up' /\ RestoreBaseline
      /\ UNCHANGED <<has_scheme, guid, origin, misread, crashed, blind>>
  BY DEF SetPaused, history
<1>2. /\ \A h \in Scheme \ {guid} : reg'[h] = reg[h]
      /\ ~has_scheme => reg' = reg
  BY <1>1, RestoreEffect DEF IInv, BaselineHeld
<1>3. CASE has_scheme
  BY <1>1, <1>2, <1>3, WriteMaps DEF IInv, TypeOK
<1>4. CASE ~has_scheme
  BY <1>1, <1>2, <1>4, QuietMaps
<1>5. QED
  BY <1>3, <1>4

LEMMA EndMaps == IInv /\ IInv' /\ (Shutdown \/ Crash) => Keeping
<1> SUFFICES ASSUME IInv, IInv', Shutdown \/ Crash PROVE Keeping
  OBVIOUS
<1>1. up /\ ~up' /\ UNCHANGED <<origin, misread, blind>>
  BY DEF Shutdown, Crash, ProcessGone
<1>2. Restorable' = Restorable
  BY <1>1 DEF Restorable
<1>3. \A h \in Scheme \ {guid} : AsFound(h, reg[h])' <=> AsFound(h, reg[h])
  <2>1. \A h \in Scheme \ {guid} : reg'[h] = reg[h]
    BY RestoreEffect DEF Shutdown, Crash, os
  <2>2. QED
    BY <1>1, <2>1 DEF AsFound
<1>4. ~has_scheme => \A h \in Scheme : AsFound(h, reg[h])' <=> AsFound(h, reg[h])
  <2>1. ~has_scheme => reg' = reg
    BY RestoreEffect DEF Shutdown, Crash, os
  <2>2. QED
    BY <1>1, <2>1 DEF AsFound
<1>5. CASE Crash \/ crashed' # crashed
  <2>1. crashed'
    BY <1>5 DEF Crash, Shutdown, IInv, TypeOK
  <2>2. Contract!Lose
    BY <1>1, <1>2, <1>3, <1>4, <2>1 DEF Contract!Lose
  <2>3. QED
    BY <2>2 DEF Keeping, Contract!Next
<1>6. CASE Shutdown /\ crashed' = crashed /\ has_scheme
  <2>1. ~(crashed \/ blind \/ ~Restorable) => \A g \in Scheme : AsFound(g, reg[g])'
    BY <1>1, <1>2, <1>6 DEF IInv, Untouched
  <2>2. Contract!GiveBack
    BY <1>1, <1>2, <1>3, <1>6, <2>1 DEF Contract!GiveBack
  <2>3. QED
    BY <2>2 DEF Keeping, Contract!Next
<1>7. CASE Shutdown /\ crashed' = crashed /\ ~has_scheme
  <2>1. ~has_scheme'
    BY <1>7 DEF Shutdown, ProcessGone
  <2>2. QED
    BY <1>1, <1>2, <1>4, <1>7, <2>1 DEF Keeping, Contract!vars
<1>8. QED
  BY <1>5, <1>6, <1>7

LEMMA BlindMaps == IInv /\ InitializeFails => Keeping
<1> SUFFICES ASSUME IInv, InitializeFails PROVE Keeping
  OBVIOUS
<1>1. /\ ~has_scheme /\ ~has_scheme' /\ blind' = TRUE
      /\ UNCHANGED <<reg, origin, misread, crashed>>
  BY DEF InitializeFails, IInv, Idle, os, pm
<1>2. Contract!Lose
  BY <1>1 DEF Contract!Lose, AsFound
<1>3. QED
  BY <1>2 DEF Keeping, Contract!Next

(* PowerGovernor implements SettingsCustody: the daemon writes to no scheme *)
(* but the one it captured and gives back what it could read of it          *)
(* (initialize, evaluate_and_apply_governor, set_paused, shutdown).         *)
THEOREM GovernorKeepsContract == Spec => KeepsContract
<1>1. Init => Contract!Init
  BY DEF Init, FreshProcess, Restorable, AsFound, Contract!Init
<1>2. IInv /\ IInv' /\ [Next]_vars => Keeping
  <2> SUFFICES ASSUME IInv, IInv', [Next]_vars PROVE Keeping
    OBVIOUS
  <2>1. ASSUME NEW p \in BOOLEAN, SetPaused(p) PROVE Keeping
    BY <2>1, EventMaps, PauseMaps
  <2>2. ASSUME NEW g \in Scheme, UserActivates(g) PROVE Keeping
    BY <2>2, QuietMaps DEF UserActivates, pm, history
  <2>3. CASE UNCHANGED vars
    BY <2>3, QuietMaps DEF vars, os, pm, history
  <2>4. CASE Next
    BY <2>1, <2>2, <2>4, BlindMaps, InitializeMaps, EventMaps, EndMaps DEF Next
  <2>5. QED
    BY <2>3, <2>4
<1>3. QED
  BY <1>1, <1>2, Invariance, PTL DEF Spec, KeepsContract, Contract!Spec, Keeping

(* Under the contract only the scheme in charge ever differs from what the  *)
(* user had, unless values were lost.                                       *)
LEMMA ContractKeeps == KeepsContract => []Contract!Kept
<1>1. Contract!Init => Contract!Kept
  BY DEF Contract!Init, Contract!Kept
<1>2. Contract!Kept /\ Keeping => Contract!Kept'
  <2> SUFFICES ASSUME Contract!Kept, Keeping PROVE Contract!Kept'
    OBVIOUS
  <2>1. ASSUME NEW g \in Scheme, Contract!Take(g) PROVE Contract!Kept'
    BY <2>1 DEF Contract!Take, Contract!Kept
  <2>2. CASE Contract!Rewrite
    BY <2>2 DEF Contract!Rewrite, Contract!Kept
  <2>3. CASE Contract!GiveBack
    BY <2>3 DEF Contract!GiveBack, Contract!Kept
  <2>4. CASE Contract!Lose
    BY <2>4 DEF Contract!Lose, Contract!Kept
  <2>5. CASE UNCHANGED Contract!vars
    BY <2>5 DEF Contract!vars, Contract!Kept
  <2>6. QED
    BY <2>1, <2>2, <2>3, <2>4, <2>5 DEF Keeping, Contract!Next
<1>3. QED
  BY <1>1, <1>2, PTL DEF KeepsContract, Contract!Spec, Keeping

(* Only the captured scheme ever differs from what the user had, and none   *)
(* does while no daemon has captured one, unless an instance crashed,       *)
(* started blind or failed to give back (restore_baseline at pause and      *)
(* shutdown).                                                               *)
THEOREM OnlyTheCapturedDiffers == Spec => []Contract!Kept
BY GovernorKeepsContract, ContractKeeps, PTL

----------------------------------------------------------------------------
(* PowerDaemon: the inductive invariant.                                    *)

(* A notification carries a value of its kind.                              *)
NoticeType ==
  [kind : {"source"}, value : {"AC", "Battery"}] \cup [kind : {"level"}, value : BatteryLevel]

Present(kind) == IF kind = "source" THEN mains ELSE level

(* Handles, notifications and what was heard belong to one run of the loop, *)
(* and only registered kinds arrive.                                        *)
QueueInv ==
  /\ posted \in Seq(NoticeType)
  /\ \A i \in 1..Len(posted) : posted[i].kind \in handles
  /\ loop \notin {"looping", "failing"} => handles = {}
  /\ loop \in {"looping", "failing"} => heard \subseteq handles
  /\ loop \in {"gone", "starting"} => heard = {}

(* No notification of kind k is under way, or the i-th is the last one.     *)
None(k) == \A j \in 1..Len(posted) : posted[j].kind # k

Newest(i, k) ==
  /\ i \in 1..Len(posted) /\ posted[i].kind = k
  /\ \A j \in 1..Len(posted) : j > i => posted[j].kind # k

(* The last notification of a kind under way tells the truth; when none is, *)
(* the daemon has already been told it.                                     *)
Told(k) == IF k = "source" THEN is_ac = (mains = "AC") ELSE percent = level

Followed ==
  \A k \in Notices :
    /\ \A i \in 1..Len(posted) : Newest(i, k) => posted[i].value = Present(k)
    /\ loop \in {"looping", "failing"} /\ k \in heard /\ None(k) => Told(k)

(* The callback passes on what the daemon was told, in two calls.           *)
SourceCalled == source = IF is_ac THEN "AC" ELSE "Battery"

PassedOn ==
  /\ call = "none" /\ heard # {} => SourceCalled /\ battery = percent
  /\ call = "level" => SourceCalled

(* A call is in flight after the loop has stopped only if its wait failed;  *)
(* only such a call takes the scheme again after shutdown().                *)
CallsEnd ==
  /\ loop = "failing" => failed
  /\ call # "none" => loop \notin {"gone", "starting"} /\ heard # {}
  /\ loop \in {"closing", "shut"} /\ ~failed => call = "none"
  /\ loop = "shut" /\ ~failed => ~has_scheme

(* After shutdown() the machine is given back, until a late call takes it.  *)
GivenBack ==
  loop = "shut" /\ ~has_scheme /\ ~crashed /\ ~blind /\ Restorable =>
    (\A g \in Scheme : AsFound(g, reg[g])) /\ ~stale

(* Between Begin and shutdown() PowerManager keeps its own invariant.       *)
GovernorInv ==
  /\ TypeOK /\ NothingPending
  /\ loop # "shut" => IInv

DInv ==
  /\ DaemonTypeOK /\ QueueInv /\ Followed /\ PassedOn /\ CallsEnd
  /\ GivenBack /\ GovernorInv

(* The daemon's own half of DaemonTypeOK.                                   *)
ReceiverType ==
  /\ mains \in {"AC", "Battery"} /\ level \in BatteryLevel
  /\ mode \in {"service", "console"}
  /\ loop \in {"gone", "starting", "looping", "failing", "closing", "shut"}
  /\ up <=> loop # "gone"
  /\ handles \subseteq Notices /\ heard \subseteq Notices
  /\ Len(posted) <= MaxPosted /\ (posted # <<>> => handles # {})
  /\ is_ac \in BOOLEAN /\ percent \in Percent
  /\ call \in {"none", "source", "level"} /\ (call # "none" => up)
  /\ failed \in BOOLEAN

LEMMA DaemonTypeParts == DaemonTypeOK <=> TypeOK /\ ReceiverType
BY Zenon DEF DaemonTypeOK, ReceiverType

(* What the queue of notifications does when one is posted or taken.        *)
LEMMA Appended ==
  ASSUME NEW S, NEW s \in Seq(S), NEW e \in S
  PROVE  /\ Append(s, e) \in Seq(S) /\ Len(Append(s, e)) = Len(s) + 1
         /\ \A i \in 1..Len(s) : Append(s, e)[i] = s[i]
         /\ Append(s, e)[Len(s) + 1] = e
OBVIOUS

LEMMA Taken ==
  ASSUME NEW S, NEW s \in Seq(S), s # <<>>
  PROVE  /\ Tail(s) \in Seq(S) /\ Len(s) \in Nat /\ Len(s) > 0
         /\ Len(Tail(s)) = Len(s) - 1
         /\ Head(s) = s[1] /\ s[1] \in S
         /\ \A i \in 1..Len(s) - 1 : Tail(s)[i] = s[i + 1]
OBVIOUS

LEMMA EmptyQueue ==
  /\ <<>> \in Seq(NoticeType) /\ Len(<<>>) = 0
OBVIOUS

----------------------------------------------------------------------------
(* PowerDaemon: what its steps do to PowerManager.                          *)

(* A step that does not reach PowerManager, nor shutdown().                 *)
LEMMA AloofKeeps ==
  ASSUME GovernorInv, GivenBack, UNCHANGED governor, loop' = "shut" <=> loop = "shut"
  PROVE  GovernorInv' /\ GivenBack'
<1>1. IInv => IInv'
  BY StutterStep DEF vars, governor
<1>2. TypeOK' /\ NothingPending'
  BY DEF GovernorInv, governor, os, pm, trouble, history, TypeOK, NothingPending
<1>3. GivenBack'
  BY DEF GivenBack, governor, os, pm, trouble, history, Restorable, AsFound
<1> QED
  BY <1>1, <1>2, <1>3 DEF GovernorInv

(* One that keeps PowerManager's invariant before shutdown().               *)
LEMMA GovernsKeeps ==
  ASSUME IInv', loop' # "shut"
  PROVE  GovernorInv' /\ GivenBack'
BY DEF GovernorInv, GivenBack, IInv

(* shutdown() gives the baseline back.                                      *)
LEMMA ShutsDownKeeps ==
  ASSUME GovernorInv, ReceiverType, ShutsDown
  PROVE  GovernorInv' /\ GivenBack' /\ has_scheme' = FALSE
<1>1. IInv /\ loop' = "shut" /\ up
  BY DEF GovernorInv, ShutsDown, ReceiverType
<1>2. /\ RestoreBaseline /\ has_scheme' = FALSE /\ crashed' = (crashed \/ stale')
      /\ UNCHANGED <<up, guid, saved, saved_baseline, paused, source, battery, fast_ramp,
                     last_pid, applied, origin, misread, blind, ended>>
  BY DEF ShutsDown
<1>3. OsType' /\ TroubleType' /\ NothingPending'
  BY <1>1, <1>2, RestoreEffect
<1>4. TypeOK'
  <2>1. crashed' \in BOOLEAN
    BY <1>1, <1>2, <1>3 DEF IInv, TypeOK, TroubleType
  <2> QED
    BY <1>1, <1>2, <1>3, <2>1 DEF IInv, TypeOK, OsType, TroubleType
<1>5. ~crashed' /\ ~blind /\ Restorable =>
        (\A g \in Scheme : AsFound(g, reg'[g])) /\ ~stale'
  BY <1>1, <1>2, GivenBackAsFound
<1>6. GivenBack'
  BY <1>2, <1>5 DEF GivenBack, Restorable, AsFound
<1> QED
  BY <1>1, <1>2, <1>3, <1>4, <1>6 DEF GovernorInv

(* A call in flight when shutdown() has returned may capture the scheme     *)
(* anew; if it does not, the machine stays given back.                      *)
LEMMA LateEvaluationKeeps ==
  ASSUME GovernorInv, GivenBack, loop = "shut", loop' = "shut",
         up, up', Evaluate(TRUE, source', battery', fast_ramp'),
         source' \in Sources, battery' \in Percent,
         UNCHANGED <<saved, saved_baseline, paused, fast_ramp, last_pid, history>>
  PROVE  GovernorInv' /\ GivenBack'
<1>1. TypeOK /\ NothingPending
  BY DEF GovernorInv
<1>2. /\ OsType' /\ TroubleType' /\ NothingPending'
      /\ \/ Skip
         \/ guid' \in Scheme /\ has_scheme' /\ applied' \in Plans
  BY <1>1, EvaluateEffect
<1>3. TypeOK'
  <2>1. CASE Skip
    BY <1>1, <1>2, <2>1 DEF TypeOK, OsType, TroubleType, Skip, history
  <2>2. CASE guid' \in Scheme /\ has_scheme' /\ applied' \in Plans
    <3>1. has_scheme' \in BOOLEAN
      BY <2>2 DEF Evaluate, WriteAndApply, Skip, TypeOK
    <3> QED
      BY <1>1, <1>2, <2>2, <3>1 DEF TypeOK, OsType, TroubleType, history
  <2> QED
    BY <1>2, <2>1, <2>2
<1>4. GivenBack'
  BY <1>2 DEF GivenBack, Skip, os, trouble, history, Restorable, AsFound
<1> QED
  BY <1>2, <1>3, <1>4 DEF GovernorInv

(* The calls the callback makes.                                            *)
LEMMA CallKeeps ==
  ASSUME GovernorInv, GivenBack, ReceiverType, CallSource \/ CallLevel
  PROVE  GovernorInv' /\ GivenBack'
<1>1. loop' = loop /\ up /\ TypeOK
  BY DEF CallSource, CallLevel, ReceiverType, GovernorInv
<1>2. CASE UNCHANGED governor
  BY <1>1, <1>2, AloofKeeps
<1>3. ASSUME NEW src \in {"AC", "Battery"}, OnPowerSourceChanged(src)
      PROVE  GovernorInv' /\ GivenBack'
  <2>1. CASE loop # "shut"
    BY <1>1, <1>3, <2>1, EventSteps, GovernsKeeps DEF GovernorInv
  <2>2. CASE loop = "shut"
    BY <1>1, <1>3, <2>2, LateEvaluationKeeps DEF OnPowerSourceChanged, TypeOK, Sources
  <2> QED
    BY <2>1, <2>2
<1>4. CASE OnBatteryPercentChanged(percent)
  <2>1. percent \in Percent
    BY DEF ReceiverType
  <2>2. CASE loop # "shut"
    BY <1>1, <1>4, <2>1, <2>2, EventSteps, GovernsKeeps DEF GovernorInv
  <2>3. CASE loop = "shut" /\ IsLow(battery) # IsLow(percent)
    BY <1>1, <1>4, <2>1, <2>3, LateEvaluationKeeps DEF OnBatteryPercentChanged, TypeOK
  <2>4. CASE loop = "shut" /\ IsLow(battery) = IsLow(percent)
    <3>1. Skip /\ battery' = percent
          /\ UNCHANGED <<up, saved, saved_baseline, paused, source, fast_ramp, last_pid, history>>
      BY <1>4, <2>4 DEF OnBatteryPercentChanged
    <3>2. TypeOK' /\ NothingPending'
      BY <1>1, <2>1, <3>1 DEF GovernorInv, TypeOK, NothingPending, Skip, os, trouble, history
    <3> QED
      BY <1>1, <2>4, <3>1, <3>2 DEF GovernorInv, GivenBack, Restorable, AsFound, Skip, os, trouble,
                                    history
  <2> QED
    BY <2>2, <2>3, <2>4
<1> QED
  BY <1>2, <1>3, <1>4 DEF CallSource, CallLevel

(* The end of the process: what a late call captured is lost.               *)
LEMMA ExitKeeps ==
  ASSUME GovernorInv, GivenBack, ReceiverType, Exit
  PROVE  GovernorInv' /\ GivenBack'
<1>1. /\ up /\ TypeOK /\ ProcessGone /\ loop = "shut" /\ loop' = "gone"
      /\ ended' = "clean" /\ crashed' = (crashed \/ has_scheme)
      /\ UNCHANGED <<os, trouble, origin, misread, blind>>
  BY DEF Exit, ReceiverType, GovernorInv
<1>2. OsType' /\ TroubleType' /\ NothingPending'
  BY <1>1 DEF GovernorInv, TypeOK, OsType, TroubleType, NothingPending, os, trouble
<1>3. crashed' \in BOOLEAN
  BY <1>1 DEF TypeOK
<1>4. ~crashed' /\ ~blind /\ Restorable =>
        (\A g \in Scheme : AsFound(g, reg'[g])) /\ ~stale'
  BY <1>1 DEF GivenBack, os, trouble
<1>5. IInv'
  BY <1>1, <1>2, <1>3, <1>4, EndStep
<1> QED
  BY <1>1, <1>5, GovernsKeeps

(* Everything else that reaches PowerManager does so before shutdown().     *)
LEMMA MainThreadKeeps ==
  ASSUME GovernorInv, MainThread
  PROVE  GovernorInv' /\ GivenBack'
<1>1. IInv /\ loop' # "shut"
  BY DEF GovernorInv, MainThread, daemon
<1>2. ASSUME NEW p \in BOOLEAN, SetPaused(p) PROVE IInv'
  BY <1>1, <1>2, EventSteps, PauseStep
<1>3. IInv'
  BY <1>1, <1>2, EventSteps DEF MainThread
<1> QED
  BY <1>1, <1>3, GovernsKeeps

LEMMA BeginKeeps ==
  ASSUME GovernorInv, Begin
  PROVE  GovernorInv' /\ GivenBack'
<1>1. IInv /\ loop' # "shut"
  BY DEF GovernorInv, Begin
<1>2. IInv'
  BY <1>1, InitializeStep, BlindStep DEF Begin
<1> QED
  BY <1>1, <1>2, GovernsKeeps

LEMMA GovernorStep ==
  ASSUME GovernorInv, GivenBack, ReceiverType, [DNext]_dvars
  PROVE  GovernorInv' /\ GivenBack'
<1>1. CASE MainsChanges
  BY <1>1, AloofKeeps DEF MainsChanges
<1>2. CASE LevelChanges
  BY <1>2, AloofKeeps DEF LevelChanges
<1>3. CASE Register
  BY <1>3, AloofKeeps DEF Register
<1>4. CASE LoopStops
  BY <1>4, AloofKeeps DEF LoopStops
<1>5. CASE LoopFails
  BY <1>5, AloofKeeps DEF LoopFails
<1>6. CASE Unregister
  BY <1>6, AloofKeeps DEF Unregister
<1>7. CASE Deliver
  BY <1>7, AloofKeeps DEF Deliver
<1>8. CASE UNCHANGED dvars
  BY <1>8, AloofKeeps DEF dvars, daemon
<1> QED
  BY <1>1, <1>2, <1>3, <1>4, <1>5, <1>6, <1>7, <1>8, BeginKeeps, MainThreadKeeps,
     ShutsDownKeeps, ExitKeeps, CallKeeps DEF DNext

----------------------------------------------------------------------------
(* PowerDaemon: what its steps do to the daemon's own state.                *)

LEMMA MainThreadEffect ==
  ASSUME MainThread
  PROVE  up' = up /\ source' = source /\ battery' = battery
BY DEF MainThread, OnForegroundProcessChanged, OnHousekeeping, SetPaused

LEMMA CallSourceEffect ==
  ASSUME CallSource
  PROVE  up' = up /\ SourceCalled' /\ battery' = battery
<1>1. is_ac' = is_ac
  BY DEF CallSource
<1>2. CASE UNCHANGED governor /\ source = IF is_ac THEN "AC" ELSE "Battery"
  BY <1>1, <1>2 DEF governor, pm, SourceCalled
<1>3. CASE OnPowerSourceChanged(IF is_ac THEN "AC" ELSE "Battery")
  BY <1>1, <1>3 DEF OnPowerSourceChanged, SourceCalled
<1> QED
  BY <1>2, <1>3 DEF CallSource

LEMMA CallLevelEffect ==
  ASSUME CallLevel
  PROVE  up' = up /\ source' = source /\ battery' = percent
BY DEF CallLevel, OnBatteryPercentChanged

(* The notification Windows posts has the type of its kind.                 *)
LEMMA NoticeIsTyped ==
  ASSUME ReceiverType, NEW k \in Notices
  PROVE  /\ Notice(k) \in NoticeType
         /\ Notice(k).kind = k /\ Notice(k).value = Present(k)
BY DEF ReceiverType, Notices, Notice, NoticeType, Present

(* What Windows posts when something changes: a notification of that kind,  *)
(* at the end, or none if the kind is not registered.                       *)
LEMMA PostsEffect ==
  ASSUME ReceiverType', QueueInv, NEW k \in Notices, Posts(k)
  PROVE  \/ k \notin handles /\ posted' = posted
         \/ /\ k \in handles
            /\ posted' \in Seq(NoticeType)
            /\ Len(posted) \in Nat /\ Len(posted) < MaxPosted
            /\ Len(posted') = Len(posted) + 1
            /\ \A i \in 1..Len(posted) : posted'[i] = posted[i]
            /\ posted'[Len(posted)+1].kind = k
            /\ posted'[Len(posted)+1].value = Present(k)'
<1>1. CASE k \notin handles
  BY <1>1 DEF Posts
<1>2. CASE k \in handles
  <2>1. posted' = Append(posted, Notice(k)') /\ Len(posted) < MaxPosted
    BY <1>2 DEF Posts
  <2>2. /\ Notice(k)' \in NoticeType
        /\ Notice(k)'.kind = k /\ Notice(k)'.value = Present(k)'
    BY DEF ReceiverType, Notices, Notice, NoticeType, Present
  <2>3. posted \in Seq(NoticeType)
    BY DEF QueueInv
  <2> DEFINE e == Notice(k)'
  <2> HIDE DEF e
  <2>4. /\ Append(posted, e) \in Seq(NoticeType)
        /\ Len(Append(posted, e)) = Len(posted) + 1
        /\ \A i \in 1..Len(posted) : Append(posted, e)[i] = posted[i]
        /\ Append(posted, e)[Len(posted) + 1] = e
    BY <2>2, <2>3, Appended DEF e
  <2> QED
    BY <1>2, <2>1, <2>2, <2>3, <2>4 DEF e
<1> QED
  BY <1>1, <1>2

(* What taking the first notification does.                                 *)
LEMMA DeliverEffect ==
  ASSUME QueueInv, Deliver
  PROVE  /\ posted' \in Seq(NoticeType) /\ Len(posted) \in Nat /\ Len(posted) > 0
         /\ Len(posted') = Len(posted) - 1
         /\ \A i \in 1..Len(posted') : posted'[i] = posted[i + 1]
         /\ posted[1] \in NoticeType
         /\ heard' = heard \cup {posted[1].kind} /\ posted[1].kind \in handles
         /\ posted[1].kind = "source" =>
              is_ac' = (posted[1].value = "AC") /\ percent' = percent
         /\ posted[1].kind # "source" =>
              percent' = posted[1].value /\ is_ac' = is_ac
<1>1. posted \in Seq(NoticeType) /\ posted # <<>> /\ posted' = Tail(posted)
  BY DEF QueueInv, Deliver
<1>2. /\ Tail(posted) \in Seq(NoticeType) /\ Len(posted) \in Nat /\ Len(posted) > 0
      /\ Len(Tail(posted)) = Len(posted) - 1
      /\ Head(posted) = posted[1] /\ posted[1] \in NoticeType
      /\ \A i \in 1..Len(posted) - 1 : Tail(posted)[i] = posted[i + 1]
  BY <1>1, Taken
<1>3. posted[1].kind \in handles
  BY <1>2 DEF QueueInv
<1>4. /\ heard' = heard \cup {posted[1].kind}
      /\ posted[1].kind = "source" =>
           is_ac' = (posted[1].value = "AC") /\ percent' = percent
      /\ posted[1].kind # "source" =>
           percent' = posted[1].value /\ is_ac' = is_ac
  BY <1>2 DEF Deliver
<1> QED
  BY <1>1, <1>2, <1>3, <1>4

(* What the registration leaves in the queue.                               *)
LEMMA RegisterEffect ==
  ASSUME ReceiverType, Register
  PROVE  /\ handles' \subseteq Notices
         /\ posted' \in Seq(NoticeType) /\ Len(posted') \in 0..2
         /\ posted' # <<>> => handles' # {}
         /\ \A i \in 1..Len(posted') :
              posted'[i].kind \in handles' /\ posted'[i].value = Present(posted'[i].kind)
<1> DEFINE s == Notice("source")
           l == Notice("level")
<1>1. /\ s \in NoticeType /\ s.kind = "source" /\ s.value = Present("source")
      /\ l \in NoticeType /\ l.kind = "level" /\ l.value = Present("level")
  BY NoticeIsTyped DEF Notices
<1> HIDE DEF s, l
<1>2. PICK q \in {<<>>, <<s>>, <<l>>, <<s, l>>} :
        posted' = q /\ {q[i].kind : i \in DOMAIN q} \subseteq handles'
  BY DEF Register, s, l
<1>3. q \in Seq(NoticeType) /\ Len(q) \in 0..2 /\ DOMAIN q = 1..Len(q)
  <2>1. CASE q = <<>>
    BY <2>1
  <2>2. CASE q = <<s>>
    BY <1>1, <2>2
  <2>3. CASE q = <<l>>
    BY <1>1, <2>3
  <2>4. CASE q = <<s, l>>
    BY <1>1, <2>4
  <2> QED
    BY <2>1, <2>2, <2>3, <2>4
<1>4. \A i \in 1..Len(q) : q[i].value = Present(q[i].kind)
  BY <1>1
<1>5. \A i \in 1..Len(q) : q[i].kind \in handles'
  BY <1>2, <1>3
<1>6. q # <<>> => handles' # {}
  <2> SUFFICES ASSUME q # <<>> PROVE handles' # {}
    OBVIOUS
  <2>1. 1 \in 1..Len(q)
    OBVIOUS
  <2> QED
    BY <1>5, <2>1
<1>7. handles' \subseteq Notices
  BY DEF Register
<1> QED
  BY <1>2, <1>3, <1>4, <1>5, <1>6, <1>7

----------------------------------------------------------------------------
(* PowerDaemon: the receiver's invariant.                                   *)

ReceiverInv == QueueInv /\ Followed

(* A change of what notifications of kind k report, and no other.           *)
LEMMA PostKeeps ==
  ASSUME ReceiverType', ReceiverInv, NEW k \in Notices, Posts(k),
         \A o \in Notices \ {k} : Present(o)' = Present(o),
         mains' = mains \/ k = "source", level' = level \/ k = "level",
         UNCHANGED <<loop, handles, is_ac, percent, heard>>
  PROVE  ReceiverInv'
<1>1. QueueInv /\ Followed
  BY DEF ReceiverInv
<1>2. CASE k \notin handles /\ posted' = posted
  <2>1. QueueInv'
    BY <1>1, <1>2 DEF QueueInv
  <2>2. ASSUME NEW o \in Notices
        PROVE  /\ \A i \in 1..Len(posted') : Newest(i, o)' => posted'[i].value = Present(o)'
               /\ loop' \in {"looping", "failing"} /\ o \in heard' /\ None(o)' => Told(o)'
    <3>1. CASE o = k
      BY <1>1, <1>2, <3>1 DEF QueueInv, Newest
    <3>2. CASE o # k
      <4>1. Present(o)' = Present(o)
        BY <3>2
      <4>2. \A i \in 1..Len(posted') : Newest(i, o)' => posted'[i].value = Present(o)'
        BY <1>1, <1>2, <4>1 DEF Followed, Newest
      <4>3. Told(o) => Told(o)'
        BY <3>2 DEF Told, Notices
      <4> QED
        BY <1>1, <1>2, <4>2, <4>3 DEF Followed, None
    <3> QED
      BY <3>1, <3>2
  <2> QED
    BY <2>1, <2>2 DEF ReceiverInv, Followed
<1>3. ASSUME k \in handles, posted' \in Seq(NoticeType),
             Len(posted) \in Nat, Len(posted') = Len(posted) + 1,
             \A i \in 1..Len(posted) : posted'[i] = posted[i],
             posted'[Len(posted)+1].kind = k,
             posted'[Len(posted)+1].value = Present(k)'
      PROVE  ReceiverInv'
  <2> DEFINE n == Len(posted)
  <2>1. n \in Nat /\ Len(posted') = n + 1
    BY <1>3
  <2>2. \A i \in 1..(n + 1) : i = n + 1 \/ i \in 1..n
    BY <2>1
  <2>3. n + 1 \in 1..(n + 1) /\ \A i \in 1..n : n + 1 > i /\ i \in 1..(n + 1)
    BY <2>1
  <2> HIDE DEF n
  <2>4. /\ \A i \in 1..n : posted'[i] = posted[i]
        /\ posted'[n + 1].kind = k /\ posted'[n + 1].value = Present(k)'
    BY <1>3 DEF n
  <2>5. QueueInv'
    <3>1. \A i \in 1..n : posted[i].kind \in handles
      BY <1>1 DEF QueueInv, n
    <3>2. \A i \in 1..Len(posted') : posted'[i].kind \in handles'
      BY <1>3, <2>1, <2>2, <2>4, <3>1
    <3> QED
      BY <1>1, <1>3, <3>2 DEF QueueInv
  <2>6. ASSUME NEW o \in Notices
        PROVE  /\ \A i \in 1..Len(posted') : Newest(i, o)' => posted'[i].value = Present(o)'
               /\ loop' \in {"looping", "failing"} /\ o \in heard' /\ None(o)' => Told(o)'
    <3>1. CASE o = k
      <4>1. ASSUME NEW i \in 1..(n + 1), Newest(i, o)' PROVE i = n + 1
        BY <2>1, <2>2, <2>3, <2>4, <3>1, <4>1 DEF Newest
      <4>2. ~None(o)'
        BY <2>1, <2>3, <2>4, <3>1 DEF None
      <4> QED
        BY <2>1, <2>4, <3>1, <4>1, <4>2
    <3>2. CASE o # k
      <4>1. Present(o)' = Present(o)
        BY <3>2
      <4>2. ASSUME NEW i \in 1..(n + 1), Newest(i, o)'
            PROVE  posted'[i].value = Present(o)'
        <5>1. i \in 1..n
          BY <2>2, <2>4, <3>2, <4>2 DEF Newest
        <5>2. Newest(i, o)
          BY <2>1, <2>3, <2>4, <4>2, <5>1 DEF Newest, n
        <5> QED
          BY <1>1, <2>4, <4>1, <5>1, <5>2 DEF Followed, n
      <4>3. None(o)' => None(o)
        BY <2>1, <2>3, <2>4 DEF None, n
      <4>4. Told(o) => Told(o)'
        BY <3>2 DEF Told, Notices
      <4> QED
        BY <1>1, <2>1, <4>2, <4>3, <4>4 DEF Followed
    <3> QED
      BY <3>1, <3>2
  <2> QED
    BY <2>5, <2>6 DEF ReceiverInv, Followed
<1> QED
  BY <1>1, <1>2, <1>3, PostsEffect

(* The first notification is taken: what it says is what the daemon knows.  *)
LEMMA DeliverKeeps ==
  ASSUME ReceiverType, ReceiverInv, Deliver
  PROVE  ReceiverInv'
<1>1. QueueInv /\ Followed
  BY DEF ReceiverInv
<1>2. /\ UNCHANGED <<mains, level, loop, handles>>
      /\ loop \in {"looping", "failing"}
  BY DEF Deliver, machine, Receiving
<1> DEFINE n == Len(posted')
<1>3. /\ posted' \in Seq(NoticeType) /\ n \in Nat /\ Len(posted) = n + 1
      /\ \A i \in 1..n : posted'[i] = posted[i + 1]
      /\ heard' = heard \cup {posted[1].kind} /\ posted[1].kind \in handles
      /\ posted[1].kind = "source" => is_ac' = (posted[1].value = "AC") /\ percent' = percent
      /\ posted[1].kind # "source" => percent' = posted[1].value /\ is_ac' = is_ac
  BY <1>1, DeliverEffect
<1>4. /\ 1 \in 1..(n + 1)
      /\ \A i \in 1..n : i + 1 \in 1..(n + 1) /\ i + 1 > 1
      /\ \A i \in 1..(n + 1) : i = 1 \/ (i - 1 \in 1..n /\ (i - 1) + 1 = i)
      /\ \A i \in 1..n, j \in 1..(n + 1) : j > i + 1 => j - 1 > i /\ j - 1 \in 1..n
  BY <1>3
<1> HIDE DEF n
<1>5. \A j \in 1..(n + 1) : j = 1 \/ posted[j] = posted'[j - 1]
  BY <1>3, <1>4
<1>6. QueueInv'
  <2>1. \A i \in 1..(n + 1) : posted[i].kind \in handles
    BY <1>1, <1>3 DEF QueueInv
  <2>2. \A i \in 1..n : posted'[i].kind \in handles'
    BY <1>2, <1>3, <1>4, <2>1
  <2> QED
    BY <1>1, <1>2, <1>3, <2>2 DEF QueueInv, n
<1>7. ASSUME NEW k \in Notices
      PROVE  /\ \A i \in 1..n : Newest(i, k)' => posted'[i].value = Present(k)'
             /\ k \in heard' /\ None(k)' => Told(k)'
  <2>1. Present(k)' = Present(k)
    BY <1>2 DEF Present
  <2>2. ASSUME NEW i \in 1..n, Newest(i, k)' PROVE posted'[i].value = Present(k)'
    <3>1. i + 1 \in 1..Len(posted) /\ posted[i + 1].kind = k
      BY <1>3, <1>4, <2>2 DEF Newest
    <3>2. ASSUME NEW j \in 1..Len(posted), j > i + 1 PROVE posted[j].kind # k
      <4>1. j - 1 \in 1..n /\ j - 1 > i /\ posted'[j - 1] = posted[j]
        BY <1>3, <1>4, <1>5, <3>2
      <4> QED
        BY <2>2, <4>1 DEF Newest, n
    <3> QED
      BY <1>1, <1>3, <2>1, <3>1, <3>2 DEF Followed, Newest
  <2>3. ASSUME k \in heard', None(k)' PROVE Told(k)'
    <3>1. \A j \in 1..n : posted'[j].kind # k
      BY <2>3 DEF None, n
    <3>2. \A j \in 1..(n + 1) : j # 1 => posted[j].kind # k
      BY <1>4, <1>5, <3>1
    <3>3. CASE posted[1].kind = k
      <4>1. Newest(1, k)
        BY <1>3, <1>4, <3>2, <3>3 DEF Newest
      <4>2. posted[1].value = Present(k)
        BY <1>1, <1>3, <1>4, <4>1 DEF Followed
      <4>3. CASE k = "source"
        BY <1>2, <1>3, <3>3, <4>2, <4>3 DEF Told, Present
      <4>4. CASE k = "level"
        BY <1>2, <1>3, <3>3, <4>2, <4>4 DEF Told, Present
      <4> QED
        BY <4>3, <4>4 DEF Notices
    <3>4. CASE posted[1].kind # k
      <4>1. Told(k)
        BY <1>1, <1>2, <1>3, <2>3, <3>2, <3>4 DEF Followed, None
      <4>2. CASE k = "source"
        BY <1>2, <1>3, <3>4, <4>1, <4>2 DEF Told
      <4>3. CASE k = "level"
        <5>1. posted[1].kind = "source"
          BY <1>3, <3>4, <4>3 DEF ReceiverType, Notices
        <5> QED
          BY <1>2, <1>3, <4>1, <4>3, <5>1 DEF Told
      <4> QED
        BY <4>2, <4>3 DEF Notices
    <3> QED
      BY <3>3, <3>4
  <2> QED
    BY <2>2, <2>3
<1> QED
  BY <1>6, <1>7 DEF ReceiverInv, Followed, n

(* Windows posts the present values when the loop registers.                *)
LEMMA RegisterKeeps ==
  ASSUME ReceiverType, ReceiverInv, Register
  PROVE  ReceiverInv'
<1>1. /\ handles' \subseteq Notices /\ posted' \in Seq(NoticeType)
      /\ \A i \in 1..Len(posted') :
           posted'[i].kind \in handles' /\ posted'[i].value = Present(posted'[i].kind)
  BY RegisterEffect
<1>2. /\ heard' = {} /\ loop' = "looping"
      /\ UNCHANGED <<mains, level>>
  BY DEF Register, ReceiverInv, QueueInv, machine
<1>3. QueueInv'
  BY <1>1, <1>2 DEF QueueInv
<1>4. Followed'
  BY <1>1, <1>2 DEF Followed, Newest, Present
<1> QED
  BY <1>3, <1>4 DEF ReceiverInv

(* Nothing is posted or taken.                                              *)
LEMMA ReceiverIdles ==
  ASSUME ReceiverInv,
         UNCHANGED <<mains, level, handles, posted>>,
         heard' = heard \/ heard' = {},
         loop \notin {"looping", "failing"} => loop' \notin {"looping", "failing"},
         loop' \in {"looping", "failing"} => UNCHANGED <<is_ac, percent, heard>>,
         loop' \notin {"looping", "failing"} => handles = {},
         loop' \in {"gone", "starting"} => heard' = {}
  PROVE  ReceiverInv'
<1>1. QueueInv'
  BY DEF ReceiverInv, QueueInv
<1>2. Followed'
  BY DEF ReceiverInv, Followed, Newest, None, Present, Told
<1> QED
  BY <1>1, <1>2 DEF ReceiverInv

(* The loop unregisters.                                                    *)
LEMMA UnregistrationKeeps ==
  ASSUME LoopStops \/ Unregister
  PROVE  ReceiverInv'
<1>1. posted' = <<>> /\ handles' = {} /\ loop' = "closing"
  BY DEF LoopStops, Unregister
<1>2. QueueInv'
  BY <1>1, EmptyQueue DEF QueueInv
<1>3. Followed'
  BY <1>1, EmptyQueue DEF Followed
<1> QED
  BY <1>2, <1>3 DEF ReceiverInv

LEMMA ReceiverStep ==
  ASSUME ReceiverType, ReceiverType', ReceiverInv, CallsEnd, [DNext]_dvars
  PROVE  ReceiverInv'
<1>1. QueueInv
  BY DEF ReceiverInv
<1>2. CASE MainsChanges
  BY <1>2, PostKeeps DEF MainsChanges, Notices, Present
<1>3. CASE LevelChanges
  BY <1>3, PostKeeps DEF LevelChanges, Notices, Present
<1>4. CASE Begin
  BY <1>1, <1>4, ReceiverIdles DEF Begin, machine, receiver, QueueInv
<1>5. CASE MainThread
  BY <1>1, <1>5, ReceiverIdles DEF MainThread, machine, daemon, receiver, QueueInv
<1>6. CASE LoopFails
  BY <1>1, <1>6, ReceiverIdles DEF LoopFails, machine, receiver, QueueInv
<1>7. CASE ShutsDown
  BY <1>1, <1>7, ReceiverIdles DEF ShutsDown, machine, receiver, QueueInv
<1>8. CASE Exit
  BY <1>1, <1>8, ReceiverIdles DEF Exit, machine, QueueInv
<1>9. CASE CallSource
  BY <1>1, <1>9, ReceiverIdles DEF CallSource, machine, QueueInv
<1>10. CASE CallLevel
  BY <1>1, <1>10, ReceiverIdles DEF CallLevel, machine, QueueInv
<1>11. CASE UNCHANGED dvars
  BY <1>1, <1>11, ReceiverIdles DEF dvars, machine, daemon, receiver, QueueInv
<1> QED
  BY <1>2, <1>3, <1>4, <1>5, <1>6, <1>7, <1>8, <1>9, <1>10, <1>11,
     RegisterKeeps, UnregistrationKeeps, DeliverKeeps DEF DNext

(* The daemon's own variables keep their types.                             *)
LEMMA ReceiverTypeStep ==
  ASSUME ReceiverType, ReceiverInv, CallsEnd, [DNext]_dvars
  PROVE  ReceiverType'
<1>1. QueueInv
  BY DEF ReceiverInv
<1>2. ASSUME NEW k \in Notices, Posts(k),
             mains' \in {"AC", "Battery"}, level' \in BatteryLevel,
             UNCHANGED <<mode, loop, up, handles, heard, is_ac, percent, call, failed>>
      PROVE  ReceiverType'
  <2>1. CASE k \notin handles
    BY <1>2, <2>1 DEF Posts, ReceiverType
  <2>2. CASE k \in handles
    <3>1. /\ Notice(k)' \in NoticeType /\ posted' = Append(posted, Notice(k)')
          /\ Len(posted) < MaxPosted
      BY <1>2, <2>2 DEF Posts, Notices, Notice, NoticeType
    <3> DEFINE e == Notice(k)'
    <3> HIDE DEF e
    <3>2. posted \in Seq(NoticeType) /\ Len(posted) \in Nat
      BY <1>1 DEF QueueInv
    <3>3. Len(Append(posted, e)) = Len(posted) + 1
      BY <3>1, <3>2, Appended DEF e
    <3>4. Len(posted') <= MaxPosted
      BY <3>1, <3>2, <3>3, DaemonAssumption DEF e
    <3> QED
      BY <1>2, <2>2, <3>4 DEF ReceiverType
  <2> QED
    BY <2>1, <2>2
<1>3. CASE MainsChanges
  BY <1>2, <1>3 DEF MainsChanges, ReceiverType, Notices, governor
<1>4. CASE LevelChanges
  BY <1>2, <1>4 DEF LevelChanges, ReceiverType, Notices, governor
<1>5. CASE Begin
  <2>1. up'
    BY <1>5 DEF Begin, Initialize, InitializeFails
  <2> QED
    BY <1>5, <2>1 DEF Begin, ReceiverType, machine, receiver
<1>6. CASE Register
  <2>1. up' = up
    BY <1>6 DEF Register, governor
  <2>2. Len(posted') <= MaxPosted /\ handles' \subseteq Notices
        /\ (posted' # <<>> => handles' # {})
    BY <1>6, RegisterEffect, DaemonAssumption
  <2> QED
    BY <1>6, <2>1, <2>2 DEF Register, ReceiverType, machine
<1>7. CASE MainThread
  BY <1>7, MainThreadEffect DEF MainThread, ReceiverType, machine, daemon, receiver
<1>8. CASE LoopStops \/ Unregister
  <2>1. posted' = <<>> /\ handles' = {} /\ up' = up
    BY <1>8 DEF LoopStops, Unregister, governor
  <2> QED
    BY <1>8, <2>1, EmptyQueue, DaemonAssumption DEF LoopStops, Unregister, ReceiverType, machine
<1>9. CASE LoopFails
  BY <1>9 DEF LoopFails, ReceiverType, governor, machine, receiver
<1>10. CASE ShutsDown
  BY <1>10 DEF ShutsDown, ReceiverType, machine, receiver
<1>11. CASE Exit
  <2>1. up' = FALSE /\ call = "none" /\ call' = call
    BY <1>11 DEF Exit, ProcessGone
  <2>2. percent' \in Percent
    BY <1>11, PowerAssumption DEF Exit, Percent
  <2> QED
    BY <1>11, <2>1, <2>2 DEF Exit, ReceiverType, machine
<1>12. CASE Deliver
  <2>1. /\ posted' \in Seq(NoticeType) /\ Len(posted) \in Nat
        /\ Len(posted') = Len(posted) - 1
        /\ posted[1] \in NoticeType
        /\ heard' = heard \cup {posted[1].kind} /\ posted[1].kind \in handles
        /\ posted[1].kind = "source" => is_ac' = (posted[1].value = "AC") /\ percent' = percent
        /\ posted[1].kind # "source" => percent' = posted[1].value /\ is_ac' = is_ac
    BY <1>1, <1>12, DeliverEffect
  <2>2. Len(posted') <= MaxPosted /\ handles' # {} /\ heard' \subseteq Notices
    BY <1>12, <2>1, DaemonAssumption DEF Deliver, ReceiverType
  <2>3. is_ac' \in BOOLEAN
    BY <2>1 DEF ReceiverType
  <2>4. percent' \in Percent
    BY <2>1, PowerAssumption DEF ReceiverType, NoticeType
  <2>5. up' = up /\ call' = "source" /\ up
    BY <1>12 DEF Deliver, Receiving, ReceiverType, governor
  <2> QED
    BY <1>12, <2>2, <2>3, <2>4, <2>5 DEF Deliver, ReceiverType, machine
<1>13. CASE CallSource
  BY <1>13, CallSourceEffect DEF CallSource, ReceiverType, machine
<1>14. CASE CallLevel
  BY <1>14, CallLevelEffect DEF CallLevel, ReceiverType, machine
<1>15. CASE UNCHANGED dvars
  BY <1>15 DEF dvars, governor, machine, daemon, receiver, ReceiverType
<1> QED
  BY <1>3, <1>4, <1>5, <1>6, <1>7, <1>8, <1>9, <1>10, <1>11, <1>12, <1>13, <1>14, <1>15
     DEF DNext

(* What the daemon was told is passed on.                                   *)
LEMMA PassedOnStep ==
  ASSUME QueueInv, CallsEnd, PassedOn, [DNext]_dvars
  PROVE  PassedOn'
<1>1. CASE MainsChanges \/ LevelChanges \/ Register \/ LoopStops \/ LoopFails \/ Unregister
           \/ UNCHANGED dvars
  <2>1. UNCHANGED <<source, battery, is_ac, percent, call, heard>>
    BY <1>1 DEF MainsChanges, LevelChanges, Register, LoopStops, LoopFails, Unregister,
                dvars, governor, pm, daemon, receiver
  <2> QED
    BY <2>1 DEF PassedOn, SourceCalled
<1>2. CASE Begin
  BY <1>2 DEF Begin, receiver, QueueInv, CallsEnd, PassedOn
<1>3. CASE MainThread
  BY <1>3, MainThreadEffect DEF MainThread, daemon, receiver, PassedOn, SourceCalled
<1>4. CASE ShutsDown
  BY <1>4 DEF ShutsDown, receiver, PassedOn, SourceCalled
<1>5. CASE Exit
  BY <1>5 DEF Exit, PassedOn
<1>6. CASE Deliver
  BY <1>6 DEF Deliver, PassedOn
<1>7. CASE CallSource
  BY <1>7, CallSourceEffect DEF CallSource, PassedOn
<1>8. CASE CallLevel
  BY <1>8, CallLevelEffect DEF CallLevel, PassedOn, SourceCalled
<1> QED
  BY <1>1, <1>2, <1>3, <1>4, <1>5, <1>6, <1>7, <1>8 DEF DNext

(* No call outlives a loop that was told to stop.                           *)
LEMMA CallsEndStep ==
  ASSUME QueueInv, CallsEnd, [DNext]_dvars
  PROVE  CallsEnd'
<1>1. CASE MainsChanges \/ LevelChanges \/ Register \/ LoopStops \/ LoopFails \/ Unregister
           \/ UNCHANGED dvars
  BY <1>1 DEF MainsChanges, LevelChanges, Register, LoopStops, LoopFails, Unregister,
              dvars, governor, pm, daemon, receiver, CallsEnd
<1>2. CASE Begin
  BY <1>2 DEF Begin, receiver, CallsEnd
<1>3. CASE MainThread
  BY <1>3 DEF MainThread, daemon, receiver, CallsEnd
<1>4. CASE ShutsDown
  BY <1>4 DEF ShutsDown, receiver, CallsEnd
<1>5. CASE Exit
  BY <1>5 DEF Exit, CallsEnd
<1>6. CASE Deliver
  BY <1>6 DEF Deliver, Receiving, CallsEnd
<1>7. CASE CallSource
  BY <1>7 DEF CallSource, CallsEnd
<1>8. CASE CallLevel
  BY <1>8 DEF CallLevel, CallsEnd
<1> QED
  BY <1>1, <1>2, <1>3, <1>4, <1>5, <1>6, <1>7, <1>8 DEF DNext

----------------------------------------------------------------------------
(* PowerDaemon: the theorems.                                               *)

LEMMA DaemonInit == DInit => DInv
<1> SUFFICES ASSUME DInit PROVE DInv
  OBVIOUS
<1>1. IInv
  BY InitInvariant DEF DInit
<1>2. /\ up = FALSE /\ posted = <<>> /\ handles = {} /\ loop = "gone"
      /\ is_ac = TRUE /\ percent = 100 /\ call = "none" /\ heard = {} /\ failed = FALSE
  <2>1. up = FALSE
    BY DEF DInit, Init, FreshProcess
  <2> QED
    BY <2>1 DEF DInit
<1>3. ReceiverType
  <2>1. /\ mains \in {"AC", "Battery"} /\ level \in BatteryLevel
        /\ mode \in {"service", "console"}
    BY DEF DInit
  <2>2. percent \in Percent /\ Len(posted) <= MaxPosted
    BY <1>2, EmptyQueue, DaemonAssumption DEF Percent
  <2>3. up <=> loop # "gone"
    BY <1>2
  <2>4. is_ac \in BOOLEAN /\ failed \in BOOLEAN
    BY <1>2
  <2> QED
    BY <1>2, <2>1, <2>2, <2>3, <2>4 DEF ReceiverType
<1>4. QueueInv /\ Followed
  BY <1>2, EmptyQueue DEF QueueInv, Followed
<1>5. PassedOn /\ CallsEnd /\ GivenBack
  BY <1>2 DEF PassedOn, CallsEnd, GivenBack
<1>6. GovernorInv
  BY <1>1 DEF GovernorInv, IInv
<1> QED
  BY <1>3, <1>4, <1>5, <1>6, DaemonTypeParts DEF DInv, GovernorInv

LEMMA DaemonStep == DInv /\ [DNext]_dvars => DInv'
<1> SUFFICES ASSUME DInv, [DNext]_dvars PROVE DInv'
  OBVIOUS
<1>1. ReceiverType /\ ReceiverInv /\ PassedOn /\ CallsEnd /\ GivenBack /\ GovernorInv
  BY DaemonTypeParts DEF DInv, ReceiverInv
<1>2. ReceiverType'
  BY <1>1, ReceiverTypeStep
<1>3. QueueInv' /\ Followed'
  BY <1>1, <1>2, ReceiverStep DEF ReceiverInv
<1>4. PassedOn' /\ CallsEnd'
  BY <1>1, PassedOnStep, CallsEndStep DEF ReceiverInv
<1>5. GovernorInv' /\ GivenBack'
  BY <1>1, GovernorStep
<1>6. DaemonTypeOK'
  BY Zenon, <1>2, <1>5 DEF DaemonTypeOK, ReceiverType, GovernorInv
<1> QED
  BY <1>3, <1>4, <1>5, <1>6 DEF DInv

(* DInv holds in every reachable state. *)
THEOREM DaemonInvariance == DSpec => []DInv
<1>1. DInit => DInv
  BY DaemonInit
<1>2. DInv /\ [DNext]_dvars => DInv'
  BY DaemonStep
<1> QED
  BY <1>1, <1>2, PTL DEF DSpec

(* Type correctness of the daemon around PowerManager; notifications and    *)
(* calls are under way only while there is a process to take them           *)
(* (service.cpp, run_daemon_loop and process_power_broadcast_setting).      *)
THEOREM DaemonTypeCorrect == DSpec => []DaemonTypeOK
<1>1. DInv => DaemonTypeOK
  BY DEF DInv
<1> QED
  BY <1>1, DaemonInvariance, PTL

(* Once both kinds of notification have come and all are dealt with, the    *)
(* machine runs with the settings for its real power source and battery     *)
(* level, whatever interleaved with the two calls of a notification         *)
(* (process_power_broadcast_setting and the callback).                      *)
THEOREM MachineAlwaysInForce == DSpec => []MachineInForce
<1>1. DInv => MachineInForce
  <2> SUFFICES ASSUME DInv, Quiet, heard = Notices, Governing, ~stale
               PROVE  InForceFor(mains, level)
    BY DEF MachineInForce
  <2>1. loop = "looping" /\ call = "none" /\ IInv /\ mains \in {"AC", "Battery"}
    BY DEF Quiet, DInv, GovernorInv, DaemonTypeOK
  <2>2. None("source") /\ None("level")
    BY EmptyQueue DEF Quiet, None
  <2>3. is_ac = (mains = "AC") /\ percent = level
    BY <2>1, <2>2 DEF DInv, Followed, Notices, Told
  <2>4. source = (IF is_ac THEN "AC" ELSE "Battery") /\ battery = percent
    BY <2>1 DEF DInv, PassedOn, SourceCalled, Notices
  <2>5. source = mains /\ battery = level
    BY <2>1, <2>3, <2>4
  <2>6. Holds(reg, guid, source, Plan(source, battery, fast_ramp))
    BY <2>1 DEF IInv, TargetWritten
  <2>7. live = reg[active]
    BY <2>1 DEF IInv, NothingPending
  <2> QED
    BY <2>5, <2>6, <2>7 DEF InForceFor, Holds
<1> QED
  BY <1>1, DaemonInvariance, PTL

(* A loop that was told to stop gives the machine back, save what could not *)
(* be read of it, and no notification that was being dealt with takes it    *)
(* again after shutdown().                                                  *)
THEOREM StopsGiveBack == DSpec => []StopGivesBack
<1>1. DInv => StopGivesBack
  <2> SUFFICES ASSUME DInv, loop \in {"shut", "gone"}, ~failed
               PROVE  /\ ~has_scheme
                      /\ ~crashed /\ ~blind /\ Restorable =>
                           (\A g \in Scheme : AsFound(g, reg[g])) /\ live = reg[active]
    BY DEF StopGivesBack
  <2>1. NothingPending
    BY DEF DInv, GovernorInv
  <2>2. CASE loop = "shut"
    BY <2>1, <2>2 DEF DInv, CallsEnd, GivenBack, NothingPending
  <2>3. CASE loop = "gone"
    <3>1. ~up /\ IInv
      BY <2>3 DEF DInv, GovernorInv, DaemonTypeOK
    <3> QED
      BY <2>1, <3>1 DEF IInv, Idle, Untouched, NothingPending
  <2> QED
    BY <2>2, <2>3
<1> QED
  BY <1>1, DaemonInvariance, PTL

=============================================================================
