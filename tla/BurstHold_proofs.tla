-------------------------- MODULE BurstHold_proofs --------------------------
(* Proofs about BurstHold, for every value of the policy's times and of the *)
(* two polling periods.                                                     *)
EXTENDS BurstHold, TLAPS

----------------------------------------------------------------------------
(* The step lemmas share one case analysis of the next-state relation: the  *)
(* tick of the daemon with its three outcomes, and everything else.         *)

(* What Focus and SwitchTo do to the burst: a new subject, or nothing.      *)
NewSubject ==
  /\ fg' \in Pid /\ fast' = TRUE /\ elapsed' = 0 /\ quiet' = -1
  /\ sampled' = FALSE /\ owner' = 0
  /\ worked' = FALSE /\ diluted' = FALSE /\ gap' = FALSE /\ unheard' = silent
  /\ calm' = 0

SameSubject ==
  UNCHANGED <<fg, fast, elapsed, quiet, sampled, owner, worked, diluted, gap, unheard,
              calm>>

(* on_foreground_process_changed has these two outcomes.                    *)
LEMMA FocusOutcomes ==
  ASSUME NEW p \in Pid \cup {0}, Focus(p)
  PROVE  NewSubject \/ SameSubject
BY DEF Focus, NewSubject, SameSubject

(* A poll of a paused optimizer samples nothing.                            *)
PausedPoll ==
  /\ paused /\ timer = 0
  /\ diluted' = sampled /\ gap' = TRUE
  /\ period' = IdlePoll /\ timer' = period'
  /\ UNCHANGED <<fg, fast, elapsed, quiet, sampled, owner, worked, unheard, calm>>
  /\ UNCHANGED <<paused, ipc, input_age>>

(* What every sample does, whatever it finds.                               *)
Sample ==
  /\ ~paused /\ timer = 0
  /\ sampled' = (sampled \/ Sampleable(fg))
  /\ owner' = IF Sampleable(fg) THEN fg ELSE owner
  /\ worked' = FALSE /\ diluted' = FALSE
  /\ period' = IF fast' THEN BusyPoll ELSE IdlePoll
  /\ timer' = period'
  /\ UNCHANGED <<fg, paused, ipc, input_age>>

(* What should_hold_boost looks at, but for the GPU.                        *)
Reason ==
  \/ elapsed < Grace
  \/ view.idle <= InputHold
  \/ Sampleable(fg) /\ (worked \/ ~sampled)
  \/ (fg = 0 \/ ~Sampleable(fg)) /\ elapsed < Fallback

(* A sample that finds a reason to hold the burst, or begins one.           *)
HeldPoll ==
  /\ Sample
  /\ Reason \/ calm' = 0
  /\ quiet' = -1 /\ fast' = TRUE
  /\ elapsed' = IF fast THEN elapsed ELSE 0
  /\ gap' = FALSE /\ unheard' = silent
  /\ calm' \in {0, calm} /\ (gap \/ ~fast => calm' = 0)

(* A sample that finds none: what should_hold_boost looks at is absent.     *)
QuietPoll ==
  /\ Sample
  /\ elapsed >= Grace /\ view.idle > InputHold
  /\ fg = 0 \/ ~Sampleable(fg) => elapsed >= Fallback
  /\ Sampleable(fg) => sampled /\ (diluted \/ ~worked)
  /\ quiet' = IF quiet = -1 THEN 0 ELSE quiet
  /\ fast' = (fast /\ quiet' < Hysteresis)
  /\ elapsed' = elapsed /\ gap' = gap /\ unheard' = (silent \/ unheard) /\ calm' = calm

(* on_housekeeping's sample_and_update_burst_hold has these three outcomes. *)
LEMMA PollOutcomes ==
  ASSUME TypeOK, NEW gpu \in BOOLEAN, Poll(gpu)
  PROVE  PausedPoll \/ HeldPoll \/ QuietPoll
<1>1. CASE paused
  BY <1>1 DEF Poll, PausedPoll, TypeOK
<1>2. CASE ~paused
  <2>1. PICK seen \in BOOLEAN :
          /\ Busy(seen)
          /\ IF should_hold_boost(fg, elapsed, view.idle, gpu, seen)
             THEN Hold ELSE Quieten
    BY <1>2 DEF Poll, sample_and_update_burst_hold
  <2>2. Sample
    BY <1>2 DEF Poll, sample_and_update_burst_hold, Sample
  <2>3. gap' = (gap /\ quiet' # -1) /\ unheard' = (silent \/ (unheard /\ quiet' # -1))
        /\ calm' = IF gpu \/ (quiet' = -1 /\ (gap \/ ~fast)) THEN 0 ELSE calm
    BY <1>2 DEF Poll, sample_and_update_burst_hold
  <2>4. CASE should_hold_boost(fg, elapsed, view.idle, gpu, seen)
    <3>1. gpu \/ Reason
      BY <2>1, <2>4 DEF should_hold_boost, Busy, Reason
    <3>2. Reason \/ calm' = 0
      BY <2>3, <3>1
    <3>3. unheard' = silent /\ gap' = FALSE
      BY <2>1, <2>3, <2>4 DEF Hold, TypeOK
    <3> QED
      BY <2>1, <2>2, <2>3, <2>4, <3>2, <3>3 DEF Hold, HeldPoll
  <2>5. CASE ~should_hold_boost(fg, elapsed, view.idle, gpu, seen)
    <3>1. ~gpu /\ elapsed >= Grace /\ view.idle > InputHold
      BY <2>5, BurstAssumption DEF should_hold_boost, TypeOK, Late, Longer, Never
    <3>2. (fg = 0 \/ ~Sampleable(fg)) => elapsed >= Fallback
      BY <2>5, BurstAssumption DEF should_hold_boost, TypeOK, Late, Longer
    <3>3. Sampleable(fg) => sampled /\ (diluted \/ ~worked)
      BY <2>1, <2>5 DEF should_hold_boost, Busy, TypeOK
    <3>4. quiet' = (IF quiet = -1 THEN 0 ELSE quiet) /\ elapsed' = elapsed
          /\ fast' = (fast /\ quiet' < Hysteresis)
      BY <2>1, <2>5 DEF Quieten
    <3>5. quiet' # -1
      BY <3>4
    <3>6. gap' = gap /\ unheard' = (silent \/ unheard) /\ calm' = calm
      BY <2>3, <3>1, <3>5 DEF TypeOK
    <3> QED
      BY <2>2, <3>1, <3>2, <3>3, <3>4, <3>6 DEF QuietPoll
  <2> QED
    BY <2>4, <2>5
<1> QED
  BY <1>1, <1>2

(* The event of the helper, or a switch the hook reports.                   *)
Refocus ==
  /\ NewSubject \/ SameSubject
  /\ event' \in {event, FALSE}
  /\ UNCHANGED <<paused, loop, view, helper, publish, silent, input_age>>

(* The helper publishes, on a switch or when its timer fires.               *)
Report ==
  /\ helper = "runs"
  /\ view' \in [pid : Pid \cup {0}, idle : {input_age}]
  /\ publish' \in {publish, HelperPeriod} /\ event' = TRUE /\ silent' = FALSE
  /\ UNCHANGED <<burst, loop, helper, world>>

(* The helper has nothing to publish.                                       *)
Silence ==
  /\ helper = "runs" /\ publish = 0 /\ publish' = HelperPeriod
  /\ silent' = TRUE /\ unheard' = TRUE
  /\ UNCHANGED <<fg, fast, elapsed, quiet, sampled, owner, paused, loop, view, event, helper,
                 input_age, worked, diluted, gap, calm>>

(* Nothing that matters to the burst happens: a pause, a sign-out.          *)
Aside ==
  /\ helper' = helper \/ (helper = "runs" /\ helper' = "gone")
  /\ paused' \in BOOLEAN
  /\ UNCHANGED <<fg, fast, elapsed, quiet, sampled, owner, loop, view, event, publish,
                 silent, world>>

(* Every step is one of these.                                              *)
LEMMA Outcomes ==
  ASSUME TypeOK, [Next]_vars
  PROVE  \/ PausedPoll \/ HeldPoll \/ QuietPoll
         \/ Refocus \/ Report \/ Silence \/ Aside
         \/ \E busy, input \in BOOLEAN : Tick(busy, input)
<1>1. ASSUME NEW gpu \in BOOLEAN, Poll(gpu)
      PROVE  PausedPoll \/ HeldPoll \/ QuietPoll
  BY <1>1, PollOutcomes
<1>2. CASE ConsumeEvent
  <2>1. NewSubject \/ SameSubject
    BY <1>2, FocusOutcomes DEF ConsumeEvent, TypeOK
  <2> QED
    BY <1>2, <2>1 DEF ConsumeEvent, Refocus
<1>3. ASSUME NEW p \in Pid, SwitchTo(p)
      PROVE  Refocus \/ Report
  <2>1. CASE helper = "none" /\ Focus(p) /\ UNCHANGED <<paused, loop, ipc, input_age>>
    <3>1. NewSubject \/ SameSubject
      BY <2>1, FocusOutcomes
    <3> QED
      BY <2>1, <3>1 DEF Refocus, ipc
  <2>2. CASE helper # "none"
    <3>1. helper = "runs" /\ view' = Published(p) /\ event' = TRUE /\ silent' = FALSE
          /\ UNCHANGED <<burst, loop, helper, publish, world>>
      BY <1>3, <2>2 DEF SwitchTo
    <3>2. view' \in [pid : Pid \cup {0}, idle : {input_age}]
      BY <3>1 DEF Published
    <3> QED
      BY <3>1, <3>2, Zenon DEF Report
  <2> QED
    BY <1>3, <2>1, <2>2 DEF SwitchTo
<1>4. ASSUME NEW p \in Pid, HelperPublish(p)
      PROVE  Report
  <2>1. view' \in [pid : Pid \cup {0}, idle : {input_age}]
    BY <1>4 DEF HelperPublish, Published
  <2> QED
    BY <1>4, <2>1 DEF HelperPublish, Report
<1>8. CASE HelperSilent
  BY <1>8 DEF HelperSilent, Silence, burst
<1>5. CASE TogglePause
  <2>1. paused' \in BOOLEAN
    BY <1>5 DEF TogglePause
  <2> QED
    BY <1>5, <2>1 DEF TogglePause, ipc, Aside
<1>6. CASE HelperGone
  <2>1. paused' \in BOOLEAN
    BY <1>6 DEF HelperGone, burst, TypeOK
  <2> QED
    BY <1>6, <2>1, Zenon DEF HelperGone, burst, ipc, Aside
<1>7. CASE UNCHANGED vars
  <2>1. paused' \in BOOLEAN
    BY <1>7 DEF vars, burst, TypeOK
  <2> QED
    BY <1>7, <2>1 DEF vars, burst, ipc, Aside
<1> QED
  BY <1>1, <1>2, <1>3, <1>4, <1>5, <1>6, <1>7, <1>8 DEF Next

----------------------------------------------------------------------------
(* Types. *)

(* What the assumption says of each time, and what follows for the caps.    *)
LEMMA Times ==
  /\ Grace \in Nat /\ Fallback \in Nat /\ InputHold \in Nat /\ Hysteresis \in Nat
  /\ BusyPoll \in Nat /\ BusyPoll > 0 /\ IdlePoll \in Nat /\ IdlePoll > 0
  /\ HelperPeriod \in Nat /\ HelperPeriod > 0
  /\ CalmLimit \in Nat /\ CalmLimit >= Hysteresis
  /\ Late \in Nat /\ Late >= Grace /\ Late >= Fallback
  /\ Never \in Nat /\ Never > InputHold
  /\ 0 \notin Pid
BY BurstAssumption DEF Late, Longer, Never

(* The type invariant in three parts: the times, the processes, the flags.  *)
Numbers ==
  /\ elapsed \in 0..Late /\ quiet \in -1..Hysteresis
  /\ period \in {BusyPoll, IdlePoll} /\ timer \in 0..period
  /\ publish \in 0..HelperPeriod /\ input_age \in 0..Never /\ calm \in 0..CalmLimit

Processes ==
  /\ fg \in Pid \cup {0} /\ owner \in Pid \cup {0}
  /\ view \in [pid : Pid \cup {0}, idle : 0..Never]
  /\ helper \in {"none", "runs", "gone"}

Flags ==
  /\ fast \in BOOLEAN /\ sampled \in BOOLEAN /\ paused \in BOOLEAN
  /\ event \in BOOLEAN /\ worked \in BOOLEAN /\ diluted \in BOOLEAN /\ gap \in BOOLEAN
  /\ silent \in BOOLEAN /\ unheard \in BOOLEAN

LEMMA TypeParts == TypeOK <=> Numbers /\ Processes /\ Flags
BY Zenon DEF TypeOK, Numbers, Processes, Flags

LEMMA TypeInit == Init => TypeOK
<1> SUFFICES ASSUME Init PROVE TypeOK
  OBVIOUS
<1>1. Numbers
  BY Times DEF Init, Numbers
<1>2. Processes
  BY Times DEF Init, Processes
<1>3. Flags
  BY DEF Init, Flags
<1> QED
  BY <1>1, <1>2, <1>3, TypeParts

LEMMA TypeStep ==
  ASSUME TypeOK, [Next]_vars
  PROVE  TypeOK'
<1> Numbers /\ Processes /\ Flags
  BY TypeParts
<1>1. CASE PausedPoll
  <2>1. Numbers'
    BY <1>1, Times DEF PausedPoll, ipc, Numbers
  <2>2. Processes'
    BY <1>1, Times DEF PausedPoll, ipc, Numbers, Processes
  <2>3. Flags'
    BY <1>1 DEF PausedPoll, ipc, Flags
  <2> QED
    BY <2>1, <2>2, <2>3, Zenon DEF TypeOK, Numbers, Processes, Flags
<1>2. CASE HeldPoll
  <2>1. Numbers'
    BY <1>2, Times DEF HeldPoll, Sample, ipc, Numbers
  <2>2. Processes'
    BY <1>2, Times DEF HeldPoll, Sample, ipc, Numbers, Processes
  <2>3. Flags'
    BY <1>2 DEF HeldPoll, Sample, ipc, Flags
  <2> QED
    BY <2>1, <2>2, <2>3, Zenon DEF TypeOK, Numbers, Processes, Flags
<1>3. CASE QuietPoll
  <2>1. Numbers'
    BY <1>3, Times DEF QuietPoll, Sample, ipc, Numbers
  <2>2. Processes'
    BY <1>3, Times DEF QuietPoll, Sample, ipc, Numbers, Processes
  <2>3. Flags'
    BY <1>3 DEF QuietPoll, Sample, ipc, Flags
  <2> QED
    BY <2>1, <2>2, <2>3, Zenon DEF TypeOK, Numbers, Processes, Flags
<1>4. CASE Refocus
  <2>1. Numbers'
    BY <1>4, Times DEF Refocus, NewSubject, SameSubject, loop, Numbers
  <2>2. Processes'
    BY <1>4, Times DEF Refocus, NewSubject, SameSubject, loop, Numbers, Processes
  <2>3. Flags'
    BY <1>4 DEF Refocus, NewSubject, SameSubject, loop, Flags
  <2> QED
    BY <2>1, <2>2, <2>3, Zenon DEF TypeOK, Numbers, Processes, Flags
<1>5. CASE Report
  <2>1. Numbers'
    BY <1>5, Times DEF Report, burst, loop, world, Numbers
  <2>2. Processes'
    BY <1>5, Times DEF Report, burst, loop, world, Numbers, Processes
  <2>3. Flags'
    BY <1>5 DEF Report, burst, loop, world, Flags
  <2> QED
    BY <2>1, <2>2, <2>3, Zenon DEF TypeOK, Numbers, Processes, Flags
<1>8. CASE Silence
  <2>1. Numbers'
    BY <1>8, Times DEF Silence, loop, Numbers
  <2>2. Processes'
    BY <1>8, Times DEF Silence, loop, Numbers, Processes
  <2>3. Flags'
    BY <1>8 DEF Silence, loop, Flags
  <2> QED
    BY <2>1, <2>2, <2>3, Zenon DEF TypeOK, Numbers, Processes, Flags
<1>6. CASE Aside
  <2>1. Numbers'
    BY <1>6, Times DEF Aside, loop, world, Numbers
  <2>2. Processes'
    BY <1>6, Times DEF Aside, loop, world, Numbers, Processes
  <2>3. Flags'
    BY <1>6 DEF Aside, loop, world, Flags
  <2> QED
    BY <2>1, <2>2, <2>3, Zenon DEF TypeOK, Numbers, Processes, Flags
<1>7. ASSUME NEW busy \in BOOLEAN, NEW input \in BOOLEAN, Tick(busy, input)
      PROVE  TypeOK'
  <2>1. Numbers'
    BY <1>7, Times DEF Tick, Aged, AtMost, Numbers
  <2>2. Processes'
    BY <1>7, Times DEF Tick, Aged, AtMost, Numbers, Processes
  <2>3. Flags'
    BY <1>7 DEF Tick, Aged, AtMost, Flags
  <2> QED
    BY <2>1, <2>2, <2>3, Zenon DEF TypeOK, Numbers, Processes, Flags
<1> QED
  BY <1>1, <1>2, <1>3, <1>4, <1>5, <1>6, <1>7, <1>8, Outcomes

(* Every variable keeps to its range.                                       *)
THEOREM BurstTypeCorrect == Spec => []TypeOK
<1>1. Init => TypeOK
  BY TypeInit
<1>2. TypeOK /\ [Next]_vars => TypeOK'
  BY TypeStep
<1> QED
  BY <1>1, <1>2, PTL DEF Spec

----------------------------------------------------------------------------
(* One subject: the counters m_prev_cpu_100ns and m_prev_io_ops. *)

(* Focus forgets the sample together with its process.                      *)
LEMMA DeltaOfOneProcessStep ==
  ASSUME TypeOK, DeltaOfOneProcess, [Next]_vars
  PROVE  DeltaOfOneProcess'
<1> USE Times DEF TypeOK
<1>1. CASE PausedPoll
  BY <1>1 DEF PausedPoll, ipc, DeltaOfOneProcess
<1>2. CASE HeldPoll
  BY <1>2 DEF HeldPoll, Sample, ipc, DeltaOfOneProcess
<1>3. CASE QuietPoll
  BY <1>3 DEF QuietPoll, Sample, ipc, DeltaOfOneProcess
<1>4. CASE Refocus
  <2>1. CASE NewSubject
    BY <1>4, <2>1 DEF Refocus, NewSubject, loop, DeltaOfOneProcess
  <2>2. CASE SameSubject
    BY <1>4, <2>2 DEF Refocus, SameSubject, loop, DeltaOfOneProcess
  <2> QED
    BY <1>4, <2>1, <2>2 DEF Refocus
<1>5. CASE Report
  BY <1>5 DEF Report, burst, loop, world, DeltaOfOneProcess
<1>8. CASE Silence
  BY <1>8 DEF Silence, loop, DeltaOfOneProcess
<1>6. CASE Aside
  BY <1>6 DEF Aside, loop, world, DeltaOfOneProcess
<1>7. ASSUME NEW busy \in BOOLEAN, NEW input \in BOOLEAN, Tick(busy, input)
      PROVE  DeltaOfOneProcess'
  BY <1>7 DEF Tick, Aged, AtMost, Called, DeltaOfOneProcess
<1> QED
  BY <1>1, <1>2, <1>3, <1>4, <1>5, <1>6, <1>7, <1>8, Outcomes

(* on_foreground_process_changed never leaves the counters of one process   *)
(* to be subtracted from those of another (m_have_process_sample).          *)
THEOREM DeltasAreOfOneProcess == Spec => []DeltaOfOneProcess
<1>1. Init => TypeOK /\ DeltaOfOneProcess
  BY TypeInit DEF Init, DeltaOfOneProcess
<1>2. TypeOK /\ DeltaOfOneProcess /\ [Next]_vars => (TypeOK /\ DeltaOfOneProcess)'
  BY TypeStep, DeltaOfOneProcessStep
<1> QED
  BY <1>1, <1>2, PTL DEF Spec

----------------------------------------------------------------------------
(* The burst is not given up early.                                         *)

SincePoll == BusyPoll - timer

(* A quiet period that no pause has stretched.                              *)
Quieting == fast /\ quiet # -1 /\ ~gap

(* Only a pause stretches the interval between two samples.                 *)
Stretched == diluted => gap

(* A helper that is silent is not heard.                                    *)
Unheard == silent => unheard

(* What the helper published is no older than its timer's period, unless    *)
(* the user did nothing since or there was no window at its last turn.      *)
Reported ==
  helper = "runs" /\ ~silent =>
    view.idle <= input_age \/ input_age <= HelperPeriod - publish

(* A burst that begins to be quiet has been polled since it began.          *)
AtBusyRate == Quieting => period = BusyPoll

(* Since the poll that found nothing, nothing called for a boost but what   *)
(* the next poll will find, or input the helper has not published.          *)
QuietSince ==
  Quieting /\ helper = "runs" /\ ~unheard =>
    \/ calm >= quiet
    \/ worked /\ Sampleable(fg)
    \/ elapsed < SincePoll
    \/ input_age <= HelperPeriod + SincePoll

(* What that poll found, one by one: no input, no recent switch.            *)
NoInputAtPoll ==
  Quieting /\ helper = "runs" /\ ~unheard =>
    input_age = Never \/ input_age <= HelperPeriod + SincePoll

NoSwitchAtPoll ==
  Quieting =>
    /\ elapsed >= Grace \/ elapsed < SincePoll
    /\ fg = 0 \/ ~Sampleable(fg) => elapsed >= Fallback \/ elapsed < SincePoll

(* A tick later: the same, one more, or, after 49 days, nothing.            *)
LEMMA Aging ==
  ASSUME TypeOK, elapsed' \in Aged
  PROVE  elapsed' \in {0, elapsed + 1} \/ (elapsed = Late /\ elapsed' = Late)
BY Times DEF TypeOK, Aged

(* The clocks of a tick while the poll is at the busy rate.                 *)
LEMMA BusyTick ==
  ASSUME TypeOK, period = BusyPoll, NEW busy, NEW input, Tick(busy, input)
  PROVE  /\ SincePoll \in Nat /\ SincePoll' = SincePoll + 1
         /\ input_age' \in 0..Never
         /\ input_age' = 0 \/ input_age' = input_age + 1 \/ (input_age = Never /\ input_age' = Never)
         /\ elapsed \in 0..Late
         /\ elapsed' \in {0, elapsed + 1} \/ (elapsed = Late /\ elapsed' = Late)
         /\ fg' = fg /\ fast' = fast /\ gap' = gap /\ unheard' = unheard /\ (quiet' = -1) = (quiet = -1)
<1>1. /\ SincePoll \in Nat /\ SincePoll' = SincePoll + 1
      /\ input_age' \in 0..Never
      /\ input_age' = 0 \/ input_age' = input_age + 1 \/ (input_age = Never /\ input_age' = Never)
  BY Times DEF Tick, TypeOK, SincePoll, AtMost
<1>2. elapsed' \in {0, elapsed + 1} \/ (elapsed = Late /\ elapsed' = Late)
  BY Aging DEF Tick
<1>3. fg' = fg /\ fast' = fast /\ gap' = gap /\ unheard' = unheard /\ (quiet' = -1) = (quiet = -1)
  BY Times DEF Tick, TypeOK, AtMost
<1> QED
  BY <1>1, <1>2, <1>3 DEF TypeOK

(* A skipped sample and the mark of a pause go together.                    *)
LEMMA StretchedStep ==
  ASSUME TypeOK, Stretched, [Next]_vars
  PROVE  Stretched'
<1> USE Times DEF TypeOK
<1>1. CASE PausedPoll
  BY <1>1 DEF PausedPoll, ipc, Stretched
<1>2. CASE HeldPoll
  BY <1>2 DEF HeldPoll, Sample, ipc, Stretched
<1>3. CASE QuietPoll
  BY <1>3 DEF QuietPoll, Sample, ipc, Stretched
<1>4. CASE Refocus
  <2>1. CASE NewSubject
    BY <1>4, <2>1 DEF Refocus, NewSubject, loop, Stretched
  <2>2. CASE SameSubject
    BY <1>4, <2>2 DEF Refocus, SameSubject, loop, Stretched
  <2> QED
    BY <1>4, <2>1, <2>2 DEF Refocus
<1>5. CASE Report
  BY <1>5 DEF Report, burst, loop, world, Stretched
<1>8. CASE Silence
  BY <1>8 DEF Silence, loop, Stretched
<1>6. CASE Aside
  BY <1>6 DEF Aside, loop, world, Stretched
<1>7. ASSUME NEW busy \in BOOLEAN, NEW input \in BOOLEAN, Tick(busy, input)
      PROVE  Stretched'
  BY <1>7 DEF Tick, Aged, AtMost, Called, Stretched
<1> QED
  BY <1>1, <1>2, <1>3, <1>4, <1>5, <1>6, <1>7, <1>8, Outcomes

(* What a silent helper missed is not forgotten while it is silent.         *)
LEMMA UnheardStep ==
  ASSUME TypeOK, Unheard, [Next]_vars
  PROVE  Unheard'
<1> USE Times DEF TypeOK
<1>1. CASE PausedPoll
  BY <1>1 DEF PausedPoll, ipc, Unheard
<1>2. CASE HeldPoll
  BY <1>2 DEF HeldPoll, Sample, ipc, Unheard
<1>3. CASE QuietPoll
  BY <1>3 DEF QuietPoll, Sample, ipc, Unheard
<1>4. CASE Refocus
  <2>1. CASE NewSubject
    BY <1>4, <2>1, Zenon DEF Refocus, NewSubject, Unheard
  <2>2. CASE SameSubject
    BY <1>4, <2>2 DEF Refocus, SameSubject, Unheard
  <2> QED
    BY <1>4, <2>1, <2>2 DEF Refocus
<1>5. CASE Report
  BY <1>5 DEF Report, Unheard
<1>8. CASE Silence
  BY <1>8 DEF Silence, Unheard
<1>6. CASE Aside
  BY <1>6 DEF Aside, world, Unheard
<1>7. ASSUME NEW busy \in BOOLEAN, NEW input \in BOOLEAN, Tick(busy, input)
      PROVE  Unheard'
  BY <1>7 DEF Tick, Unheard
<1> QED
  BY <1>1, <1>2, <1>3, <1>4, <1>5, <1>6, <1>7, <1>8, Outcomes

(* Publishing copies the true idle time; between two of them both grow.     *)
LEMMA ReportedStep ==
  ASSUME TypeOK, Reported, [Next]_vars
  PROVE  Reported'
<1> USE Times DEF TypeOK
<1>1. CASE PausedPoll
  BY <1>1 DEF PausedPoll, ipc, Reported
<1>2. CASE HeldPoll
  BY <1>2 DEF HeldPoll, Sample, ipc, Reported
<1>3. CASE QuietPoll
  BY <1>3 DEF QuietPoll, Sample, ipc, Reported
<1>4. CASE Refocus
  <2>1. CASE NewSubject
    BY <1>4, <2>1 DEF Refocus, NewSubject, loop, Reported
  <2>2. CASE SameSubject
    BY <1>4, <2>2 DEF Refocus, SameSubject, loop, Reported
  <2> QED
    BY <1>4, <2>1, <2>2 DEF Refocus
<1>5. CASE Report
  <2>1. view'.idle = input_age /\ input_age' = input_age
    BY <1>5 DEF Report, world
  <2> QED
    BY <2>1 DEF Reported
<1>8. CASE Silence
  BY <1>8 DEF Silence, loop, Reported
<1>6. CASE Aside
  BY <1>6 DEF Aside, loop, world, Reported
<1>7. ASSUME NEW busy \in BOOLEAN, NEW input \in BOOLEAN, Tick(busy, input)
      PROVE  Reported'
  BY <1>7 DEF Tick, Aged, AtMost, Called, Reported
<1> QED
  BY <1>1, <1>2, <1>3, <1>4, <1>5, <1>6, <1>7, <1>8, Outcomes

(* Every poll of a burst sets the busy period.                              *)
LEMMA AtBusyRateStep ==
  ASSUME TypeOK, AtBusyRate, [Next]_vars
  PROVE  AtBusyRate'
<1> USE Times DEF TypeOK
<1>1. CASE PausedPoll
  BY <1>1 DEF PausedPoll, ipc, AtBusyRate, Quieting
<1>2. CASE HeldPoll
  BY <1>2 DEF HeldPoll, Sample, ipc, AtBusyRate, Quieting
<1>3. CASE QuietPoll
  BY <1>3 DEF QuietPoll, Sample, ipc, AtBusyRate, Quieting
<1>4. CASE Refocus
  <2>1. CASE NewSubject
    BY <1>4, <2>1 DEF Refocus, NewSubject, loop, AtBusyRate, Quieting
  <2>2. CASE SameSubject
    BY <1>4, <2>2 DEF Refocus, SameSubject, loop, AtBusyRate, Quieting
  <2> QED
    BY <1>4, <2>1, <2>2 DEF Refocus
<1>5. CASE Report
  BY <1>5 DEF Report, burst, loop, world, AtBusyRate, Quieting
<1>8. CASE Silence
  BY <1>8 DEF Silence, loop, AtBusyRate, Quieting
<1>6. CASE Aside
  BY <1>6 DEF Aside, loop, world, AtBusyRate, Quieting
<1>7. ASSUME NEW busy \in BOOLEAN, NEW input \in BOOLEAN, Tick(busy, input)
      PROVE  AtBusyRate'
  BY <1>7 DEF Tick, Aged, AtMost, Called, AtBusyRate, Quieting
<1> QED
  BY <1>1, <1>2, <1>3, <1>4, <1>5, <1>6, <1>7, <1>8, Outcomes

(* A poll looks at the published idle time.                                 *)
LEMMA NoInputAtPollStep ==
  ASSUME TypeOK, AtBusyRate, Reported, NoInputAtPoll, [Next]_vars
  PROVE  NoInputAtPoll'
<1> USE Times DEF TypeOK
<1>1. CASE PausedPoll
  BY <1>1 DEF PausedPoll, ipc, NoInputAtPoll, Quieting, SincePoll
<1>2. CASE HeldPoll
  BY <1>2 DEF HeldPoll, Sample, ipc, NoInputAtPoll, Quieting, SincePoll
<1>3. CASE QuietPoll
  <2>1. view.idle = Never
    BY <1>3 DEF QuietPoll, Never
  <2> QED
    BY <1>3, <2>1 DEF QuietPoll, Sample, ipc, Reported, NoInputAtPoll, Quieting, SincePoll
<1>4. CASE Refocus
  <2>1. CASE NewSubject
    BY <1>4, <2>1 DEF Refocus, NewSubject, loop, NoInputAtPoll, Quieting, SincePoll
  <2>2. CASE SameSubject
    BY <1>4, <2>2 DEF Refocus, SameSubject, loop, NoInputAtPoll, Quieting, SincePoll
  <2> QED
    BY <1>4, <2>1, <2>2 DEF Refocus
<1>5. CASE Report
  BY <1>5 DEF Report, burst, loop, world, NoInputAtPoll, Quieting, SincePoll
<1>8. CASE Silence
  BY <1>8 DEF Silence, loop, NoInputAtPoll, Quieting, SincePoll
<1>6. CASE Aside
  BY <1>6 DEF Aside, loop, world, NoInputAtPoll, Quieting, SincePoll
<1>7. ASSUME NEW busy \in BOOLEAN, NEW input \in BOOLEAN, Tick(busy, input)
      PROVE  NoInputAtPoll'
  <2>1. CASE Quieting
    <3>1. /\ SincePoll \in Nat /\ SincePoll' = SincePoll + 1 /\ input_age' \in 0..Never
          /\ input_age' = 0 \/ input_age' = input_age + 1 \/ (input_age = Never /\ input_age' = Never)
      BY <1>7, <2>1, BusyTick DEF AtBusyRate
    <3>2. helper' = helper /\ unheard' = unheard
      BY <1>7 DEF Tick
    <3>3. helper = "runs" /\ ~unheard => input_age = Never \/ input_age <= HelperPeriod + SincePoll
      BY <2>1 DEF NoInputAtPoll
    <3>4. input_age = Never => input_age' \in {0, Never}
      BY <3>1
    <3>5. helper = "runs" /\ ~unheard => input_age' = Never \/ input_age' <= HelperPeriod + SincePoll'
      BY <3>1, <3>3, <3>4
    <3> QED
      BY <3>2, <3>5 DEF NoInputAtPoll
  <2>2. CASE ~Quieting
    BY <1>7, <2>2 DEF Tick, NoInputAtPoll, Quieting, AtMost
  <2> QED
    BY <2>1, <2>2
<1> QED
  BY <1>1, <1>2, <1>3, <1>4, <1>5, <1>6, <1>7, <1>8, Outcomes

(* A poll looks at the time since the last switch.                          *)
LEMMA NoSwitchAtPollStep ==
  ASSUME TypeOK, AtBusyRate, NoSwitchAtPoll, [Next]_vars
  PROVE  NoSwitchAtPoll'
<1> USE Times DEF TypeOK
<1>1. CASE PausedPoll
  BY <1>1 DEF PausedPoll, ipc, NoSwitchAtPoll, Quieting, SincePoll
<1>2. CASE HeldPoll
  BY <1>2 DEF HeldPoll, Sample, ipc, NoSwitchAtPoll, Quieting, SincePoll
<1>3. CASE QuietPoll
  BY <1>3 DEF QuietPoll, Sample, ipc, NoSwitchAtPoll, Quieting, SincePoll
<1>4. CASE Refocus
  <2>1. CASE NewSubject
    BY <1>4, <2>1 DEF Refocus, NewSubject, loop, NoSwitchAtPoll, Quieting, SincePoll
  <2>2. CASE SameSubject
    BY <1>4, <2>2 DEF Refocus, SameSubject, loop, NoSwitchAtPoll, Quieting, SincePoll
  <2> QED
    BY <1>4, <2>1, <2>2 DEF Refocus
<1>5. CASE Report
  BY <1>5 DEF Report, burst, loop, world, NoSwitchAtPoll, Quieting, SincePoll
<1>8. CASE Silence
  BY <1>8 DEF Silence, loop, NoSwitchAtPoll, Quieting, SincePoll
<1>6. CASE Aside
  BY <1>6 DEF Aside, loop, world, NoSwitchAtPoll, Quieting, SincePoll
<1>7. ASSUME NEW busy \in BOOLEAN, NEW input \in BOOLEAN, Tick(busy, input)
      PROVE  NoSwitchAtPoll'
  <2>1. CASE Quieting
    BY <1>7, <2>1, BusyTick DEF NoSwitchAtPoll, Quieting, AtBusyRate
  <2>2. CASE ~Quieting
    BY <1>7, <2>2 DEF Tick, NoSwitchAtPoll, Quieting, AtMost
  <2> QED
    BY <2>1, <2>2
<1> QED
  BY <1>1, <1>2, <1>3, <1>4, <1>5, <1>6, <1>7, <1>8, Outcomes

(* What the configuration must satisfy for a burst to be held long enough:  *)
(* the next poll still sees what called for one since the last.             *)
Timely == BusyPoll <= Grace /\ HelperPeriod + BusyPoll <= InputHold

(* A poll that finds nothing, at the end of a quiet period, has seen        *)
(* everything that called for a boost during it.                            *)
LEMMA QuietPollSees ==
  ASSUME TypeOK, Timely, Stretched, Unheard, Reported, AtBusyRate, QuietSince,
         Quieting, helper = "runs", ~unheard, QuietPoll
  PROVE  calm >= quiet \/ input_age <= HelperPeriod
<1> USE Times DEF TypeOK
<1>1. SincePoll = BusyPoll
  BY DEF QuietPoll, Sample, SincePoll
<1>2. CASE worked /\ Sampleable(fg)
  BY <1>2 DEF QuietPoll, Stretched, Quieting
<1>3. CASE elapsed < SincePoll
  BY <1>1, <1>3 DEF QuietPoll, Timely
<1>4. CASE input_age <= HelperPeriod + SincePoll
  <2>1. view.idle > InputHold /\ view.idle \in Nat
    BY DEF QuietPoll
  <2>2. ~(view.idle <= input_age)
    BY <1>1, <1>4, <2>1 DEF Timely
  <2> QED
    BY <2>2 DEF Reported, Unheard
<1> QED
  BY <1>2, <1>3, <1>4 DEF QuietSince

(* The truth and the recorded quiet time count on together.                 *)
LEMMA QuietSinceStep ==
  ASSUME TypeOK, TypeOK', Timely, Stretched, Unheard, Reported, AtBusyRate, NoInputAtPoll,
         NoSwitchAtPoll, QuietSince, [Next]_vars
  PROVE  QuietSince'
<1> USE Times DEF TypeOK
<1>1. CASE PausedPoll
  BY <1>1 DEF PausedPoll, QuietSince, Quieting
<1>2. CASE HeldPoll
  BY <1>2 DEF HeldPoll, QuietSince, Quieting
<1>3. CASE QuietPoll
  <2> SUFFICES ASSUME Quieting', helper = "runs", ~unheard
               PROVE  calm' >= quiet' \/ input_age' <= HelperPeriod + SincePoll'
    BY <1>3 DEF QuietSince, QuietPoll, Sample, ipc
  <2>1. fast /\ ~gap /\ calm' = calm /\ input_age' = input_age /\ SincePoll' = 0
    BY <1>3 DEF QuietPoll, Sample, Quieting, SincePoll
  <2>2. CASE quiet = -1
    BY <1>3, <2>1, <2>2 DEF QuietPoll
  <2>3. CASE quiet # -1
    <3>1. quiet' = quiet
      BY <1>3, <2>3 DEF QuietPoll
    <3>2. Quieting
      BY <2>1, <2>3 DEF Quieting
    <3> QED
      BY <1>3, <2>1, <3>1, <3>2, QuietPollSees
  <2> QED
    BY <2>2, <2>3
<1>4. CASE Refocus
  <2>1. CASE NewSubject
    BY <1>4, <2>1 DEF NewSubject, QuietSince, Quieting
  <2>2. CASE SameSubject
    BY <1>4, <2>2 DEF Refocus, SameSubject, loop, QuietSince, Quieting, SincePoll
  <2> QED
    BY <1>4, <2>1, <2>2 DEF Refocus
<1>5. CASE Report
  BY <1>5 DEF Report, burst, loop, world, QuietSince, Quieting, SincePoll
<1>8. CASE Silence
  BY <1>8 DEF Silence, loop, QuietSince, Quieting, SincePoll
<1>6. CASE Aside
  BY <1>6 DEF Aside, loop, world, QuietSince, Quieting, SincePoll
<1>7. ASSUME NEW busy \in BOOLEAN, NEW input \in BOOLEAN, Tick(busy, input)
      PROVE  QuietSince'
  <2> SUFFICES ASSUME Quieting', helper' = "runs", ~unheard'
               PROVE  \/ calm' >= quiet'
                      \/ worked' /\ Sampleable(fg')
                      \/ elapsed' < SincePoll'
                      \/ input_age' <= HelperPeriod + SincePoll'
    BY DEF QuietSince
  <2>1. Quieting /\ helper = "runs" /\ ~unheard /\ period = BusyPoll
    BY <1>7 DEF Tick, Quieting, AtMost, AtBusyRate
  <2>2. /\ SincePoll \in Nat /\ SincePoll' = SincePoll + 1
        /\ input_age' \in 0..Never
        /\ input_age' = 0 \/ input_age' = input_age + 1 \/ (input_age = Never /\ input_age' = Never)
        /\ elapsed' \in {0, elapsed + 1} \/ (elapsed = Late /\ elapsed' = Late)
    BY <1>7, <2>1, BusyTick
  <2>3. CASE ~Called(fg, elapsed', input_age', busy)
    <3>1. /\ calm' = AtMost(calm + 1, CalmLimit) /\ quiet' = AtMost(quiet + 1, Hysteresis)
          /\ worked' = (worked \/ busy) /\ fg' = fg
      BY <1>7, <2>1, <2>3 DEF Tick, Quieting
    <3>2. calm >= quiet => calm' >= quiet'
      BY <3>1 DEF AtMost
    <3>3. elapsed < SincePoll => elapsed' < SincePoll'
      BY <2>2
    <3>4. input_age <= HelperPeriod + SincePoll => input_age' <= HelperPeriod + SincePoll'
      BY <2>2
    <3> QED
      BY <2>1, <3>1, <3>2, <3>3, <3>4 DEF QuietSince
  <2>4. CASE elapsed' < Grace
    BY <2>1, <2>2, <2>4 DEF NoSwitchAtPoll
  <2>5. CASE input_age' <= InputHold
    <3>1. input_age' # Never
      BY <2>5
    <3>2. input_age' = 0 \/ (input_age' = input_age + 1 /\ input_age # Never)
      BY <2>2, <3>1
    <3> QED
      BY <2>1, <2>2, <3>2 DEF NoInputAtPoll
  <2>6. CASE busy /\ Sampleable(fg)
    BY <1>7, <2>6 DEF Tick
  <2>7. CASE (fg = 0 \/ ~Sampleable(fg)) /\ elapsed' < Fallback
    BY <2>1, <2>2, <2>7 DEF NoSwitchAtPoll
  <2> QED
    BY <2>3, <2>4, <2>5, <2>6, <2>7 DEF Called
<1> QED
  BY <1>1, <1>2, <1>3, <1>4, <1>5, <1>6, <1>7, <1>8, Outcomes

(* The inductive invariant behind NoEarlyDrop.                              *)
EarlyInv ==
  /\ TypeOK /\ Stretched /\ Unheard /\ Reported /\ AtBusyRate
  /\ NoInputAtPoll /\ NoSwitchAtPoll /\ QuietSince

LEMMA EarlyInit == Init => EarlyInv
<1> SUFFICES ASSUME Init PROVE EarlyInv
  OBVIOUS
<1>1. TypeOK
  BY TypeInit
<1>2. Stretched /\ Unheard /\ ~Quieting
  BY DEF Init, Stretched, Unheard, Quieting
<1>3. Reported
  BY Times DEF Init, Reported
<1> QED
  BY <1>1, <1>2, <1>3
     DEF EarlyInv, AtBusyRate, NoInputAtPoll, NoSwitchAtPoll, QuietSince

LEMMA EarlyStep ==
  ASSUME Timely, EarlyInv, [Next]_vars
  PROVE  EarlyInv'
<1> TypeOK /\ Stretched /\ Unheard /\ Reported /\ AtBusyRate
    /\ NoInputAtPoll /\ NoSwitchAtPoll /\ QuietSince
  BY DEF EarlyInv
<1>1. TypeOK'
  BY TypeStep
<1>2. Stretched' /\ Unheard' /\ Reported' /\ AtBusyRate'
  BY StretchedStep, UnheardStep, ReportedStep, AtBusyRateStep
<1>3. NoInputAtPoll' /\ NoSwitchAtPoll'
  BY NoInputAtPollStep, NoSwitchAtPollStep
<1>4. QuietSince'
  BY <1>1, QuietSinceStep
<1> QED
  BY <1>1, <1>2, <1>3, <1>4 DEF EarlyInv

(* A step that gives the burst up does so after the hysteresis.             *)
LEMMA DropIsLate ==
  ASSUME Timely, EarlyInv, [Next]_vars, fast, ~fast', helper = "runs", ~unheard
  PROVE  calm' >= Hysteresis \/ input_age <= HelperPeriod \/ gap
<1> TypeOK /\ Stretched /\ Unheard /\ Reported /\ AtBusyRate /\ QuietSince
  BY DEF EarlyInv
<1>1. CASE QuietPoll /\ ~gap
  <2>1. quiet' >= Hysteresis /\ calm' = calm /\ quiet' = IF quiet = -1 THEN 0 ELSE quiet
    <3>1. calm' = calm /\ quiet' = (IF quiet = -1 THEN 0 ELSE quiet)
          /\ fast' = (fast /\ quiet' < Hysteresis)
      BY <1>1 DEF QuietPoll
    <3>2. ~(quiet' < Hysteresis)
      BY <3>1
    <3> QED
      BY <3>1, <3>2, Times DEF TypeOK
  <2>2. CASE quiet = -1
    BY <2>1, <2>2, Times DEF TypeOK
  <2>3. CASE quiet # -1
    <3>1. Quieting
      BY <1>1, <2>3 DEF Quieting
    <3>2. calm >= quiet \/ input_age <= HelperPeriod
      BY <1>1, <3>1, QuietPollSees
    <3> QED
      BY <2>1, <2>3, <3>2, Times DEF TypeOK
  <2> QED
    BY <2>2, <2>3
<1>2. QuietPoll
  <2>1. ~(PausedPoll \/ HeldPoll)
    BY DEF PausedPoll, HeldPoll
  <2>2. ~(Refocus \/ Report \/ Silence \/ Aside)
    BY DEF Refocus, NewSubject, SameSubject, Report, burst, Silence, Aside
  <2>3. \A busy, input \in BOOLEAN : ~Tick(busy, input)
    BY DEF Tick
  <2> QED
    BY <2>1, <2>2, <2>3, Outcomes
<1> QED
  BY <1>1, <1>2

(* While a helper reports the user, a burst outlives its cause by           *)
(* idle_hysteresis_ms (sample_and_update_burst_hold), provided the two      *)
(* polls between which a cause may fall are closer than boost_grace_ms and  *)
(* input_hold_ms, as the defaults of config.hpp are.                        *)
THEOREM BurstsOutliveTheirCause ==
  ASSUME Timely
  PROVE  Spec => NoEarlyDrop
<1>1. Init => EarlyInv
  BY EarlyInit
<1>2. EarlyInv /\ [Next]_vars => EarlyInv'
  BY EarlyStep
<1>3. EarlyInv /\ [Next]_vars =>
        [fast /\ ~fast' /\ helper = "runs" /\ ~unheard =>
           calm' >= Hysteresis \/ input_age <= HelperPeriod \/ gap]_vars
  BY DropIsLate
<1> QED
  BY <1>1, <1>2, <1>3, PTL DEF Spec, NoEarlyDrop

----------------------------------------------------------------------------
(* The burst ends in time.                                                  *)

(* How late the loop may learn that something called for a boost.           *)
Lag == Longer(BusyPoll, Longer(HelperPeriod, IdlePoll - Grace))

LEMMA LagBounds ==
  /\ Lag \in Nat /\ Lag >= BusyPoll /\ Lag >= HelperPeriod
  /\ Lag >= IdlePoll - Grace
BY Times DEF Lag, Longer

(* A burst that no pause has stretched.                                     *)
Steady == fast /\ ~gap

(* One that no lost or silent helper keeps either.                          *)
Attended == Steady /\ ~unheard /\ helper # "gone"

(* What the next sample takes for work.                                     *)
Unsampled == Sampleable(fg) /\ (worked \/ ~sampled)

(* While the calm lasts, there is no input, and no switch is recent.        *)
CalmIsCalm ==
  calm > 0 =>
    /\ input_age = Never /\ elapsed >= Grace
    /\ fg = 0 \/ ~Sampleable(fg) => elapsed >= Fallback

(* Input the helper still reports is as recent as its timer's last firing.  *)
ReportEnds ==
  /\ helper = "runs" /\ ~silent /\ view.idle <= InputHold => calm <= HelperPeriod - publish
  /\ helper = "none" => view.idle = Never

(* A burst that began in an idle period is polled at the end of it.         *)
IdlePeriodEnds ==
  fast /\ ~gap => period = BusyPoll \/ elapsed + timer <= IdlePoll

(* Calm that no poll has noticed yet: one poll at most is due.              *)
UnnoticedCalm ==
  Steady /\ calm > 0 /\ (Unsampled \/ period # BusyPoll) =>
    calm + timer <= Lag + 1

(* Calm that no quiet period has begun to count: one poll more.             *)
UncountedCalm ==
  Attended /\ quiet = -1 /\ calm > 0 => calm + timer <= Lag + 1 + BusyPoll

(* Calm that is being counted.                                              *)
CountedCalm ==
  Attended /\ quiet >= 0 =>
    \/ quiet < Hysteresis /\ calm <= quiet + Lag + 1 + BusyPoll
    \/ quiet = Hysteresis /\ calm + timer <= Hysteresis + Lag + 2 * BusyPoll

(* Only a tick lengthens the calm, and by one.                              *)
LEMMA CalmTick ==
  ASSUME TypeOK, NEW busy, NEW input, Tick(busy, input)
  PROVE  /\ calm \in Nat /\ timer \in Nat /\ timer' = timer - 1 /\ timer > 0
         /\ \E c \in Nat : calm' = c /\ c <= calm + 1
         /\ calm' > 0 => ~Called(fg, elapsed', input_age', busy)
         /\ UNCHANGED <<fg, fast, sampled, owner, period, view, helper, gap, unheard>>
<1> USE Times DEF TypeOK
<1>1. calm \in Nat /\ timer \in Nat /\ timer' = timer - 1 /\ timer > 0
  BY DEF Tick
<1>2. CASE Called(fg, elapsed', input_age', busy)
  <2>1. calm' = 0
    BY <1>2 DEF Tick
  <2> QED
    BY <1>1, <2>1 DEF Tick
<1>3. CASE ~Called(fg, elapsed', input_age', busy)
  <2>1. calm' = AtMost(calm + 1, CalmLimit)
    BY <1>3 DEF Tick
  <2>2. \E c \in Nat : calm' = c /\ c <= calm + 1
    BY <2>1 DEF AtMost
  <2> QED
    BY <1>1, <1>3, <2>2 DEF Tick
<1> QED
  BY <1>2, <1>3

(* Whatever calls for a boost ends the calm.                                *)
LEMMA CalmIsCalmStep ==
  ASSUME TypeOK, TypeOK', CalmIsCalm, [Next]_vars
  PROVE  CalmIsCalm'
<1> USE Times DEF TypeOK
<1>1. CASE PausedPoll
  BY <1>1 DEF PausedPoll, ipc, CalmIsCalm
<1>2. CASE HeldPoll
  BY <1>2 DEF HeldPoll, Sample, ipc, CalmIsCalm
<1>3. CASE QuietPoll
  BY <1>3 DEF QuietPoll, Sample, ipc, CalmIsCalm
<1>4. CASE Refocus
  <2>1. CASE NewSubject
    BY <1>4, <2>1 DEF Refocus, NewSubject, loop, CalmIsCalm
  <2>2. CASE SameSubject
    BY <1>4, <2>2 DEF Refocus, SameSubject, loop, CalmIsCalm
  <2> QED
    BY <1>4, <2>1, <2>2 DEF Refocus
<1>5. CASE Report
  BY <1>5 DEF Report, burst, loop, world, CalmIsCalm
<1>8. CASE Silence
  BY <1>8 DEF Silence, loop, CalmIsCalm
<1>6. CASE Aside
  BY <1>6 DEF Aside, loop, world, CalmIsCalm
<1>7. ASSUME NEW busy \in BOOLEAN, NEW input \in BOOLEAN, Tick(busy, input)
      PROVE  CalmIsCalm'
  <2> SUFFICES ASSUME calm' > 0 PROVE CalmIsCalm'
    BY DEF CalmIsCalm
  <2>1. ~Called(fg, elapsed', input_age', busy) /\ fg' = fg
    BY <1>7, CalmTick
  <2>2. input_age' = Never
    BY <2>1 DEF Called, Never
  <2>3. elapsed' >= Grace
    BY <2>1 DEF Called
  <2>4. fg = 0 \/ ~Sampleable(fg) => elapsed' >= Fallback
    BY <2>1 DEF Called
  <2> QED
    BY <2>1, <2>2, <2>3, <2>4 DEF CalmIsCalm
<1> QED
  BY <1>1, <1>2, <1>3, <1>4, <1>5, <1>6, <1>7, <1>8, Outcomes

(* The timer of the helper overwrites what it published.                    *)
LEMMA ReportEndsStep ==
  ASSUME TypeOK, CalmIsCalm, ReportEnds, [Next]_vars
  PROVE  ReportEnds'
<1> USE Times DEF TypeOK
<1>1. CASE PausedPoll
  BY <1>1 DEF PausedPoll, ipc, ReportEnds
<1>2. CASE HeldPoll
  BY <1>2 DEF HeldPoll, Sample, ipc, ReportEnds
<1>3. CASE QuietPoll
  BY <1>3 DEF QuietPoll, Sample, ipc, ReportEnds
<1>4. CASE Refocus
  <2>1. CASE NewSubject
    BY <1>4, <2>1 DEF Refocus, NewSubject, loop, ReportEnds
  <2>2. CASE SameSubject
    BY <1>4, <2>2 DEF Refocus, SameSubject, loop, ReportEnds
  <2> QED
    BY <1>4, <2>1, <2>2 DEF Refocus
<1>5. CASE Report
  <2>1. view'.idle = input_age /\ calm' = calm /\ helper' = "runs"
    BY <1>5 DEF Report, world
  <2>2. view'.idle <= InputHold => calm = 0
    BY <2>1 DEF CalmIsCalm
  <2>3. PICK q \in Nat : publish' = q /\ q <= HelperPeriod
    BY <1>5 DEF Report
  <2>4. view'.idle <= InputHold => calm' <= HelperPeriod - publish'
    BY <2>1, <2>2, <2>3
  <2> QED
    BY <2>1, <2>4 DEF ReportEnds
<1>8. CASE Silence
  BY <1>8 DEF Silence, loop, ReportEnds
<1>6. CASE Aside
  BY <1>6 DEF Aside, loop, world, ReportEnds
<1>7. ASSUME NEW busy \in BOOLEAN, NEW input \in BOOLEAN, Tick(busy, input)
      PROVE  ReportEnds'
  BY <1>7 DEF Tick, Aged, AtMost, Called, ReportEnds
<1> QED
  BY <1>1, <1>2, <1>3, <1>4, <1>5, <1>6, <1>7, <1>8, Outcomes

(* A switch starts elapsed at zero, within a period.                        *)
LEMMA IdlePeriodEndsStep ==
  ASSUME TypeOK, IdlePeriodEnds, [Next]_vars
  PROVE  IdlePeriodEnds'
<1> USE Times DEF TypeOK
<1>1. CASE PausedPoll
  BY <1>1 DEF PausedPoll, ipc, IdlePeriodEnds
<1>2. CASE HeldPoll
  BY <1>2 DEF HeldPoll, Sample, ipc, IdlePeriodEnds
<1>3. CASE QuietPoll
  BY <1>3 DEF QuietPoll, Sample, ipc, IdlePeriodEnds
<1>4. CASE Refocus
  <2>1. CASE NewSubject
    BY <1>4, <2>1 DEF Refocus, NewSubject, loop, IdlePeriodEnds
  <2>2. CASE SameSubject
    BY <1>4, <2>2 DEF Refocus, SameSubject, loop, IdlePeriodEnds
  <2> QED
    BY <1>4, <2>1, <2>2 DEF Refocus
<1>5. CASE Report
  BY <1>5 DEF Report, burst, loop, world, IdlePeriodEnds
<1>8. CASE Silence
  BY <1>8 DEF Silence, loop, IdlePeriodEnds
<1>6. CASE Aside
  BY <1>6 DEF Aside, loop, world, IdlePeriodEnds
<1>7. ASSUME NEW busy \in BOOLEAN, NEW input \in BOOLEAN, Tick(busy, input)
      PROVE  IdlePeriodEnds'
  <2>1. elapsed' \in {0, elapsed + 1} \/ (elapsed = Late /\ elapsed' = Late)
    BY <1>7, Aging DEF Tick
  <2>2. timer' = timer - 1 /\ timer > 0 /\ UNCHANGED <<fast, gap, period>>
    BY <1>7, CalmTick
  <2> QED
    BY <2>1, <2>2 DEF IdlePeriodEnds
<1> QED
  BY <1>1, <1>2, <1>3, <1>4, <1>5, <1>6, <1>7, <1>8, Outcomes

(* Either the poll is due within a busy period, or the burst is recent.     *)
LEMMA UnnoticedCalmStep ==
  ASSUME TypeOK, CalmIsCalm, IdlePeriodEnds, UnnoticedCalm, [Next]_vars
  PROVE  UnnoticedCalm'
<1> USE Times, LagBounds DEF TypeOK
<1>1. CASE PausedPoll
  BY <1>1 DEF PausedPoll, UnnoticedCalm, Steady
<1>2. CASE HeldPoll
  BY <1>2 DEF HeldPoll, Sample, UnnoticedCalm, Unsampled
<1>3. CASE QuietPoll
  BY <1>3 DEF QuietPoll, Sample, UnnoticedCalm, Steady, Unsampled
<1>4. CASE Refocus
  <2>1. CASE NewSubject
    BY <2>1 DEF NewSubject, UnnoticedCalm
  <2>2. CASE SameSubject
    BY <1>4, <2>2 DEF Refocus, SameSubject, loop, UnnoticedCalm, Steady, Unsampled
  <2> QED
    BY <1>4, <2>1, <2>2 DEF Refocus
<1>5. CASE Report
  BY <1>5 DEF Report, burst, loop, world, UnnoticedCalm, Steady, Unsampled
<1>8. CASE Silence
  BY <1>8 DEF Silence, loop, UnnoticedCalm, Steady, Unsampled
<1>6. CASE Aside
  BY <1>6 DEF Aside, loop, world, UnnoticedCalm, Steady, Unsampled
<1>7. ASSUME NEW busy \in BOOLEAN, NEW input \in BOOLEAN, Tick(busy, input)
      PROVE  UnnoticedCalm'
  <2> SUFFICES ASSUME Steady', calm' > 0, Unsampled' \/ period' # BusyPoll
               PROVE  calm' + timer' <= Lag + 1
    BY DEF UnnoticedCalm
  <2>1. /\ calm \in Nat /\ timer \in Nat /\ timer' = timer - 1 /\ timer > 0
        /\ ~Called(fg, elapsed', input_age', busy)
        /\ UNCHANGED <<fg, fast, sampled, period, helper, gap>>
    BY <1>7, CalmTick
  <2> PICK c \in Nat : calm' = c /\ c <= calm + 1
    BY <1>7, CalmTick
  <2>2. Steady
    BY <2>1 DEF Steady
  <2>3. Unsampled \/ period # BusyPoll
    BY <1>7, <2>1 DEF Tick, Called, Unsampled, Sampleable
  <2>4. CASE calm > 0
    BY <2>1, <2>2, <2>3, <2>4 DEF UnnoticedCalm
  <2>5. CASE calm = 0 /\ period = BusyPoll
    BY <2>1, <2>5
  <2>6. CASE calm = 0 /\ period # BusyPoll
    <3>1. elapsed + timer <= IdlePoll
      BY <2>2, <2>6 DEF Steady, IdlePeriodEnds
    <3>2. PICK e \in Nat : elapsed' = e /\ e <= elapsed + 1
      BY <1>7, Aging DEF Tick
    <3>3. e >= Grace
      BY <2>1, <3>2 DEF Called
    <3> QED
      BY <2>1, <2>6, <3>1, <3>2, <3>3
  <2> QED
    BY <2>1, <2>4, <2>5, <2>6
<1> QED
  BY <1>1, <1>2, <1>3, <1>4, <1>5, <1>6, <1>7, <1>8, Outcomes

(* A poll that holds the burst for something past learns it that late.      *)
LEMMA HeldPollIsNoticed ==
  ASSUME TypeOK, CalmIsCalm, ReportEnds, UnnoticedCalm, HeldPoll, Steady,
         helper # "gone", ~silent, calm > 0
  PROVE  calm' <= Lag + 1
<1> USE Times, LagBounds DEF TypeOK
<1>1. CASE calm' = 0
  BY <1>1
<1>2. CASE Reason
  <2>1. calm' \in {0, calm} /\ timer = 0
    BY DEF HeldPoll, Sample
  <2>2. CASE view.idle <= InputHold
    <3>1. helper = "runs"
      <4>1. view.idle # Never
        BY <2>2
      <4> QED
        BY <4>1 DEF ReportEnds
    <3> QED
      BY <2>1, <2>2, <3>1 DEF ReportEnds
  <2>3. CASE Unsampled
    BY <2>1, <2>3 DEF UnnoticedCalm
  <2> QED
    BY <1>2, <2>2, <2>3 DEF Reason, Unsampled, CalmIsCalm
<1> QED
  BY <1>1, <1>2 DEF HeldPoll

LEMMA UncountedCalmStep ==
  ASSUME TypeOK, CalmIsCalm, ReportEnds, UnnoticedCalm, UnnoticedCalm',
         UncountedCalm, [Next]_vars
  PROVE  UncountedCalm'
<1> USE Times, LagBounds DEF TypeOK
<1>1. CASE PausedPoll
  BY <1>1 DEF PausedPoll, UncountedCalm, Attended, Steady
<1>2. CASE HeldPoll
  <2> SUFFICES ASSUME Attended', calm' > 0
               PROVE  calm' + timer' <= Lag + 1 + BusyPoll
    BY DEF UncountedCalm
  <2>1. timer' = BusyPoll /\ helper' = helper
    BY <1>2 DEF HeldPoll, Sample, ipc
  <2>2. calm' = calm /\ Steady
    BY <1>2 DEF HeldPoll, Steady
  <2>3. helper # "gone" /\ ~silent
    BY <1>2, <2>1 DEF HeldPoll, Attended
  <2>4. calm <= Lag + 1
    BY <1>2, <2>2, <2>3, HeldPollIsNoticed
  <2> QED
    BY <2>1, <2>2, <2>4
<1>3. CASE QuietPoll
  BY <1>3 DEF QuietPoll, UncountedCalm
<1>4. CASE Refocus
  <2>1. CASE NewSubject
    BY <2>1 DEF NewSubject, UncountedCalm
  <2>2. CASE SameSubject
    BY <1>4, <2>2 DEF Refocus, SameSubject, loop, UncountedCalm, Attended, Steady
  <2> QED
    BY <1>4, <2>1, <2>2 DEF Refocus
<1>5. CASE Report
  BY <1>5 DEF Report, burst, loop, world, UncountedCalm, Attended, Steady
<1>8. CASE Silence
  BY <1>8 DEF Silence, loop, UncountedCalm, Attended, Steady
<1>6. CASE Aside
  BY <1>6 DEF Aside, loop, world, UncountedCalm, Attended, Steady
<1>7. ASSUME NEW busy \in BOOLEAN, NEW input \in BOOLEAN, Tick(busy, input)
      PROVE  UncountedCalm'
  <2> SUFFICES ASSUME Attended', quiet' = -1, calm' > 0
               PROVE  calm' + timer' <= Lag + 1 + BusyPoll
    BY DEF UncountedCalm
  <2>1. /\ calm \in Nat /\ timer \in Nat /\ timer' = timer - 1 /\ timer > 0
        /\ UNCHANGED <<fast, period, helper, gap, unheard>>
    BY <1>7, CalmTick
  <2> PICK c \in Nat : calm' = c /\ c <= calm + 1
    BY <1>7, CalmTick
  <2>2. quiet = -1
    BY <1>7 DEF Tick, AtMost
  <2>3. CASE calm > 0
    BY <2>1, <2>2, <2>3 DEF UncountedCalm, Attended, Steady
  <2>4. CASE calm = 0 /\ period = BusyPoll
    BY <2>1, <2>4
  <2>5. CASE calm = 0 /\ period # BusyPoll
    BY <2>1, <2>5 DEF UnnoticedCalm, Attended, Steady
  <2> QED
    BY <2>1, <2>3, <2>4, <2>5
<1> QED
  BY <1>1, <1>2, <1>3, <1>4, <1>5, <1>6, <1>7, <1>8, Outcomes

(* The recorded quiet time and the calm count on together.                  *)
LEMMA CountedCalmStep ==
  ASSUME TypeOK, AtBusyRate, UncountedCalm, CountedCalm, [Next]_vars
  PROVE  CountedCalm'
<1> USE Times, LagBounds DEF TypeOK
<1>1. CASE PausedPoll
  BY <1>1 DEF PausedPoll, CountedCalm, Attended, Steady
<1>2. CASE HeldPoll
  BY <1>2 DEF HeldPoll, CountedCalm
<1>3. CASE QuietPoll
  <2> SUFFICES ASSUME Attended'
               PROVE  quiet' < Hysteresis /\ calm' <= quiet' + Lag + 1 + BusyPoll
    BY DEF CountedCalm
  <2>1. Attended /\ timer = 0 /\ calm' = calm
    BY <1>3 DEF QuietPoll, Sample, ipc, Attended, Steady
  <2>2. quiet' < Hysteresis
    BY <1>3 DEF QuietPoll, Attended, Steady
  <2>3. CASE quiet = -1
    <3>1. quiet' = 0
      BY <1>3, <2>3 DEF QuietPoll
    <3> QED
      BY <2>1, <2>2, <2>3, <3>1 DEF UncountedCalm
  <2>4. CASE quiet # -1
    <3>1. quiet' = quiet
      BY <1>3, <2>4 DEF QuietPoll
    <3> QED
      BY <2>1, <2>2, <2>4, <3>1 DEF CountedCalm
  <2> QED
    BY <2>3, <2>4
<1>4. CASE Refocus
  <2>1. CASE NewSubject
    BY <2>1 DEF NewSubject, CountedCalm
  <2>2. CASE SameSubject
    BY <1>4, <2>2 DEF Refocus, SameSubject, loop, CountedCalm, Attended, Steady
  <2> QED
    BY <1>4, <2>1, <2>2 DEF Refocus
<1>5. CASE Report
  BY <1>5 DEF Report, burst, loop, world, CountedCalm, Attended, Steady
<1>8. CASE Silence
  BY <1>8 DEF Silence, loop, CountedCalm, Attended, Steady
<1>6. CASE Aside
  BY <1>6 DEF Aside, loop, world, CountedCalm, Attended, Steady
<1>7. ASSUME NEW busy \in BOOLEAN, NEW input \in BOOLEAN, Tick(busy, input)
      PROVE  CountedCalm'
  <2> SUFFICES ASSUME Attended', quiet' >= 0
               PROVE  \/ quiet' < Hysteresis /\ calm' <= quiet' + Lag + 1 + BusyPoll
                      \/ quiet' = Hysteresis
                         /\ calm' + timer' <= Hysteresis + Lag + 2 * BusyPoll
    BY DEF CountedCalm
  <2>1. /\ calm \in Nat /\ timer \in Nat /\ timer' = timer - 1 /\ timer > 0
        /\ UNCHANGED <<fast, period, helper, gap, unheard>>
    BY <1>7, CalmTick
  <2> PICK c \in Nat : calm' = c /\ c <= calm + 1
    BY <1>7, CalmTick
  <2>2. quiet # -1 /\ quiet \in Nat /\ quiet' = AtMost(quiet + 1, Hysteresis)
    BY <1>7 DEF Tick
  <2>3. Attended /\ Quieting
    BY <2>1, <2>2 DEF Attended, Steady, Quieting
  <2>4. timer <= BusyPoll
    BY <2>3 DEF AtBusyRate
  <2>5. CASE quiet < Hysteresis
    <3>1. calm <= quiet + Lag + 1 + BusyPoll /\ quiet' = quiet + 1
      BY <2>2, <2>3, <2>5 DEF CountedCalm, AtMost
    <3> QED
      BY <2>1, <2>2, <2>4, <2>5, <3>1
  <2>6. CASE quiet = Hysteresis
    <3>1. calm + timer <= Hysteresis + Lag + 2 * BusyPoll /\ quiet' = Hysteresis
      BY <2>2, <2>3, <2>6 DEF CountedCalm, AtMost
    <3> QED
      BY <2>1, <3>1
  <2> QED
    BY <2>2, <2>5, <2>6
<1> QED
  BY <1>1, <1>2, <1>3, <1>4, <1>5, <1>6, <1>7, <1>8, Outcomes

(* The inductive invariant behind DropsInTime.                              *)
TimelyInv ==
  /\ TypeOK /\ AtBusyRate /\ CalmIsCalm /\ ReportEnds /\ IdlePeriodEnds
  /\ UnnoticedCalm /\ UncountedCalm /\ CountedCalm

LEMMA TimelyInit == Init => TimelyInv
<1> SUFFICES ASSUME Init PROVE TimelyInv
  OBVIOUS
<1>1. TypeOK
  BY TypeInit
<1>2. AtBusyRate /\ CalmIsCalm /\ IdlePeriodEnds
  BY Times DEF Init, AtBusyRate, Quieting, CalmIsCalm, IdlePeriodEnds
<1>3. ReportEnds
  BY Times DEF Init, ReportEnds
<1>4. UnnoticedCalm /\ UncountedCalm /\ CountedCalm
  BY Times DEF Init, UnnoticedCalm, UncountedCalm, CountedCalm
<1> QED
  BY <1>1, <1>2, <1>3, <1>4 DEF TimelyInv

LEMMA TimelyStep ==
  ASSUME TimelyInv, [Next]_vars
  PROVE  TimelyInv'
<1> TypeOK /\ AtBusyRate /\ CalmIsCalm /\ ReportEnds /\ IdlePeriodEnds
    /\ UnnoticedCalm /\ UncountedCalm /\ CountedCalm
  BY DEF TimelyInv
<1>1. TypeOK'
  BY TypeStep
<1>2. AtBusyRate' /\ CalmIsCalm' /\ ReportEnds' /\ IdlePeriodEnds'
  BY <1>1, AtBusyRateStep, CalmIsCalmStep, ReportEndsStep, IdlePeriodEndsStep
<1>3. UnnoticedCalm'
  BY UnnoticedCalmStep
<1>4. UncountedCalm' /\ CountedCalm'
  BY <1>3, UncountedCalmStep, CountedCalmStep
<1> QED
  BY <1>1, <1>2, <1>3, <1>4 DEF TimelyInv

LEMMA CalmIsBounded == TimelyInv => DropsInTime
<1> SUFFICES ASSUME TimelyInv, fast, ~gap, ~unheard, helper # "gone"
             PROVE  calm <= Hysteresis + 2 * BusyPoll + Lag
  BY DEF DropsInTime, Lag
<1> USE Times, LagBounds DEF TypeOK
<1>1. Attended /\ TypeOK /\ UncountedCalm /\ CountedCalm
  BY DEF TimelyInv, Attended, Steady
<1>2. CASE quiet = -1
  BY <1>1, <1>2 DEF UncountedCalm
<1>3. CASE quiet # -1
  BY <1>1, <1>3 DEF CountedCalm
<1> QED
  BY <1>2, <1>3

(* Once nothing calls for a boost any more, should_hold_boost lets it go    *)
(* within a bounded time, whatever the periods and thresholds are.          *)
THEOREM BurstsEndInTime == Spec => []DropsInTime
<1>1. Init => TimelyInv
  BY TimelyInit
<1>2. TimelyInv /\ [Next]_vars => TimelyInv'
  BY TimelyStep
<1>3. TimelyInv => DropsInTime
  BY CalmIsBounded
<1> QED
  BY <1>1, <1>2, <1>3, PTL DEF Spec

=============================================================================
