----------------------- MODULE ServiceLifecycle_proofs -----------------------
(***************************************************************************)
(* One instance at a time, whatever the number of processes: proofs about   *)
(* ServiceLifecycle.                                                        *)
(*                                                                         *)
(* OneGoverns is not inductive: an instance that is about to govern must    *)
(* already exclude the others.  The invariant therefore speaks of owners,   *)
(* which have the mutex from Acquire to the end of the cleanup, and beyond  *)
(* it where a failed wait leaves the notifications on; and it says that     *)
(* each holds a handle: an instance becomes an owner only when nobody holds *)
(* one.  StoppedMeansRestored rests also on the SCM launching one process   *)
(* of the service at a time.                                                *)
(***************************************************************************)
EXTENDS ServiceLifecycle, TLAPS

Owns(p) ==
  at[p] \in {"owner", "governing", "looping", "cleanup"} \/ p \in failed
Live(s) == at[s] \notin {"gone", "exiting"}

OwnersHold  == \A p \in Instances : Owns(p) => p \in open
OneOwner    == \A p, q \in Instances : Owns(p) /\ Owns(q) => p = q
OneLive     == \A s, t \in Services : Live(s) /\ Live(t) => s = t
StoppedDead == status = "stopped" => \A s \in Services : ~Live(s)

(* Where a service is whose wait failed, and one that took the settings     *)
(* again.                                                                   *)
PastWait ==
  /\ \A p \in failed : at[p] \in {"cleanup", "restored", "exiting"}
  /\ \A p \in retook : at[p] \in {"restored", "exiting"}

IInv == TypeOK /\ PastWait /\ OwnersHold /\ OneOwner /\ OneLive /\ StoppedDead

USE DEF Instances, Procs, Goes, StatusStopped

LEMMA InitInvariant == Init => IInv
<1> SUFFICES ASSUME Init PROVE IInv
  OBVIOUS
<1>1. TypeOK
  <2>1. polls \in 0..MaxPolls /\ crashes \in 0..MaxCrashes
    BY LifecycleAssumption DEF Init
  <2>2. refusal = {} /\ open = {} /\ failed = {} /\ retook = {} /\ restarts \in BOOLEAN
    BY DEF Init
  <2>3. /\ at \in [Procs -> {"gone", "born", "refused", "owner", "governing",
                             "looping", "cleanup", "restored", "exiting"}]
        /\ stop \in [Procs -> BOOLEAN] /\ closing \in [Procs -> BOOLEAN]
        /\ baseline \in [Procs -> {"user", "ours"}]
    BY DEF Init
  <2>4. QED
    BY <2>1, <2>2, <2>3 DEF Init, TypeOK
<1>2. PastWait /\ OwnersHold /\ OneOwner /\ OneLive /\ StoppedDead
  BY DEF Init, PastWait, OwnersHold, OneOwner, OneLive, StoppedDead, Owns, Live
<1>3. QED
  BY <1>1, <1>2 DEF IInv

LEMMA AcquireStep ==
  ASSUME NEW p \in Instances, IInv, Acquire(p)
  PROVE  IInv'
<1>1. TypeOK'
  BY DEF IInv, TypeOK, Acquire, Met, power, scm, client, past
<1>2. PastWait' /\ OwnersHold' /\ OneOwner'
  BY DEF IInv, TypeOK, PastWait, OwnersHold, OneOwner, Owns,
     Acquire, MutexExists, power
<1>3. OneLive' /\ StoppedDead'
  BY DEF IInv, TypeOK, OneLive, StoppedDead, Live, Acquire, scm
<1>4. QED
  BY <1>1, <1>2, <1>3 DEF IInv

LEMMA RefusedStep ==
  ASSUME NEW p \in Instances, IInv, Refused(p)
  PROVE  IInv'
<1>1. TypeOK'
  BY DEF IInv, TypeOK, Refused, power, scm, client, past
<1>2. PastWait' /\ OwnersHold' /\ OneOwner'
  BY DEF IInv, TypeOK, PastWait, OwnersHold, OneOwner, Owns, Refused, power
<1>3. OneLive' /\ StoppedDead'
  BY DEF IInv, TypeOK, OneLive, StoppedDead, Live, Refused, scm
<1>4. QED
  BY <1>1, <1>2, <1>3 DEF IInv

LEMMA ReadyStep ==
  ASSUME NEW p \in Instances, IInv, Ready(p)
  PROVE  IInv'
<1>1. TypeOK'
  BY DEF IInv, TypeOK, Ready, power, client, past
<1>2. PastWait' /\ OwnersHold' /\ OneOwner'
  BY DEF IInv, TypeOK, PastWait, OwnersHold, OneOwner, Owns, Ready, power
<1>3. OneLive' /\ StoppedDead'
  BY DEF IInv, TypeOK, OneLive, StoppedDead, Live, Ready
<1>4. QED
  BY <1>1, <1>2, <1>3 DEF IInv

LEMMA LoopEndsStep ==
  ASSUME NEW p \in Instances, IInv, LoopEnds(p)
  PROVE  IInv'
<1>1. TypeOK'
  BY DEF IInv, TypeOK, LoopEnds, power, scm, client, past
<1>2. PastWait' /\ OwnersHold' /\ OneOwner'
  BY DEF IInv, TypeOK, PastWait, OwnersHold, OneOwner, Owns, LoopEnds, power
<1>3. OneLive' /\ StoppedDead'
  BY DEF IInv, TypeOK, OneLive, StoppedDead, Live, LoopEnds, scm
<1>4. QED
  BY <1>1, <1>2, <1>3 DEF IInv

LEMMA WaitFailsStep ==
  ASSUME NEW p \in Instances, IInv, WaitFails(p)
  PROVE  IInv'
<1>1. TypeOK'
  BY DEF IInv, TypeOK, WaitFails, power, scm, client, past
<1>2. PastWait' /\ OwnersHold' /\ OneOwner'
  BY LifecycleAssumption DEF IInv, TypeOK, PastWait, OwnersHold, OneOwner, Owns,
     WaitFails
<1>3. OneLive' /\ StoppedDead'
  BY DEF IInv, TypeOK, OneLive, StoppedDead, Live, WaitFails, scm
<1>4. QED
  BY <1>1, <1>2, <1>3 DEF IInv

LEMMA RestoresStep ==
  ASSUME NEW p \in Instances, IInv, Restores(p)
  PROVE  IInv'
<1>1. TypeOK'
  BY DEF IInv, TypeOK, Restores, scm, client, past
<1>2. PastWait' /\ OwnersHold' /\ OneOwner'
  BY LifecycleAssumption DEF IInv, TypeOK, PastWait, OwnersHold, OneOwner, Owns,
     Restores
<1>3. OneLive' /\ StoppedDead'
  BY DEF IInv, TypeOK, OneLive, StoppedDead, Live, Restores, scm
<1>4. QED
  BY <1>1, <1>2, <1>3 DEF IInv

LEMMA LateNoticeStep ==
  ASSUME NEW p \in Instances, IInv, LateNotice(p)
  PROVE  IInv'
<1>1. TypeOK'
  BY DEF IInv, TypeOK, LateNotice, life, scm, client, past
<1>2. PastWait' /\ OwnersHold' /\ OneOwner'
  BY DEF IInv, TypeOK, PastWait, OwnersHold, OneOwner, Owns, LateNotice, life
<1>3. OneLive' /\ StoppedDead'
  BY DEF IInv, TypeOK, OneLive, StoppedDead, Live, LateNotice, life, scm
<1>4. QED
  BY <1>1, <1>2, <1>3 DEF IInv

LEMMA ReturnsStep ==
  ASSUME NEW p \in Instances, IInv, Returns(p)
  PROVE  IInv'
<1>1. TypeOK'
  BY DEF IInv, TypeOK, Returns, power, client, past
<1>2. PastWait' /\ OwnersHold' /\ OneOwner'
  BY DEF IInv, TypeOK, PastWait, OwnersHold, OneOwner, Owns, Returns, power
<1>3. OneLive' /\ StoppedDead'
  BY DEF IInv, TypeOK, OneLive, StoppedDead, Live, Returns
<1>4. QED
  BY <1>1, <1>2, <1>3 DEF IInv

LEMMA InitialiseStep ==
  ASSUME NEW p \in Instances, IInv, Initialise(p)
  PROVE  IInv'
<1>1. TypeOK'
  BY DEF IInv, TypeOK, Initialise, TakesOver, scm, client, past
<1>2. PastWait' /\ OwnersHold' /\ OneOwner'
  BY DEF IInv, TypeOK, PastWait, OwnersHold, OneOwner, Owns,
     Initialise, TakesOver
<1>3. OneLive' /\ StoppedDead'
  BY DEF IInv, TypeOK, OneLive, StoppedDead, Live, Initialise, scm
<1>4. QED
  BY <1>1, <1>2, <1>3 DEF IInv

LEMMA ExitsStep ==
  ASSUME NEW p \in Procs, IInv, Exits(p)
  PROVE  IInv'
<1>1. TypeOK'
  BY DEF IInv, TypeOK, Exits, Forgets, scm, client
<1>2. PastWait' /\ OwnersHold' /\ OneOwner'
  BY DEF IInv, TypeOK, PastWait, OwnersHold, OneOwner, Owns, Exits, Forgets
<1>3. OneLive' /\ StoppedDead'
  BY DEF IInv, TypeOK, OneLive, StoppedDead, Live, Exits, scm
<1>4. QED
  BY <1>1, <1>2, <1>3 DEF IInv

LEMMA DiesStep ==
  ASSUME NEW p \in Procs, IInv, Dies(p), crashes' \in 0..MaxCrashes, killed' \in BOOLEAN
  PROVE  IInv'
<1>1. TypeOK'
  BY DEF IInv, TypeOK, Dies, Forgets, scm, client
<1>2. PastWait' /\ OwnersHold' /\ OneOwner'
  BY DEF IInv, TypeOK, PastWait, OwnersHold, OneOwner, Owns, Dies, Forgets
<1>3. OneLive' /\ StoppedDead'
  BY DEF IInv, TypeOK, OneLive, StoppedDead, Live, Dies, scm
<1>4. QED
  BY <1>1, <1>2, <1>3 DEF IInv

LEMMA OpensStep ==
  ASSUME NEW c \in Consoles, IInv, Opens(c)
  PROVE  IInv'
<1>1. TypeOK'
  BY DEF IInv, TypeOK, Opens, power, scm, client, past
<1>2. PastWait' /\ OwnersHold' /\ OneOwner'
  BY LifecycleAssumption DEF IInv, TypeOK, PastWait, OwnersHold, OneOwner, Owns,
     Opens, power
<1>3. OneLive' /\ StoppedDead'
  BY LifecycleAssumption DEF IInv, TypeOK, OneLive, StoppedDead, Live, Opens, scm
<1>4. QED
  BY <1>1, <1>2, <1>3 DEF IInv

LEMMA BenchmarkRunsStep ==
  ASSUME NEW b \in Benchmarks, IInv, BenchmarkRuns(b)
  PROVE  IInv'
<1>1. TypeOK'
  BY DEF IInv, TypeOK, BenchmarkRuns, TakesOver, scm, client, past
<1>2. PastWait' /\ OwnersHold' /\ OneOwner'
  BY LifecycleAssumption DEF IInv, TypeOK, PastWait, OwnersHold, OneOwner, Owns,
     BenchmarkRuns, TakesOver
<1>3. OneLive' /\ StoppedDead'
  BY LifecycleAssumption DEF IInv, TypeOK, OneLive, StoppedDead, Live, BenchmarkRuns,
     scm
<1>4. QED
  BY <1>1, <1>2, <1>3 DEF IInv

LEMMA BenchmarkEndsStep ==
  ASSUME NEW b \in Benchmarks, IInv, BenchmarkEnds(b)
  PROVE  IInv'
<1>1. TypeOK'
  BY DEF IInv, TypeOK, BenchmarkEnds, scm, client, past
<1>2. PastWait' /\ OwnersHold' /\ OneOwner'
  BY LifecycleAssumption DEF IInv, TypeOK, PastWait, OwnersHold, OneOwner, Owns,
     BenchmarkEnds
<1>3. OneLive' /\ StoppedDead'
  BY DEF IInv, TypeOK, OneLive, StoppedDead, Live, BenchmarkEnds, scm
<1>4. QED
  BY <1>1, <1>2, <1>3 DEF IInv

LEMMA FailureActionStep ==
  ASSUME IInv, FailureAction
  PROVE  IInv'
<1>1. TypeOK'
  BY DEF IInv, TypeOK, FailureAction, Launch, power, client, past
<1>2. PastWait' /\ OwnersHold' /\ OneOwner'
  BY DEF IInv, TypeOK, PastWait, OwnersHold, OneOwner, Owns,
     FailureAction, Launch, power
<1>3. OneLive' /\ StoppedDead'
  BY DEF IInv, TypeOK, OneLive, StoppedDead, Live, FailureAction, Launch
<1>4. QED
  BY <1>1, <1>2, <1>3 DEF IInv

LEMMA CliStartStep ==
  ASSUME IInv, CliStart
  PROVE  IInv'
<1>1. TypeOK'
  BY LifecycleAssumption DEF IInv, TypeOK, CliStart, Launch, Begins, power, past
<1>2. PastWait' /\ OwnersHold' /\ OneOwner'
  BY DEF IInv, TypeOK, PastWait, OwnersHold, OneOwner, Owns,
     CliStart, Launch, power
<1>3. OneLive' /\ StoppedDead'
  BY DEF IInv, TypeOK, OneLive, StoppedDead, Live, CliStart, Launch
<1>4. QED
  BY <1>1, <1>2, <1>3 DEF IInv

(* Steps that move no process, open or close no instance's handle and start *)
(* or stop nothing.                                                         *)
LEMMA QuietStep ==
  ASSUME IInv, TypeOK', UNCHANGED <<at, failed, retook>>, open' \cap Instances = open \cap Instances,
         status' = "stopped" => status = "stopped"
  PROVE  IInv'
  BY DEF IInv, PastWait, OwnersHold, OneOwner, OneLive, StoppedDead, Owns, Live

LEMMA ConsoleSteps ==
  ASSUME IInv, NEW c \in Consoles, CtrlC(c) \/ WindowCloses(c)
  PROVE  IInv'
<1>1. UNCHANGED <<at, open, power, scm, client, refusal, past>>
  BY DEF CtrlC, WindowCloses
<1>2. stop' \in [Procs -> BOOLEAN] /\ closing' \in [Procs -> BOOLEAN]
  BY DEF IInv, TypeOK, CtrlC, WindowCloses
<1>3. TypeOK'
  BY <1>1, <1>2 DEF IInv, TypeOK, power, scm, client, past
<1>4. QED
  BY <1>1, <1>3, QuietStep DEF power, scm

LEMMA QuerySteps ==
  ASSUME IInv, QueryOpens \/ QueryCloses
  PROVE  IInv'
<1>1. UNCHANGED <<life, power, scm, client, refusal, past>>
  BY DEF QueryOpens, QueryCloses
<1>2. open' \subseteq Procs \cup {Query} /\ open' \cap Instances = open \cap Instances
  BY LifecycleAssumption DEF IInv, TypeOK, QueryOpens, QueryCloses
<1>3. TypeOK'
  BY <1>1, <1>2 DEF IInv, TypeOK, life, power, scm, client, past
<1>4. QED
  BY <1>1, <1>2, <1>3, QuietStep DEF life, power, scm

(* The stop control, from whoever it comes. *)
LEMMA StopControlSteps ==
  ASSUME IInv, ScmStops \/ CliStop \/ CliUninstall
  PROVE  IInv'
<1>1. /\ StopControl
      /\ UNCHANGED <<closing, open, power, installed, restarts, due, refusal, past>>
  BY DEF ScmStops, CliStop, CliUninstall
<1>2. /\ cli' \in {"none", "start", "stop", "uninstall"}
      /\ polls' \in 0..MaxPolls
  BY LifecycleAssumption DEF ScmStops, CliStop, CliUninstall, Begins, IInv, TypeOK, client
<1>3. TypeOK'
  BY <1>1, <1>2 DEF IInv, TypeOK, StopControl, power, past
<1>4. QED
  BY <1>1, <1>3, QuietStep DEF StopControl, power

LEMMA ClientSteps ==
  ASSUME IInv,
         CliUninstallAtOnce \/ CliSees \/ CliLooksAgain \/ CliGivesUp \/ CliInstall
  PROVE  IInv'
<1>1. UNCHANGED <<life, open, power, status, due, refusal, past>>
  BY DEF CliUninstallAtOnce, CliSees, CliLooksAgain, CliGivesUp, CliInstall, scm
<1>2. /\ installed' \in {"yes", "no", "marked"} /\ restarts' \in BOOLEAN
      /\ cli' \in {"none", "start", "stop", "uninstall"}
      /\ polls' \in 0..MaxPolls
  <2>1. CASE CliInstall
    BY <2>1 DEF CliInstall, client, IInv, TypeOK
  <2>2. CASE CliUninstallAtOnce \/ CliSees \/ CliGivesUp
    BY <2>2, LifecycleAssumption
       DEF CliUninstallAtOnce, CliSees, CliGivesUp, CliDone, DeleteService, IInv, TypeOK,
           client
  <2>3. CASE CliLooksAgain
    BY <2>3, LifecycleAssumption DEF CliLooksAgain, IInv, TypeOK, scm
  <2>4. QED
    BY <2>1, <2>2, <2>3
<1>3. TypeOK'
  BY <1>1, <1>2 DEF IInv, TypeOK, life, power, past
<1>4. QED
  BY <1>1, <1>3, QuietStep DEF life, power

LEMMA EndSteps ==
  ASSUME IInv, NEW p \in Procs, Crash(p) \/ WindowKills(p)
  PROVE  IInv'
<1>1. Dies(p) /\ crashes' \in 0..MaxCrashes /\ killed' \in BOOLEAN
  <2>1. crashes \in 0..MaxCrashes /\ killed \in BOOLEAN
    BY DEF IInv, TypeOK
  <2>2. CASE Crash(p)
    BY <2>1, <2>2, LifecycleAssumption DEF Crash
  <2>3. CASE WindowKills(p)
    BY <2>1, <2>3 DEF WindowKills
  <2>4. QED
    BY <2>2, <2>3
<1>2. QED
  BY <1>1, DiesStep

LEMMA StutterStep == IInv /\ UNCHANGED vars => IInv'
  BY DEF IInv, TypeOK, PastWait, OwnersHold, OneOwner, OneLive, StoppedDead, Owns, Live,
         vars, life, power, scm, client, past

LEMMA NextStep == IInv /\ [Next]_vars => IInv'
<1> SUFFICES ASSUME IInv, [Next]_vars PROVE IInv'
  OBVIOUS
<1>1. CASE \E p \in Instances : Daemon(p)
  BY <1>1, AcquireStep, RefusedStep, InitialiseStep, ReadyStep, LoopEndsStep,
     WaitFailsStep, RestoresStep, LateNoticeStep, ReturnsStep DEF Daemon
<1>2. CASE \E p \in Procs : Exits(p) \/ Crash(p)
  BY <1>2, ExitsStep, EndSteps
<1>3. CASE \E c \in Consoles : Console(c)
  BY <1>3, OpensStep, ConsoleSteps, EndSteps DEF Console
<1>4. CASE \E b \in Benchmarks : BenchmarkRuns(b) \/ BenchmarkEnds(b)
  BY <1>4, BenchmarkRunsStep, BenchmarkEndsStep
<1>5. CASE QueryOpens \/ QueryCloses
  BY <1>5, QuerySteps
<1>6. CASE FailureAction \/ CliStart
  BY <1>6, FailureActionStep, CliStartStep
<1>7. CASE ScmStops \/ CliStop \/ CliUninstall
  BY <1>7, StopControlSteps
<1>8. CASE CliUninstallAtOnce \/ CliSees \/ CliLooksAgain \/ CliGivesUp \/ CliInstall
  BY <1>8, ClientSteps
<1>9. CASE UNCHANGED vars
  BY <1>9, StutterStep
<1>10. QED
  BY <1>1, <1>2, <1>3, <1>4, <1>5, <1>6, <1>7, <1>8, <1>9 DEF Next

(* The inductive invariant holds in every behaviour. *)
THEOREM LifecycleInvariance == Spec => []IInv
  BY InitInvariant, NextStep, PTL DEF Spec

(* Every variable keeps its type. *)
THEOREM LifecycleTypeCorrect == Spec => []TypeOK
<1>1. IInv => TypeOK
  BY DEF IInv
<1>2. QED
  BY <1>1, LifecycleInvariance, PTL

(* However many processes of the service and consoles there are, and        *)
(* whatever crashes or waits fail, two instances never hold the power       *)
(* settings at once (acquire_global_mutex).                                 *)
THEOREM SingleInstance == Spec => []OneGoverns
<1>1. IInv => OneGoverns
  BY DEF IInv, TypeOK, OneOwner, Owns, OneGoverns, InCharge, Governs
<1>2. QED
  BY <1>1, LifecycleInvariance, PTL

----------------------------------------------------------------------------
(* The user's settings come back.  Whoever governs has saved them; when     *)
(* nobody is in charge they are in force.                                   *)

Saved == Untroubled =>
  /\ \A p \in Instances : Governs(p) => baseline[p] = "user"
  /\ (\A p \in Instances : ~InCharge(p)) => settings = "user"

LEMMA SavedInit == Init => Saved
  BY DEF Init, Saved, Governs, InCharge

(* Whoever is in charge is the owner, so nobody else is. *)
LEMMA OwnerAlone ==
  ASSUME IInv, NEW p \in Instances, Owns(p), NEW q \in Instances, q # p
  PROVE  ~InCharge(q) /\ ~Governs(q)
  BY DEF IInv, TypeOK, OneOwner, Owns, InCharge, Governs

(* An owner that takes over finds the user's settings: nobody is in charge. *)
LEMMA SavedTakeOver ==
  ASSUME IInv, Saved, NEW p \in Instances, Initialise(p)
  PROVE  Saved'
<1>1. Owns(p) /\ ~InCharge(p)
  BY DEF IInv, TypeOK, PastWait, Owns, InCharge, Governs, Initialise
<1>2. \A q \in Instances : ~InCharge(q)
  BY <1>1, OwnerAlone
<1>3. \A q \in Instances : Governs(q)' => q = p
  BY <1>1, OwnerAlone DEF IInv, TypeOK, Governs, Initialise
<1>4. Governs(p)' /\ Untroubled' = Untroubled /\ baseline'[p] = settings
  BY DEF IInv, TypeOK, Governs, Initialise, TakesOver, Untroubled, past
<1>5. QED
  BY <1>2, <1>3, <1>4 DEF Saved, InCharge

LEMMA SavedRestore ==
  ASSUME IInv, Saved, NEW p \in Instances, Restores(p)
  PROVE  Saved'
<1>1. Owns(p)
  BY DEF Owns, Restores
<1>2. \A q \in Instances : ~Governs(q)'
  BY <1>1, OwnerAlone DEF IInv, TypeOK, Governs, Restores
<1>3. Governs(p) /\ settings' = baseline[p] /\ Untroubled' = Untroubled
  BY DEF Governs, Restores, Untroubled, past
<1>4. QED
  BY <1>2, <1>3 DEF Saved

(* A late notification puts its service in charge again. *)
LEMMA SavedLate ==
  ASSUME IInv, Saved, NEW p \in Instances, LateNotice(p)
  PROVE  Saved'
<1>1. InCharge(p)'
  BY DEF InCharge, LateNotice
<1>2. \A q \in Instances : Governs(q)' = Governs(q)
  BY DEF Governs, LateNotice, life
<1>3. UNCHANGED baseline /\ Untroubled' = Untroubled
  BY DEF LateNotice, Untroubled, past
<1>4. QED
  BY <1>1, <1>2, <1>3 DEF Saved

(* A step that touches neither settings nor what a governor saved, and      *)
(* changes nobody's part in governing.                                      *)
LEMMA SavedQuiet ==
  ASSUME Saved, UNCHANGED settings, Untroubled' => Untroubled,
         \A p \in Instances : Governs(p)' = Governs(p) /\ InCharge(p)' = InCharge(p),
         \A p \in Instances : Governs(p) => baseline'[p] = baseline[p]
  PROVE  Saved'
  BY DEF Saved

LEMMA SavedDaemon ==
  ASSUME IInv, Saved, NEW p \in Instances, Daemon(p)
  PROVE  Saved'
<1>1. CASE Initialise(p)
  BY <1>1, SavedTakeOver
<1>2. CASE Restores(p)
  BY <1>2, SavedRestore
<1>3. CASE LateNotice(p)
  BY <1>3, SavedLate
<1>4. ASSUME Acquire(p) \/ Refused(p) \/ Ready(p) \/ LoopEnds(p) \/ WaitFails(p) \/ Returns(p)
      PROVE  Saved'
  <2>1. UNCHANGED <<settings, baseline, retook, crashes, killed, abandoned>>
    BY <1>4 DEF Acquire, Refused, Ready, LoopEnds, WaitFails, Returns, power, past
  <2>2. \A q \in Instances : Governs(q)' = Governs(q)
    BY <1>4 DEF IInv, TypeOK, Governs, Acquire, Refused, Ready, LoopEnds, WaitFails, Returns
  <2>3. QED
    BY <2>1, <2>2, SavedQuiet DEF Untroubled, InCharge
<1>5. QED
  BY <1>1, <1>2, <1>3, <1>4 DEF Daemon

(* The end of a process: an orderly one of a process in charge, like any    *)
(* other, is trouble.                                                       *)
LEMMA SavedEnd ==
  ASSUME IInv, Saved, NEW p \in Procs, Exits(p) \/ Crash(p) \/ WindowKills(p)
  PROVE  Saved'
<1>1. CASE Exits(p) /\ p \notin retook
  <2>1. UNCHANGED settings /\ retook' = retook /\ Untroubled' = Untroubled
    BY <1>1 DEF IInv, TypeOK, Exits, Forgets, Untroubled
  <2>2. \A q \in Instances : Governs(q)' = Governs(q)
    BY <1>1 DEF IInv, TypeOK, Governs, Exits
  <2>3. \A q \in Instances : Governs(q) => baseline'[q] = baseline[q]
    BY <1>1 DEF IInv, TypeOK, Governs, Exits, Forgets
  <2>4. QED
    BY <2>1, <2>2, <2>3, SavedQuiet DEF InCharge
<1>2. CASE Exits(p) /\ p \in retook
  <2>1. ~Untroubled'
    BY <1>2 DEF Exits, Untroubled
  <2>2. QED
    BY <2>1 DEF Saved
<1>3. CASE Crash(p) \/ WindowKills(p)
  <2>1. ~Untroubled'
    BY <1>3 DEF IInv, TypeOK, Crash, WindowKills, Untroubled
  <2>2. QED
    BY <2>1 DEF Saved
<1>4. QED
  BY <1>1, <1>2, <1>3

LEMMA SavedOther ==
  ASSUME IInv, Saved,
         \/ \E c \in Consoles : Opens(c) \/ CtrlC(c) \/ WindowCloses(c)
         \/ QueryOpens \/ QueryCloses \/ FailureAction \/ ScmStops
         \/ CliStart \/ CliStop \/ CliUninstall \/ CliUninstallAtOnce
         \/ CliSees \/ CliLooksAgain \/ CliGivesUp \/ CliInstall
         \/ UNCHANGED vars
  PROVE  Saved'
<1>1. UNCHANGED <<settings, baseline, retook, crashes, killed, abandoned>>
  BY DEF Opens, CtrlC, WindowCloses, QueryOpens, QueryCloses, FailureAction, ScmStops,
     CliStart, CliStop, CliUninstall, CliUninstallAtOnce, CliSees, CliLooksAgain,
     CliGivesUp, CliInstall, vars, power, past
<1>2. \A q \in Instances : Governs(q)' = Governs(q)
  <2>1. \/ UNCHANGED at
        \/ \E q \in Instances : Goes(q, "gone", "born")
    BY DEF Opens, CtrlC, WindowCloses, QueryOpens, QueryCloses, FailureAction, ScmStops,
       StopControl, Launch, CliStart, CliStop, CliUninstall, CliUninstallAtOnce, CliSees,
       CliLooksAgain, CliGivesUp, CliInstall, vars, life
  <2>2. QED
    BY <2>1 DEF IInv, TypeOK, Governs
<1>3. QED
  BY <1>1, <1>2, SavedQuiet DEF Untroubled, InCharge

LEMMA SavedNext ==
  ASSUME Benchmarks = {}, IInv, Saved, [Next]_vars
  PROVE  Saved'
<1>1. CASE \E p \in Instances : Daemon(p)
  BY <1>1, SavedDaemon
<1>2. CASE \E p \in Procs : Exits(p) \/ Crash(p)
  BY <1>2, SavedEnd
<1>3. CASE \E c \in Consoles : WindowKills(c)
  BY <1>3, SavedEnd
<1>4. QED
  BY <1>1, <1>2, <1>3, SavedOther, Benchmarks = {} DEF Next, Console

(* Where nobody runs --benchmark, the settings are the user's whenever no   *)
(* process is in charge of them, unless one was killed or ended while it    *)
(* was (PowerManager's shutdown before ~Service closes the mutex).          *)
THEOREM SettingsGivenBack ==
  ASSUME Benchmarks = {}
  PROVE  Spec => []SettingsComeBack
<1>1. IInv /\ Saved /\ [Next]_vars => Saved'
  BY SavedNext, Benchmarks = {}
<1>2. Saved => SettingsComeBack
  BY Benchmarks = {} DEF Saved, SettingsComeBack
<1>3. QED
  BY <1>1, <1>2, SavedInit, LifecycleInvariance, PTL DEF Spec

(* Where nobody runs --benchmark, SERVICE_STOPPED means that the settings   *)
(* are the user's, unless a console is in charge of them, a process was     *)
(* killed or ended while it was, or a late notification has taken them      *)
(* again (service_main after run_daemon_loop).                              *)
THEOREM StoppedIsRestored ==
  ASSUME Benchmarks = {}
  PROVE  Spec => []StoppedMeansRestored
<1>1. IInv /\ Saved /\ [Next]_vars => Saved'
  BY SavedNext, Benchmarks = {}
<1>2. IInv /\ Saved => StoppedMeansRestored
  <2> SUFFICES ASSUME IInv, Saved, status = "stopped", Untroubled, retook = {},
                      \A p \in Procs \ Services : ~InCharge(p)
               PROVE  settings = "user"
    BY DEF StoppedMeansRestored
  <2>1. \A s \in Services : ~InCharge(s)
    BY DEF IInv, StoppedDead, Live, InCharge, Governs
  <2>2. \A p \in Instances : ~InCharge(p)
    BY <2>1
  <2>3. QED
    BY <2>2 DEF Saved
<1>3. QED
  BY <1>1, <1>2, SavedInit, LifecycleInvariance, PTL DEF Spec

----------------------------------------------------------------------------
(* The contract: every step of the processes is one of SettingsCustody for  *)
(* the one scheme "machine", or a stutter.                                  *)

Keeping == [Contract!Next]_(Contract!vars)

LEMMA QuietMaps ==
  ASSUME UNCHANGED settings, Untroubled' = Untroubled,
         \A p \in Procs : InCharge(p)' = InCharge(p)
  PROVE  Keeping
BY DEF Keeping, Contract!vars

LEMMA TakeMaps ==
  ASSUME IInv, Benchmarks = {}, NEW p \in Instances, Initialise(p)
  PROVE  Keeping
<1>1. Owns(p) /\ ~InCharge(p)
  BY DEF IInv, TypeOK, PastWait, Owns, InCharge, Governs, Initialise
<1>2. \A q \in Procs : ~InCharge(q)
  BY <1>1, OwnerAlone, Benchmarks = {}
<1>3. InCharge(p)' /\ settings' = "ours" /\ Untroubled' = Untroubled
  BY DEF IInv, TypeOK, InCharge, Governs, Initialise, TakesOver, Untroubled, past
<1>4. Contract!Take("machine")
  BY <1>2, <1>3 DEF Contract!Take, Contract!OthersUntouched
<1>5. QED
  BY <1>4 DEF Keeping, Contract!Next

LEMMA GiveBackMaps ==
  ASSUME IInv, Saved, Benchmarks = {}, NEW p \in Instances, Restores(p)
  PROVE  Keeping
<1>1. /\ Owns(p) /\ InCharge(p) /\ settings' = baseline[p]
      /\ Untroubled' = Untroubled
  BY DEF Owns, InCharge, Governs, Restores, Untroubled, past
<1>2. ~InCharge(p)'
  BY DEF IInv, TypeOK, PastWait, InCharge, Governs, Restores
<1>3. \A q \in Instances : q # p => ~InCharge(q)'
  BY <1>1, OwnerAlone DEF IInv, TypeOK, InCharge, Governs, Restores
<1>4. \A q \in Procs : ~InCharge(q)'
  BY <1>2, <1>3, Benchmarks = {}
<1>5. Untroubled => settings' = "user"
  BY <1>1 DEF Saved, Governs, Restores
<1>6. Contract!GiveBack
  BY <1>1, <1>4, <1>5 DEF Contract!GiveBack, Contract!OthersUntouched
<1>7. QED
  BY <1>6 DEF Keeping, Contract!Next

(* A late notification takes the settings again, or rewrites what it took.  *)
LEMMA LateNoticeMaps ==
  ASSUME IInv, Benchmarks = {}, NEW p \in Instances, LateNotice(p)
  PROVE  Keeping
<1>1. Owns(p) /\ InCharge(p)' /\ settings' = "ours" /\ Untroubled' = Untroubled
  BY DEF Owns, InCharge, LateNotice, Untroubled, past
<1>2. CASE InCharge(p)
  <2>1. Contract!Rewrite
    BY <1>1, <1>2 DEF Contract!Rewrite, Contract!OthersUntouched
  <2>2. QED
    BY <2>1 DEF Keeping, Contract!Next
<1>3. CASE ~InCharge(p)
  <2>1. \A q \in Procs : ~InCharge(q)
    BY <1>1, <1>3, OwnerAlone, Benchmarks = {}
  <2>2. Contract!Take("machine")
    BY <1>1, <2>1 DEF Contract!Take, Contract!OthersUntouched
  <2>3. QED
    BY <2>2 DEF Keeping, Contract!Next
<1>4. QED
  BY <1>2, <1>3

(* Whoever ends while it is in charge loses what it held; nobody else held  *)
(* anything.                                                                *)
LEMMA LoseMaps ==
  ASSUME IInv, Benchmarks = {}, NEW p \in Procs,
         Crash(p) \/ WindowKills(p) \/ (Exits(p) /\ p \in retook)
  PROVE  Keeping
<1>1. /\ at' = [at EXCEPT ![p] = "gone"] /\ retook' = retook \ {p}
      /\ settings' = settings /\ ~Untroubled'
  <2>1. CASE Crash(p)
    BY <2>1 DEF IInv, TypeOK, Crash, Dies, Forgets, Untroubled
  <2>2. CASE WindowKills(p)
    BY <2>2 DEF WindowKills, Dies, Forgets, Untroubled
  <2>3. CASE Exits(p) /\ p \in retook
    BY <2>3 DEF Exits, Forgets, Untroubled
  <2>4. QED
    BY <2>1, <2>2, <2>3
<1>2. ~InCharge(p)' /\ \A q \in Procs : q # p => InCharge(q)' = InCharge(q)
  BY <1>1 DEF IInv, TypeOK, InCharge, Governs
<1>3. CASE InCharge(p)
  <2>1. Owns(p)
    BY <1>3 DEF IInv, TypeOK, Owns, InCharge, Governs
  <2>2. \A q \in Procs : ~InCharge(q)'
    BY <1>2, <2>1, OwnerAlone, Benchmarks = {}
  <2>3. QED
    BY <1>1, <2>2 DEF Keeping, Contract!Next, Contract!Lose, Contract!OthersUntouched
<1>4. CASE ~InCharge(p)
  <2>1. \A q \in Procs : InCharge(q)' = InCharge(q)
    BY <1>2, <1>4 DEF InCharge, Governs
  <2>2. QED
    BY <1>1, <2>1 DEF Keeping, Contract!Next, Contract!Lose, Contract!OthersUntouched
<1>5. QED
  BY <1>3, <1>4

(* The end of a process that is not in charge. *)
LEMMA ExitMaps ==
  ASSUME IInv, NEW p \in Procs, Exits(p), p \notin retook
  PROVE  Keeping
<1>1. UNCHANGED settings /\ retook' = retook /\ Untroubled' = Untroubled
  BY DEF IInv, TypeOK, Exits, Forgets, Untroubled
<1>2. \A q \in Procs : Governs(q)' = Governs(q)
  BY DEF IInv, TypeOK, Governs, Exits
<1>3. QED
  BY <1>1, <1>2, QuietMaps DEF InCharge

LEMMA OtherMaps ==
  ASSUME IInv,
         \/ \E p \in Instances : \/ Acquire(p) \/ Refused(p) \/ Ready(p)
                                 \/ LoopEnds(p) \/ WaitFails(p) \/ Returns(p)
         \/ \E c \in Consoles : Opens(c) \/ CtrlC(c) \/ WindowCloses(c)
         \/ QueryOpens \/ QueryCloses \/ FailureAction \/ ScmStops
         \/ CliStart \/ CliStop \/ CliUninstall \/ CliUninstallAtOnce
         \/ CliSees \/ CliLooksAgain \/ CliGivesUp \/ CliInstall
         \/ UNCHANGED vars
  PROVE  Keeping
<1>1. UNCHANGED <<settings, retook, crashes, killed, abandoned>>
  BY DEF Acquire, Refused, Ready, LoopEnds, WaitFails, Returns, Opens, CtrlC,
     WindowCloses, QueryOpens, QueryCloses, FailureAction, ScmStops, CliStart, CliStop,
     CliUninstall, CliUninstallAtOnce, CliSees, CliLooksAgain, CliGivesUp, CliInstall,
     vars, power, past
<1>2. \/ UNCHANGED at
      \/ \E p \in Procs, from, to \in {"gone", "born", "refused", "owner", "restored",
                                       "exiting"} : Goes(p, from, to)
      \/ \E p \in Procs, from, to \in {"governing", "looping", "cleanup"} : Goes(p, from, to)
  BY DEF Acquire, Refused, Ready, LoopEnds, WaitFails, Returns, Opens, CtrlC,
     WindowCloses, QueryOpens, QueryCloses, FailureAction, ScmStops, StopControl, Launch,
     CliStart, CliStop, CliUninstall, CliUninstallAtOnce, CliSees, CliLooksAgain,
     CliGivesUp, CliInstall, vars, life
<1>3. \A p \in Procs : Governs(p)' = Governs(p)
  BY <1>2 DEF IInv, TypeOK, Governs
<1>4. QED
  BY <1>1, <1>3, QuietMaps DEF InCharge, Untroubled

(* Where nobody runs --benchmark, the processes implement SettingsCustody   *)
(* together: the settings pass from one instance to the next only through   *)
(* the user's own values, and a service that takes them again after its     *)
(* wait failed is in charge of them to its end (acquire_global_mutex,       *)
(* initialize, shutdown).                                                   *)
THEOREM ProcessesKeepContract ==
  ASSUME Benchmarks = {}
  PROVE  Spec => KeepsContract
<1>1. Init => Contract!Init
  BY DEF Init, InCharge, Governs, Untroubled, Contract!Init
<1>2. IInv /\ Saved /\ [Next]_vars => Keeping
  <2> SUFFICES ASSUME IInv, Saved, [Next]_vars PROVE Keeping
    OBVIOUS
  <2>1. CASE \E p \in Instances : Initialise(p) \/ Restores(p) \/ LateNotice(p)
    BY <2>1, TakeMaps, GiveBackMaps, LateNoticeMaps, Benchmarks = {}
  <2>2. CASE \/ \E p \in Procs : Crash(p) \/ Exits(p)
             \/ \E c \in Consoles : WindowKills(c)
    BY <2>2, LoseMaps, ExitMaps, Benchmarks = {}
  <2>3. CASE ~(\E p \in Instances : Initialise(p) \/ Restores(p) \/ LateNotice(p))
    BY <2>2, <2>3, OtherMaps, Benchmarks = {} DEF Next, Daemon, Console
  <2>4. QED
    BY <2>1, <2>3
<1>3. IInv /\ Saved /\ [Next]_vars => Saved'
  BY SavedNext, Benchmarks = {}
<1>4. QED
  BY <1>1, <1>2, <1>3, SavedInit, LifecycleInvariance, PTL
     DEF Spec, KeepsContract, Contract!Spec, Keeping

==============================================================================
