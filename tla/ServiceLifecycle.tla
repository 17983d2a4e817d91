-------------------------- MODULE ServiceLifecycle --------------------------
(***************************************************************************)
(* The life of SurfaceOptimizer's processes: one instance at a time, by a   *)
(* named mutex; what run_daemon_loop takes over and gives back; the service *)
(* control manager (SCM) that starts, stops and restarts the service; and   *)
(* the command-line clients --install, --uninstall, --start, --stop,        *)
(* --status and --benchmark (src/core/service.cpp, src/main.cpp).           *)
(*                                                                         *)
(* The user's power settings are one value: "user" before an instance has   *)
(* written to them and "ours" afterwards.  How they are written in between  *)
(* is the subject of PowerGovernor.                                         *)
(***************************************************************************)
EXTENDS Integers, FiniteSets

CONSTANTS
  Services,   \* process ids of --daemon, which only the SCM starts
  Consoles,   \* process ids of --interactive
  Benchmarks, \* process ids of --benchmark
  Queries,    \* TRUE: somebody runs --status
  MaxPolls,   \* 20 in the code: how often --start and --stop look
  MaxCrashes  \* bound on crashes

Instances == Services \cup Consoles
Procs     == Instances \cup Benchmarks
Query     == "--status"

ASSUME LifecycleAssumption ==
  /\ IsFiniteSet(Procs) /\ Query \notin Procs
  /\ Services \cap Consoles = {} /\ Instances \cap Benchmarks = {}
  /\ Queries \in BOOLEAN /\ MaxPolls \in Nat \ {0} /\ MaxCrashes \in Nat

VARIABLES
  at,        \* how far each process is
  stop,      \* m_stop_requested of each process
  closing,   \* its console window is being closed
  open,      \* who has a handle to the named mutex: it exists while any is open
  failed,    \* services whose wait failed: power notifications still come in
  retook,    \* services that took the settings again after that
  settings,  \* external: whose power settings are in force
  baseline,  \* what each process saved when it took over
  status,    \* the service's state as the SCM knows it
  installed, \* external: "yes", "no", or "marked" for deletion
  restarts,  \* external: the SCM knows the failure actions
  due,       \* external: a failure action of the SCM is due
  cli,       \* the command a client executes
  polls,     \* how often it has looked
  refusal,   \* history: what the last instance that was refused met
  crashes,   \* history: processes that crashed
  killed,    \* history: a console instance was ended by its window
  abandoned  \* history: a service ended with the settings it took again

life   == <<at, stop, closing>>
power  == <<settings, baseline, failed, retook>>
scm    == <<status, installed, restarts, due>>
client == <<cli, polls>>
past   == <<crashes, killed, abandoned>>
vars   == <<life, open, power, scm, client, refusal, past>>

Init ==
  /\ at = [p \in Procs |-> "gone"]
  /\ stop = [p \in Procs |-> FALSE] /\ closing = [p \in Procs |-> FALSE]
  /\ open = {}
  /\ settings = "user" /\ baseline = [p \in Procs |-> "user"]
  /\ failed = {} /\ retook = {}
  /\ status = "stopped" /\ installed \in {"yes", "no"} /\ due = FALSE
  /\ restarts = (installed = "yes")
  /\ cli = "none" /\ polls = 0
  /\ refusal = {} /\ crashes = 0 /\ killed = FALSE /\ abandoned = FALSE

Goes(p, from, to) == at[p] = from /\ at' = [at EXCEPT ![p] = to]

(* SERVICE_STOPPED; a service marked for deletion is then deleted. *)
StatusStopped ==
  /\ status' = "stopped"
  /\ installed' = IF installed = "marked" THEN "no" ELSE installed

----------------------------------------------------------------------------
(* run_daemon_loop, in an instance p *)

MutexExists == open # {}

(* What an instance meets that finds the mutex: another one that runs, one  *)
(* that is itself refused, one that has finished but whose process still    *)
(* exists, or only --status.                                                *)
Met ==
  {IF q = Query THEN "query"
   ELSE IF at[q] = "refused" THEN "refused"
   ELSE IF at[q] = "exiting" THEN "leaver"
   ELSE "instance" : q \in open}

(* Mutant: ERROR_ALREADY_EXISTS is not noticed. *)
Acquire_Ignores(p) ==
  /\ Goes(p, "born", "owner")
  /\ open' = open \cup {p}
  /\ UNCHANGED <<stop, closing, power, scm, client, refusal, past>>

(* acquire_global_mutex: a handle is opened even when the mutex exists. *)
Acquire(p) ==
  /\ Goes(p, "born", IF MutexExists THEN "refused" ELSE "owner")
  /\ refusal' = Met
  /\ open' = open \cup {p}
  /\ UNCHANGED <<stop, closing, power, scm, client, past>>

(* "Another instance is running": the handle is closed, the loop returns 1. *)
Refused(p) ==
  /\ Goes(p, "refused", "restored")
  /\ open' = open \ {p}
  /\ UNCHANGED <<stop, closing, power, scm, client, refusal, past>>

(* Mutant: the baseline is saved after the first write. *)
TakesOver_SavesLate(p) ==
  /\ baseline' = [baseline EXCEPT ![p] = "ours"]
  /\ settings' = "ours"
  /\ UNCHANGED <<failed, retook>>

(* The managers are initialised: PowerManager saves what it finds and       *)
(* writes its own values.                                                   *)
TakesOver(p) ==
  /\ baseline' = [baseline EXCEPT ![p] = settings]
  /\ settings' = "ours"
  /\ UNCHANGED <<failed, retook>>

Initialise(p) ==
  /\ Goes(p, "owner", "governing")
  /\ TakesOver(p)
  /\ UNCHANGED <<stop, closing, open, scm, client, refusal, past>>

Ready(p) ==
  /\ Goes(p, "governing", "looping")
  /\ status' = IF p \in Services THEN "running" ELSE status
  /\ UNCHANGED <<stop, closing, open, power, installed, restarts, due, client, refusal, past>>

(* Mutant: the mutex is released before the settings are restored. *)
LoopEnds_Unlocks(p) ==
  /\ stop[p]
  /\ Goes(p, "looping", "cleanup")
  /\ open' = open \ {p}
  /\ UNCHANGED <<stop, closing, power, scm, client, refusal, past>>

(* Mutant: SERVICE_STOPPED is reported before the cleanup. *)
LoopEnds_Reports(p) ==
  /\ stop[p]
  /\ Goes(p, "looping", "cleanup")
  /\ IF p \in Services THEN StatusStopped ELSE UNCHANGED <<status, installed>>
  /\ UNCHANGED <<stop, closing, open, power, restarts, due, client, refusal, past>>

(* The loop ends: m_stop_requested, m_stop_event. *)
LoopEnds(p) ==
  /\ stop[p]
  /\ Goes(p, "looping", "cleanup")
  /\ UNCHANGED <<stop, closing, open, power, scm, client, refusal, past>>

(* WAIT_FAILED, as with the null handle of a timer that was not created:    *)
(* the loop ends as if it had been asked to, but a service has told the SCM *)
(* nothing, and a notification may come to its dispatcher's thread.         *)
WaitFails(p) ==
  /\ Goes(p, "looping", "cleanup")
  /\ failed' = failed \cup ({p} \cap Services)
  /\ UNCHANGED <<stop, closing, open, settings, baseline, retook>>
  /\ UNCHANGED <<scm, client, refusal, past>>

(* The managers shut down: PowerManager writes back what it saved. *)
Restores(p) ==
  /\ Goes(p, "cleanup", "restored")
  /\ settings' = baseline[p]
  /\ UNCHANGED <<stop, closing, open, baseline, failed, retook>>
  /\ UNCHANGED <<scm, client, refusal, past>>

(* A notification that is still being dealt with when PowerManager has shut *)
(* down: on_power_source_changed captures the scheme and writes anew.       *)
LateNotice(p) ==
  /\ p \in failed /\ at[p] \in {"restored", "exiting"}
  /\ settings' = "ours"
  /\ retook' = retook \cup {p}
  /\ UNCHANGED <<life, open, baseline, failed, scm, client, refusal, past>>

(* service_main reports SERVICE_STOPPED; run_interactive just returns. *)
Returns(p) ==
  /\ Goes(p, "restored", "exiting")
  /\ IF p \in Services THEN StatusStopped ELSE UNCHANGED <<status, installed>>
  /\ UNCHANGED <<stop, closing, open, power, restarts, due, client, refusal, past>>

(* What goes with the process. *)
Forgets(p) ==
  /\ stop' = [stop EXCEPT ![p] = FALSE] /\ closing' = [closing EXCEPT ![p] = FALSE]
  /\ baseline' = [baseline EXCEPT ![p] = "user"]
  /\ failed' = failed \ {p} /\ retook' = retook \ {p}
  /\ open' = open \ {p}

(* The process ends.  Only now does ~Service close the mutex. *)
Exits(p) ==
  /\ Goes(p, "exiting", "gone")
  /\ Forgets(p)
  /\ abandoned' = (abandoned \/ p \in retook)
  /\ UNCHANGED <<settings, scm, client, refusal, crashes, killed>>

(* A process dies where it stands: its handles are closed, what it wrote    *)
(* stays.  A service that dies before it reported SERVICE_STOPPED has       *)
(* failed, and a failure action is due if there is one, unless the service  *)
(* is marked for deletion.                                                  *)
Dies(p) ==
  /\ at[p] # "gone"
  /\ at' = [at EXCEPT ![p] = "gone"]
  /\ Forgets(p)
  /\ IF p \in Services /\ at[p] # "exiting"
     THEN StatusStopped /\ due' = (installed = "yes" /\ restarts) /\ UNCHANGED restarts
     ELSE UNCHANGED scm
  /\ UNCHANGED <<settings, client, refusal, abandoned>>

Crash(p) ==
  /\ crashes < MaxCrashes
  /\ Dies(p)
  /\ crashes' = crashes + 1 /\ UNCHANGED killed

----------------------------------------------------------------------------
(* The console instance: run_interactive, console_ctrl_handler. *)

Opens(c) ==
  /\ Goes(c, "gone", "born")
  /\ UNCHANGED <<stop, closing, open, power, scm, client, refusal, past>>

(* Ctrl-C, Ctrl-Break, or WM_QUIT. *)
CtrlC(c) ==
  /\ at[c] # "gone" /\ ~stop[c]
  /\ stop' = [stop EXCEPT ![c] = TRUE]
  /\ UNCHANGED <<at, closing, open, power, scm, client, refusal, past>>

(* The window is closed, or the user signs out: the handler asks the loop   *)
(* to end ...                                                               *)
WindowCloses(c) ==
  /\ at[c] # "gone" /\ ~closing[c]
  /\ stop' = [stop EXCEPT ![c] = TRUE]
  /\ closing' = [closing EXCEPT ![c] = TRUE]
  /\ UNCHANGED <<at, open, power, scm, client, refusal, past>>

(* ... and returns TRUE, after which Windows ends the process. *)
WindowKills(c) ==
  /\ closing[c]
  /\ Dies(c)
  /\ killed' = TRUE /\ UNCHANGED crashes

----------------------------------------------------------------------------
(* --benchmark: takes over and gives back without the mutex. *)

BenchmarkRuns(b) ==
  /\ Goes(b, "gone", "governing")
  /\ TakesOver(b)
  /\ UNCHANGED <<stop, closing, open, scm, client, refusal, past>>

BenchmarkEnds(b) ==
  /\ Goes(b, "governing", "exiting")
  /\ settings' = baseline[b]
  /\ UNCHANGED <<stop, closing, open, baseline, failed, retook>>
  /\ UNCHANGED <<scm, client, refusal, past>>

----------------------------------------------------------------------------
(* --status opens the mutex to see whether it exists, and closes it. *)

QueryOpens ==
  /\ Queries /\ MutexExists /\ Query \notin open
  /\ open' = open \cup {Query}
  /\ UNCHANGED <<life, power, scm, client, refusal, past>>

QueryCloses ==
  /\ Query \in open
  /\ open' = open \ {Query}
  /\ UNCHANGED <<life, power, scm, client, refusal, past>>

----------------------------------------------------------------------------
(* The SCM. *)

(* A process for the service: service_main reports SERVICE_START_PENDING. *)
Launch ==
  /\ status = "stopped"
  /\ \E s \in Services : Goes(s, "gone", "born")
  /\ status' = "start_pending"

(* Mutant: the failure actions are not configured. *)
FailureAction_None ==
  /\ due
  /\ due' = FALSE
  /\ UNCHANGED <<life, open, power, status, installed, restarts, client, refusal, past>>

(* The failure action: 5, 10 or 30 s after the failure, long enough for a   *)
(* process of the service that was on its way out to be gone.               *)
FailureAction ==
  /\ due
  /\ \A s \in Services : at[s] \notin {"refused", "restored", "exiting"}
  /\ due' = FALSE
  /\ IF status = "stopped" /\ installed = "yes"
     THEN Launch
     ELSE UNCHANGED <<at, status>>
  /\ UNCHANGED <<stop, closing, open, power, installed, restarts, client, refusal, past>>

(* Mutant: the handler reports SERVICE_STOP_PENDING and forgets the loop. *)
StopControl_Forgets ==
  /\ status = "running"
  /\ status' = "stop_pending"
  /\ UNCHANGED <<at, stop>>

(* SERVICE_CONTROL_STOP or SHUTDOWN: a running service accepts it, reports   *)
(* SERVICE_STOP_PENDING and signals the loop.                               *)
StopControl ==
  /\ status = "running"
  /\ status' = "stop_pending"
  /\ stop' = [p \in Procs |->
       stop[p] \/ (p \in Services /\ at[p] \notin {"gone", "exiting"})]
  /\ UNCHANGED at

(* The system shuts down, or the user stops it in the services console.     *)
ScmStops ==
  /\ StopControl
  /\ UNCHANGED <<closing, open, power, installed, restarts, due, client, refusal, past>>

----------------------------------------------------------------------------
(* The clients --start, --stop, --install, --uninstall, one at a time. *)

Begins(command) == cli = "none" /\ cli' = command /\ polls' = 0

(* start_service; nothing happens when it runs already, and StartService    *)
(* refuses a service that is not stopped, or not there.                     *)
CliStart ==
  /\ installed = "yes" /\ Launch
  /\ Begins("start")
  /\ UNCHANGED <<stop, closing, open, power, installed, restarts, due, refusal, past>>

(* stop_service; nothing happens unless the service accepts the control. *)
CliStop ==
  /\ installed # "no" /\ StopControl
  /\ Begins("stop")
  /\ UNCHANGED <<closing, open, power, installed, restarts, due, refusal, past>>

(* uninstall_service sends the control too ... *)
CliUninstall ==
  /\ installed = "yes" /\ StopControl
  /\ Begins("uninstall")
  /\ UNCHANGED <<closing, open, power, installed, restarts, due, refusal, past>>

DeleteService == installed' = IF status = "stopped" THEN "no" ELSE "marked"

(* ... and when that fails it deletes the service all the same. *)
CliUninstallAtOnce ==
  /\ installed = "yes" /\ cli = "none" /\ status # "running"
  /\ DeleteService
  /\ UNCHANGED <<life, open, power, status, restarts, due, client, refusal, past>>

(* Mutant: the client looks until it sees what it waits for. *)
CliGivesUp_Never == FALSE /\ UNCHANGED vars

Sought == IF cli = "start" THEN "running" ELSE "stopped"

CliDone ==
  /\ cli' = "none" /\ polls' = 0
  /\ IF cli = "uninstall" THEN DeleteService ELSE UNCHANGED installed

CliSees ==
  /\ cli # "none" /\ status = Sought
  /\ CliDone
  /\ UNCHANGED <<life, open, power, status, restarts, due, refusal, past>>

CliLooksAgain ==
  /\ cli # "none" /\ status # Sought /\ polls < MaxPolls
  /\ polls' = polls + 1
  /\ UNCHANGED <<life, open, power, scm, cli, refusal, past>>

CliGivesUp ==
  /\ cli # "none" /\ status # Sought /\ polls = MaxPolls
  /\ CliDone
  /\ UNCHANGED <<life, open, power, status, restarts, due, refusal, past>>

(* install_service; CreateService refuses a service marked for deletion.    *)
(* The failure actions are set, or set again, and the installation succeeds *)
(* even when that fails.                                                    *)
CliInstall ==
  /\ installed # "marked" /\ cli = "none"
  /\ installed' = "yes"
  /\ restarts' \in {TRUE, installed = "yes" /\ restarts}
  /\ UNCHANGED <<life, open, power, status, due, client, refusal, past>>

----------------------------------------------------------------------------

Daemon(p) ==
  \/ Acquire(p)
  \/ Refused(p)
  \/ Initialise(p)
  \/ Ready(p)
  \/ LoopEnds(p)
  \/ WaitFails(p)
  \/ Restores(p)
  \/ LateNotice(p)
  \/ Returns(p)

Console(c) ==
  \/ Opens(c)
  \/ CtrlC(c)
  \/ WindowCloses(c)
  \/ WindowKills(c)

Next ==
  \/ \E p \in Instances : Daemon(p)
  \/ \E p \in Procs : Exits(p)
  \/ \E p \in Procs : Crash(p)
  \/ \E c \in Consoles : Console(c)
  \/ \E b \in Benchmarks : BenchmarkRuns(b)
  \/ \E b \in Benchmarks : BenchmarkEnds(b)
  \/ QueryOpens
  \/ QueryCloses
  \/ FailureAction
  \/ ScmStops
  \/ CliStart
  \/ CliStop
  \/ CliUninstall
  \/ CliUninstallAtOnce
  \/ CliSees
  \/ CliLooksAgain
  \/ CliGivesUp
  \/ CliInstall

(* Processes are scheduled and a client looks every 500 ms; nobody has to   *)
(* start or stop anything, and no wait has to fail.                         *)
Fairness ==
  /\ \A p \in Instances :
       /\ WF_vars(Acquire(p)) /\ WF_vars(Refused(p)) /\ WF_vars(Initialise(p))
       /\ WF_vars(Ready(p)) /\ WF_vars(LoopEnds(p))
       /\ WF_vars(Restores(p)) /\ WF_vars(Returns(p))
  /\ \A p \in Procs : WF_vars(Exits(p))
  /\ \A b \in Benchmarks : WF_vars(BenchmarkEnds(b))
  /\ WF_vars(QueryCloses)
  /\ WF_vars(FailureAction)
  /\ WF_vars(CliSees) /\ WF_vars(CliLooksAgain) /\ WF_vars(CliGivesUp)

Spec == Init /\ [][Next]_vars /\ Fairness

----------------------------------------------------------------------------
(* Properties. *)

TypeOK ==
  /\ at \in [Procs -> {"gone", "born", "refused", "owner", "governing",
                       "looping", "cleanup", "restored", "exiting"}]
  /\ stop \in [Procs -> BOOLEAN] /\ closing \in [Procs -> BOOLEAN]
  /\ open \subseteq Procs \cup {Query}
  /\ failed \subseteq Services /\ retook \subseteq failed
  /\ settings \in {"user", "ours"} /\ baseline \in [Procs -> {"user", "ours"}]
  /\ status \in {"stopped", "start_pending", "running", "stop_pending"}
  /\ installed \in {"yes", "no", "marked"}
  /\ restarts \in BOOLEAN /\ due \in BOOLEAN
  /\ cli \in {"none", "start", "stop", "uninstall"} /\ polls \in 0..MaxPolls
  /\ refusal \subseteq {"instance", "refused", "leaver", "query"}
  /\ crashes \in 0..MaxCrashes /\ killed \in BOOLEAN /\ abandoned \in BOOLEAN

Governs(p) == at[p] \in {"governing", "looping", "cleanup"}

(* In charge of the settings: from initialize() to shutdown(), and again    *)
(* from a late notification to the end of the process.                      *)
InCharge(p) == Governs(p) \/ p \in retook

(* README.md:42 promises a single instance: two instances never hold the    *)
(* power settings at once, however starts, stops, failed waits, crashes and *)
(* restarts of the service and of consoles overlap.                         *)
OneGoverns == \A p, q \in Instances : InCharge(p) /\ InCharge(q) => p = q

Untroubled == crashes = 0 /\ ~killed /\ ~abandoned

(* The settings are the user's own whenever no process is in charge of      *)
(* them, unless one was killed or ended while it was; an instance that      *)
(* starts while another cleans up must not save the other's values as the   *)
(* user's.                                                                  *)
SettingsComeBack ==
  Untroubled /\ (\A p \in Procs : ~InCharge(p)) => settings = "user"

(* SettingsCustody as the processes implement it together: the machine's    *)
(* settings are in the charge of whoever governs.                           *)
Contract == INSTANCE SettingsCustody WITH
  Scheme <- {"machine"},
  taken  <- IF settings = "ours" THEN {"machine"} ELSE {},
  charge <- IF \E p \in Procs : InCharge(p) THEN {"machine"} ELSE {},
  lost   <- ~Untroubled

(* The processes keep the contract together: whoever stops governing gives  *)
(* the settings back before another takes charge of them, and they change   *)
(* hands only through the user's own values (acquire_global_mutex before    *)
(* PowerManager's initialize, shutdown before ~Service).  A service that    *)
(* takes them again after its wait failed is in charge once more, and loses *)
(* them when it ends.                                                       *)
KeepsContract == Contract!Spec

(* A client, or the system going down, that sees SERVICE_STOPPED may rely   *)
(* on the settings being the user's, if no console or benchmark is in       *)
(* charge of them (service_main reports only after the cleanup of           *)
(* run_daemon_loop).  It may not after a crash or a kill, nor once a late   *)
(* notification has taken them again.                                       *)
StoppedMeansRestored ==
  /\ status = "stopped" /\ Untroubled /\ retook = {}
  /\ \A p \in Procs \ Services : ~InCharge(p)
  => settings = "user"

(* A stop the service accepted completes: SERVICE_STOP_PENDING is followed  *)
(* by SERVICE_STOPPED, wherever the loop was.                               *)
StopCompletes == status = "stop_pending" ~> status = "stopped"

(* A service that died comes back (README.md:37) unless it is uninstalled,  *)
(* whatever clients do meanwhile.  Where there are consoles the restart may *)
(* be refused, and is not repeated.                                         *)
FailedServiceReturns ==
  due /\ installed = "yes" ~> installed # "yes" \/ \E p \in Instances : Governs(p)

(* --start, --stop and --uninstall end, even when the service never gets    *)
(* where they want it.                                                      *)
CliAnswers == cli # "none" ~> cli = "none"

(* README.md:167-168: after a change of the configuration, --stop and then  *)
(* --start, with no console instance: the service that --start launches     *)
(* never finds the one --stop has stopped still holding the mutex.          *)
RestartNotRefused == refusal # {"leaver"}

(* "Another instance is running" (service.cpp:138) is not said because of   *)
(* nothing but a --status that looks.                                       *)
QueryRefusesNobody == refusal # {"query"}

(* "Console shutdown/break signal received. Requesting clean termination"   *)
(* (service.cpp:633): closing the console window of an instance gives the   *)
(* settings back, if nothing crashed.                                       *)
CloseRestores ==
  crashes = 0 /\ ~abandoned /\ (\A p \in Procs : ~InCharge(p)) => settings = "user"

(* "Clean up resources" (service.cpp:870): a loop whose wait fails gives    *)
(* the settings back like any other.                                        *)
FailedWaitRestores ==
  crashes = 0 /\ ~killed /\ (\A p \in Procs : ~Governs(p)) => settings = "user"

(* "uninstalled successfully" (service.cpp:1026), with "stop service if     *)
(* running" (1004) before it: the service does not go on running.           *)
UninstalledStops == installed # "yes" ~> status = "stopped" \/ installed = "yes"

=============================================================================
