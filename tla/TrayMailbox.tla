---------------------------- MODULE TrayMailbox ----------------------------
(***************************************************************************)
(* Tray commands through shared memory: the helper in the user's session    *)
(* writes a command into SharedUiState (post_cmd, src/core/tray.cpp), the   *)
(* service polls it (consume_ui_commands, src/core/service.cpp), carries it *)
(* out and publishes what is in force, which the helper shows as its icon.  *)
(*                                                                         *)
(* The fields are plain integers in memory that two processes share, and    *)
(* there is room for one command: every store and load is an action.  The   *)
(* order of post_cmd's three stores is the compiler's choice, because they  *)
(* are neither atomic nor volatile; StoreOrders holds those to be expected. *)
(***************************************************************************)
EXTENDS Integers, Sequences

CONSTANTS
  StoreOrders, \* the orders in which post_cmd's stores may be executed
  Clicked,    \* the switches the user clicks
  MaxClicks   \* bound on the number of clicks

Field  == {"cmd", "cmd_value", "cmd_seq"}
Switch == {"optimizer", "autostart"}

ASSUME MailboxAssumption ==
  /\ \A o \in StoreOrders : o \in [1..3 -> Field] /\ Field = {o[i] : i \in 1..3}
  /\ Clicked \subseteq Switch
  /\ MaxClicks \in Nat

VARIABLES
  mail,    \* SharedUiState: the command, its number and the acknowledged one
  shown,   \* SharedUiState.optimizer_on, autostart
  icon,    \* g_on, g_autostart of the helper
  stores,  \* the stores of post_cmd still to be executed
  command, \* the command post_cmd is writing
  pc,      \* where consume_ui_commands is
  value,   \* the cmd_value it read first
  taken,   \* the cmd it read
  force,   \* what is in force: ~paused, and the start type of the service
  wish,    \* history: what the user asked for last
  refused, \* history: switches whose last click met a call that failed
  queried, \* history: the start type shown is one that was really read
  unspent, \* history: clicks on each switch, less its changes
  clicks,  \* number of clicks so far
  overlap  \* history: how commands have met in the one slot so far

(* Not at all; commands of one switch; commands of both, or a command with  *)
(* the service that takes it before it is stored completely.                *)
Overlaps == {"none", "one", "torn"}

helper  == <<icon, stores, command>>
service == <<pc, value, taken, force>>
user    == <<wish, refused, unspent, clicks, overlap>>
panel   == <<shown, queried>>
vars    == <<mail, panel, helper, service, user>>

(* query_service_autostart, which answers as well when one of its calls     *)
(* fails.                                                                   *)
Shows(now, read) ==
  IF read THEN now = force
  ELSE now \in {[force EXCEPT !["autostart"] = answer] : answer \in BOOLEAN}

(* create_ui_ipc and tray_install; the daemon starts with the optimizer on. *)
Init ==
  /\ force \in [Switch -> BOOLEAN] /\ force["optimizer"]
  /\ mail = [cmd |-> "none", cmd_value |-> FALSE, cmd_seq |-> 0, ack_seq |-> 0]
  /\ queried \in BOOLEAN /\ shown \in [Switch -> BOOLEAN] /\ Shows(shown, queried)
  /\ icon = shown /\ wish = force /\ refused = {}
  /\ stores = <<>> /\ command = [cmd |-> "none", cmd_value |-> FALSE]
  /\ pc = "idle" /\ value = FALSE /\ taken = "none"
  /\ unspent = [s \in Switch |-> 0] /\ clicks = 0 /\ overlap = "none"

----------------------------------------------------------------------------
(* The helper: one thread, so a click waits for the one before. *)

(* A click asks for the opposite of what the icon shows, and the icon is    *)
(* turned at once.                                                          *)
Click(s) ==
  /\ stores = <<>> /\ clicks < MaxClicks
  /\ command' = [cmd |-> s, cmd_value |-> ~icon[s]]
  /\ stores' \in StoreOrders
  /\ icon' = [icon EXCEPT ![s] = ~@]
  /\ wish' = [wish EXCEPT ![s] = ~icon[s]] /\ refused' = refused \ {s}
  /\ unspent' = [unspent EXCEPT ![s] = @ + 1] /\ clicks' = clicks + 1
  /\ overlap' = IF mail.cmd_seq = mail.ack_seq THEN overlap
                ELSE IF overlap # "torn" /\ command.cmd = s THEN "one" ELSE "torn"
  /\ UNCHANGED <<mail, panel, service>>

Store ==
  /\ stores # <<>>
  /\ stores' = Tail(stores)
  /\ mail' = IF Head(stores) = "cmd_seq" THEN [mail EXCEPT !.cmd_seq = @ + 1]
             ELSE [mail EXCEPT ![Head(stores)] = command[Head(stores)]]
  /\ UNCHANGED <<panel, icon, command, service, user>>

(* Every wake-up of the helper shows what the service published. *)
Refresh ==
  /\ stores = <<>>
  /\ icon' = shown
  /\ UNCHANGED <<mail, panel, stores, command, service, user>>

----------------------------------------------------------------------------
(* The service: consume_ui_commands, at every tick of the poll timer. *)

(* Mutant: a command is acknowledged when it is taken. *)
Poll_Acknowledges ==
  /\ pc = "idle"
  /\ pc' = IF mail.cmd_seq # mail.ack_seq THEN "value" ELSE "publish"
  /\ overlap' = IF pc' = "value" /\ stores # <<>> THEN "torn" ELSE overlap
  /\ mail' = [mail EXCEPT !.ack_seq = mail.cmd_seq]
  /\ UNCHANGED <<panel, helper, value, taken, force, wish, refused, unspent, clicks>>

Poll ==
  /\ pc = "idle"
  /\ pc' = IF mail.cmd_seq # mail.ack_seq THEN "value" ELSE "publish"
  /\ overlap' = IF pc' = "value" /\ stores # <<>> THEN "torn" ELSE overlap
  /\ UNCHANGED <<mail, panel, helper, value, taken, force, wish, refused, unspent, clicks>>

(* cmd_value is looked at, then cmd, then cmd_value is used ...             *)
ReadValue ==
  /\ pc = "value"
  /\ pc' = "cmd" /\ value' = mail.cmd_value
  /\ UNCHANGED <<mail, panel, helper, taken, force, user>>

ReadCommand ==
  /\ pc = "cmd"
  /\ pc' = "carry" /\ taken' = mail.cmd
  /\ UNCHANGED <<mail, panel, helper, value, force, user>>

(* A command puts the switch s to v. *)
Sets(s, v) ==
  /\ force' = [force EXCEPT ![s] = v]
  /\ unspent' = [unspent EXCEPT ![s] = IF force[s] = v THEN @ ELSE @ - 1]
  /\ refused' = refused \ {s}

(* Mutant: the numbers of the two commands are mixed up. *)
CarryOut_Swapped ==
  /\ pc = "carry"
  /\ pc' = "ack"
  /\ IF taken = "none" THEN UNCHANGED <<force, unspent, refused>>
     ELSE \E s \in Switch \ {taken} : Sets(s, value)
  /\ UNCHANGED <<mail, panel, helper, value, taken, wish, clicks, overlap>>

(* Mutant: the optimizer is paused when it is to be on. *)
CarryOut_Inverted ==
  /\ pc = "carry"
  /\ pc' = "ack"
  /\ IF taken = "none" THEN UNCHANGED <<force, unspent, refused>>
     ELSE Sets(taken, IF taken = "optimizer" THEN ~value ELSE value)
  /\ UNCHANGED <<mail, panel, helper, value, taken, wish, clicks, overlap>>

(* ... from memory again, or as it was read before, as the compiler has it. *)
(* set_paused with enable_ or disable_enforcement cannot fail, but          *)
(* set_service_autostart can; nobody asks for its result.                   *)
CarryOut ==
  /\ pc = "carry"
  /\ pc' = "ack"
  /\ \/ taken = "none" /\ UNCHANGED <<force, unspent, refused>>
     \/ taken # "none" /\ \E v \in {value, mail.cmd_value} : Sets(taken, v)
     \/ taken = "autostart" /\ refused' = refused \cup {taken} /\ UNCHANGED <<force, unspent>>
  /\ UNCHANGED <<mail, panel, helper, value, taken, wish, clicks, overlap>>

(* The number acknowledged is the one in the mailbox now. *)
Acknowledge ==
  /\ pc = "ack"
  /\ pc' = "publish"
  /\ mail' = [mail EXCEPT !.ack_seq = mail.cmd_seq]
  /\ UNCHANGED <<panel, helper, value, taken, force, user>>

(* Mutant: what is published is whether the optimizer is paused. *)
Publish_Paused ==
  /\ pc = "publish"
  /\ pc' = "idle" /\ queried' = TRUE /\ shown' = [force EXCEPT !["optimizer"] = ~@]
  /\ UNCHANGED <<mail, helper, value, taken, force, user>>

Publish ==
  /\ pc = "publish"
  /\ pc' = "idle"
  /\ queried' \in BOOLEAN /\ shown' \in [Switch -> BOOLEAN] /\ Shows(shown', queried')
  /\ UNCHANGED <<mail, helper, value, taken, force, user>>

Next ==
  \/ \E s \in Clicked : Click(s)
  \/ Store
  \/ Refresh
  \/ Poll
  \/ ReadValue
  \/ ReadCommand
  \/ CarryOut
  \/ Acknowledge
  \/ Publish

(* The helper's 100 ms timer and the service's poll timer. *)
Fairness ==
  /\ WF_vars(Store) /\ WF_vars(Refresh)
  /\ WF_vars(Poll) /\ WF_vars(ReadValue) /\ WF_vars(ReadCommand)
  /\ WF_vars(CarryOut) /\ WF_vars(Acknowledge) /\ WF_vars(Publish)

Spec == Init /\ [][Next]_vars /\ Fairness

----------------------------------------------------------------------------
(* Properties. *)

Settings == [Switch -> BOOLEAN]

TypeOK ==
  /\ mail \in [cmd : Switch \cup {"none"}, cmd_value : BOOLEAN,
               cmd_seq : 0..MaxClicks, ack_seq : 0..MaxClicks]
  /\ mail.ack_seq <= mail.cmd_seq
  /\ {shown, icon, force, wish} \subseteq Settings
  /\ stores \in Seq(Field) /\ Len(stores) <= 3
  /\ command \in [cmd : Switch \cup {"none"}, cmd_value : BOOLEAN]
  /\ pc \in {"idle", "value", "cmd", "carry", "ack", "publish"} /\ value \in BOOLEAN
  /\ taken \in Switch \cup {"none"} /\ refused \subseteq Switch /\ queried \in BOOLEAN
  /\ unspent \in [Switch -> Int] /\ clicks \in 0..MaxClicks /\ overlap \in Overlaps

(* A switch changes no more often than it is clicked ("left click turns the *)
(* optimizer on and off", README.md:38), however fast one switch is clicked *)
(* and however many clicks are lost: no command is carried out again.  Only *)
(* commands of both switches, or one that is torn, can make up another one. *)
ChangesAreClicks == overlap # "torn" => \A s \in Switch : unspent[s] >= 0

(* As long as commands do not meet, a switch only ever changes to what was  *)
(* asked for last: an old command is never carried out late.                *)
NothingUnasked ==
  [][overlap' = "none" =>
       \A s \in Switch : force'[s] # force[s] => force'[s] = wish[s]]_vars

(* When the clicking ends, what was asked for last is in force.  In the     *)
(* order of the source text, the service never takes a command that is not  *)
(* complete, and it is the user's patience alone that keeps commands apart. *)
(* Only a click on the start type can come to nothing, when the service     *)
(* control manager refuses it: that is neither repeated nor reported, for   *)
(* the command is acknowledged all the same.                                *)
LastClickWins ==
  /\ <>[](overlap = "none" => force["optimizer"] = wish["optimizer"])
  /\ <>[](overlap = "none" =>
             "autostart" \in refused \/ force["autostart"] = wish["autostart"])

(* The icon ends up showing what is in force, although it is turned before  *)
(* the command is carried out, turned back by old news, and commands may be *)
(* refused, lost, overwritten or put together from two; and so does the     *)
(* menu, unless the start type can never be read for good.                  *)
IconTellsTruth ==
  /\ <>[](icon["optimizer"] = force["optimizer"])
  /\ <>[]queried => <>[](icon = force)

(* The menu offers both switches alike (README.md:38), so that what the     *)
(* user asked for last should come to be in force, the start type included, *)
(* which set_service_autostart may fail to change.                          *)
NoClickLost == <>[](overlap = "none" => force = wish)

=============================================================================
