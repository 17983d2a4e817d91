------------------------- MODULE TrayMailbox_proofs -------------------------
(***************************************************************************)
(* What the mailbox promises, for every order of the stores and any number  *)
(* of clicks: no click is carried out twice, and one that met no other is   *)
(* carried out as it was meant.                                             *)
(*                                                                         *)
(* Complete, which holds always, says when the mailbox can be trusted: a    *)
(* field whose store is not waiting any more is the command's.  Numbers     *)
(* bounds the two numbers by the clicks.  Apart and Spent count: what the   *)
(* service may still carry out has been clicked and is not spent.  Alone is *)
(* the mailbox of a user who waits for each command.                        *)
(***************************************************************************)
EXTENDS TrayMailbox, SequenceTheorems, TLAPS

In(q, f)    == \E i \in 1..Len(q) : q[i] = f
Distinct(q) == \A i, j \in 1..Len(q) : q[i] = q[j] => i = j

(* A command the helper has numbered and the service has not acknowledged.  *)
Waiting  == mail.cmd_seq # mail.ack_seq
Numbered == ~In(stores, "cmd_seq")

Complete ==
  /\ ~In(stores, "cmd") => mail.cmd = command.cmd
  /\ ~In(stores, "cmd_value") => mail.cmd_value = command.cmd_value
  /\ command.cmd \in Switch => wish[command.cmd] = command.cmd_value
  /\ Waiting \/ stores # <<>> => command.cmd \in Switch

Numbers ==
  /\ Distinct(stores)
  /\ mail.cmd_seq + (IF Numbered THEN 0 ELSE 1) <= clicks

(* The service is busy with a command of the switch clicked last. *)
Apart ==
  overlap # "torn" =>
    /\ pc \in {"value", "cmd", "carry", "ack"} => Waiting
    /\ pc \in {"value", "cmd"} => mail.cmd = command.cmd
    /\ pc = "carry" => taken = command.cmd

(* The changes that may still come of clicks. *)
Coming ==
  (IF pc \in {"value", "cmd", "carry"} \/ (pc \in {"idle", "publish"} /\ Waiting) THEN 1 ELSE 0)
    + (IF Numbered THEN 0 ELSE 1)

Spent ==
  overlap # "torn" =>
    /\ \A s \in Switch : unspent[s] >= 0
    /\ command.cmd \in Switch => unspent[command.cmd] >= Coming

Alone ==
  overlap = "none" =>
    /\ pc \in {"value", "cmd", "carry", "ack"} => stores = <<>>
    /\ pc \in {"cmd", "carry"} => value = mail.cmd_value

IInv == TypeOK /\ Complete /\ Numbers /\ Apart /\ Spent /\ Alone

----------------------------------------------------------------------------
(* The stores of a command are three different ones. *)
LEMMA Orders ==
  ASSUME NEW o \in StoreOrders
  PROVE  /\ o \in Seq(Field) /\ Len(o) = 3 /\ o # <<>>
         /\ Distinct(o)
         /\ \A f \in Field : In(o, f)
<1>1. o \in [1..3 -> Field] /\ Field = {o[i] : i \in 1..3}
  BY MailboxAssumption
<1>2. o \in Seq(Field) /\ Len(o) = 3
  <2>1. o \in Seq(Field)
    BY <1>1, SeqDef
  <2>2. Len(o) \in Nat /\ DOMAIN o = 1..Len(o) /\ DOMAIN o = 1..3
    BY <1>1, <2>1, LenProperties
  <2>3. \A k : k \in 1..Len(o) <=> k \in 1..3
    BY <2>2
  <2>4. 3 \in 1..Len(o) /\ 4 \notin 1..Len(o)
    BY <2>3
  <2> QED BY <2>1, <2>2, <2>4
<1>3. \A f \in Field : In(o, f)
  BY <1>1, <1>2 DEF In
<1>4. Distinct(o)
  <2>1. \E i \in {1, 2, 3} : o[i] = "cmd"
    BY <1>1 DEF Field
  <2>2. \E i \in {1, 2, 3} : o[i] = "cmd_value"
    BY <1>1 DEF Field
  <2>3. \E i \in {1, 2, 3} : o[i] = "cmd_seq"
    BY <1>1 DEF Field
  <2> QED BY <1>2, <2>1, <2>2, <2>3 DEF Distinct
<1> QED BY <1>2, <1>3, <1>4

(* What waits behind the first of them. *)
LEMMA Behind ==
  ASSUME NEW q \in Seq(Field), q # <<>>
  PROVE  /\ Head(q) \in Field /\ Tail(q) \in Seq(Field) /\ Len(Tail(q)) = Len(q) - 1
         /\ \A f : In(q, f) <=> f = Head(q) \/ In(Tail(q), f)
         /\ Distinct(q) => Distinct(Tail(q)) /\ ~In(Tail(q), Head(q))
<1>1. /\ Len(q) \in Nat \ {0} /\ Head(q) = q[1] /\ Head(q) \in Field
      /\ Tail(q) \in Seq(Field) /\ Len(Tail(q)) = Len(q) - 1
      /\ \A i \in 1..Len(q) - 1 : Tail(q)[i] = q[i + 1]
  OBVIOUS
<1>2. ASSUME NEW f PROVE In(q, f) <=> f = Head(q) \/ In(Tail(q), f)
  <2>1. ASSUME In(q, f), f # Head(q) PROVE In(Tail(q), f)
    <3>1. PICK i \in 1..Len(q) : q[i] = f
      BY <2>1 DEF In
    <3>2. i - 1 \in 1..Len(q) - 1 /\ Tail(q)[i - 1] = f
      BY <1>1, <2>1, <3>1
    <3> QED BY <1>1, <3>2 DEF In
  <2>2. ASSUME In(Tail(q), f) PROVE In(q, f)
    <3>1. PICK i \in 1..Len(q) - 1 : Tail(q)[i] = f
      BY <1>1, <2>2 DEF In
    <3> QED BY <1>1, <3>1 DEF In
  <2>3. In(q, Head(q))
    BY <1>1 DEF In
  <2> QED BY <2>1, <2>2, <2>3
<1>3. ASSUME Distinct(q) PROVE Distinct(Tail(q)) /\ ~In(Tail(q), Head(q))
  BY <1>1, <1>3 DEF Distinct, In
<1> QED BY <1>1, <1>2, <1>3

(* Every field but the number is a field of the command. *)
LEMMA MailFields ==
  ASSUME TypeOK, NEW f \in Field
  PROVE  LET m == IF f = "cmd_seq" THEN [mail EXCEPT !.cmd_seq = @ + 1]
                  ELSE [mail EXCEPT ![f] = command[f]]
         IN  /\ m.ack_seq = mail.ack_seq
             /\ m.cmd_seq = IF f = "cmd_seq" THEN mail.cmd_seq + 1 ELSE mail.cmd_seq
             /\ m.cmd = IF f = "cmd" THEN command.cmd ELSE mail.cmd
             /\ m.cmd_value = IF f = "cmd_value" THEN command.cmd_value ELSE mail.cmd_value
             /\ m = [cmd |-> m.cmd, cmd_value |-> m.cmd_value,
                     cmd_seq |-> m.cmd_seq, ack_seq |-> m.ack_seq]
<1>1. CASE f = "cmd_seq"
  BY <1>1 DEF TypeOK
<1>2. CASE f = "cmd"
  BY <1>2 DEF TypeOK
<1>3. CASE f = "cmd_value"
  BY <1>3 DEF TypeOK
<1> QED BY <1>1, <1>2, <1>3 DEF Field

(* What one store does. *)
LEMMA StoreEffect ==
  ASSUME TypeOK, Numbers, Store
  PROVE  /\ stores # <<>> /\ stores' \in Seq(Field) /\ Len(stores') = Len(stores) - 1
         /\ Distinct(stores') /\ Head(stores) \in Field
         /\ \A f : In(stores, f) <=> f = Head(stores) \/ In(stores', f)
         /\ ~In(stores', Head(stores))
         /\ mail'.ack_seq = mail.ack_seq
         /\ mail'.cmd_seq = IF Head(stores) = "cmd_seq" THEN mail.cmd_seq + 1 ELSE mail.cmd_seq
         /\ mail'.cmd = IF Head(stores) = "cmd" THEN command.cmd ELSE mail.cmd
         /\ mail'.cmd_value = IF Head(stores) = "cmd_value" THEN command.cmd_value
                              ELSE mail.cmd_value
         /\ mail' = [cmd |-> mail'.cmd, cmd_value |-> mail'.cmd_value,
                     cmd_seq |-> mail'.cmd_seq, ack_seq |-> mail'.ack_seq]
         /\ UNCHANGED <<panel, icon, command, service, user>>
<1>1. stores \in Seq(Field) /\ stores # <<>> /\ stores' = Tail(stores) /\ Distinct(stores)
  BY DEF Store, TypeOK, Numbers
<1>2. /\ Head(stores) \in Field /\ Tail(stores) \in Seq(Field)
      /\ Len(Tail(stores)) = Len(stores) - 1
      /\ \A f : In(stores, f) <=> f = Head(stores) \/ In(Tail(stores), f)
      /\ Distinct(Tail(stores)) /\ ~In(Tail(stores), Head(stores))
  BY <1>1, Behind
<1>3. mail' = IF Head(stores) = "cmd_seq" THEN [mail EXCEPT !.cmd_seq = @ + 1]
              ELSE [mail EXCEPT ![Head(stores)] = command[Head(stores)]]
  BY DEF Store
<1>4. UNCHANGED <<panel, icon, command, service, user>>
  BY DEF Store
<1> QED BY <1>1, <1>2, <1>3, <1>4, MailFields

(* What a click does. *)
LEMMA ClickEffect ==
  ASSUME TypeOK, NEW s \in Switch, Click(s)
  PROVE  /\ stores = <<>> /\ stores' \in Seq(Field) /\ Len(stores') = 3 /\ stores' # <<>>
         /\ Distinct(stores') /\ \A f \in Field : In(stores', f)
         /\ command'.cmd = s /\ command' \in [cmd : Switch, cmd_value : BOOLEAN]
         /\ wish' \in Settings /\ wish'[s] = command'.cmd_value
         /\ icon' \in Settings
         /\ clicks < MaxClicks /\ clicks' = clicks + 1
         /\ unspent' = [unspent EXCEPT ![s] = @ + 1]
         /\ overlap' = IF mail.cmd_seq = mail.ack_seq THEN overlap
                       ELSE IF overlap # "torn" /\ command.cmd = s THEN "one" ELSE "torn"
         /\ refused' \subseteq refused
         /\ UNCHANGED <<mail, panel, service>>
<1>1. icon \in Settings /\ wish \in Settings
  BY DEF TypeOK
<1>2. /\ command' = [cmd |-> s, cmd_value |-> ~icon[s]]
      /\ icon' = [icon EXCEPT ![s] = ~@] /\ wish' = [wish EXCEPT ![s] = ~icon[s]]
  BY DEF Click
<1>3. icon[s] \in BOOLEAN /\ (~icon[s]) \in BOOLEAN
  BY <1>1 DEF Settings
<1>4. wish' \in Settings /\ wish'[s] = command'.cmd_value /\ icon' \in Settings
  BY <1>1, <1>2, <1>3 DEF Settings
<1>5. command'.cmd = s /\ command' \in [cmd : Switch, cmd_value : BOOLEAN]
  BY <1>2, <1>3
<1>6. stores' \in StoreOrders
  BY DEF Click
<1> QED BY <1>4, <1>5, <1>6, Orders DEF Click

----------------------------------------------------------------------------
(* Types. *)

Mail == [cmd : Switch \cup {"none"}, cmd_value : BOOLEAN, cmd_seq : 0..MaxClicks,
         ack_seq : 0..MaxClicks]

LEMMA TypeStep == TypeOK /\ Numbers /\ [Next]_vars => TypeOK'
<1> SUFFICES ASSUME TypeOK, Numbers, [Next]_vars PROVE TypeOK'
  OBVIOUS
<1>0. /\ MaxClicks \in Nat /\ mail.cmd \in Switch \cup {"none"}
      /\ mail.cmd_value \in BOOLEAN /\ mail.cmd_seq \in 0..MaxClicks
      /\ mail.ack_seq \in 0..MaxClicks /\ mail.ack_seq <= mail.cmd_seq
      /\ command.cmd \in Switch \cup {"none"} /\ command.cmd_value \in BOOLEAN
      /\ clicks \in 0..MaxClicks
  BY MailboxAssumption DEF TypeOK
<1>1. ASSUME NEW s \in Clicked, Click(s) PROVE TypeOK'
  <2>1. s \in Switch
    BY MailboxAssumption
  <2>2. command' \in [cmd : Switch \cup {"none"}, cmd_value : BOOLEAN]
    BY <1>1, <2>1, ClickEffect
  <2>3. unspent' \in [Switch -> Int] /\ overlap' \in Overlaps /\ clicks' \in 0..MaxClicks
    BY <1>0, <1>1, <2>1, ClickEffect DEF TypeOK, Overlaps
  <2>4. /\ {shown', icon', force', wish'} \subseteq Settings
        /\ queried' \in BOOLEAN /\ refused' \subseteq Switch
    BY <1>1, <2>1, ClickEffect DEF service, panel, TypeOK
  <2>5. mail' = mail /\ pc' = pc /\ value' = value /\ taken' = taken
    BY <1>1, <2>1, ClickEffect DEF service
  <2>6. stores' \in Seq(Field) /\ Len(stores') = 3
    BY <1>1, <2>1, ClickEffect
  <2> QED BY <2>2, <2>3, <2>4, <2>5, <2>6 DEF TypeOK
<1>2. CASE Store
  <2>1. /\ mail'.cmd \in Switch \cup {"none"} /\ mail'.cmd_value \in BOOLEAN
        /\ mail'.ack_seq = mail.ack_seq
        /\ mail'.cmd_seq \in 0..MaxClicks /\ mail'.ack_seq <= mail'.cmd_seq
    <3>1. CASE Head(stores) = "cmd_seq"
      <4>1. mail.cmd_seq + 1 <= clicks
        BY <1>2, <3>1, StoreEffect DEF Numbers, Numbered
      <4> QED BY <1>0, <1>2, <3>1, <4>1, StoreEffect
    <3>2. CASE Head(stores) # "cmd_seq"
      BY <1>0, <1>2, <3>2, StoreEffect
    <3> QED BY <3>1, <3>2
  <2>2. mail' \in Mail
    BY <1>0, <1>2, <2>1, StoreEffect DEF Mail
  <2>3. stores' \in Seq(Field) /\ Len(stores') <= 3
    BY <1>2, StoreEffect DEF TypeOK
  <2>4. UNCHANGED <<panel, icon, command, service, user>>
    BY <1>2 DEF Store
  <2> QED BY <2>1, <2>2, <2>3, <2>4 DEF Mail, TypeOK, service, user, panel
<1>3. CASE Refresh
  BY <1>3 DEF Refresh, TypeOK, service, user, panel
<1>4. CASE Poll
  BY <1>4 DEF Poll, TypeOK, helper, panel, Overlaps
<1>5. CASE ReadValue
  BY <1>0, <1>5 DEF ReadValue, TypeOK, helper, user, panel
<1>10. CASE ReadCommand
  BY <1>0, <1>10 DEF ReadCommand, TypeOK, helper, user, panel
<1>6. CASE CarryOut
  <2>1. /\ force \in Settings /\ unspent \in [Switch -> Int] /\ refused \subseteq Switch
        /\ value \in BOOLEAN /\ taken \in Switch \cup {"none"}
    BY DEF TypeOK
  <2>2. /\ UNCHANGED <<mail, panel, helper, value, taken, wish, clicks, overlap>>
        /\ pc' = "ack"
    BY <1>6 DEF CarryOut
  <2>3. force' \in Settings /\ unspent' \in [Switch -> Int] /\ refused' \subseteq Switch
    <3>1. CASE UNCHANGED <<force, unspent, refused>>
      BY <2>1, <3>1
    <3>2. CASE taken # "none" /\ \E v \in {value, mail.cmd_value} : Sets(taken, v)
      <4>1. PICK v \in {value, mail.cmd_value} : Sets(taken, v)
        BY <3>2
      <4>2. taken \in Switch /\ v \in BOOLEAN
        BY <1>0, <2>1, <3>2
      <4>3. force' \in Settings
        BY <2>1, <4>1, <4>2 DEF Sets, Settings
      <4>4. unspent' \in [Switch -> Int]
        BY <2>1, <4>1, <4>2 DEF Sets
      <4> QED BY <2>1, <4>1, <4>3, <4>4 DEF Sets
    <3>3. CASE /\ taken = "autostart" /\ refused' = refused \cup {taken}
               /\ UNCHANGED <<force, unspent>>
      BY <2>1, <3>3 DEF Switch
    <3> QED BY <1>6, <3>1, <3>2, <3>3 DEF CarryOut
  <2> QED BY <2>2, <2>3 DEF TypeOK, helper, panel
<1>7. CASE Acknowledge
  <2>1. mail' = [mail EXCEPT !.ack_seq = mail.cmd_seq] /\ pc' = "publish"
        /\ UNCHANGED <<panel, helper, value, taken, force, user>>
    BY <1>7 DEF Acknowledge
  <2>2. mail' \in Mail /\ mail'.ack_seq <= mail'.cmd_seq
    BY <1>0, <2>1 DEF Mail, TypeOK
  <2> QED BY <2>1, <2>2 DEF Mail, TypeOK, helper, user, panel
<1>8. CASE Publish
  BY <1>8 DEF Publish, TypeOK, helper, user, Settings
<1>9. CASE UNCHANGED vars
  BY <1>9 DEF vars, TypeOK, helper, service, user, panel
<1> QED BY <1>1, <1>2, <1>3, <1>4, <1>5, <1>6, <1>7, <1>8, <1>9, <1>10 DEF Next

----------------------------------------------------------------------------
(* The other parts. *)

Rest == Complete /\ Numbers /\ Apart /\ Spent /\ Alone

LEMMA ClickStep ==
  ASSUME IInv, NEW s \in Switch, Click(s) PROVE Rest'
<1> USE DEF IInv
<1>1. In(<<>>, "cmd_seq") = FALSE
  BY DEF In
<1>2. /\ {"cmd", "cmd_value", "cmd_seq"} = Field
      /\ mail.cmd_seq \in Nat /\ mail.ack_seq \in Nat /\ clicks \in Nat
      /\ unspent \in [Switch -> Int] /\ Numbered /\ ~Numbered'
  BY <1>1, ClickEffect, MailboxAssumption DEF TypeOK, Field, Numbered
<1>3. Complete'
  BY <1>2, ClickEffect DEF Complete
<1>4. Numbers'
  BY <1>2, ClickEffect DEF Numbers
<1>5. Apart'
  BY <1>2, ClickEffect DEF Apart, Waiting, service
<1>6. Spent'
  <2> SUFFICES ASSUME overlap' # "torn" PROVE Spent'
    BY DEF Spent
  <2>1. overlap # "torn" /\ (Waiting => command.cmd = s)
    BY ClickEffect DEF Waiting
  <2>2. /\ \A t \in Switch : unspent'[t] = IF t = s THEN unspent[t] + 1 ELSE unspent[t]
        /\ command'.cmd = s /\ UNCHANGED <<mail, pc>>
    BY <1>2, ClickEffect DEF service
  <2>3. CASE Waiting
    <3>1. unspent[s] >= Coming /\ Coming' = Coming + 1 /\ Coming \in Nat
      BY <1>2, <2>1, <2>2, <2>3 DEF Spent, Coming, Waiting
    <3> QED BY <1>2, <2>1, <2>2, <3>1 DEF Spent
  <2>4. CASE ~Waiting
    <3>1. Coming' = 1
      BY <1>2, <2>1, <2>2, <2>4 DEF Coming, Waiting, Apart
    <3> QED BY <1>2, <2>1, <2>2, <3>1 DEF Spent
  <2> QED BY <2>3, <2>4
<1>7. Alone'
  BY <1>2, ClickEffect DEF Alone, Apart, Waiting, service
<1> QED BY <1>3, <1>4, <1>5, <1>6, <1>7 DEF Rest

LEMMA StoreStep ==
  ASSUME IInv, Store PROVE Rest'
<1> USE DEF IInv
<1>1. /\ mail.cmd_seq \in Nat /\ mail.ack_seq \in Nat /\ mail.ack_seq <= mail.cmd_seq
      /\ clicks \in Nat
      /\ UNCHANGED <<command, pc, value, taken, force, wish, unspent, clicks, overlap>>
      /\ stores # <<>> /\ Head(stores) \in {"cmd", "cmd_value", "cmd_seq"}
      /\ unspent \in [Switch -> Int]
  BY StoreEffect, MailboxAssumption DEF TypeOK, service, user, Field
<1>2. /\ Numbered' <=> Numbered \/ Head(stores) = "cmd_seq"
      /\ Numbered => Head(stores) # "cmd_seq"
      /\ Waiting' <=> Waiting \/ Head(stores) = "cmd_seq"
  BY <1>1, StoreEffect DEF Numbered, Waiting
<1>3. Complete'
  BY <1>1, StoreEffect DEF Complete
<1>4. Numbers'
  BY <1>1, <1>2, StoreEffect DEF Numbers
<1>5. Apart'
  BY <1>1, <1>2, StoreEffect DEF Apart
<1>6. Spent'
  <2>1. Coming \in Nat /\ Coming' \in Nat /\ Coming' <= Coming
    BY <1>1, <1>2 DEF Coming
  <2> QED BY <1>1, <2>1 DEF Spent, TypeOK
<1>7. Alone'
  BY <1>1 DEF Alone
<1> QED BY <1>3, <1>4, <1>5, <1>6, <1>7 DEF Rest

LEMMA ServiceStep ==
  ASSUME IInv, Refresh \/ Poll \/ ReadValue \/ ReadCommand \/ Acknowledge \/ Publish PROVE Rest'
<1> USE DEF IInv
<1>1. CASE Refresh
  BY <1>1 DEF Refresh, service, user, Rest, Complete, Numbers, Apart, Spent, Alone, Waiting, Numbered, Coming
<1>2. CASE Poll
  <2>1. /\ UNCHANGED <<mail, stores, command, value, taken, force, wish, unspent, clicks>>
        /\ pc = "idle"
    BY <1>2 DEF Poll, helper
  <2>2. CASE Waiting
    <3>1. pc' = "value" /\ (overlap' = overlap \/ overlap' = "torn")
      BY <1>2, <2>2 DEF Poll, Waiting
    <3>2. overlap' # "torn" => stores = <<>>
      BY <1>2, <3>1 DEF Poll
    <3>3. stores = <<>> => mail.cmd = command.cmd
      BY DEF Complete, In
    <3>4. Coming' = Coming
      BY <2>1, <2>2, <3>1 DEF Coming, Waiting, Numbered
    <3>5. Complete' /\ Numbers'
      BY <2>1 DEF Complete, Numbers, Waiting, Numbered
    <3>6. Apart' /\ Alone'
      BY <2>1, <2>2, <3>1, <3>2, <3>3 DEF Apart, Alone, Waiting
    <3>7. Spent'
      BY <2>1, <3>1, <3>4 DEF Spent
    <3> QED BY <3>5, <3>6, <3>7 DEF Rest
  <2>3. CASE ~Waiting
    <3>1. pc' = "publish" /\ overlap' = overlap
      BY <1>2, <2>3 DEF Poll, Waiting
    <3>2. Coming' = Coming
      BY <2>1, <2>3, <3>1 DEF Coming, Waiting, Numbered
    <3>3. Spent'
      BY <2>1, <3>1, <3>2 DEF Spent
    <3> QED BY <2>1, <3>1, <3>3 DEF Rest, Complete, Numbers, Apart, Alone, Waiting, Numbered
  <2> QED BY <2>2, <2>3
<1>3. CASE ReadValue
  BY <1>3 DEF ReadValue, helper, user, Rest, Complete, Numbers, Apart, Spent, Alone, Waiting, Numbered, Coming
<1>6. CASE ReadCommand
  <2>1. /\ UNCHANGED <<mail, stores, command, value, force, wish, unspent, clicks, overlap>>
        /\ pc = "cmd" /\ pc' = "carry" /\ taken' = mail.cmd
    BY <1>6 DEF ReadCommand, helper, user
  <2>2. Complete' /\ Numbers' /\ Alone' /\ Apart'
    BY <2>1 DEF Complete, Numbers, Alone, Apart, Numbered, Waiting
  <2>3. Coming' = Coming
    BY <2>1 DEF Coming, Numbered
  <2>4. Spent'
    BY <2>1, <2>3 DEF Spent
  <2> QED BY <2>2, <2>4 DEF Rest
<1>4. CASE Acknowledge
  <2>1. /\ UNCHANGED <<stores, command, value, taken, force, wish, unspent, clicks, overlap>>
        /\ pc = "ack" /\ pc' = "publish" /\ mail'.cmd = mail.cmd
        /\ mail'.cmd_value = mail.cmd_value /\ mail'.cmd_seq = mail.cmd_seq /\ ~Waiting'
    BY <1>4 DEF Acknowledge, helper, user, TypeOK, Waiting
  <2>2. Complete' /\ Numbers' /\ Alone' /\ Apart'
    BY <2>1 DEF Complete, Numbers, Alone, Apart, Numbered
  <2>3. Coming' = Coming
    BY <2>1 DEF Coming, Numbered
  <2>4. Spent'
    BY <2>1, <2>3 DEF Spent
  <2> QED BY <2>2, <2>4 DEF Rest
<1>5. CASE Publish
  BY <1>5 DEF Publish, helper, user, Rest, Complete, Numbers, Apart, Spent, Alone, Waiting, Numbered, Coming
<1> QED BY <1>1, <1>2, <1>3, <1>4, <1>5, <1>6

(* A command carried out spends what was clicked for it. *)
LEMMA CarryStep ==
  ASSUME IInv, CarryOut PROVE Rest'
<1> USE DEF IInv
<1>1. /\ UNCHANGED <<mail, stores, command, value, taken, wish, clicks, overlap>>
      /\ pc = "carry" /\ pc' = "ack" /\ unspent \in [Switch -> Int]
  BY DEF CarryOut, helper, TypeOK
<1>2. Complete' /\ Numbers' /\ Apart' /\ Alone'
  BY <1>1 DEF Complete, Numbers, Apart, Alone, Waiting, Numbered
<1>3. Spent'
  <2> SUFFICES ASSUME overlap # "torn" PROVE Spent'
    BY <1>1 DEF Spent
  <2>1. Waiting /\ taken = command.cmd /\ taken \in Switch
    BY <1>1 DEF Apart, Complete
  <2>2. /\ Coming \in Nat /\ Coming >= 1 /\ Coming' = Coming - 1
    BY <1>1 DEF Coming, Numbered
  <2>3. unspent' = unspent \/ \E v \in {value, mail.cmd_value} : Sets(taken, v)
    BY DEF CarryOut
  <2>4. ASSUME NEW t \in Switch
        PROVE  /\ unspent'[t] >= 0
               /\ t = command.cmd => unspent'[t] >= Coming'
    <3>1. unspent[t] \in Int /\ unspent[t] >= 0 /\ (t = command.cmd => unspent[t] >= Coming)
      BY <1>1 DEF Spent
    <3>2. unspent'[t] = unspent[t] \/ (t = taken /\ unspent'[t] = unspent[t] - 1)
      BY <1>1, <2>1, <2>3 DEF Sets
    <3> QED BY <2>1, <2>2, <3>1, <3>2
  <2> QED BY <1>1, <2>1, <2>4 DEF Spent
<1> QED BY <1>2, <1>3 DEF Rest

----------------------------------------------------------------------------
(* The theorems. *)

(* Every reachable state satisfies the inductive invariant. *)
THEOREM MailboxInvariance == Spec => []IInv
<1>1. Init => IInv
  <2> SUFFICES ASSUME Init PROVE IInv
    OBVIOUS
  <2>1. TypeOK
    <3>1. MaxClicks \in Nat /\ <<>> \in Seq(Field) /\ Len(<<>>) = 0
      BY MailboxAssumption
    <3>2. queried \in BOOLEAN /\ taken \in Switch \cup {"none"} /\ refused \subseteq Switch
      BY DEF Init
    <3>3. force \in Settings /\ shown \in Settings
      BY DEF Init, Settings
    <3>4. mail \in Mail /\ mail.ack_seq <= mail.cmd_seq
      BY <3>1 DEF Init, Mail
    <3>5. command \in [cmd : Switch \cup {"none"}, cmd_value : BOOLEAN]
      BY DEF Init
    <3>6. value \in BOOLEAN /\ pc \in {"idle", "value", "cmd", "carry", "ack", "publish"}
      BY Zenon DEF Init
    <3>7. unspent \in [Switch -> Int] /\ clicks \in 0..MaxClicks /\ overlap \in Overlaps
      BY <3>1 DEF Init, Overlaps
    <3>8. stores \in Seq(Field) /\ Len(stores) <= 3
      BY <3>1 DEF Init
    <3>9. {shown, icon, force, wish} \subseteq Settings
      BY <3>3 DEF Init
    <3> QED BY <3>2, <3>4, <3>5, <3>6, <3>7, <3>8, <3>9 DEF Mail, TypeOK
  <2>2. ~In(stores, "cmd") /\ ~In(stores, "cmd_value") /\ ~In(stores, "cmd_seq")
        /\ Distinct(stores)
    BY DEF Init, In, Distinct
  <2>3. Complete /\ Numbers /\ Apart /\ Spent /\ Alone
    BY <2>2 DEF Init, Complete, Numbers, Apart, Spent, Alone, Numbered, Coming, Waiting, Switch
  <2> QED BY <2>1, <2>3 DEF IInv
<1>2. IInv /\ [Next]_vars => IInv'
  <2> SUFFICES ASSUME IInv, [Next]_vars PROVE IInv'
    OBVIOUS
  <2>1. TypeOK'
    BY TypeStep DEF IInv
  <2>2. CASE UNCHANGED vars
    BY <2>1, <2>2 DEF vars, panel, helper, service, user, IInv, Complete, Numbers, Apart, Spent, Alone,
                      Waiting, Numbered, Coming
  <2>3. CASE Next
    <3>1. \A s \in Clicked : s \in Switch
      BY MailboxAssumption
    <3>2. Rest'
      BY <2>3, <3>1, ClickStep, StoreStep, ServiceStep, CarryStep DEF Next
    <3> QED BY <2>1, <3>2 DEF Rest, IInv
  <2> QED BY <2>2, <2>3
<1> QED BY <1>1, <1>2, PTL DEF Spec

(* Every variable keeps its type: the numbers do not overtake the clicks.   *)
THEOREM MailboxTypeCorrect == Spec => []TypeOK
BY MailboxInvariance, PTL DEF IInv

(* A switch changes no more often than it is clicked. *)
THEOREM ChangesAreClicked == Spec => []ChangesAreClicks
<1>1. IInv => ChangesAreClicks
  BY DEF IInv, Spent, ChangesAreClicks
<1> QED BY <1>1, MailboxInvariance, PTL

(* A command that met no other changes its switch to what was asked last.   *)
THEOREM NothingIsUnasked == Spec => NothingUnasked
<1>1. IInv /\ [Next]_vars =>
        [overlap' = "none" =>
           \A s \in Switch : force'[s] # force[s] => force'[s] = wish[s]]_vars
  <2> SUFFICES ASSUME IInv, Next, overlap' = "none", NEW s \in Switch, force'[s] # force[s]
               PROVE  force'[s] = wish[s]
    OBVIOUS
  <2>1. CarryOut
    BY DEF Next, Click, Store, Refresh, Poll, ReadValue, ReadCommand, Acknowledge, Publish,
               service, user
  <2>2. /\ overlap = "none" /\ pc = "carry"
        /\ \E v \in {value, mail.cmd_value} : Sets(taken, v)
        /\ force \in Settings
    BY <2>1 DEF CarryOut, IInv, TypeOK
  <2>3. Waiting /\ stores = <<>> /\ value = mail.cmd_value /\ taken = command.cmd
    BY <2>2 DEF IInv, Apart, Alone
  <2>4. ~In(stores, "cmd") /\ ~In(stores, "cmd_value")
    BY <2>3 DEF In
  <2>5. taken \in Switch /\ wish[taken] = value
    BY <2>3, <2>4 DEF IInv, Complete
  <2>6. s = taken /\ force'[s] = value
    BY <2>2, <2>3, <2>5 DEF Sets, Settings
  <2> QED BY <2>5, <2>6
<1> QED BY <1>1, MailboxInvariance, PTL DEF Spec, NothingUnasked

=============================================================================
