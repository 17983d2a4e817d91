---------------------------- MODULE MCConfigFile ----------------------------
(* An instance of ConfigFile for TLC: one key of each kind, in three        *)
(* sections; lines that set, repeat, misplace and break them.               *)
EXTENDS ConfigFile, TLC

CONSTANTS n0, n1, yes, no, info, debug, system, custom

MCSection == {"power", "governor", "daemon"}
MCKey == {"ac_epp_idle", "enable_eco_qos", "allowlist", "log_level"}

MCSectionOf ==
  [k \in MCKey |-> IF k = "ac_epp_idle" THEN "power"
                   ELSE IF k = "log_level" THEN "daemon" ELSE "governor"]

MCKindOf ==
  [k \in MCKey |-> IF k = "ac_epp_idle" THEN "number"
                   ELSE IF k = "enable_eco_qos" THEN "bool"
                   ELSE IF k = "log_level" THEN "string" ELSE "list"]

MCDefault ==
  [k \in MCKey |-> IF k = "ac_epp_idle" THEN n0
                   ELSE IF k = "enable_eco_qos" THEN yes
                   ELSE IF k = "log_level" THEN info ELSE {system}]

MCScalar == {n0, n1, yes, no, info, debug, Garbled}
MCItem == MCScalar \cup {system, custom}

Scalars(form, value) == [form : {form}, value : {value}, tail : BOOLEAN]

Lists(form, value, inner) ==
  [form : {form}, value : {value}, inner : {inner}, tail : BOOLEAN]

MCTexts ==
  [k \in MCKey |->
     CASE k = "ac_epp_idle"    -> Scalars("number", n1) \cup Scalars("string", debug)
       [] k = "enable_eco_qos" -> Scalars("bool", no)
       [] k = "log_level"      -> Scalars("string", debug)
       [] k = "allowlist"      -> Lists("list", {system, custom}, {custom})
                                  \cup {t \in Lists("list", {}, {}) : ~t.tail}
                                  \cup {t \in Lists("open", {system}, {}) : ~t.tail}
                                  \cup Scalars("string", debug)]

MCUserLine ==
       {[is |-> "other", items |-> {}], [is |-> "other", items |-> {custom}]}
  \cup [is : {"header"}, section : MCSection \cup {"unknown"}, tail : {FALSE}]
  \cup {[is |-> "header", section |-> "daemon", tail |-> TRUE]}
  \cup UNION {[is : {"entry"}, key : {k}, text : MCTexts[k]] : k \in MCKey}
  \cup {[is |-> "entry", key |-> "unknown",
         text |-> [form |-> "number", value |-> n1, tail |-> FALSE]]}

Header(s) == [is |-> "header", section |-> s, tail |-> FALSE]

Entered(k) == [is |-> "entry", key |-> k]

MCLayout ==
  <<Header("power"), Entered("ac_epp_idle"),
    Header("governor"), Entered("enable_eco_qos"),
    Entered("allowlist"),
    Header("daemon"), Entered("log_level")>>

=============================================================================
