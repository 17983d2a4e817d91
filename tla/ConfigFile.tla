----------------------------- MODULE ConfigFile -----------------------------
(***************************************************************************)
(* Config (src/core/config.cpp): how surface_optimizer.toml becomes the     *)
(* configuration.  load_from_file reads line by line, each line on its own, *)
(* into a configuration that holds the defaults; save_to_file writes one    *)
(* line for every key (it is public; the program itself never calls it).    *)
(*                                                                         *)
(* A line is what the reader tells apart: a section header, an entry, or    *)
(* neither (blank lines, comments, and the further lines of a list, which   *)
(* hold no equals sign).  The text of an entry is the value its author      *)
(* means: a bool is any word parse_bool knows, an item has no comma.        *)
(* Two things can follow a text, or a header: a comment on the same         *)
(* line (tail), or the rest of a list on further lines (form "open").       *)
(***************************************************************************)
EXTENDS Integers, Sequences

CONSTANTS
  Section,    \* sections the program knows
  Key,        \* keys the program knows
  SectionOf,  \* the section each key belongs to
  KindOf,     \* how its value is read
  Default,    \* the in-class initialisers of config.hpp
  Scalar,     \* numbers, booleans and strings
  Item,       \* entries of a list
  Garbled,    \* the scalar or item read from text nobody meant as a value
  UserLine,   \* lines the user may write
  Layout,     \* what save_to_file writes: headers and keys in order
  MaxLines    \* bound on the lines the user writes

Kinds == {"number", "bool", "string", "list"}

ScalarText == [form : Kinds \ {"list"}, value : Scalar, tail : BOOLEAN]

(* inner: the items that touch neither a bracket nor what follows it. *)
ListText ==
  [form : {"list", "open"}, value : SUBSET Item, inner : SUBSET Item, tail : BOOLEAN]

Line ==
       [is : {"other"}, items : SUBSET Item]
  \cup [is : {"header"}, section : Section \cup {"unknown"}, tail : BOOLEAN]
  \cup [is : {"entry"}, key : Key \cup {"unknown"}, text : ScalarText \cup ListText]

Value(kind) == IF kind = "list" THEN (SUBSET Item) \ {{}} ELSE Scalar

Configs ==
  {c \in [Key -> Scalar \cup SUBSET Item] : \A k \in Key : c[k] \in Value(KindOf[k])}

(* Every key is written once, under the header of its section. *)
Written(k, i) ==
  /\ Layout[i] = [is |-> "entry", key |-> k]
  /\ \E h \in 1..(i - 1) :
       /\ Layout[h].is = "header" /\ Layout[h].section = SectionOf[k]
       /\ \A j \in (h + 1)..(i - 1) : Layout[j].is # "header"

ASSUME ConfigAssumption ==
  /\ "none" \notin Section /\ "unknown" \notin Section \cup Key
  /\ SectionOf \in [Key -> Section] /\ KindOf \in [Key -> Kinds]
  /\ Garbled \in Scalar
  /\ Scalar \subseteq Item  \* for parse_list a single word is a list
  /\ Default \in Configs
  /\ UserLine \subseteq Line
  /\ Layout \in Seq([is : {"header"}, section : Section, tail : {FALSE}]
                   \cup [is : {"entry"}, key : Key])
  /\ \A k \in Key : \E i \in DOMAIN Layout :
       /\ Written(k, i)
       /\ \A j \in DOMAIN Layout : Layout[j] = Layout[i] => j = i
  /\ MaxLines \in Nat

VARIABLES
  file,     \* the lines of surface_optimizer.toml
  config,   \* Config::get_instance()
  status,   \* of the process: "gone", "reading" or "ready"
  pos,      \* lines read so far
  section,  \* current_section
  opened,   \* what load_from_file returned
  kept      \* history: the configuration the file was written from, if any

vars == <<file, config, status, pos, section, opened, kept>>

Init ==
  /\ file = <<>> /\ config = Default
  /\ status = "gone" /\ pos = 0 /\ section = "none" /\ opened = FALSE
  /\ kept = {}

----------------------------------------------------------------------------
(* parse_uint32, parse_bool, parse_list, strip_quotes. *)

(* A list whose closing bracket is not the last of the line is cut at its    *)
(* commas all the same; the piece at each end keeps what belongs to no item. *)
Listed(text) ==
  IF text.form \notin {"list", "open"} THEN {IF text.tail THEN Garbled ELSE text.value}
  ELSE IF text.form = "list" /\ ~text.tail THEN text.value
  ELSE {Garbled} \cup text.inner

(* Whether a text changes the value of a key (an empty list does not: the   *)
(* caller in load_from_file looks), and to what.                            *)
Accepted(kind, text) ==
  \/ kind = "number" /\ text.form = "number"
  \/ kind = "bool" /\ text.form = "bool" /\ ~text.tail
  \/ kind = "string"
  \/ kind = "list" /\ Listed(text) # {}

Parsed(kind, text) ==
  IF kind = "list" THEN Listed(text)
  ELSE IF kind = "string" /\ (text.tail \/ text.form \in {"list", "open"}) THEN Garbled
  ELSE text.value

----------------------------------------------------------------------------
(* load_from_file. *)

Current == file[pos + 1]

Reading == status = "reading" /\ pos < Len(file)

(* With anything after the closing bracket it is no header for the reader.  *)
IsHeader(line) == line.is = "header" /\ ~line.tail

(* main() loads the file once, into the defaults. *)
Opens ==
  /\ status = "gone" /\ status' = "reading"
  /\ config' = Default /\ pos' = 0 /\ section' = "none" /\ opened' = TRUE
  /\ UNCHANGED <<file, kept>>

CannotOpen ==
  /\ status = "gone" /\ status' = "ready"
  /\ config' = Default /\ pos' = 0 /\ section' = "none" /\ opened' = FALSE
  /\ UNCHANGED <<file, kept>>

SkipsLine ==
  /\ Reading
  /\ Current.is # "entry" /\ ~IsHeader(Current)
  /\ pos' = pos + 1
  /\ UNCHANGED <<file, config, status, section, opened, kept>>

(* Mutant: the header of a section the program does not know is skipped.    *)
ReadsHeader_KnownOnly ==
  /\ Reading /\ IsHeader(Current)
  /\ section' = IF Current.section \in Section THEN Current.section ELSE section
  /\ pos' = pos + 1
  /\ UNCHANGED <<file, config, status, opened, kept>>

ReadsHeader ==
  /\ Reading /\ IsHeader(Current)
  /\ section' = Current.section
  /\ pos' = pos + 1
  /\ UNCHANGED <<file, config, status, opened, kept>>

Counts(k, text) == section = SectionOf[k] /\ Accepted(KindOf[k], text)

ReadsEntry ==
  /\ Reading /\ Current.is = "entry"
  /\ config' = [k \in Key |->
       IF k = Current.key /\ Counts(k, Current.text)
       THEN Parsed(KindOf[k], Current.text) ELSE config[k]]
  /\ pos' = pos + 1
  /\ UNCHANGED <<file, status, section, opened, kept>>

EndOfFile ==
  /\ status = "reading" /\ pos = Len(file)
  /\ status' = "ready"
  /\ UNCHANGED <<file, config, pos, section, opened, kept>>

----------------------------------------------------------------------------
(* save_to_file, and the user's editor. *)

Entry(k, value) ==
  [is |-> "entry", key |-> k,
   text |-> IF KindOf[k] = "list"
            THEN [form |-> "list", value |-> value, inner |-> {}, tail |-> FALSE]
            ELSE [form |-> KindOf[k], value |-> value, tail |-> FALSE]]

(* Mutant: the last section is written without its header. *)
Saved_HeaderMissing(c) ==
  LET whole == [i \in DOMAIN Layout |->
                  IF Layout[i].is = "header" THEN Layout[i]
                  ELSE Entry(Layout[i].key, c[Layout[i].key])]
      last  == CHOOSE i \in DOMAIN Layout :
                 /\ Layout[i].is = "header"
                 /\ \A j \in DOMAIN Layout : Layout[j].is = "header" => j <= i
  IN  [whole EXCEPT ![last] = [is |-> "other", items |-> {}]]

Saved(c) ==
  [i \in DOMAIN Layout |->
     IF Layout[i].is = "header" THEN Layout[i]
     ELSE Entry(Layout[i].key, c[Layout[i].key])]

Saves ==
  /\ status = "ready"
  /\ file' = Saved(config)
  /\ kept' = {config}
  /\ UNCHANGED <<config, status, pos, section, opened>>

Ends ==
  /\ status = "ready" /\ status' = "gone"
  /\ config' = Default /\ pos' = 0 /\ section' = "none" /\ opened' = FALSE
  /\ UNCHANGED <<file, kept>>

UserWrites(line) ==
  /\ status = "gone" /\ Len(file) < MaxLines
  /\ file' = Append(file, line)
  /\ kept' = {}
  /\ UNCHANGED <<config, status, pos, section, opened>>

UserClears ==
  /\ status = "gone" /\ file # <<>>
  /\ file' = <<>>
  /\ kept' = {}
  /\ UNCHANGED <<config, status, pos, section, opened>>

Next ==
  \/ Opens \/ CannotOpen
  \/ SkipsLine \/ ReadsHeader \/ ReadsEntry \/ EndOfFile
  \/ Saves \/ Ends
  \/ \E line \in UserLine : UserWrites(line)
  \/ UserClears

Spec == Init /\ [][Next]_vars

----------------------------------------------------------------------------
(* Properties. *)

(* Every variable keeps its type; a value is a scalar or a list, as its key *)
(* demands, and no list is ever empty.                                      *)
TypeOK ==
  /\ file \in Seq(Line) /\ config \in Configs /\ kept \subseteq Configs
  /\ status \in {"gone", "reading", "ready"}
  /\ pos \in Nat /\ opened \in BOOLEAN
  /\ section \in Section \cup {"none", "unknown"}

(* Line i stands under the header of section s. *)
Under(i, s) ==
  \E h \in 1..(i - 1) :
    /\ file[h].is = "header" /\ file[h].section = s
    /\ \A j \in (h + 1)..(i - 1) : file[j].is # "header"

(* The lines that set key k. *)
Setting(k) ==
  {i \in DOMAIN file :
     /\ file[i].is = "entry" /\ file[i].key = k
     /\ Under(i, SectionOf[k])
     /\ Accepted(KindOf[k], file[i].text)}

Last(lines) == {i \in lines : \A j \in lines : j <= i}

(* What the author of line i means: a list goes on to the next line that is *)
(* a header or an entry.                                                    *)
Meant(i) ==
  IF file[i].text.form # "open" THEN file[i].text.value
  ELSE UNION {file[j].items : j \in
                {j \in DOMAIN file : j > i /\ \A n \in (i + 1)..j : file[n].is = "other"}}
       \cup file[i].text.value

Simple(kind, text) ==
  /\ text.form = kind
  /\ kind # "number" => ~text.tail

(* The configuration is what the file says: of the lines that set a key in  *)
(* its own section the last counts, whatever else stands in the file, and   *)
(* the default where there is none; provided that lists stay on one line    *)
(* and nothing follows a header, or a value but a number (load_from_file).  *)
ReadAsMeant ==
  status = "ready" /\ (\A i \in DOMAIN file : file[i].is = "header" => ~file[i].tail) =>
    \A k \in Key :
      IF ~opened \/ Setting(k) = {}
      THEN config[k] = Default[k]
      ELSE \A i \in Last(Setting(k)) :
             Simple(KindOf[k], file[i].text) => config[k] = Meant(i)

(* What save_to_file writes, load_from_file reads: the next process has the *)
(* configuration this one had.                                              *)
SavedIsReloaded == status = "ready" /\ opened => \A c \in kept : config = c

(* The allowlist of the file is the one that counts, however it is written: *)
(* surface_optimizer.toml:46-51, which README.md:215 refers to for the      *)
(* processes that are never demoted, writes it over several lines.          *)
ListsAsMeant ==
  status = "ready" /\ opened =>
    \A k \in Key : \A i \in Last(Setting(k)) :
      KindOf[k] = "list" /\ file[i].text.form \in {"list", "open"} => config[k] = Meant(i)

(* A section is read as one, whatever follows its header.                   *)
SectionsAsMeant ==
  status = "ready" /\ opened =>
    \A k \in Key : \A i \in Last(Setting(k)) :
      Simple(KindOf[k], file[i].text) => config[k] = Meant(i)

=============================================================================
