-------------------------- MODULE ConfigFile_proofs --------------------------
(***************************************************************************)
(* Proofs about ConfigFile for every file, every set of keys and every      *)
(* layout: what is read is what the last line of a key says, and what is    *)
(* saved is read back.                                                      *)
(***************************************************************************)
EXTENDS ConfigFile, TLAPS

USE DEF Kinds

(* In file f a header that the reader takes for one stands at h, and at none *)
(* of the lines after it up to n.                                           *)
Heads(f, h, n) ==
  /\ h \in 1..n /\ IsHeader(f[h])
  /\ \A j \in (h + 1)..n : ~IsHeader(f[j])

(* current_section is that of the last header read, if there was one.       *)
SectionInv ==
  status = "reading" =>
    /\ pos \in 0..Len(file)
    /\ \/ section = "none" /\ \A h \in 1..pos : ~IsHeader(file[h])
       \/ \E h \in 1..pos : Heads(file, h, pos) /\ section = file[h].section

(* Line i sets key k, as the reader sees it. *)
Sets(f, k, i) ==
  /\ f[i].is = "entry" /\ f[i].key = k
  /\ \E h \in 1..(i - 1) : Heads(f, h, i - 1) /\ f[h].section = SectionOf[k]
  /\ Accepted(KindOf[k], f[i].text)

SetBy(f, k, n) == {i \in 1..n : Sets(f, k, i)}

(* Configuration c follows from the first n lines. *)
Follows(f, c, n) ==
  \A k \in Key :
    /\ SetBy(f, k, n) = {} => c[k] = Default[k]
    /\ \A i \in Last(SetBy(f, k, n)) : c[k] = Parsed(KindOf[k], f[i].text)

ConfigInv ==
  /\ status = "reading" => opened /\ Follows(file, config, pos)
  /\ status = "ready" /\ opened => Follows(file, config, Len(file))
  /\ status = "ready" /\ ~opened => config = Default

SavedInv == \A c \in kept : file = Saved(c)

IInv == TypeOK /\ SectionInv /\ ConfigInv /\ SavedInv

----------------------------------------------------------------------------
(* Lines and values. *)

LEMMA LineFacts ==
  ASSUME NEW l \in Line
  PROVE  /\ l.is \in {"other", "header", "entry"}
         /\ l.is = "header" => l.section \in Section \cup {"unknown"} /\ l.tail \in BOOLEAN
         /\ l.is = "entry" => /\ l.key \in Key \cup {"unknown"}
                            /\ l.text \in ScalarText \cup ListText
BY DEF Line

LEMMA ListValue ==
  ASSUME NEW v
  PROVE  v \in Value("list") <=> v \subseteq Item /\ v # {}
BY DEF Value

LEMMA TextFacts ==
  ASSUME NEW t \in ScalarText \cup ListText
  PROVE  /\ t.form \in Kinds \cup {"open"} /\ t.tail \in BOOLEAN
         /\ t.form \in {"list", "open"} => t.value \subseteq Item /\ t.inner \subseteq Item
         /\ t.form \notin {"list", "open"} => t.value \in Scalar
BY DEF ScalarText, ListText

(* What a text changes a key to is a value of that key.                     *)
LEMMA ParsedType ==
  ASSUME NEW k \in Key, NEW t \in ScalarText \cup ListText, Accepted(KindOf[k], t)
  PROVE  Parsed(KindOf[k], t) \in Value(KindOf[k])
<1> USE TextFacts, ConfigAssumption
<1>1. KindOf[k] \in Kinds
  OBVIOUS
<1>2. CASE KindOf[k] = "list"
  <2>1. Listed(t) \subseteq Item
    BY DEF Listed
  <2>2. Listed(t) # {}
    BY <1>2 DEF Accepted
  <2>3. Parsed(KindOf[k], t) = Listed(t)
    BY <1>2 DEF Parsed
  <2> QED BY <1>2, <2>1, <2>2, <2>3, ListValue
<1>3. CASE KindOf[k] # "list"
  BY <1>1, <1>3 DEF Accepted, Parsed, Value
<1> QED BY <1>2, <1>3

LEMMA ConfigsFacts ==
  ASSUME NEW c \in Configs
  PROVE  /\ c \in [Key -> Scalar \cup SUBSET Item]
         /\ \A k \in Key : c[k] \in Value(KindOf[k])
BY DEF Configs

(* The line written for a key is read as the value it was written from.     *)
LEMMA EntryIsRead ==
  ASSUME NEW c \in Configs, NEW k \in Key
  PROVE  /\ Entry(k, c[k]) \in Line
         /\ Accepted(KindOf[k], Entry(k, c[k]).text)
         /\ Parsed(KindOf[k], Entry(k, c[k]).text) = c[k]
<1>1. c[k] \in Value(KindOf[k]) /\ KindOf[k] \in Kinds
  BY ConfigsFacts, ConfigAssumption
<1>2. CASE KindOf[k] = "list"
  <2> DEFINE t == [form |-> "list", value |-> c[k], inner |-> {}, tail |-> FALSE]
  <2>1. c[k] \in SUBSET Item /\ c[k] # {}
    BY <1>1, <1>2, ListValue
  <2>2. t \in ListText
    BY <2>1 DEF ListText
  <2>3. Entry(k, c[k]) = [is |-> "entry", key |-> k, text |-> t]
    BY <1>2 DEF Entry
  <2>4. Listed(t) = c[k]
    BY DEF Listed
  <2> HIDE DEF t
  <2> QED BY <1>2, <2>1, <2>2, <2>3, <2>4 DEF Line, Accepted, Parsed
<1>3. CASE KindOf[k] # "list"
  <2> DEFINE t == [form |-> KindOf[k], value |-> c[k], tail |-> FALSE]
  <2>1. c[k] \in Scalar
    BY <1>1, <1>3 DEF Value
  <2>2. t \in ScalarText
    BY <1>1, <1>3, <2>1 DEF ScalarText
  <2>3. Entry(k, c[k]) = [is |-> "entry", key |-> k, text |-> t]
    BY <1>3 DEF Entry
  <2>4. t.form = KindOf[k] /\ t.value = c[k] /\ t.tail = FALSE
    OBVIOUS
  <2> HIDE DEF t
  <2> QED BY <1>1, <1>3, <2>2, <2>3, <2>4 DEF Line, Accepted, Parsed
<1> QED BY <1>2, <1>3

LEMMA LayoutFacts ==
  /\ Len(Layout) \in Nat /\ DOMAIN Layout = 1..Len(Layout)
  /\ \A i \in 1..Len(Layout) :
       \/ Layout[i] \in [is : {"header"}, section : Section, tail : {FALSE}]
       \/ Layout[i] \in [is : {"entry"}, key : Key]
<1> DEFINE L == [is : {"header"}, section : Section, tail : {FALSE}]
                \cup [is : {"entry"}, key : Key]
<1>1. Layout \in Seq(L)
  BY ConfigAssumption
<1> HIDE DEF L
<1>2. /\ Len(Layout) \in Nat /\ DOMAIN Layout = 1..Len(Layout)
      /\ \A i \in 1..Len(Layout) : Layout[i] \in L
  BY <1>1
<1> QED BY <1>2 DEF L

(* A saved file has one line for every line of the layout.                  *)
LEMMA SavedType ==
  ASSUME NEW c \in Configs
  PROVE  /\ Saved(c) \in Seq(Line)
         /\ Len(Saved(c)) = Len(Layout)
         /\ \A i \in 1..Len(Layout) :
              Saved(c)[i] = IF Layout[i].is = "header" THEN Layout[i]
                            ELSE Entry(Layout[i].key, c[Layout[i].key])
<1>1. Len(Layout) \in Nat /\ DOMAIN Layout = 1..Len(Layout)
  BY LayoutFacts
<1>2. ASSUME NEW i \in 1..Len(Layout)
      PROVE  (IF Layout[i].is = "header" THEN Layout[i]
              ELSE Entry(Layout[i].key, c[Layout[i].key])) \in Line
  <2>1. Layout[i] \in [is : {"header"}, section : Section, tail : {FALSE}]
                     \cup [is : {"entry"}, key : Key]
    BY LayoutFacts
  <2>2. CASE Layout[i] \in [is : {"header"}, section : Section, tail : {FALSE}]
    BY <2>2 DEF Line
  <2>3. CASE Layout[i] \in [is : {"entry"}, key : Key]
    BY <2>3, EntryIsRead
  <2> QED BY <2>1, <2>2, <2>3
<1>3. Saved(c) \in [1..Len(Layout) -> Line]
  BY <1>1, <1>2 DEF Saved
<1> QED BY <1>1, <1>3 DEF Saved

----------------------------------------------------------------------------
(* Types. *)

LEMMA FileFacts ==
  ASSUME TypeOK
  PROVE  /\ Len(file) \in Nat /\ DOMAIN file = 1..Len(file)
         /\ \A i \in 1..Len(file) : file[i] \in Line
BY DEF TypeOK

LEMMA ReadingFacts ==
  ASSUME TypeOK, SectionInv, Reading
  PROVE  pos \in Nat /\ pos + 1 \in 1..Len(file) /\ Current \in Line
BY FileFacts DEF Reading, SectionInv, Current, TypeOK

LEMMA TypeStep ==
  ASSUME TypeOK, SectionInv, [Next]_vars
  PROVE  TypeOK'
<1> USE DEF TypeOK
<1>0. Default \in Configs
  BY ConfigAssumption
<1>1. CASE Opens \/ CannotOpen \/ Ends
  <2>1. /\ UNCHANGED <<file, kept>> /\ config' = Default
        /\ pos' = 0 /\ section' = "none" /\ opened' \in BOOLEAN
        /\ status' \in {"gone", "reading", "ready"}
    BY <1>1 DEF Opens, CannotOpen, Ends
  <2> QED BY <1>0, <2>1
<1>2. CASE SkipsLine \/ EndOfFile \/ UNCHANGED vars
  BY <1>2 DEF SkipsLine, EndOfFile, vars
<1>3. CASE ReadsHeader
  <2>1. Current.section \in Section \cup {"unknown"}
    BY <1>3, ReadingFacts, LineFacts DEF ReadsHeader, IsHeader
  <2> QED BY <1>3, <2>1 DEF ReadsHeader
<1>4. CASE ReadsEntry
  <2>1. Current.is = "entry" => Current.text \in ScalarText \cup ListText
    BY <1>4, ReadingFacts, LineFacts DEF ReadsEntry
  <2>2. ASSUME NEW k \in Key
        PROVE  config'[k] \in Value(KindOf[k])
    <3>1. CASE k = Current.key /\ Counts(k, Current.text)
      BY <1>4, <2>1, <3>1, ParsedType DEF ReadsEntry, Counts
    <3>2. CASE ~(k = Current.key /\ Counts(k, Current.text))
      BY <1>4, <3>2, ConfigsFacts DEF ReadsEntry
    <3> QED BY <3>1, <3>2
  <2>3. \A k \in Key : Value(KindOf[k]) \subseteq Scalar \cup SUBSET Item
    BY DEF Value
  <2>4. config' \in [Key -> Scalar \cup SUBSET Item]
    BY <1>4, <2>2, <2>3 DEF ReadsEntry
  <2>5. config' \in Configs
    BY <2>2, <2>4 DEF Configs
  <2> QED BY <1>4, <2>5 DEF ReadsEntry
<1>5. CASE Saves
  <2>1. Saved(config) \in Seq(Line)
    BY SavedType
  <2> QED BY <1>5, <2>1 DEF Saves
<1>6. ASSUME NEW line \in UserLine, UserWrites(line)
      PROVE  TypeOK'
  <2>1. line \in Line
    BY ConfigAssumption
  <2> QED BY <1>6, <2>1 DEF UserWrites
<1>7. CASE UserClears
  BY <1>7 DEF UserClears
<1> QED BY <1>1, <1>2, <1>3, <1>4, <1>5, <1>6, <1>7 DEF Next

----------------------------------------------------------------------------
(* Sections. *)

(* Of the headers among the first n lines one is the last.                  *)
LEMMA OneHead ==
  ASSUME NEW f, NEW n \in Nat, NEW h \in 1..n, NEW g \in 1..n, Heads(f, h, n), Heads(f, g, n)
  PROVE  h = g
BY DEF Heads

LEMMA HeadStays ==
  ASSUME NEW f, NEW n \in Nat, NEW h \in 1..n, Heads(f, h, n), ~IsHeader(f[n + 1])
  PROVE  Heads(f, h, n + 1)
BY DEF Heads

LEMMA NewHead ==
  ASSUME NEW f, NEW n \in Nat, IsHeader(f[n + 1])
  PROVE  Heads(f, n + 1, n + 1)
BY DEF Heads

LEMMA SectionStep ==
  ASSUME TypeOK, SectionInv, [Next]_vars
  PROVE  SectionInv'
<1> USE DEF SectionInv
<1>0. Len(file) \in Nat /\ pos \in Nat
  BY DEF TypeOK
<1>1. CASE Opens
  BY <1>0, <1>1 DEF Opens
<1>2. CASE CannotOpen \/ Ends \/ EndOfFile \/ Saves \/ UserClears
  BY <1>2 DEF CannotOpen, Ends, EndOfFile, Saves, UserClears
<1>3. ASSUME NEW line \in UserLine, UserWrites(line)
      PROVE  SectionInv'
  BY <1>3 DEF UserWrites
<1>4. CASE SkipsLine \/ ReadsEntry
  <2>1. /\ status = "reading" /\ pos < Len(file) /\ pos' = pos + 1
        /\ UNCHANGED <<file, section, status>> /\ ~IsHeader(file[pos + 1])
    BY <1>4 DEF SkipsLine, ReadsEntry, Reading, IsHeader, Current
  <2>2. CASE section = "none" /\ \A h \in 1..pos : ~IsHeader(file[h])
    BY <1>0, <2>1, <2>2
  <2>3. CASE \E h \in 1..pos : Heads(file, h, pos) /\ section = file[h].section
    BY <1>0, <2>1, <2>3, HeadStays
  <2> QED BY <2>1, <2>2, <2>3
<1>5. CASE ReadsHeader
  <2>1. /\ status = "reading" /\ pos < Len(file) /\ pos' = pos + 1
        /\ UNCHANGED <<file, status>> /\ IsHeader(file[pos + 1])
        /\ section' = file[pos + 1].section
    BY <1>5 DEF ReadsHeader, Reading, Current
  <2>2. Heads(file, pos + 1, pos + 1)
    BY <1>0, <2>1, NewHead
  <2> QED BY <1>0, <2>1, <2>2
<1>6. CASE UNCHANGED vars
  BY <1>6 DEF vars
<1> QED BY <1>1, <1>2, <1>3, <1>4, <1>5, <1>6 DEF Next

----------------------------------------------------------------------------
(* Entries. *)

(* Whether a line is among those that set a key shows when it is read.      *)
LEMMA SetByNext ==
  ASSUME NEW f, NEW k, NEW n \in Nat
  PROVE  /\ Sets(f, k, n + 1) => n + 1 \in SetBy(f, k, n + 1)
         /\ ~Sets(f, k, n + 1) => SetBy(f, k, n + 1) = SetBy(f, k, n)
BY DEF SetBy

(* Under what the reader takes for a key's section the line before it is    *)
(* what current_section tells.                                              *)
LEMMA SectionTells ==
  ASSUME TypeOK, SectionInv, Reading, NEW k \in Key
  PROVE  Sets(file, k, pos + 1) <=>
           /\ Current.is = "entry" /\ Current.key = k
           /\ Counts(k, Current.text)
<1>1. pos \in Nat /\ status = "reading" /\ (pos + 1) - 1 = pos
  BY DEF TypeOK, Reading
<1>2. (\E h \in 1..pos : Heads(file, h, pos) /\ file[h].section = SectionOf[k])
         <=> section = SectionOf[k]
  <2>1. SectionOf[k] # "none"
    BY ConfigAssumption
  <2>2. CASE section = "none" /\ \A h \in 1..pos : ~IsHeader(file[h])
    BY <2>1, <2>2 DEF Heads
  <2>3. CASE \E h \in 1..pos : Heads(file, h, pos) /\ section = file[h].section
    BY <1>1, <2>3, OneHead
  <2> QED BY <1>1, <2>2, <2>3 DEF SectionInv
<1> QED BY <1>1, <1>2 DEF Sets, Counts, Current

(* Reading one line keeps a configuration that follows from those before.   *)
LEMMA FollowsNext ==
  ASSUME NEW f, NEW c, NEW d, NEW n \in Nat, Follows(f, c, n),
         \A k \in Key :
           d[k] = IF Sets(f, k, n + 1) THEN Parsed(KindOf[k], f[n + 1].text) ELSE c[k]
  PROVE  Follows(f, d, n + 1)
<1> SUFFICES ASSUME NEW k \in Key
             PROVE  /\ SetBy(f, k, n + 1) = {} => d[k] = Default[k]
                    /\ \A i \in Last(SetBy(f, k, n + 1)) : d[k] = Parsed(KindOf[k], f[i].text)
  BY DEF Follows
<1>1. CASE Sets(f, k, n + 1)
  <2>1. n + 1 \in SetBy(f, k, n + 1)
    BY <1>1, SetByNext
  <2>2. SetBy(f, k, n + 1) \subseteq 1..(n + 1)
    BY DEF SetBy
  <2>3. \A i \in Last(SetBy(f, k, n + 1)) : i = n + 1
    BY <2>1, <2>2 DEF Last
  <2> QED BY <1>1, <2>1, <2>3
<1>2. CASE ~Sets(f, k, n + 1)
  <2>1. SetBy(f, k, n + 1) = SetBy(f, k, n)
    BY <1>2, SetByNext
  <2> QED BY <1>2, <2>1 DEF Follows
<1> QED BY <1>1, <1>2

LEMMA FollowsNone ==
  ASSUME NEW f
  PROVE  Follows(f, Default, 0)
BY DEF Follows, SetBy, Last

(* What save_to_file writes for a key is the one line that sets it.         *)
LEMMA SavedSets ==
  ASSUME NEW c \in Configs, NEW k \in Key
  PROVE  \E i \in 1..Len(Layout) :
           /\ SetBy(Saved(c), k, Len(Saved(c))) = {i}
           /\ Parsed(KindOf[k], Saved(c)[i].text) = c[k]
<1> DEFINE f == Saved(c)
<1>1. PICK i \in 1..Len(Layout) :
        /\ Written(k, i)
        /\ \A j \in 1..Len(Layout) : Layout[j] = Layout[i] => j = i
  BY LayoutFacts, ConfigAssumption
<1>2. PICK h \in 1..(i - 1) :
        /\ Layout[h].is = "header" /\ Layout[h].section = SectionOf[k]
        /\ \A j \in (h + 1)..(i - 1) : Layout[j].is # "header"
  BY <1>1 DEF Written
<1>3. Layout[i] = [is |-> "entry", key |-> k]
  BY <1>1 DEF Written
<1>4. f[i] = Entry(k, c[k]) /\ f[h] = Layout[h]
  BY <1>1, <1>2, <1>3, LayoutFacts, SavedType
<1>5. ASSUME NEW j \in 1..Len(Layout)
      PROVE  /\ IsHeader(f[j]) <=> Layout[j].is = "header"
             /\ f[j].is = "entry" /\ f[j].key = k => j = i
  <2>1. CASE Layout[j].is = "header"
    BY <2>1, LayoutFacts, SavedType DEF IsHeader
  <2>2. CASE Layout[j].is # "header"
    <3>1. Layout[j] \in [is : {"entry"}, key : Key]
      BY <2>2, LayoutFacts
    <3>2. f[j] = Entry(Layout[j].key, c[Layout[j].key])
      BY <2>2, SavedType
    <3>3. f[j].is = "entry" /\ f[j].key = Layout[j].key
      BY <3>2 DEF Entry
    <3>4. Layout[j].key = k => Layout[j] = Layout[i]
      BY <1>3, <3>1
    <3> QED BY <1>1, <2>2, <3>3, <3>4 DEF IsHeader
  <2> QED BY <2>1, <2>2
<1>6. Len(f) = Len(Layout)
  BY SavedType
<1> HIDE DEF f
<1>7. Heads(f, h, i - 1) /\ f[h].section = SectionOf[k]
  <2>1. i - 1 \in Nat /\ (1..(i - 1)) \subseteq 1..Len(Layout)
    BY LayoutFacts
  <2> QED BY <1>2, <1>4, <1>5, <2>1 DEF Heads
<1>8. Sets(f, k, i)
  <2>1. Accepted(KindOf[k], f[i].text)
    BY <1>4, EntryIsRead
  <2>2. f[i].is = "entry" /\ f[i].key = k
    BY <1>4 DEF Entry
  <2> QED BY <1>7, <2>1, <2>2 DEF Sets
<1>9. SetBy(f, k, Len(f)) = {i}
  BY <1>5, <1>6, <1>8 DEF SetBy, Sets
<1>10. Parsed(KindOf[k], f[i].text) = c[k]
  BY <1>4, EntryIsRead
<1> QED BY <1>9, <1>10 DEF f

(* So the one configuration that follows from it is the one that was saved. *)
LEMMA SavedFollows ==
  ASSUME NEW c \in Configs, NEW d \in Configs
  PROVE  Follows(Saved(c), d, Len(Saved(c))) <=> d = c
<1>1. ASSUME NEW k \in Key
      PROVE  (/\ SetBy(Saved(c), k, Len(Saved(c))) = {} => d[k] = Default[k]
              /\ \A i \in Last(SetBy(Saved(c), k, Len(Saved(c)))) :
                   d[k] = Parsed(KindOf[k], Saved(c)[i].text))
             <=> d[k] = c[k]
  <2> DEFINE S == SetBy(Saved(c), k, Len(Saved(c)))
  <2>1. PICK i \in 1..Len(Layout) : S = {i} /\ Parsed(KindOf[k], Saved(c)[i].text) = c[k]
    BY SavedSets
  <2>2. S # {} /\ \A j : j \in Last(S) <=> j = i
    BY <2>1, LayoutFacts DEF Last
  <2> HIDE DEF S
  <2> QED BY <2>1, <2>2 DEF S
<1>2. d = c <=> \A k \in Key : d[k] = c[k]
  BY ConfigsFacts
<1> QED BY <1>1, <1>2 DEF Follows

LEMMA ConfigStep ==
  ASSUME TypeOK, SectionInv, ConfigInv, [Next]_vars
  PROVE  ConfigInv'
<1> USE DEF ConfigInv
<1>0. Len(file) \in Nat /\ pos \in Nat
  BY DEF TypeOK
<1>1. CASE Opens
  BY <1>1, FollowsNone DEF Opens
<1>2. CASE CannotOpen \/ Ends \/ UserClears
  BY <1>2 DEF CannotOpen, Ends, UserClears
<1>3. ASSUME NEW line \in UserLine, UserWrites(line)
      PROVE  ConfigInv'
  BY <1>3 DEF UserWrites
<1>4. CASE SkipsLine \/ ReadsHeader \/ ReadsEntry
  <2>1. /\ Reading /\ status = "reading" /\ pos' = pos + 1
        /\ UNCHANGED <<file, status, opened>>
    BY <1>4 DEF SkipsLine, ReadsHeader, ReadsEntry, Reading
  <2>2. ASSUME NEW k \in Key
        PROVE  config'[k] = IF Sets(file, k, pos + 1)
                            THEN Parsed(KindOf[k], file[pos + 1].text) ELSE config[k]
    <3>1. CASE SkipsLine \/ ReadsHeader
      <4>1. config' = config /\ Current.is # "entry"
        BY <2>1, <3>1, ReadingFacts, LineFacts DEF SkipsLine, ReadsHeader, IsHeader
      <4> QED BY <2>1, <4>1, SectionTells
    <3>2. CASE ReadsEntry
      BY <2>1, <3>2, SectionTells DEF ReadsEntry, Current
    <3> QED BY <1>4, <3>1, <3>2
  <2>3. Follows(file, config', pos + 1)
    BY <1>0, <2>1, <2>2, FollowsNext
  <2> QED BY <2>1, <2>3
<1>5. CASE EndOfFile
  BY <1>5 DEF EndOfFile
<1>6. CASE Saves
  <2>1. config \in Configs
    BY DEF TypeOK
  <2>2. Follows(Saved(config), config, Len(Saved(config)))
    BY <2>1, SavedFollows
  <2> QED BY <1>6, <2>2 DEF Saves
<1>7. CASE UNCHANGED vars
  BY <1>7 DEF vars
<1> QED BY <1>1, <1>2, <1>3, <1>4, <1>5, <1>6, <1>7 DEF Next

LEMMA SavedStep ==
  ASSUME SavedInv, [Next]_vars
  PROVE  SavedInv'
<1> USE DEF SavedInv
<1>1. CASE Opens \/ CannotOpen \/ SkipsLine \/ ReadsHeader \/ ReadsEntry \/ EndOfFile \/ Ends
  BY <1>1 DEF Opens, CannotOpen, SkipsLine, ReadsHeader, ReadsEntry, EndOfFile, Ends
<1>2. CASE Saves
  BY <1>2 DEF Saves
<1>3. CASE UserClears \/ \E line \in UserLine : UserWrites(line)
  BY <1>3 DEF UserClears, UserWrites
<1>4. CASE UNCHANGED vars
  BY <1>4 DEF vars
<1> QED BY <1>1, <1>2, <1>3, <1>4 DEF Next

----------------------------------------------------------------------------
(* The theorems. *)

(* Every reachable state satisfies the inductive invariant. *)
THEOREM ReadingInvariance == Spec => []IInv
<1>1. Init => IInv
  <2>1. Default \in Configs
    BY ConfigAssumption
  <2>2. Init => TypeOK
    <3>1. <<>> \in Seq(Line) /\ {} \subseteq Configs
      OBVIOUS
    <3>2. Init => /\ file \in Seq(Line) /\ kept \subseteq Configs /\ config \in Configs
                  /\ opened \in BOOLEAN
      BY <2>1, <3>1, Zenon DEF Init
    <3>3. Init => pos \in Nat
      BY DEF Init
    <3> QED BY <3>2, <3>3, Zenon DEF Init, TypeOK
  <2>3. Init => SectionInv /\ ConfigInv /\ SavedInv
    BY DEF Init, SectionInv, ConfigInv, SavedInv
  <2> QED BY <2>2, <2>3 DEF IInv
<1>2. IInv /\ [Next]_vars => IInv'
  BY TypeStep, SectionStep, ConfigStep, SavedStep DEF IInv
<1> QED BY <1>1, <1>2, PTL DEF Spec

(* No line of any file gives a key a value it cannot have; in particular the *)
(* allowlist is never empty (parse_list, line 158).                         *)
THEOREM ConfigTypeCorrect == Spec => []TypeOK
BY ReadingInvariance, PTL DEF IInv

(* Without commented headers the author and the reader see the same lines.  *)
LEMMA SameLines ==
  ASSUME TypeOK, \A i \in DOMAIN file : file[i].is = "header" => ~file[i].tail,
         NEW k \in Key
  PROVE  Setting(k) = SetBy(file, k, Len(file))
<1>1. \A i \in 1..Len(file) : IsHeader(file[i]) <=> file[i].is = "header"
  BY FileFacts DEF IsHeader
<1>2. ASSUME NEW i \in 1..Len(file)
      PROVE  Under(i, SectionOf[k]) <=>
               \E h \in 1..(i - 1) : Heads(file, h, i - 1) /\ file[h].section = SectionOf[k]
  <2>1. Len(file) \in Nat /\ \A h \in 1..(i - 1) : h \in 1..Len(file)
    BY FileFacts
  <2>2. \A h \in 1..(i - 1) : \A j \in (h + 1)..(i - 1) : j \in 1..Len(file)
    BY <2>1
  <2> QED BY <1>1, <2>1, <2>2 DEF Under, Heads
<1> QED BY <1>2, FileFacts DEF Setting, SetBy, Sets

(* The text of a value that stands alone on its line is read as meant.      *)
LEMMA SimpleIsMeant ==
  ASSUME TypeOK, NEW k \in Key, NEW i \in 1..Len(file),
         file[i].is = "entry", Simple(KindOf[k], file[i].text)
  PROVE  Parsed(KindOf[k], file[i].text) = Meant(i)
<1>1. KindOf[k] \in Kinds
  BY ConfigAssumption
<1> QED BY <1>1 DEF Simple, Parsed, Listed, Meant

(* Whatever the file holds, each key ends with what the last line that sets *)
(* it in its own section means, and with its default where there is none    *)
(* (load_from_file).                                                        *)
THEOREM FilesAreReadAsMeant == Spec => []ReadAsMeant
<1>1. IInv => ReadAsMeant
  <2> SUFFICES ASSUME IInv, status = "ready", NEW k \in Key,
                      \A i \in DOMAIN file : file[i].is = "header" => ~file[i].tail
               PROVE  IF ~opened \/ Setting(k) = {}
                      THEN config[k] = Default[k]
                      ELSE \A i \in Last(Setting(k)) :
                             Simple(KindOf[k], file[i].text) => config[k] = Meant(i)
    BY DEF ReadAsMeant
  <2>1. CASE ~opened
    BY <2>1 DEF IInv, ConfigInv
  <2>2. CASE opened
    <3>1. Setting(k) = SetBy(file, k, Len(file))
      BY SameLines DEF IInv
    <3>2. /\ Setting(k) = {} => config[k] = Default[k]
          /\ \A i \in Last(Setting(k)) : config[k] = Parsed(KindOf[k], file[i].text)
      BY <2>2, <3>1 DEF IInv, ConfigInv, Follows
    <3>3. \A i \in Last(Setting(k)) : i \in 1..Len(file) /\ file[i].is = "entry"
      BY FileFacts DEF IInv, Last, Setting
    <3> QED BY <2>2, <3>2, <3>3, SimpleIsMeant DEF IInv
  <2> QED BY <2>1, <2>2
<1> QED BY <1>1, ReadingInvariance, PTL

(* A process that reads what another has saved has its configuration,       *)
(* whatever that is (save_to_file, load_from_file).                         *)
THEOREM SavedFilesAreReloaded == Spec => []SavedIsReloaded
<1>1. IInv => SavedIsReloaded
  <2> SUFFICES ASSUME IInv, status = "ready", opened, NEW c \in kept
               PROVE  config = c
    BY DEF SavedIsReloaded
  <2>1. c \in Configs /\ config \in Configs /\ file = Saved(c)
    BY DEF IInv, TypeOK, SavedInv
  <2>2. Follows(Saved(c), config, Len(Saved(c)))
    BY <2>1 DEF IInv, ConfigInv
  <2> QED BY <2>1, <2>2, SavedFollows
<1> QED BY <1>1, ReadingInvariance, PTL

=============================================================================
