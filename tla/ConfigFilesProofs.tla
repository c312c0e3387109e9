------------------------- MODULE ConfigFilesProofs -------------------------
(***************************************************************************)
(* Proofs about ConfigFiles, for any consoles, any items and lists of any  *)
(* length: what the file holds after a save, what a start makes of it, and *)
(* what the two have to do with the configuration in memory.               *)
(***************************************************************************)
EXTENDS ConfigFiles, CommonFacts, SequenceTheorems, TLAPS

----------------------------------------------------------------------------
(* Lists and texts *)

(* The functions on 1 .. n for the n up to m are the sequences up to m. *)
LEMMA SequencesUpTo ==
  ASSUME NEW S, NEW m \in Nat, NEW s
  PROVE  s \in UNION {[1 .. n -> S] : n \in 0 .. m} <=> s \in Seq(S) /\ Len(s) <= m
<1>1. ASSUME NEW n \in 0 .. m, s \in [1 .. n -> S] PROVE s \in Seq(S) /\ Len(s) <= m
  <2>1. s \in Seq(S) /\ Len(s) = n
    BY <1>1, IsASeq, LenProperties
  <2>2. QED
    BY <2>1
<1>2. ASSUME s \in Seq(S), Len(s) <= m
      PROVE  Len(s) \in 0 .. m /\ s \in [1 .. Len(s) -> S]
  BY <1>2, LenProperties
<1>3. QED
  BY <1>1, <1>2

(* Lists and texts are sequences. *)
LEMMA ListsAre ==
  /\ \A s : s \in Lists <=> s \in Seq(Entries) /\ Len(s) <= MaxLen + 1
  /\ \A s : s \in Texts <=> s \in Seq(Entries \cup Marks) /\ Len(s) <= MaxLen + 1
<1>1. MaxLen + 1 \in Nat
  BY FilesAssumption
<1>2. QED
  BY <1>1, SequencesUpTo DEF Lists, Texts

(* None is no list and no text. *)
LEMMA NoneIsNoList == None \notin Lists /\ None \notin Texts
<1>1. \A s \in Seq(Entries) : s \in Seq(Entries \cup Marks)
  OBVIOUS
<1>2. QED
  BY <1>1, ListsAre, FilesAssumption

(* The text of a list in a file f. *)
TextIn(f, list) == IF f = "backends" /\ list # << >> THEN list ELSE <<"head">> \o list

(* A head stands only at the front. *)
HeadInFront(cells) == \A i \in 1 .. Len(cells) : cells[i] = "head" => i = 1

(* What a text is: one cell per item, at most one more, the head in front. *)
LEMMA TextFacts ==
  ASSUME NEW f, NEW list \in Seq(Entries)
  PROVE  /\ TextIn(f, list) \in Seq(Entries \cup Marks)
         /\ Len(TextIn(f, list)) \in Nat /\ Len(TextIn(f, list)) > 0
         /\ Len(TextIn(f, list)) <= Len(list) + 1
         /\ f = "backends" => Len(TextIn(f, list)) <= Len(list) \/ list = << >>
         /\ HeadInFront(TextIn(f, list))
         /\ \A i \in 1 .. Len(TextIn(f, list)) : TextIn(f, list)[i] \notin {"cut", "hole"}
         /\ ItemsOf(TextIn(f, list)) = list
         /\ f = "backends" /\ Len(TextIn(f, list)) > 1 => TextIn(f, list)[1] # "head"
<1> DEFINE t == TextIn(f, list)
<1>1. Len(list) \in Nat /\ \A i \in 1 .. Len(list) : list[i] \in Entries
  BY LenProperties, ElementOfSeq
<1>2. \A x \in Entries : x \notin Marks
  BY FilesAssumption
<1>3. CASE f = "backends" /\ list # << >>
  <2>1. t = list
    BY <1>3 DEF TextIn
  <2>2. Len(list) > 0
    BY <1>1, <1>3, EmptySeq
  <2>3. \A i \in 1 .. Len(list) : list[i] \notin Marks
    BY <1>1, <1>2
  <2>4. list[1] # "head"
    BY <2>2, <2>3, <1>1 DEF Marks
  <2>5. ItemsOf(list) = list
    BY <2>4 DEF ItemsOf
  <2>6. \A i \in 1 .. Len(list) : list[i] # "head" /\ list[i] \notin {"cut", "hole"}
    BY <2>3 DEF Marks
  <2>7. list \in Seq(Entries \cup Marks)
    OBVIOUS
  <2> HIDE DEF t
  <2>8. QED
    BY <1>1, <2>1, <2>2, <2>4, <2>5, <2>6, <2>7 DEF HeadInFront, t
<1>4. CASE ~ (f = "backends" /\ list # << >>)
  <2>1. t = <<"head">> \o list
    BY <1>4 DEF TextIn
  <2>2. /\ t \in Seq(Entries \cup Marks) /\ Len(t) = Len(list) + 1
        /\ t[1] = "head"
        /\ \A i \in 2 .. Len(list) + 1 : t[i] = list[i - 1]
    BY <1>1, <2>1 DEF Marks
  <2>3. \A i \in 2 .. Len(list) + 1 : t[i] \in Entries
    BY <1>1, <2>2
  <2>4. Tail(t) = list
    BY <1>1, <2>2
  <2>5. ItemsOf(t) = list
    BY <1>1, <2>2, <2>4 DEF ItemsOf
  <2> HIDE DEF t
  <2>6. HeadInFront(t)
    BY <1>1, <1>2, <2>2, <2>3 DEF HeadInFront, Marks
  <2>7. \A i \in 1 .. Len(t) : t[i] \notin {"cut", "hole"}
    BY <1>1, <1>2, <2>2, <2>3 DEF Marks
  <2>8. f = "backends" => list = << >> /\ Len(t) = 1
    BY <1>1, <1>4, <2>2
  <2>9. QED
    BY <1>1, <2>2, <2>5, <2>6, <2>7, <2>8 DEF t
<1>5. QED
  BY <1>3, <1>4

(* A text that was written to the end is read back as it is. *)
LEMMA ParsedText ==
  ASSUME NEW list \in Seq(Entries)
  PROVE  Parsed(TextIn(file, list)) = {list}
<1> DEFINE t == TextIn(file, list)
           items == ItemsOf(t)
           cuts == {i \in DOMAIN items : items[i] = "cut"}
<1>1. /\ t \in Seq(Entries \cup Marks)
      /\ \A i \in 1 .. Len(t) : t[i] \notin {"cut", "hole"}
      /\ ItemsOf(t) = list
      /\ file = "backends" /\ Len(t) > 1 => t[1] # "head"
  BY TextFacts
<1>2. DOMAIN t = 1 .. Len(t) /\ DOMAIN list = 1 .. Len(list)
  BY <1>1, LenProperties
<1>3. cuts = {}
  <2>1. \A i \in 1 .. Len(list) : list[i] \in Entries
    BY ElementOfSeq
  <2>2. "cut" \notin Entries
    BY FilesAssumption DEF Marks
  <2>3. QED
    BY <1>1, <1>2, <2>1, <2>2
<1> HIDE DEF t, items, cuts
<1>4. Parsed(t) = {items}
  BY <1>1, <1>2, <1>3 DEF Parsed, items, cuts
<1>5. QED
  BY <1>1, <1>4 DEF t, items

(* What is read from any text is a list, or None. *)
LEMMA ParsedIsList ==
  ASSUME NEW cells \in Texts, HeadInFront(cells), NEW list \in Parsed(cells)
  PROVE  list \in Lists \cup {None}
<1> DEFINE items == ItemsOf(cells)
           cuts == {i \in DOMAIN items : items[i] = "cut"}
           whole == [i \in DOMAIN items |-> IF i \in cuts THEN Damaged ELSE items[i]]
<1>1. /\ cells \in Seq(Entries \cup Marks) /\ Len(cells) <= MaxLen + 1 /\ Len(cells) \in Nat
      /\ MaxLen \in Nat
  BY ListsAre, LenProperties, FilesAssumption
<1> SUFFICES ASSUME list # None, ~ \E i \in DOMAIN cells : cells[i] = "hole"
             PROVE  list \in Lists
  BY DEF Parsed
<1>2. \A i \in 1 .. Len(cells) : cells[i] \in Entries \/ cells[i] \in {"head", "cut"}
  BY <1>1, ElementOfSeq DEF Marks
<1>3. /\ items \in Seq(Entries \cup Marks) /\ Len(items) <= Len(cells) /\ Len(items) \in Nat
      /\ \A i \in 1 .. Len(items) : items[i] \in Entries \/ items[i] = "cut"
  <2>1. CASE cells # << >> /\ cells[1] = "head"
    <3>1. Len(cells) > 0
      BY <1>1, <2>1, EmptySeq
    <3>2. /\ Tail(cells) \in Seq(Entries \cup Marks) /\ Len(Tail(cells)) = Len(cells) - 1
          /\ \A i \in 1 .. Len(cells) - 1 : Tail(cells)[i] = cells[i + 1]
      BY <1>1, <3>1
    <3>3. \A i \in 1 .. Len(cells) - 1 : i + 1 \in 1 .. Len(cells) /\ i + 1 # 1
      BY <1>1
    <3>4. \A i \in 1 .. Len(cells) - 1 : Tail(cells)[i] \in Entries \/ Tail(cells)[i] = "cut"
      BY <1>2, <3>2, <3>3 DEF HeadInFront
    <3>5. items = Tail(cells)
      BY <2>1 DEF ItemsOf
    <3> HIDE DEF items
    <3>6. QED
      BY <1>1, <3>1, <3>2, <3>4, <3>5
  <2>2. CASE ~ (cells # << >> /\ cells[1] = "head")
    <3>1. items = cells
      BY <2>2 DEF ItemsOf
    <3>2. \A i \in 1 .. Len(cells) : cells[i] # "head"
      <4>1. ASSUME Len(cells) > 0 PROVE cells # << >>
        BY <4>1
      <4>2. QED
        BY <1>1, <2>2, <4>1 DEF HeadInFront
    <3> HIDE DEF items
    <3>3. QED
      BY <1>1, <1>2, <3>1, <3>2
  <2>3. QED
    BY <2>1, <2>2
<1> HIDE DEF items
<1>4. DOMAIN items = 1 .. Len(items)
  BY <1>3
<1>5. whole \in Seq(Entries) /\ Len(whole) = Len(items)
  <2>1. Damaged \in Entries
    BY DEF Entries
  <2>2. \A i \in 1 .. Len(items) : whole[i] \in Entries
    BY <1>3, <1>4, <2>1
  <2>3. whole \in [1 .. Len(items) -> Entries]
    BY <1>4, <2>2
  <2> HIDE DEF whole
  <2>4. QED
    BY <1>3, <2>3, IsASeq, LenProperties
<1>6. CASE cuts = {}
  <2>1. items \in Seq(Entries)
    <3>1. \A i \in 1 .. Len(items) : items[i] \in Entries
      BY <1>3, <1>4, <1>6
    <3>2. QED
      BY <1>3, <1>4, <3>1, IsASeq
  <2>2. list = items
    BY <1>6 DEF Parsed, items
  <2>3. QED
    BY <1>1, <1>3, <2>1, <2>2, ListsAre
<1>7. CASE cuts # {}
  <2>1. PICK gone \in SUBSET cuts : list = Sift(whole, DOMAIN items \ gone)
    BY <1>7 DEF Parsed, items
  <2>2. DOMAIN items \ gone \in SUBSET (1 .. Len(whole))
    BY <1>4, <1>5
  <2> HIDE DEF whole, cuts
  <2>3. list \in Seq(Entries) /\ Len(list) \in 0 .. Len(whole)
    BY <1>5, <2>1, <2>2, SiftFacts
  <2>4. QED
    BY <1>1, <1>3, <1>5, <2>3, ListsAre
<1>8. QED
  BY <1>6, <1>7

(* A write over a text leaves a text; one that goes on from where the last *)
(* one ended leaves the beginning of the text written.                     *)
LEMMA OverlayFacts ==
  ASSUME NEW cells \in Texts, HeadInFront(cells), NEW text \in Seq(Entries \cup Marks),
         HeadInFront(text), Len(text) <= MaxLen + 1,
         NEW off \in Nat, NEW end \in off + 1 .. Len(text)
  PROVE  /\ Overlay(cells, off, SubSeq(text, off + 1, end)) \in Texts
         /\ HeadInFront(Overlay(cells, off, SubSeq(text, off + 1, end)))
         /\ cells = SubSeq(text, 1, off) =>
              Overlay(cells, off, SubSeq(text, off + 1, end)) = SubSeq(text, 1, end)
<1> DEFINE new == SubSeq(text, off + 1, end)
           size == IF Len(cells) > end THEN Len(cells) ELSE end
           over == Overlay(cells, off, new)
<1>1. /\ cells \in Seq(Entries \cup Marks) /\ Len(cells) <= MaxLen + 1 /\ Len(cells) \in Nat
      /\ Len(text) \in Nat /\ MaxLen \in Nat /\ end \in Nat
  BY ListsAre, LenProperties, FilesAssumption
<1>2. /\ new \in Seq(Entries \cup Marks) /\ Len(new) = end - off
      /\ \A i \in 1 .. end - off : new[i] = text[off + i]
  BY <1>1
<1>3. off + Len(new) = end /\ size \in Nat /\ size <= MaxLen + 1
  BY <1>1, <1>2
<1>4. DOMAIN cells = 1 .. Len(cells)
  BY <1>1
<1> HIDE DEF new
<1>5. over = [i \in 1 .. size |-> IF i > off /\ i <= end THEN new[i - off]
                                  ELSE IF i = end + 1 THEN "cut"
                                  ELSE IF i \in 1 .. Len(cells) THEN cells[i] ELSE "hole"]
  BY <1>3, <1>4 DEF Overlay
<1>6. \A i \in 1 .. size : i > off /\ i <= end => over[i] = text[i]
  <2> SUFFICES ASSUME NEW i \in 1 .. size, i > off, i <= end PROVE over[i] = text[i]
    OBVIOUS
  <2>1. i - off \in 1 .. end - off /\ off + (i - off) = i
    BY <1>1
  <2>2. new[i - off] = text[i]
    BY <1>2, <2>1
  <2>3. QED
    BY <1>5, <2>2
<1>7. \A i \in 1 .. size : ~ (i > off /\ i <= end) =>
        over[i] = IF i = end + 1 THEN "cut"
                  ELSE IF i \in 1 .. Len(cells) THEN cells[i] ELSE "hole"
  BY <1>5
<1> HIDE DEF over
<1>8. \A i \in 1 .. size : over[i] \in Entries \cup Marks
  <2> SUFFICES ASSUME NEW i \in 1 .. size PROVE over[i] \in Entries \cup Marks
    OBVIOUS
  <2>1. CASE i > off /\ i <= end
    <3>1. i \in 1 .. Len(text)
      BY <1>1, <2>1
    <3>2. QED
      BY <1>6, <2>1, <3>1, ElementOfSeq
  <2>2. CASE ~ (i > off /\ i <= end)
    <3>1. i \in 1 .. Len(cells) => cells[i] \in Entries \cup Marks
      BY <1>1, ElementOfSeq
    <3>2. QED
      BY <1>7, <2>2, <3>1 DEF Marks
  <2>3. QED
    BY <2>1, <2>2
<1>9. over \in Seq(Entries \cup Marks) /\ Len(over) = size /\ DOMAIN over = 1 .. size
  <2>1. over \in [1 .. size -> Entries \cup Marks]
    BY <1>5, <1>8
  <2>2. QED
    BY <1>3, <2>1, IsASeq, LenProperties
<1>10. HeadInFront(over)
  <2> SUFFICES ASSUME NEW i \in 1 .. size, over[i] = "head" PROVE i = 1
    BY <1>9 DEF HeadInFront
  <2>1. CASE i > off /\ i <= end
    <3>1. i \in 1 .. Len(text)
      BY <1>1, <2>1
    <3>2. QED
      BY <1>6, <2>1, <3>1 DEF HeadInFront
  <2>2. CASE ~ (i > off /\ i <= end)
    BY <1>7, <2>2 DEF HeadInFront
  <2>3. QED
    BY <2>1, <2>2
<1>11. ASSUME cells = SubSeq(text, 1, off) PROVE over = SubSeq(text, 1, end)
  <2>1. /\ Len(cells) = off
        /\ \A i \in 1 .. off : cells[i] = text[i]
    BY <1>1, <1>11
  <2>2. size = end
    BY <1>1, <2>1
  <2>3. \A i \in 1 .. end : over[i] = text[i]
    <3> SUFFICES ASSUME NEW i \in 1 .. end PROVE over[i] = text[i]
      OBVIOUS
    <3>1. CASE i > off
      BY <1>1, <1>6, <2>2, <3>1
    <3>2. CASE i <= off
      BY <1>1, <1>7, <2>1, <2>2, <3>2
    <3>3. QED
      BY <1>1, <3>1, <3>2
  <2>4. /\ SubSeq(text, 1, end) \in Seq(Entries \cup Marks) /\ Len(SubSeq(text, 1, end)) = end
        /\ \A i \in 1 .. end : SubSeq(text, 1, end)[i] = text[i]
    BY <1>1
  <2>5. QED
    BY <1>9, <2>2, <2>3, <2>4, SeqEqual
<1>12. QED
  BY <1>3, <1>9, <1>10, <1>11, ListsAre DEF over, new

(* A write that is cut short leaves a text too. *)
LEMMA CutFacts ==
  ASSUME NEW cells \in Texts, HeadInFront(cells), NEW off \in 0 .. MaxLen
  PROVE  /\ Overlay(cells, off, <<"cut">>) \in Texts
         /\ HeadInFront(Overlay(cells, off, <<"cut">>))
<1> DEFINE text == [i \in 1 .. off + 1 |-> "cut"]
<1>1. MaxLen \in Nat /\ off \in Nat /\ off + 1 \in 1 .. MaxLen + 1
  BY FilesAssumption
<1>2. text \in Seq(Entries \cup Marks) /\ Len(text) = off + 1
  <2>1. text \in [1 .. off + 1 -> Entries \cup Marks]
    BY DEF Marks
  <2> HIDE DEF text
  <2>2. QED
    BY <1>1, <2>1, IsASeq, LenProperties
<1>3. HeadInFront(text)
  BY <1>2 DEF HeadInFront
<1>4. SubSeq(text, off + 1, off + 1) = <<"cut">>
  <2>1. text[off + 1] = "cut"
    BY <1>1
  <2> HIDE DEF text
  <2>2. /\ SubSeq(text, off + 1, off + 1) \in Seq(Entries \cup Marks)
        /\ Len(SubSeq(text, off + 1, off + 1)) = 1
        /\ SubSeq(text, off + 1, off + 1)[1] = "cut"
    BY <1>1, <1>2, <2>1
  <2>3. <<"cut">> \in Seq(Entries \cup Marks) /\ Len(<<"cut">>) = 1 /\ <<"cut">>[1] = "cut"
    BY DEF Marks
  <2>4. \A i \in 1 .. 1 : SubSeq(text, off + 1, off + 1)[i] = <<"cut">>[i]
    BY <2>2, <2>3
  <2>5. QED
    BY <2>2, <2>3, <2>4, SeqEqual
<1> HIDE DEF text
<1>5. off + 1 \in off + 1 .. Len(text) /\ Len(text) <= MaxLen + 1
  BY <1>1, <1>2
<1>6. /\ Overlay(cells, off, SubSeq(text, off + 1, off + 1)) \in Texts
      /\ HeadInFront(Overlay(cells, off, SubSeq(text, off + 1, off + 1)))
  BY <1>1, <1>2, <1>3, <1>5, OverlayFacts
<1>7. QED
  BY <1>4, <1>6

----------------------------------------------------------------------------
(* The inductive invariant *)

(* A save under way.                                                       *)
Save == [at : {"open", "write", "done"}, list : Lists, off : 0 .. MaxLen + 1,
         alone : BOOLEAN]

(* TypeOK, with what a head in a text means.                               *)
Types ==
  /\ file \in Files /\ phase \in {"up", "down", "refused"}
  /\ memory \in Lists
  /\ disk \in Texts \cup {None}
  /\ disk # None => HeadInFront(disk)
  /\ saves \in [Consoles -> {Idle} \cup Save]
  /\ saved \in Lists \cup {None}
  /\ saved # None => Len(TextIn(file, saved)) <= MaxLen + 1
  /\ damage \in {"none", "unconfirmed", "overlap", "failure", "crash"}

(* How far a save is in the text t that it writes, with cells on the disk. *)
Progress(s, t, cells) ==
  /\ Len(t) <= MaxLen + 1
  /\ s.at = "open" => s.off = 0
  /\ s.at = "write" => s.off < Len(t) /\ cells # None
  /\ s.at = "done" => s.off = Len(t) /\ cells # None

(* Each save is where its list and what it has written put it.             *)
SavesInProgress ==
  \A c \in Consoles : saves[c] # Idle =>
    Progress(saves[c], TextIn(file, saves[c].list), disk)

(* A save that is alone finds in the file what it has written so far. *)
AloneInFile ==
  \A c \in Consoles : saves[c] # Idle /\ saves[c].alone =>
    /\ \A d \in Consoles : saves[d] # Idle => d = c
    /\ saves[c].at # "open" => disk = SubSeq(TextIn(file, saves[c].list), 1, saves[c].off)

(* A process that is not up saves nothing; damage alone makes it refuse.   *)
OnlyWhenUp ==
  /\ phase # "up" => \A c \in Consoles : saves[c] = Idle
  /\ phase = "refused" => damage \in {"overlap", "failure", "crash"}

(* None of the saves under way has truncated the file, and nothing has     *)
(* damaged it.                                                             *)
Complete ==
  /\ damage \in {"none", "unconfirmed"}
  /\ \A c \in Consoles : saves[c] # Idle => saves[c].at = "open"

(* Such a file is what was last written to the end,                        *)
WholeFile == Complete => disk = IF saved = None THEN None ELSE TextIn(file, saved)

(* and the rules in memory are those of the file if that was confirmed.    *)
WholeMemory ==
  Complete /\ damage = "none" /\ file = "routing" /\ phase = "up" =>
    memory = IF saved = None THEN << >> ELSE saved

(* The inductive invariant.                                                *)
Inv ==
  /\ Types /\ SavesInProgress /\ AloneInFile /\ OnlyWhenUp /\ WholeFile /\ WholeMemory

(* The text of a list. *)
LEMMA TextOf == \A list : Text(list) = TextIn(file, list)
  BY DEF Text, TextIn

(* A save is not idle. *)
LEMMA IdleIsNoSave == Idle \notin Save /\ Idle.at = "idle" /\ \A s \in Save : s.at # "idle"
<1>1. Idle.at = "idle" /\ \A s \in Save : s.at # "idle"
  BY DEF Idle, Save
<1>2. QED
  BY <1>1

(* The empty list is a list. *)
LEMMA EmptyIsList == << >> \in Lists
<1>1. << >> \in Seq(Entries) /\ Len(<< >>) <= MaxLen + 1
  BY FilesAssumption, EmptySeq
<1>2. QED
  BY <1>1, ListsAre

(* Init => Inv. *)
LEMMA InitInv == Init => Inv
<1> SUFFICES ASSUME Init PROVE Inv
  OBVIOUS
<1>1. Types
  BY EmptyIsList DEF Init, Types
<1>2. \A c \in Consoles : saves[c] = Idle
  BY DEF Init
<1>3. QED
  BY <1>1, <1>2 DEF Init, Inv, SavesInProgress, AloneInFile, OnlyWhenUp, Complete, WholeFile,
     WholeMemory

(* A save under way, and what is known of it. *)
LEMMA SaveFacts ==
  ASSUME Inv, NEW c \in Consoles, saves[c].at \in {"open", "write", "done"}
  PROVE  /\ saves[c] \in Save /\ saves[c] # Idle
         /\ saves[c].list \in Seq(Entries) /\ saves[c].list \in Lists
         /\ Progress(saves[c], TextIn(file, saves[c].list), disk)
         /\ TextIn(file, saves[c].list) \in Seq(Entries \cup Marks)
         /\ Len(TextIn(file, saves[c].list)) \in Nat
         /\ HeadInFront(TextIn(file, saves[c].list))
<1>1. saves[c] \in {Idle} \cup Save
  BY DEF Inv, Types
<1>2. saves[c] \in Save /\ saves[c] # Idle
  BY <1>1, IdleIsNoSave
<1>3. saves[c].list \in Lists
  BY <1>2 DEF Save
<1>4. saves[c].list \in Seq(Entries)
  BY <1>3, ListsAre
<1>5. QED
  BY <1>2, <1>3, <1>4, TextFacts DEF Inv, SavesInProgress

(* A step that leaves the disk alone and, of the saves, changes c's only.  *)
LEMMA SavesKept ==
  ASSUME Inv, NEW c \in Consoles, UNCHANGED <<file, disk>>,
         saves' \in [Consoles -> {Idle} \cup Save],
         \A d \in Consoles : d # c => saves'[d] = saves[d],
         saves'[c] = Idle
  PROVE  SavesInProgress' /\ AloneInFile'
<1>1. SavesInProgress'
  BY DEF Inv, SavesInProgress
<1>2. AloneInFile'
  BY DEF Inv, AloneInFile
<1>3. QED
  BY <1>1, <1>2

(* An edit changes the memory of the backends. *)
LEMMA EditStep == Inv /\ Edit => Inv'
<1> SUFFICES ASSUME Inv, Edit PROVE Inv'
  OBVIOUS
<1>1. /\ memory \in Seq(Entries) /\ Len(memory) <= MaxLen + 1 /\ Len(memory) \in Nat
      /\ MaxLen \in Nat /\ DOMAIN memory = 1 .. Len(memory)
  BY ListsAre, LenProperties, FilesAssumption DEF Inv, Types
<1>2. memory' \in Lists
  <2>1. CASE Len(memory) < MaxLen /\ \E i \in Items : memory' = Append(memory, i)
    <3>1. PICK i \in Items : memory' = Append(memory, i)
      BY <2>1
    <3>2. memory' \in Seq(Entries) /\ Len(memory') = Len(memory) + 1
      BY <1>1, <3>1 DEF Entries
    <3>3. Len(memory') <= MaxLen + 1
      BY <1>1, <2>1, <3>2
    <3>4. QED
      BY <3>2, <3>3, ListsAre
  <2>2. CASE \E i \in Items, n \in DOMAIN memory : memory' = [memory EXCEPT ![n] = i]
    <3>1. PICK i \in Items, n \in DOMAIN memory : memory' = [memory EXCEPT ![n] = i]
      BY <2>2
    <3>2. i \in Entries
      BY DEF Entries
    <3>3. memory' \in Seq(Entries) /\ Len(memory') = Len(memory)
      BY <1>1, <3>1, <3>2, ExceptSeq
    <3>4. QED
      BY <1>1, <3>3, ListsAre
  <2>3. CASE \E n \in DOMAIN memory : memory' = RemoveAt(memory, n)
    <3>1. PICK n \in 1 .. Len(memory) : memory' = RemoveAt(memory, n)
      BY <1>1, <2>3
    <3> DEFINE a == SubSeq(memory, 1, n - 1)
               b == SubSeq(memory, n + 1, Len(memory))
    <3>2. \A i \in 1 .. Len(memory) : memory[i] \in Entries
      BY <1>1, ElementOfSeq
    <3>3. a \in Seq(Entries) /\ Len(a) = n - 1
      <4>1. n - 1 \in Int /\ 1 \in Int /\ \A i \in 1 .. n - 1 : memory[i] \in Entries
        BY <1>1, <3>2
      <4>2. a \in Seq(Entries) /\ Len(a) = IF 1 <= n - 1 THEN (n - 1) - 1 + 1 ELSE 0
        BY <4>1, SubSeqProperties
      <4>3. QED
        BY <4>2
    <3>4. b \in Seq(Entries) /\ Len(b) = Len(memory) - n
      <4>1. /\ n + 1 \in Int /\ Len(memory) \in Int
            /\ \A i \in n + 1 .. Len(memory) : memory[i] \in Entries
        BY <1>1, <3>2
      <4>2. /\ b \in Seq(Entries)
            /\ Len(b) = IF n + 1 <= Len(memory) THEN Len(memory) - (n + 1) + 1 ELSE 0
        BY <4>1, SubSeqProperties
      <4> DEFINE m == Len(memory)
      <4>3. n \in Int /\ m \in Int /\ n <= m
        BY <1>1
      <4> HIDE DEF b, m
      <4>4. (IF n + 1 <= m THEN m - (n + 1) + 1 ELSE 0) = m - n
        BY <4>3
      <4>5. QED
        BY <4>2, <4>4 DEF m
    <3>5. memory' = a \o b
      BY <3>1 DEF RemoveAt
    <3> HIDE DEF a, b
    <3>6. memory' \in Seq(Entries) /\ Len(memory') = Len(a) + Len(b)
      BY <3>3, <3>4, <3>5, ConcatProperties
    <3>7. Len(memory') <= MaxLen + 1
      BY <1>1, <3>3, <3>4, <3>6
    <3>8. QED
      BY <3>6, <3>7, ListsAre
  <2>4. QED
    BY <2>1, <2>2, <2>3 DEF Edit
<1>3. file = "backends" /\ UNCHANGED <<file, phase, disk, saves, saved, damage>>
  BY DEF Edit
<1>4. Types'
  BY <1>2, <1>3 DEF Inv, Types
<1>5. SavesInProgress' /\ AloneInFile' /\ OnlyWhenUp' /\ WholeFile' /\ WholeMemory'
  BY <1>3 DEF Inv, SavesInProgress, AloneInFile, OnlyWhenUp, Complete, WholeFile, WholeMemory
<1>6. QED
  BY <1>4, <1>5 DEF Inv

(* A save begins: nothing of it is in the file yet, and none is alone now  *)
(* that was not the first.                                                 *)
LEMMA BeginStep ==
  ASSUME Inv, NEW c \in Consoles, NEW list \in Lists, Len(TextIn(file, list)) <= MaxLen + 1,
         Begin(c, list)
  PROVE  Inv'
<1> DEFINE new == [at |-> "open", list |-> list, off |-> 0, alone |-> UnderWay = {}]
<1>1. /\ phase = "up" /\ saves[c] = Idle
      /\ UNCHANGED <<file, phase, memory, disk, saved, damage>>
  BY DEF Begin
<1>2. saves \in [Consoles -> {Idle} \cup Save]
  BY DEF Inv, Types
<1>3. new \in Save /\ new # Idle
  <2>1. 0 \in 0 .. MaxLen + 1
    BY FilesAssumption
  <2>2. new \in Save
    BY <2>1 DEF Save
  <2> HIDE DEF new
  <2>3. QED
    BY <2>2, IdleIsNoSave
<1>4. saves'[c] = new
  BY DEF Begin
<1>5. \A d \in Consoles : d # c /\ saves[d] = Idle => saves'[d] = Idle
  BY DEF Begin, UnderWay
<1>6. ASSUME NEW d \in Consoles, d # c, saves[d] # Idle
      PROVE  /\ saves'[d] \in Save /\ saves'[d] # Idle
             /\ saves'[d].at = saves[d].at /\ saves'[d].list = saves[d].list
             /\ saves'[d].off = saves[d].off /\ saves'[d].alone = FALSE
  <2>1. saves'[d] = [saves[d] EXCEPT !.alone = FALSE]
    BY <1>6 DEF Begin, UnderWay
  <2>2. saves[d] \in Save
    BY <1>2, <1>6
  <2>3. /\ saves'[d] \in Save
        /\ saves'[d].at = saves[d].at /\ saves'[d].list = saves[d].list
        /\ saves'[d].off = saves[d].off /\ saves'[d].alone = FALSE
    BY <2>1, <2>2 DEF Save
  <2>4. QED
    BY <2>3, IdleIsNoSave
<1>7. saves' \in [Consoles -> {Idle} \cup Save]
  <2>1. \A d \in Consoles : saves'[d] \in {Idle} \cup Save
    BY <1>3, <1>4, <1>5, <1>6
  <2>2. DOMAIN saves' = Consoles /\ saves' = [d \in Consoles |-> saves'[d]]
    BY DEF Begin
  <2>3. QED
    BY <2>1, <2>2
<1>8. new.at = "open" /\ new.list = list /\ new.off = 0 /\ new.alone = (UnderWay = {})
  OBVIOUS
<1> HIDE DEF new
<1>9. Types'
  BY <1>1, <1>7 DEF Inv, Types
<1>10. SavesInProgress'
  <2> SUFFICES ASSUME NEW d \in Consoles, saves'[d] # Idle
               PROVE  Progress(saves'[d], TextIn(file, saves'[d].list), disk)
    BY <1>1 DEF SavesInProgress
  <2>1. CASE d = c
    BY <1>4, <1>8, <2>1 DEF Progress
  <2>2. CASE d # c
    BY <1>5, <1>6, <2>2 DEF Inv, SavesInProgress, Progress
  <2>3. QED
    BY <2>1, <2>2
<1>11. AloneInFile'
  <2> SUFFICES ASSUME NEW d \in Consoles, saves'[d] # Idle, saves'[d].alone
               PROVE  /\ \A e \in Consoles : saves'[e] # Idle => e = d
                      /\ saves'[d].at = "open"
    BY DEF AloneInFile
  <2>1. d = c
    BY <1>5, <1>6
  <2>2. \A e \in Consoles : saves[e] = Idle
    BY <1>4, <1>8, <2>1 DEF UnderWay
  <2>3. QED
    BY <1>4, <1>5, <1>8, <2>1, <2>2
<1>12. Complete' => Complete
  BY <1>1, <1>5, <1>6 DEF Complete
<1>13. OnlyWhenUp' /\ WholeFile' /\ WholeMemory'
  BY <1>1, <1>12 DEF Inv, OnlyWhenUp, WholeFile, WholeMemory
<1>14. QED
  BY <1>9, <1>10, <1>11, <1>13 DEF Inv

(* config_save writes the list in memory, update_routing the one it got. *)
LEMMA ConfigSaveStep == ASSUME Inv, NEW c \in Consoles, ConfigSave(c) PROVE Inv'
<1>1. memory \in Lists /\ memory \in Seq(Entries) /\ Len(memory) <= MaxLen + 1
  BY ListsAre DEF Inv, Types
<1>2. /\ TextIn("backends", memory) \in Seq(Entries \cup Marks)
      /\ Len(TextIn("backends", memory)) \in Nat
      /\ Len(TextIn("backends", memory)) <= Len(memory) + 1
      /\ Len(TextIn("backends", memory)) <= Len(memory) \/ memory = << >>
  BY <1>1, TextFacts
<1>3. Len(TextIn("backends", memory)) <= MaxLen + 1
  <2>1. CASE memory = << >>
    <3>1. Len(memory) = 0
      BY <2>1
    <3>2. QED
      BY <1>2, <3>1, FilesAssumption
  <2>2. CASE Len(TextIn("backends", memory)) <= Len(memory)
    <3>1. Len(memory) \in Nat
      BY <1>1, LenProperties
    <3>2. QED
      BY <1>1, <1>2, <2>2, <3>1, FilesAssumption
  <2>3. QED
    BY <1>2, <2>1, <2>2
<1>4. file = "backends" /\ Begin(c, memory)
  BY DEF ConfigSave
<1>5. QED
  BY <1>1, <1>3, <1>4, BeginStep

(* A save of the rules begins.                                             *)
LEMMA UpdateRoutingStep == ASSUME Inv, NEW c \in Consoles, UpdateRouting(c) PROVE Inv'
<1>1. PICK n \in 0 .. MaxLen : \E list \in [1 .. n -> Items] : Begin(c, list)
  BY DEF UpdateRouting
<1>2. PICK list \in [1 .. n -> Items] : Begin(c, list)
  BY <1>1
<1>3. list \in Seq(Entries) /\ Len(list) = n
  <2>1. list \in [1 .. n -> Entries]
    BY DEF Entries
  <2>2. n \in Nat
    OBVIOUS
  <2>3. QED
    BY <2>1, <2>2, IsASeq, LenProperties
<1>4. Len(TextIn(file, list)) \in Nat /\ Len(TextIn(file, list)) <= Len(list) + 1
  BY <1>3, TextFacts
<1>5. MaxLen \in Nat
  BY FilesAssumption
<1>6. Len(list) <= MaxLen + 1 /\ Len(TextIn(file, list)) <= MaxLen + 1
  BY <1>3, <1>4, <1>5
<1>7. list \in Lists
  BY <1>3, <1>6, ListsAre
<1>8. QED
  BY <1>2, <1>6, <1>7, BeginStep

(* The file is opened: now it is empty. *)
LEMMA OpenStep == ASSUME Inv, NEW c \in Consoles, Open(c) PROVE Inv'
<1> DEFINE s == saves[c]
           t == TextIn(file, s.list)
<1>1. /\ s.at = "open" /\ disk' = << >> /\ saves' = [saves EXCEPT ![c].at = "write"]
      /\ UNCHANGED <<file, phase, memory, saved, damage>>
  BY DEF Open, Truncated
<1>2. /\ s \in Save /\ s # Idle /\ s.list \in Seq(Entries)
      /\ Progress(s, t, disk)
  BY <1>1, SaveFacts
<1>3. saves \in [Consoles -> {Idle} \cup Save]
  BY DEF Inv, Types
<1>4. /\ saves'[c] \in Save /\ saves'[c].at = "write" /\ saves'[c].list = s.list
      /\ saves'[c].off = s.off /\ saves'[c].alone = s.alone
  BY <1>1, <1>2, <1>3 DEF Save
<1>5. \A d \in Consoles : d # c => saves'[d] = saves[d]
  BY <1>1, <1>3
<1>6. saves' \in [Consoles -> {Idle} \cup Save]
  <2>1. \A d \in Consoles : saves'[d] \in {Idle} \cup Save
    BY <1>3, <1>4, <1>5
  <2>2. saves' = [d \in Consoles |-> saves'[d]]
    BY <1>1, <1>3
  <2>3. QED
    BY <2>1, <2>2
<1>7. << >> \in Texts /\ << >> # None /\ HeadInFront(<< >>)
  <2>1. << >> \in Seq(Entries \cup Marks) /\ Len(<< >>) <= MaxLen + 1
    BY FilesAssumption, EmptySeq
  <2>2. << >> \in Texts
    BY <2>1, ListsAre
  <2>3. QED
    BY <2>2, NoneIsNoList DEF HeadInFront
<1> HIDE DEF s
<1>8. Types'
  BY <1>1, <1>6, <1>7 DEF Inv, Types
<1>9. Len(t) \in Nat /\ Len(t) > 0 /\ t \in Seq(Entries \cup Marks)
  BY <1>2, TextFacts
<1>10. saves'[c] # Idle
  BY <1>4, IdleIsNoSave
<1>11. SavesInProgress'
  <2> SUFFICES ASSUME NEW d \in Consoles, saves'[d] # Idle
               PROVE  Progress(saves'[d], TextIn(file, saves'[d].list), disk')
    BY <1>1 DEF SavesInProgress
  <2>1. CASE d = c
    BY <1>1, <1>2, <1>4, <1>7, <1>9, <2>1 DEF Progress
  <2>2. CASE d # c
    BY <1>1, <1>5, <1>7, <2>2 DEF Inv, SavesInProgress, Progress
  <2>3. QED
    BY <2>1, <2>2
<1>12. AloneInFile'
  <2> SUFFICES ASSUME NEW d \in Consoles, saves'[d] # Idle, saves'[d].alone
               PROVE  /\ \A e \in Consoles : saves'[e] # Idle => e = d
                      /\ disk' = SubSeq(TextIn(file, saves'[d].list), 1, saves'[d].off)
    BY <1>1 DEF AloneInFile
  <2>1. \A e \in Consoles : saves[e] # Idle => e = d
    BY <1>2, <1>4, <1>5 DEF Inv, AloneInFile, s
  <2>2. d = c
    BY <1>2, <2>1 DEF s
  <2>3. saves'[d].off = 0 /\ TextIn(file, saves'[d].list) = t
    BY <1>1, <1>2, <1>4, <2>2 DEF Progress
  <2>4. SubSeq(t, 1, 0) = << >>
    BY <1>9, SubSeqEmpty
  <2>5. QED
    BY <1>1, <1>5, <2>1, <2>2, <2>3, <2>4
<1>13. ~ Complete'
  BY <1>4, <1>10 DEF Complete
<1>14. OnlyWhenUp' /\ WholeFile' /\ WholeMemory'
  BY <1>1, <1>2, <1>13 DEF Inv, OnlyWhenUp, WholeFile, WholeMemory, s
<1>15. QED
  BY <1>8, <1>11, <1>12, <1>14 DEF Inv

(* The file cannot be opened. *)
LEMMA OpenFailsStep == ASSUME Inv, NEW c \in Consoles, OpenFails(c) PROVE Inv'
<1>1. /\ saves[c].at = "open" /\ saves' = [saves EXCEPT ![c] = Idle]
      /\ UNCHANGED <<file, phase, memory, disk, saved, damage>>
  BY DEF OpenFails
<1>2. saves \in [Consoles -> {Idle} \cup Save]
  BY DEF Inv, Types
<1>3. /\ saves' \in [Consoles -> {Idle} \cup Save]
      /\ saves'[c] = Idle
      /\ \A d \in Consoles : d # c => saves'[d] = saves[d]
  BY <1>1, <1>2
<1>4. Types'
  BY <1>1, <1>3 DEF Inv, Types
<1>5. SavesInProgress' /\ AloneInFile'
  BY <1>1, <1>3, SavesKept
<1>6. Complete' => Complete
  BY <1>1, <1>3 DEF Complete
<1>7. OnlyWhenUp' /\ WholeFile' /\ WholeMemory'
  BY <1>1, <1>3, <1>6 DEF Inv, OnlyWhenUp, WholeFile, WholeMemory
<1>8. QED
  BY <1>4, <1>5, <1>7 DEF Inv

(* More of the text is written. *)
LEMMA WriteStep == ASSUME Inv, NEW c \in Consoles, Write(c) PROVE Inv'
<1> DEFINE s == saves[c]
           t == TextIn(file, s.list)
<1>1. s.at = "write" /\ UNCHANGED <<file, phase, memory, saved, damage>>
  BY DEF Write
<1>2. PICK end \in s.off + 1 .. Len(t) :
        /\ disk' = Overlay(disk, s.off, SubSeq(t, s.off + 1, end))
        /\ saves' = [saves EXCEPT ![c].off = end,
                                  ![c].at = IF end = Len(t) THEN "done" ELSE "write"]
  BY TextOf DEF Write
<1>3. /\ s \in Save /\ s # Idle /\ Progress(s, t, disk)
      /\ t \in Seq(Entries \cup Marks) /\ Len(t) \in Nat /\ HeadInFront(t)
  BY <1>1, SaveFacts
<1>4. /\ s.off \in Nat /\ end \in Nat /\ end <= Len(t) /\ Len(t) <= MaxLen + 1 /\ MaxLen \in Nat
      /\ end \in 0 .. MaxLen + 1
  BY <1>3, FilesAssumption DEF Save, Progress
<1>5. saves \in [Consoles -> {Idle} \cup Save]
  BY DEF Inv, Types
<1>6. /\ saves'[c] \in Save /\ saves'[c].at = (IF end = Len(t) THEN "done" ELSE "write")
      /\ saves'[c].list = s.list /\ saves'[c].off = end /\ saves'[c].alone = s.alone
  <2>1. saves'[c] = [s EXCEPT !.off = end, !.at = IF end = Len(t) THEN "done" ELSE "write"]
    BY <1>2, <1>5
  <2>2. QED
    BY <1>3, <1>4, <2>1 DEF Save
<1>7. \A d \in Consoles : d # c => saves'[d] = saves[d]
  BY <1>2, <1>5
<1>8. saves' \in [Consoles -> {Idle} \cup Save]
  <2>1. \A d \in Consoles : saves'[d] \in {Idle} \cup Save
    BY <1>5, <1>6, <1>7
  <2>2. saves' = [d \in Consoles |-> saves'[d]]
    BY <1>2, <1>5
  <2>3. QED
    BY <2>1, <2>2
<1>9. disk \in Texts /\ HeadInFront(disk)
  BY <1>1, <1>3 DEF Inv, Types, Progress
<1> HIDE DEF s, t
<1>10. /\ disk' \in Texts /\ HeadInFront(disk')
       /\ disk = SubSeq(t, 1, s.off) => disk' = SubSeq(t, 1, end)
  BY <1>2, <1>3, <1>4, <1>9, OverlayFacts
<1>11. disk' # None
  BY <1>10, NoneIsNoList
<1>12. Types'
  BY <1>1, <1>8, <1>10 DEF Inv, Types
<1>13. saves'[c] # Idle
  BY <1>6, IdleIsNoSave
<1>14. SavesInProgress'
  <2> SUFFICES ASSUME NEW d \in Consoles, saves'[d] # Idle
               PROVE  Progress(saves'[d], TextIn(file, saves'[d].list), disk')
    BY <1>1 DEF SavesInProgress
  <2>1. CASE d = c
    <3>1. TextIn(file, saves'[d].list) = t
      BY <1>6, <2>1 DEF t
    <3>2. end < Len(t) \/ end = Len(t)
      BY <1>4
    <3>3. QED
      BY <1>4, <1>6, <1>11, <2>1, <3>1, <3>2 DEF Progress
  <2>2. CASE d # c
    BY <1>7, <1>11, <2>2 DEF Inv, SavesInProgress, Progress
  <2>3. QED
    BY <2>1, <2>2
<1>15. AloneInFile'
  <2> SUFFICES ASSUME NEW d \in Consoles, saves'[d] # Idle, saves'[d].alone
               PROVE  /\ \A e \in Consoles : saves'[e] # Idle => e = d
                      /\ disk' = SubSeq(TextIn(file, saves'[d].list), 1, saves'[d].off)
    BY <1>1 DEF AloneInFile
  <2>1. saves[d] # Idle /\ saves[d].alone
    BY <1>3, <1>6, <1>7 DEF s
  <2>2. \A e \in Consoles : saves[e] # Idle => e = d
    BY <2>1 DEF Inv, AloneInFile
  <2>3. d = c
    BY <1>3, <2>2 DEF s
  <2>4. disk = SubSeq(t, 1, s.off)
    BY <1>1, <2>1, <2>3 DEF Inv, AloneInFile, s, t
  <2>5. TextIn(file, saves'[d].list) = t /\ saves'[d].off = end
    BY <1>6, <2>3 DEF t
  <2>6. QED
    BY <1>7, <1>10, <2>2, <2>3, <2>4, <2>5
<1>16. ~ Complete'
  BY <1>6, <1>13 DEF Complete
<1>17. OnlyWhenUp' /\ WholeFile' /\ WholeMemory'
  BY <1>1, <1>3, <1>16 DEF Inv, OnlyWhenUp, WholeFile, WholeMemory, s
<1>18. QED
  BY <1>12, <1>14, <1>15, <1>17 DEF Inv

(* A write fails: of what is in the file then, the history tells.          *)
LEMMA WriteFailsStep == ASSUME Inv, NEW c \in Consoles, WriteFails(c) PROVE Inv'
<1> DEFINE s == saves[c]
<1>1. /\ s.at = "write" /\ saves' = [saves EXCEPT ![c] = Idle]
      /\ damage' \in {"failure", "overlap"}
      /\ UNCHANGED <<file, phase, memory, saved>>
      /\ disk' = disk \/ disk' = Overlay(disk, s.off, <<"cut">>)
  BY DEF WriteFails
<1>2. /\ s \in Save /\ s # Idle /\ Progress(s, TextIn(file, s.list), disk)
      /\ Len(TextIn(file, s.list)) \in Nat
  BY <1>1, SaveFacts
<1>3. saves \in [Consoles -> {Idle} \cup Save]
  BY DEF Inv, Types
<1>4. disk \in Texts /\ HeadInFront(disk) /\ disk # None
  BY <1>1, <1>2 DEF Inv, Types, Progress
<1>5. s.off \in 0 .. MaxLen
  <2>1. s.off \in Nat /\ s.off < Len(TextIn(file, s.list)) /\ Len(TextIn(file, s.list)) <= MaxLen + 1
    BY <1>1, <1>2 DEF Save, Progress
  <2>2. MaxLen \in Nat
    BY FilesAssumption
  <2>3. QED
    BY <1>2, <2>1, <2>2
<1>6. disk' \in Texts /\ HeadInFront(disk') /\ disk' # None
  BY <1>1, <1>4, <1>5, CutFacts, NoneIsNoList
<1>7. /\ saves' \in [Consoles -> {Idle} \cup Save]
      /\ saves'[c] = Idle
      /\ \A d \in Consoles : d # c => saves'[d] = saves[d]
  BY <1>1, <1>3
<1>8. Types'
  BY <1>1, <1>6, <1>7 DEF Inv, Types
<1>9. SavesInProgress'
  <2> SUFFICES ASSUME NEW d \in Consoles, saves'[d] # Idle
               PROVE  Progress(saves'[d], TextIn(file, saves'[d].list), disk')
    BY <1>1 DEF SavesInProgress
  <2>1. saves'[d] = saves[d]
    BY <1>7
  <2>2. QED
    BY <1>6, <2>1 DEF Inv, SavesInProgress, Progress
<1>10. AloneInFile'
  <2> SUFFICES ASSUME NEW d \in Consoles, saves'[d] # Idle, saves'[d].alone PROVE FALSE
    BY DEF AloneInFile
  <2>1. d # c /\ saves'[d] = saves[d]
    BY <1>7
  <2>2. QED
    BY <1>2, <2>1 DEF Inv, AloneInFile
<1>11. OnlyWhenUp' /\ WholeFile' /\ WholeMemory'
  BY <1>1, <1>2, <1>7 DEF Inv, OnlyWhenUp, Complete, WholeFile, WholeMemory
<1>12. QED
  BY <1>8, <1>9, <1>10, <1>11 DEF Inv

(* A save that is alone and has come to its end has its text in the file. *)
LEMMA WrittenAlone ==
  ASSUME Inv, NEW c \in Consoles, saves[c].at = "done", saves[c].alone
  PROVE  /\ disk = TextIn(file, saves[c].list)
         /\ \A d \in Consoles : saves[d] # Idle => d = c
<1> DEFINE s == saves[c]
           t == TextIn(file, s.list)
<1>1. s # Idle /\ Progress(s, t, disk) /\ t \in Seq(Entries \cup Marks)
  BY SaveFacts
<1>2. disk = SubSeq(t, 1, s.off) /\ \A d \in Consoles : saves[d] # Idle => d = c
  BY <1>1 DEF Inv, AloneInFile
<1>3. s.off = Len(t)
  BY <1>1 DEF Progress
<1>4. SubSeq(t, 1, Len(t)) = t
  BY <1>1, SubSeqFull
<1>5. QED
  BY <1>2, <1>3, <1>4

(* A save is over: alone, it leaves its text in the file. *)
LEMMA DoneStep == ASSUME Inv, NEW c \in Consoles, Done(c) PROVE Inv'
<1> DEFINE s == saves[c]
           t == TextIn(file, s.list)
<1>1. /\ s.at = "done" /\ saves' = [saves EXCEPT ![c] = Idle]
      /\ memory' = (IF file = "routing" THEN s.list ELSE memory)
      /\ saved' = s.list
      /\ damage' = (IF s.alone THEN "none" ELSE "overlap")
      /\ UNCHANGED <<file, phase, disk>>
  BY DEF Done, Memory
<1>2. /\ s \in Save /\ s # Idle /\ s.list \in Lists /\ Progress(s, t, disk)
      /\ t \in Seq(Entries \cup Marks)
  BY <1>1, SaveFacts
<1>3. saves \in [Consoles -> {Idle} \cup Save]
  BY DEF Inv, Types
<1>4. /\ saves' \in [Consoles -> {Idle} \cup Save]
      /\ saves'[c] = Idle
      /\ \A d \in Consoles : d # c => saves'[d] = saves[d]
  BY <1>1, <1>3
<1>5. s.alone => disk = t /\ \A d \in Consoles : saves'[d] = Idle
  BY <1>1, <1>4, WrittenAlone
<1>6. s.list # None
  BY <1>2, NoneIsNoList
<1> HIDE DEF s
<1>7. Types'
  <2>1. Len(t) <= MaxLen + 1
    BY <1>2 DEF Progress
  <2>2. QED
    BY <1>1, <1>2, <1>4, <2>1 DEF Inv, Types
<1>8. SavesInProgress' /\ AloneInFile'
  BY <1>1, <1>4, SavesKept
<1>9. OnlyWhenUp'
  BY <1>1, <1>2, <1>4 DEF Inv, OnlyWhenUp, s
<1>10. WholeFile' /\ WholeMemory'
  BY <1>1, <1>5, <1>6 DEF Complete, WholeFile, WholeMemory
<1>11. QED
  BY <1>7, <1>8, <1>9, <1>10 DEF Inv

(* The client of a save leaves: its text, if it is alone, is in the file. *)
LEMMA DroppedStep == ASSUME Inv, NEW c \in Consoles, Dropped(c) PROVE Inv'
<1> DEFINE s == saves[c]
           t == TextIn(file, s.list)
<1>1. /\ s.at = "done" /\ saves' = [saves EXCEPT ![c] = Idle]
      /\ saved' = s.list
      /\ damage' = (IF s.alone THEN "unconfirmed" ELSE "overlap")
      /\ UNCHANGED <<file, phase, memory, disk>>
  BY DEF Dropped
<1>2. /\ s \in Save /\ s # Idle /\ s.list \in Lists /\ Progress(s, t, disk)
      /\ t \in Seq(Entries \cup Marks)
  BY <1>1, SaveFacts
<1>3. saves \in [Consoles -> {Idle} \cup Save]
  BY DEF Inv, Types
<1>4. /\ saves' \in [Consoles -> {Idle} \cup Save]
      /\ saves'[c] = Idle
      /\ \A d \in Consoles : d # c => saves'[d] = saves[d]
  BY <1>1, <1>3
<1>5. s.alone => disk = t
  BY <1>1, <1>2, WrittenAlone
<1>6. s.list # None
  BY <1>2, NoneIsNoList
<1> HIDE DEF s
<1>7. Types'
  <2>1. Len(t) <= MaxLen + 1
    BY <1>2 DEF Progress
  <2>2. QED
    BY <1>1, <1>2, <1>4, <2>1 DEF Inv, Types
<1>8. SavesInProgress' /\ AloneInFile'
  BY <1>1, <1>4, SavesKept
<1>9. OnlyWhenUp'
  BY <1>1, <1>2, <1>4 DEF Inv, OnlyWhenUp, s
<1>10. WholeFile' /\ WholeMemory'
  BY <1>1, <1>5, <1>6 DEF Complete, WholeFile, WholeMemory
<1>11. QED
  BY <1>7, <1>8, <1>9, <1>10 DEF Inv

(* The process ends. *)
LEMMA CrashStep == Inv /\ Crash => Inv'
<1> SUFFICES ASSUME Inv, Crash PROVE Inv'
  OBVIOUS
<1>1. /\ phase' = "down" /\ memory' = << >> /\ saves' = [c \in Consoles |-> Idle]
      /\ damage' = (IF UnderWay = {} THEN damage ELSE "crash")
      /\ UNCHANGED <<file, disk, saved>>
  BY DEF Crash
<1>2. \A c \in Consoles : saves'[c] = Idle
  BY <1>1
<1>3. Types'
  <2>1. saves' \in [Consoles -> {Idle} \cup Save]
    BY <1>1
  <2>2. QED
    BY <1>1, <2>1, EmptyIsList DEF Inv, Types
<1>4. Complete' => Complete
  BY <1>1 DEF Complete, UnderWay
<1>5. SavesInProgress' /\ AloneInFile' /\ OnlyWhenUp' /\ WholeFile' /\ WholeMemory'
  BY <1>1, <1>2, <1>4 DEF Inv, SavesInProgress, AloneInFile, OnlyWhenUp, WholeFile,
     WholeMemory
<1>6. QED
  BY <1>3, <1>5 DEF Inv

(* What a start finds if nothing has damaged the file and nothing is under *)
(* way: what was saved last.                                               *)
LEMMA LoadFacts ==
  ASSUME Inv, Complete
  PROVE  /\ LoadRouting = {IF saved = None THEN << >> ELSE saved}
         /\ file = "backends" => None \notin LoadBackends
         /\ file = "backends" /\ saved # None => LoadBackends = {saved}
<1>1. saved \in Lists \cup {None} /\ disk = IF saved = None THEN None ELSE TextIn(file, saved)
  BY DEF Inv, Types, WholeFile
<1>2. CASE saved = None
  <2>1. disk = None
    BY <1>1, <1>2
  <2>2. <<Example>> \in Lists
    <3>1. <<Example>> \in Seq(Entries) /\ Len(<<Example>>) = 1
      BY DEF Entries
    <3>2. Len(<<Example>>) <= MaxLen + 1
      BY <3>1, FilesAssumption
    <3>3. QED
      BY <3>1, <3>2, ListsAre
  <2>3. <<Example>> # None
    BY <2>2, NoneIsNoList
  <2>4. QED
    BY <1>2, <2>1, <2>3 DEF LoadRouting, LoadBackends
<1>3. CASE saved # None
  <2> DEFINE t == TextIn(file, saved)
  <2>1. saved \in Lists /\ saved \in Seq(Entries)
    BY <1>1, <1>3, ListsAre
  <2>2. Parsed(t) = {saved}
    BY <2>1, ParsedText
  <2>3. t \in Seq(Entries \cup Marks) /\ Len(t) \in Nat /\ Len(t) > 0
    BY <2>1, TextFacts
  <2>4. disk = t /\ disk \in Texts \cup {None}
    BY <1>1, <1>3 DEF Inv, Types
  <2> HIDE DEF t
  <2>5. t # << >>
    BY <2>3
  <2>6. t # None
    <3>1. Len(t) <= MaxLen + 1
      BY <1>3 DEF Inv, Types, t
    <3>2. QED
      BY <2>3, <3>1, ListsAre, NoneIsNoList
  <2>7. Parsed(disk) = {saved} /\ disk # None /\ disk # << >>
    BY <2>2, <2>4, <2>5, <2>6 DEF t
  <2>8. LoadRouting = {saved}
    BY <1>3, <2>7 DEF LoadRouting
  <2>9. LoadBackends = {saved}
    BY <2>7 DEF LoadBackends
  <2>10. QED
    BY <1>3, <2>8, <2>9
<1>4. QED
  BY <1>2, <1>3

(* A start that succeeds has some list in memory. *)
LEMMA LoadIsList ==
  ASSUME Inv, NEW list \in IF file = "backends" THEN LoadBackends ELSE LoadRouting
  PROVE  list \in Lists \cup {None}
<1>1. disk \in Texts \cup {None} /\ (disk # None => HeadInFront(disk))
  BY DEF Inv, Types
<1>2. <<Example>> \in Lists
  <2>1. <<Example>> \in Seq(Entries) /\ Len(<<Example>>) = 1
    BY DEF Entries
  <2>2. Len(<<Example>>) <= MaxLen + 1
    BY <2>1, FilesAssumption
  <2>3. QED
    BY <2>1, <2>2, ListsAre
<1>3. disk # None => \A x \in Parsed(disk) : x \in Lists \cup {None}
  BY <1>1, ParsedIsList
<1>4. QED
  BY <1>2, <1>3, EmptyIsList DEF LoadBackends, LoadRouting

(* The server starts, or refuses to. *)
LEMMA StartStep == Inv /\ Start => Inv'
<1> SUFFICES ASSUME Inv, Start PROVE Inv'
  OBVIOUS
<1>1. phase = "down" /\ UNCHANGED <<file, disk, saves, saved, damage>>
  BY DEF Start
<1>2. PICK list \in IF file = "backends" THEN LoadBackends ELSE LoadRouting :
        IF list = None THEN phase' = "refused" /\ UNCHANGED memory
        ELSE phase' = "up" /\ memory' = list
  BY DEF Start
<1>3. list \in Lists \cup {None}
  BY LoadIsList
<1>4. \A c \in Consoles : saves[c] = Idle
  BY <1>1 DEF Inv, OnlyWhenUp
<1>5. Types'
  BY <1>1, <1>2, <1>3 DEF Inv, Types
<1>6. SavesInProgress' /\ AloneInFile' /\ WholeFile'
  BY <1>1, <1>4 DEF Inv, SavesInProgress, AloneInFile, Complete, WholeFile
<1>7. (damage \in {"none", "unconfirmed"} => Complete) /\ (Complete' => Complete)
  BY <1>1, <1>4 DEF Complete
<1>8. OnlyWhenUp'
  <2>1. SUFFICES ASSUME list = None, damage \in {"none", "unconfirmed"} PROVE FALSE
    BY <1>1, <1>2, <1>4 DEF OnlyWhenUp, Inv, Types
  <2>2. file = "backends" => None \notin LoadBackends
    BY <1>7, <2>1, LoadFacts
  <2>3. None \notin LoadRouting
    <3>1. (IF saved = None THEN << >> ELSE saved) # None
      BY EmptyIsList, NoneIsNoList
    <3>2. QED
      BY <1>7, <2>1, <3>1, LoadFacts
  <2>4. QED
    BY <2>1, <2>2, <2>3
<1>9. WholeMemory'
  <2> SUFFICES ASSUME Complete, file = "routing", phase' = "up"
               PROVE  memory' = IF saved = None THEN << >> ELSE saved
    BY <1>1, <1>7 DEF WholeMemory
  <2>1. list \in LoadRouting /\ memory' = list
    BY <1>2
  <2>2. QED
    BY <2>1, LoadFacts
<1>10. QED
  BY <1>5, <1>6, <1>8, <1>9 DEF Inv

(* The operator moves the file away. *)
LEMMA RepairStep == Inv /\ Repair => Inv'
<1> SUFFICES ASSUME Inv, Repair PROVE Inv'
  OBVIOUS
<1>1. /\ phase = "refused" /\ phase' = "down"
      /\ disk' = None /\ saved' = None /\ damage' = "none"
      /\ UNCHANGED <<file, memory, saves>>
  BY DEF Repair
<1>2. \A c \in Consoles : saves[c] = Idle
  BY <1>1 DEF Inv, OnlyWhenUp
<1>3. Types'
  BY <1>1 DEF Inv, Types
<1>4. SavesInProgress' /\ AloneInFile' /\ OnlyWhenUp' /\ WholeFile' /\ WholeMemory'
  BY <1>1, <1>2 DEF SavesInProgress, AloneInFile, OnlyWhenUp, WholeFile, WholeMemory
<1>5. QED
  BY <1>3, <1>4 DEF Inv

(* Inv /\ [Next]_vars => Inv'. *)
LEMMA NextInv == Inv /\ [Next]_vars => Inv'
<1> SUFFICES ASSUME Inv, [Next]_vars PROVE Inv'
  OBVIOUS
<1>1. CASE UNCHANGED vars
  BY <1>1 DEF vars, Inv, Types, SavesInProgress, AloneInFile, OnlyWhenUp, Complete, WholeFile,
     WholeMemory
<1>2. CASE Edit
  BY <1>2, EditStep
<1>3. ASSUME NEW c \in Consoles, ConfigSave(c) PROVE Inv'
  BY <1>3, ConfigSaveStep
<1>4. ASSUME NEW c \in Consoles, UpdateRouting(c) PROVE Inv'
  BY <1>4, UpdateRoutingStep
<1>5. ASSUME NEW c \in Consoles, Open(c) PROVE Inv'
  BY <1>5, OpenStep
<1>6. ASSUME NEW c \in Consoles, OpenFails(c) PROVE Inv'
  BY <1>6, OpenFailsStep
<1>7. ASSUME NEW c \in Consoles, Write(c) PROVE Inv'
  BY <1>7, WriteStep
<1>8. ASSUME NEW c \in Consoles, WriteFails(c) PROVE Inv'
  BY <1>8, WriteFailsStep
<1>9. ASSUME NEW c \in Consoles, Done(c) PROVE Inv'
  BY <1>9, DoneStep
<1>10. ASSUME NEW c \in Consoles, Dropped(c) PROVE Inv'
  BY <1>10, DroppedStep
<1>11. CASE Crash
  BY <1>11, CrashStep
<1>12. CASE Start
  BY <1>12, StartStep
<1>13. CASE Repair
  BY <1>13, RepairStep
<1>14. QED
  BY <1>1, <1>2, <1>3, <1>4, <1>5, <1>6, <1>7, <1>8, <1>9, <1>10, <1>11, <1>12, <1>13 DEF Next

(* The inductive invariant holds in every state of the configuration files *)
(* and the memory that goes with them.                                     *)
THEOREM InvHolds == Spec => []Inv
<1>1. Init => Inv
  BY InitInv
<1>2. Inv /\ [Next]_vars => Inv'
  BY NextInv
<1>3. QED
  BY <1>1, <1>2, PTL DEF Spec

----------------------------------------------------------------------------
(* What it implies *)

(* TypeOK: a file never grows beyond the longest text, whatever parts of   *)
(* whatever texts overlapping, failing and repeated saves write over each  *)
(* other in it, and whatever is read from that is a list.                  *)
THEOREM TypeCorrect == Spec => []TypeOK
<1>1. Inv => TypeOK
  <2> SUFFICES ASSUME Inv PROVE TypeOK
    OBVIOUS
  <2>1. \A c \in Consoles : saves[c] = Idle \/ saves[c] \in Save
    BY DEF Inv, Types
  <2>2. QED
    BY <2>1 DEF Inv, Types, TypeOK, Save
<1>2. QED
  BY <1>1, InvHolds, PTL

(* No save is under way. *)
LEMMA WholeIsComplete == (Inv /\ Whole => Complete) /\ (Untouched => Whole /\ damage = "none")
  BY DEF Untouched, Whole, UnderWay, Complete

(* FileIsLastSaved: unless saves overlapped or one was cut short, the file *)
(* is the text of the last save that wrote all of it, and nothing else.    *)
THEOREM FileHoldsLastSaved == Spec => []FileIsLastSaved
<1>1. Inv => FileIsLastSaved
  BY WholeIsComplete, TextOf DEF Inv, WholeFile, FileIsLastSaved
<1>2. QED
  BY <1>1, InvHolds, PTL

(* RoutingKept: unless a save was cut short, overlapped another, or was    *)
(* left by its client before it set the rules, a restart would load        *)
(* exactly the rules in use.                                               *)
THEOREM RestartKeepsRouting == Spec => []RoutingKept
<1>1. Inv => RoutingKept
  <2> SUFFICES ASSUME Inv, file = "routing", phase = "up", Untouched
               PROVE  LoadRouting = {memory}
    BY DEF RoutingKept
  <2>1. Complete /\ damage = "none"
    BY WholeIsComplete
  <2>2. QED
    BY <2>1, LoadFacts DEF Inv, WholeMemory
<1>2. QED
  BY <1>1, InvHolds, PTL

(* RefusedOnlyIfDamaged: the server never refuses to start over a file it  *)
(* wrote to the end, alone.                                                *)
THEOREM RefusesOnlyDamage == Spec => []RefusedOnlyIfDamaged
<1>1. Inv => RefusedOnlyIfDamaged
  BY DEF Inv, OnlyWhenUp, RefusedOnlyIfDamaged
<1>2. QED
  BY <1>1, InvHolds, PTL

(* SavedSurvives: a start after any crash has in memory what was written   *)
(* to the end last, confirmed or not.                                      *)
THEOREM WrittenSurvives == Spec => SavedSurvives
<1> DEFINE Back == phase = "down" /\ phase' = "up" /\ Whole /\ saved # None => memory' = saved
<1>1. Inv /\ [Next]_vars => [Back]_vars
  <2> SUFFICES ASSUME Inv, Next, phase = "down", phase' = "up", Whole, saved # None
               PROVE  memory' = saved
    OBVIOUS
  <2>1. Start
    BY DEF Next, Edit, ConfigSave, UpdateRouting, Begin, Open, OpenFails, Write, WriteFails,
       Done, Dropped, Crash, Repair
  <2>2. PICK list \in IF file = "backends" THEN LoadBackends ELSE LoadRouting :
          phase' = "up" => memory' = list
    BY <2>1 DEF Start
  <2>3. Complete
    BY WholeIsComplete
  <2>4. file \in {"backends", "routing"}
    BY DEF Inv, Types, Files
  <2>5. QED
    BY <2>2, <2>3, <2>4, LoadFacts
<1>2. QED
  BY <1>1, InvHolds, PTL DEF Spec, SavedSurvives
=============================================================================
