---------------------------- MODULE ConfigFiles ----------------------------
(***************************************************************************)
(* backends.conf and routing.conf against the configuration in memory:     *)
(* the handlers that save them (web/api.rs, config.rs, routing.rs), what a *)
(* start makes of them (main.rs), and what failing writes, overlapping     *)
(* saves and crashes leave.  The two share no state: a behaviour follows   *)
(* one of them, which Init chooses.                                        *)
(*                                                                         *)
(* A configuration is a list of items, which are backends or rules.  Its   *)
(* text is a sequence of cells: one per item and, where the text holds     *)
(* more than the items, a "head".  fs::write truncates the file and then   *)
(* writes from its own offset, so a failure leaves a prefix that may be    *)
(* "cut" in an item, and two writers leave the text of one with the tail   *)
(* of the other's or, after a short write, a "hole".                       *)
(***************************************************************************)
EXTENDS Naturals, FiniteSets, Sequences, SequencesExt, Sift

CONSTANTS
  Consoles,  \* who calls the API
  Items,     \* backends and rules one can add
  Example,   \* the backend of Config::default_with_examples
  Damaged,   \* an item that was read from a cut text
  MaxLen,    \* bound on the length of a list
  None

(* Cells that are no items, and what lists and texts are made of: a file   *)
(* may hold one cell more than a console sends.                            *)
Marks == {"head", "cut", "hole"}
Entries == Items \cup {Example, Damaged}
Lists == UNION {[1 .. n -> Entries] : n \in 0 .. MaxLen + 1}
Texts == UNION {[1 .. n -> Entries \cup Marks] : n \in 0 .. MaxLen + 1}

ASSUME FilesAssumption ==
  /\ MaxLen \in Nat \ {0}
  /\ Entries \cap Marks = {}
  /\ None \notin Texts

VARIABLES
  file,      \* the file this behaviour follows
  phase,     \* "up"; "down": not started; "refused": it would not start
  memory,    \* AppState: the configuration that goes with the file
  disk,      \* the cells of the file, None if there is none
  saves,     \* the save each console has under way
  saved,     \* history: what the last save that wrote its whole text wrote
  damage     \* history: why the file may not be that, or not be confirmed

vars == <<file, phase, memory, disk, saves, saved, damage>>

Files == {"backends", "routing"}
Idle == [at |-> "idle"]

(* config_to_toml; toml::to_string_pretty: the head is default_target or   *)
(* the line `backends = []`.                                               *)
Text(list) ==
  IF file = "backends" /\ list # << >> THEN list ELSE <<"head">> \o list

UnderWay == {c \in Consoles : saves[c] # Idle}

Init ==
  /\ file \in Files
  /\ phase = "down"
  /\ memory = << >>
  /\ disk = None
  /\ saves = [c \in Consoles |-> Idle]
  /\ saved = None
  /\ damage = "none"

----------------------------------------------------------------------------
(* Edits and saves *)

(* Config::add_backend, update_backend, delete_backend: memory only. *)
Edit ==
  /\ file = "backends" /\ phase = "up"
  /\ \/ /\ Len(memory) < MaxLen
        /\ \E i \in Items : memory' = Append(memory, i)
     \/ \E i \in Items, n \in DOMAIN memory : memory' = [memory EXCEPT ![n] = i]
     \/ \E n \in DOMAIN memory : memory' = RemoveAt(memory, n)
  /\ UNCHANGED <<file, phase, disk, saves, saved, damage>>

(* A save begins; one that finds another under way is not alone, nor is    *)
(* that other.                                                             *)
Begin(c, list) ==
  /\ phase = "up" /\ saves[c] = Idle
  /\ saves' = [d \in Consoles |->
       IF d = c THEN [at |-> "open", list |-> list, off |-> 0, alone |-> UnderWay = {}]
       ELSE IF d \in UnderWay THEN [saves[d] EXCEPT !.alone = FALSE] ELSE Idle]
  /\ UNCHANGED <<file, phase, memory, disk, saved, damage>>

(* config_save writes the list it read under the lock, later. *)
ConfigSave(c) == file = "backends" /\ Begin(c, memory)

(* update_routing writes what the console sent. *)
UpdateRouting(c) ==
  /\ file = "routing"
  /\ \E n \in 0 .. MaxLen : \E list \in [1 .. n -> Items] : Begin(c, list)

\* Variant of Truncated: the file is opened as it is.
Kept(cells) == IF cells = None THEN << >> ELSE cells

(* File::create *)
Truncated(cells) == << >>

Open(c) ==
  /\ saves[c].at = "open"
  /\ disk' = Truncated(disk)
  /\ saves' = [saves EXCEPT ![c].at = "write"]
  /\ UNCHANGED <<file, phase, memory, saved, damage>>

(* create_dir_all or File::create fails: the file stays what it was. *)
OpenFails(c) ==
  /\ saves[c].at = "open"
  /\ saves' = [saves EXCEPT ![c] = Idle]
  /\ UNCHANGED <<file, phase, memory, disk, saved, damage>>

\* Variant of Overlay: the file is opened for appending.
Appended(cells, off, new) == cells \o new

(* new written at off: what is missing before it reads as zeros, what      *)
(* stays after it does not begin where a cell begins.                      *)
Overlay(cells, off, new) ==
  LET end == off + Len(new) IN
  [i \in 1 .. (IF Len(cells) > end THEN Len(cells) ELSE end) |->
     IF i > off /\ i <= end THEN new[i - off]
     ELSE IF i = end + 1 THEN "cut"
     ELSE IF i \in DOMAIN cells THEN cells[i]
     ELSE "hole"]

(* write(2) takes the rest of the text or less. *)
Write(c) ==
  /\ saves[c].at = "write"
  /\ LET s == saves[c]
         text == Text(s.list)
     IN  \E end \in s.off + 1 .. Len(text) :
           /\ disk' = Overlay(disk, s.off, SubSeq(text, s.off + 1, end))
           /\ saves' = [saves EXCEPT ![c].off = end,
                                     ![c].at = IF end = Len(text) THEN "done" ELSE "write"]
  /\ UNCHANGED <<file, phase, memory, saved, damage>>

\* Variant of Memory: the file is written, the rules are not set.
MemoryUnset(s) == memory

(* update_routing sets the memory when the file is written; config_save    *)
(* has nothing to set.                                                     *)
Memory(s) == IF file = "routing" THEN s.list ELSE memory

Done(c) ==
  /\ saves[c].at = "done"
  /\ LET s == saves[c] IN
     /\ memory' = Memory(s)
     /\ saved' = s.list
     /\ damage' = IF s.alone THEN "none" ELSE "overlap"
  /\ saves' = [saves EXCEPT ![c] = Idle]
  /\ UNCHANGED <<file, phase, disk>>

(* The client leaves while update_routing awaits the lock of the rules:    *)
(* its text is in the file, its rules are not set, and nobody is told.     *)
(* config_save has no await left when its file is written.                 *)
Dropped(c) ==
  /\ file = "routing" /\ saves[c].at = "done"
  /\ saved' = saves[c].list
  /\ damage' = IF saves[c].alone THEN "unconfirmed" ELSE "overlap"
  /\ saves' = [saves EXCEPT ![c] = Idle]
  /\ UNCHANGED <<file, phase, memory, disk>>

(* The disk is full, perhaps in the middle of a cell. *)
WriteFails(c) ==
  /\ saves[c].at = "write"
  /\ LET s == saves[c] IN
     /\ \/ UNCHANGED disk
        \/ disk' = Overlay(disk, s.off, <<"cut">>)
     /\ damage' = IF s.alone /\ damage # "overlap" THEN "failure" ELSE "overlap"
  /\ saves' = [saves EXCEPT ![c] = Idle]
  /\ UNCHANGED <<file, phase, memory, saved>>

----------------------------------------------------------------------------
(* Crash and start *)

(* The process ends anywhere; the files stay as they are. *)
Crash ==
  /\ phase = "up"
  /\ phase' = "down"
  /\ damage' = IF UnderWay = {} THEN damage ELSE "crash"
  /\ saves' = [c \in Consoles |-> Idle]
  /\ memory' = << >>
  /\ UNCHANGED <<file, disk, saved>>

ItemsOf(cells) == IF cells # << >> /\ cells[1] = "head" THEN Tail(cells) ELSE cells

(* What toml::from_str may return for a text, None if an error: an item    *)
(* that was cut is an error, or still an item, or what is left of it goes  *)
(* to the item before.                                                     *)
Parsed(cells) ==
  LET items == ItemsOf(cells)
      cuts  == {i \in DOMAIN items : items[i] = "cut"}
      whole == [i \in DOMAIN items |-> IF i \in cuts THEN Damaged ELSE items[i]]
  IN  IF \/ \E i \in DOMAIN cells : cells[i] = "hole"
         \/ file = "backends" /\ Len(cells) > 1 /\ cells[1] = "head"
      THEN {None}
      ELSE IF cuts = {} THEN {items}
      ELSE {None} \cup {Sift(whole, DOMAIN items \ gone) : gone \in SUBSET cuts}

\* Variant of LoadBackends: a text without backends is an error too.
LoadBackendsStrictly ==
  IF disk = None THEN {<<Example>>}
  ELSE IF disk = <<"head">> THEN {None}
  ELSE Parsed(disk)

\* Variant of LoadBackends: an empty list counts as no list.
LoadBackendsOrExample ==
  IF disk = None THEN {<<Example>>}
  ELSE {IF list = << >> THEN <<Example>> ELSE list : list \in Parsed(disk)}

(* resolve_config: without a file, or without backends in it, the example. *)
LoadBackends ==
  IF disk = None \/ disk = << >> THEN {<<Example>>} ELSE Parsed(disk)

(* main: the default, no rules, if there is no file or it does not parse. *)
LoadRouting ==
  IF disk = None THEN {<< >>}
  ELSE {IF list = None THEN << >> ELSE list : list \in Parsed(disk)}

(* An error in backends.conf ends the start. *)
Start ==
  /\ phase = "down"
  /\ \E list \in IF file = "backends" THEN LoadBackends ELSE LoadRouting :
       IF list = None
       THEN phase' = "refused" /\ UNCHANGED memory
       ELSE phase' = "up" /\ memory' = list
  /\ UNCHANGED <<file, disk, saves, saved, damage>>

(* The operator moves the file away. *)
Repair ==
  /\ phase = "refused"
  /\ phase' = "down"
  /\ disk' = None /\ saved' = None /\ damage' = "none"
  /\ UNCHANGED <<file, memory, saves>>

Next ==
  \/ Edit
  \/ \E c \in Consoles :
       \/ ConfigSave(c) \/ UpdateRouting(c)
       \/ Open(c) \/ OpenFails(c) \/ Write(c) \/ WriteFails(c)
       \/ Done(c) \/ Dropped(c)
  \/ Crash \/ Start \/ Repair

Spec == Init /\ [][Next]_vars

----------------------------------------------------------------------------
(* The type invariant. *)
TypeOK ==
  /\ file \in Files /\ phase \in {"up", "down", "refused"}
  /\ memory \in Lists
  /\ disk \in Texts \cup {None}
  /\ \A c \in Consoles : saves[c] = Idle \/
       saves[c] \in [at : {"open", "write", "done"}, list : Lists,
                     off : 0 .. MaxLen + 1, alone : BOOLEAN]
  /\ saved \in Lists \cup {None}
  /\ damage \in {"none", "unconfirmed", "overlap", "failure", "crash"}

(* Nothing is being written, and the last save wrote all its text, alone;  *)
(* it was also confirmed.                                                  *)
Whole == UnderWay = {} /\ damage \in {"none", "unconfirmed"}
Untouched == UnderWay = {} /\ damage = "none"

(* The file holds exactly what the last save to reach the end of its text  *)
(* wrote, nothing of an older and longer text, unless saves overlapped or  *)
(* one was cut short by a failure or a crash.  A client that leaves before *)
(* its save is confirmed leaves it whole.                                  *)
FileIsLastSaved ==
  Whole => disk = IF saved = None THEN None ELSE Text(saved)

(* The rules in use are those a restart would load, with the same          *)
(* exceptions and one more: two saves of two consoles may write the file   *)
(* in one order and set the memory in the other, and the client of a save  *)
(* may leave between the file and the memory.                              *)
RoutingKept ==
  file = "routing" /\ phase = "up" /\ Untouched => LoadRouting = {memory}

(* The server refuses to start only over a text that overlapping saves, a  *)
(* failure or a crash has damaged: never over what it wrote to the end.    *)
RefusedOnlyIfDamaged == phase = "refused" => damage \in {"overlap", "failure", "crash"}

(* What a save, alone, has written to the end outlives any crash that      *)
(* comes after it: the next start that succeeds has it, so also if the     *)
(* client left before it was confirmed, and the rules in use were others.  *)
SavedSurvives ==
  [][phase = "down" /\ phase' = "up" /\ Whole /\ saved # None => memory' = saved]_vars

(* The comment in update_routing: "Persist first so in-memory state never  *)
(* diverges from disk on write failure."  Saves that failed but never      *)
(* overlapped leave a file a restart could load the rules in memory from.  *)
NeverDiverges ==
  file = "routing" /\ phase = "up" /\ UnderWay = {} /\ damage \in {"none", "failure"} =>
    memory \in LoadRouting
=============================================================================
