------------------------------- MODULE LuaLoad -------------------------------
(***************************************************************************)
(* Upload of Lua scripts into flash: CLuaLoad and CLuaStorage.             *)
(*                                                                         *)
(* A slot is Sections flash sections of Room cells, each erased and        *)
(* programmed as one.  A cell holds a line of a script, the terminator, or *)
(* in the first cell of a slot the marker that hides or shows the script.  *)
(* A line is taken to fill a cell: a real one is shorter than a section,   *)
(* so a LuaLine stores one section at most here and there.                 *)
(*                                                                         *)
(* A LuaLine or LuaEnd is handled in steps, since the power may go between *)
(* an erase and its program, or within either.  An interrupted program     *)
(* leaves a prefix (pages are written in order) and an interrupted erase   *)
(* leaves what cannot be read as a script.  Text that mixes scripts is     *)
(* taken to parse, unless one of them is broken: the worst case.           *)
(***************************************************************************)
EXTENDS Integers, Sequences, SequencesExt, FiniteSets

CONSTANTS
  Slot,      \* lua_scripts[]
  Writable,  \* the slots whose writeable flag is set
  Sections,  \* 6: sections in a slot, 24k / LUA_UPLOAD_BUFFER_SIZE
  Room,      \* cells in a section, LUA_UPLOAD_BUFFER_SIZE
  Script,    \* the scripts clients have
  Broken,    \* those that do not parse
  Size,      \* lines of each script
  None       \* no upload

ASSUME LuaLoadAssumption ==
  /\ Writable \subseteq Slot /\ None \notin Slot
  /\ Sections \in Nat \ {0} /\ Room \in Nat \ {0, 1}
  /\ Broken \subseteq Script /\ Size \in [Script -> Nat]

Line == UNION {[script : {s}, number : 1..Size[s]] : s \in Script}
Byte(value) == [script |-> value, number |-> 0]
Hidden == Byte("NUL")      \* first byte of a hidden script; also the terminator
Marker == Byte("newline")  \* first byte of a script that is to be shown
Erased == Byte("0xFF")
Cell == Line \cup {Hidden, Marker, Erased}

VARIABLES
  flash,     \* the cells of every slot
  index,     \* _index of the CLuaLoad, or the slot being deleted, or None
  section,   \* _lua_slot_section
  buffer,    \* _lua_buffer, up to _lua_buffer_postion
  job,       \* [step, then, line]: how far the message has been handled
  result,    \* what the last message was answered
  sent       \* history: the lines taken since LuaStart

loader == <<index, section, buffer>>
luaVars == <<flash, loader, job, result, sent>>

NoLine == Byte(None)
Idle == [step |-> "idle", then |-> "none", line |-> NoLine]
Steps == {"idle", "erase", "program", "parse", "wipe", "done", "finished"}

-----------------------------------------------------------------------------
Padded(cells) == [n \in 1..Room |-> IF n \in DOMAIN cells THEN cells[n] ELSE Hidden]
SectionCells(n) == (n * Room + 1)..((n + 1) * Room)

(* section n of slot s, holding these cells *)
With(s, n, cells) ==
  [flash EXCEPT ![s] =
     [k \in DOMAIN @ |-> IF k \in SectionCells(n) THEN cells[k - n * Room] ELSE @[k]]]

ErasedSection == [n \in 1..Room |-> Erased]
Programmed(n) == [k \in 1..Room |-> IF k <= n THEN Padded(buffer)[k] ELSE Erased]

Terminated(cells) == \E n \in DOMAIN cells : cells[n] = Hidden
Text(cells) ==
  IF Terminated(cells)
  THEN SubSeq(cells, 1, SelectInSeq(cells, LAMBDA c : c = Hidden) - 1)
  ELSE cells
Parses(text) ==
  \A n \in DOMAIN text : text[n] # Erased /\ (text[n] \in Line => text[n].script \notin Broken)

(* get_script_at_index and is_script_valid: no text, or the script's own *)
ShownIn(cells) ==
  LET text == Text(cells) IN
    IF Terminated(cells) /\ text # <<>> /\ Parses(text) THEN {Tail(text)} ELSE {}

Shown == [s \in Slot |-> ShownIn(flash[s])]

Listed == {s \in Slot : Shown[s] # {}}

-----------------------------------------------------------------------------
Answer(step, answer) == job' = [Idle EXCEPT !.step = step] /\ result' = answer

Finish(answer) == Answer("finished", answer)

(* reset(), and what an error leaves *)
Fail ==
  /\ Finish("ERROR")
  /\ section' = 0 /\ buffer' = <<>>

StoreThen(then, line) == job' = [step |-> "erase", then |-> then, line |-> line]

(* Mutant of LuaStart: the script is not hidden while it arrives. *)
LuaStartShown(s) ==
  /\ job = Idle
  /\ index' = s /\ section' = 0 /\ sent' = <<>>
  /\ IF s \in Writable
     THEN Answer("done", "OK") /\ buffer' = <<Marker>>
     ELSE Finish("ERROR") /\ buffer' = <<>>
  /\ UNCHANGED flash

LuaStart(s) ==
  /\ job = Idle
  /\ index' = s /\ section' = 0 /\ sent' = <<>>
  /\ IF s \in Writable
     THEN Answer("done", "OK") /\ buffer' = <<Hidden>>
     ELSE Finish("ERROR") /\ buffer' = <<>>
  /\ UNCHANGED flash

(* Mutant of LuaLine: one line too many goes into the buffer. *)
LuaLineOverfull(line) ==
  /\ job = Idle /\ index # None
  /\ IF Len(buffer) > Room
     THEN StoreThen("line", line) /\ UNCHANGED <<buffer, result, sent>>
     ELSE /\ buffer' = Append(buffer, line) /\ sent' = Append(sent, line)
          /\ Answer("done", "OK")
  /\ UNCHANGED <<flash, index, section>>

LuaLine(line) ==
  /\ job = Idle /\ index # None
  /\ IF Len(buffer) = Room
     THEN StoreThen("line", line) /\ UNCHANGED <<buffer, result, sent>>
     ELSE /\ buffer' = Append(buffer, line) /\ sent' = Append(sent, line)
          /\ Answer("done", "OK")
  /\ UNCHANGED <<flash, index, section>>

LuaEnd ==
  /\ job = Idle /\ index # None
  /\ StoreThen("parse", NoLine)
  /\ UNCHANGED <<flash, loader, result, sent>>

(* a message CLuaLoad does not know *)
Unexpected ==
  /\ job = Idle /\ index # None
  /\ Fail
  /\ UNCHANGED <<flash, index, sent>>

(* s_do_flash_erase_and_write: the erase, then the program *)
Erase ==
  /\ job.step = "erase"
  /\ flash' = With(index, section, ErasedSection)
  /\ job' = [job EXCEPT !.step = "program"]
  /\ UNCHANGED <<loader, result, sent>>

Program ==
  /\ job.step = "program"
  /\ flash' = With(index, section, Programmed(Room))
  /\ CASE job.then = "line" /\ section + 1 < Sections ->
            /\ section' = section + 1 /\ buffer' = <<job.line>>
            /\ sent' = Append(sent, job.line) /\ Answer("done", "OK")
       [] job.then = "line" /\ section + 1 >= Sections ->   \* Script too large
            Fail /\ UNCHANGED sent
       [] job.then = "parse" ->
            /\ job' = [job EXCEPT !.step = "parse"]
            /\ UNCHANGED <<section, buffer, result, sent>>
       [] job.then = "publish" -> Finish("OK") /\ UNCHANGED <<section, buffer, sent>>
  /\ UNCHANGED index

(* Mutant of Parse: the marker goes into the section stored last. *)
ParseMarksLast ==
  /\ job.step = "parse"
  /\ IF Parses(Text(Tail(flash[index])))
     THEN /\ buffer' = <<Marker>> \o SubSeq(flash[index], 2, Room)
          /\ StoreThen("publish", NoLine)
          /\ UNCHANGED <<section, result>>
     ELSE Fail
  /\ UNCHANGED <<flash, index, sent>>

(* The first section is stored again with the marker.  Without a terminator *)
(* the parser reads on into the next slot, with any outcome.                *)
Parse ==
  /\ job.step = "parse"
  /\ \/ /\ Parses(Text(Tail(flash[index])))
        /\ buffer' = <<Marker>> \o SubSeq(flash[index], 2, Room)
        /\ section' = 0 /\ StoreThen("publish", NoLine)
        /\ UNCHANGED result
     \/ /\ ~Parses(Text(Tail(flash[index]))) \/ ~Terminated(Tail(flash[index]))
        /\ Fail
  /\ UNCHANGED <<flash, index, sent>>

(* delete_script_at_index: the slot is erased section by section *)
Delete(s) ==
  /\ job = Idle /\ index = None
  /\ IF s \in Writable
     THEN /\ index' = s /\ job' = [Idle EXCEPT !.step = "wipe"]
          /\ UNCHANGED result
     ELSE Finish("ERROR") /\ UNCHANGED index
  /\ UNCHANGED <<flash, section, buffer, sent>>

Wipe ==
  /\ job.step = "wipe"
  /\ flash' = With(index, section, ErasedSection)
  /\ IF section + 1 < Sections
     THEN section' = section + 1 /\ UNCHANGED <<job, result>>
     ELSE Finish("OK") /\ UNCHANGED section
  /\ UNCHANGED <<index, buffer, sent>>

(* the loader, or the message processor that owns it, is deleted *)
NoLoader ==
  /\ index' = None /\ section' = 0 /\ buffer' = <<>> /\ sent' = <<>> /\ job' = Idle

Handling == Erase \/ Program \/ Parse \/ Wipe

(* what an operation the power interrupts leaves in flash *)
FlashAfterPowerLoss ==
  \/ UNCHANGED flash
  \/ /\ job.step \in {"erase", "wipe"}
     /\ flash' = With(index, section, ErasedSection)
  \/ /\ job.step = "program"
     /\ \E n \in 0..(Room - 1) : flash' = With(index, section, Programmed(n))

-----------------------------------------------------------------------------
(* By itself: clients that send the lines of a script in order, end early,  *)
(* start again, go away, and power that fails.                             *)
NextLine(line) ==
  IF sent = <<>> THEN line.number = 1
  ELSE line = [script |-> sent[1].script, number |-> Len(sent) + 1]

SendLine == \E line \in Line : NextLine(line) /\ LuaLine(line)
Answered == job.step = "done" /\ job' = Idle /\ UNCHANGED <<flash, loader, result, sent>>
Finished == job.step = "finished" /\ NoLoader /\ UNCHANGED <<flash, result>>
ConnectionLost ==
  /\ job = Idle /\ index # None
  /\ NoLoader /\ UNCHANGED <<flash, result>>
PowerLoss == FlashAfterPowerLoss /\ NoLoader /\ result' = "none"

Init ==
  /\ flash = [s \in Slot |-> [n \in 1..(Sections * Room) |->
                IF n = 1 /\ s \notin Writable THEN Marker ELSE Hidden]]
  /\ index = None /\ section = 0 /\ buffer = <<>> /\ sent = <<>>
  /\ job = Idle /\ result = "none"

Next ==
  \/ \E s \in Slot : LuaStart(s) \/ Delete(s)
  \/ SendLine \/ LuaEnd \/ Unexpected \/ Handling
  \/ Answered \/ Finished \/ ConnectionLost \/ PowerLoss

Spec == Init /\ [][Next]_luaVars

-----------------------------------------------------------------------------
(* The loader's variables take the values CLuaLoad can give them. *)
TypeOK ==
  /\ flash \in [Slot -> [1..(Sections * Room) -> Cell]]
  /\ index \in Slot \cup {None} /\ section \in 0..(Sections - 1)
  /\ buffer \in Seq(Cell) /\ Len(buffer) <= Room
  /\ job.step \in Steps /\ job.then \in {"none", "line", "parse", "publish"}
  /\ job.line \in Line \cup {NoLine}
  /\ result \in {"none", "OK", "ERROR"}
  /\ sent \in Seq(Line)

Store == INSTANCE ScriptStore WITH sent <- sent, shown <- Shown, Line <- Line

(* CLuaLoad::process, CLuaStorage: at every moment, also with the power     *)
(* gone between or within two flash operations, a slot shows nothing or one *)
(* script that was uploaded to it, whole.                                   *)
StoresWholeScripts == Store!Spec

FillsSection == (Len(sent) + 1) % Room = 0

(* A LuaEnd answered OK means that the slot now shows exactly the lines     *)
(* sent since LuaStart, for every script that leaves room for a terminator. *)
AckedIsShown ==
  job.step = "finished" /\ result = "OK" /\ buffer # <<>> /\ ~FillsSection
    => Shown[index] = {sent}

=============================================================================
