---------------------------- MODULE LuaLoadProofs ----------------------------
(***************************************************************************)
(* Storing scripts, for any slots, scripts and sizes of slots and sections: *)
(* a slot shows nothing or one whole script, whenever the power goes.      *)
(***************************************************************************)
EXTENDS LuaLoad, SequenceTheorems, WellFoundedInduction, TLAPS

Places == 1..(Sections * Room)
Jobs == [step : Steps, then : {"none", "line", "parse", "publish"}, line : Line \cup {NoLine}]

(* The ranges the steps rely on, those of TypeOK among them.               *)
Types ==
  /\ flash \in [Slot -> [Places -> Cell]]
  /\ index \in Slot \cup {None} /\ section \in 0..(Sections - 1)
  /\ buffer \in Seq(Cell) /\ Len(buffer) <= Room
  /\ job \in Jobs /\ (job.then = "line" => job.line \in Line)
  /\ result \in {"none", "OK", "ERROR"}
  /\ sent \in Seq(Line)

(* A message is only in the middle of its handling for some slot.          *)
Control ==
  /\ index = None => buffer = <<>> /\ section = 0 /\ job.step \in {"idle", "finished"}
  /\ job.step = "idle" => job = Idle
  /\ job.step \in {"erase", "program"} => job.then # "none"

(* While a script arrives, what was sent stands behind the byte that hides *)
(* it: in the sections stored so far, then in the buffer.                  *)
Loading ==
  /\ index # None
  /\ \/ job.step \in {"idle", "done"}
     \/ job.step \in {"erase", "program"} /\ job.then # "publish"
Put(lines, n) == IF n = 1 THEN Hidden ELSE lines[n - 1]
Collected ==
  Loading =>
    /\ Len(buffer) > 0 /\ Len(sent) + 1 = section * Room + Len(buffer)
    /\ \A n \in 1..(section * Room) : flash[index][n] = Put(sent, n)
    /\ \A n \in 1..Len(buffer) : buffer[n] = Put(sent, section * Room + n)
    /\ job.then = "line" => Len(buffer) = Room
    /\ job.step = "program" /\ section = 0 => flash[index][1] = Erased

(* Image holds the script sent: all its lines and, unless they fill a      *)
(* section, the terminator.                                                *)
Ended(image) ==
  /\ Len(sent) + 1 <= Sections * Room
  /\ \A n \in 1..Len(sent) : image[n + 1] = sent[n]
  /\ ~FillsSection => Len(sent) + 2 <= Sections * Room /\ image[Len(sent) + 2] = Hidden
Stored == job.step = "parse" => flash[index][1] = Hidden /\ Ended(flash[index])

(* What flash will hold when the first section is back with its marker.    *)
Image == [n \in Places |-> IF n <= Room THEN buffer[n] ELSE flash[index][n]]
Published ==
  job.step \in {"erase", "program"} /\ job.then = "publish" =>
    /\ section = 0 /\ Len(buffer) = Room /\ buffer[1] = Marker
    /\ Ended(Image)
    /\ \A n \in 1..Len(sent) : sent[n].script \notin Broken

(* A slot is wiped from its first section on.                              *)
Wiped ==
  job.step = "wipe" => buffer = <<>> /\ (section > 0 => flash[index][1] = Erased)

(* Any client: lines come in any order, and a loader may go before it has   *)
(* begun.                                                                  *)
Dropped == job = Idle /\ NoLoader /\ UNCHANGED <<flash, result>>
Moves ==
  \/ \E s \in Slot : LuaStart(s) \/ Delete(s)
  \/ \E line \in Line : LuaLine(line)
  \/ LuaEnd \/ Unexpected \/ Handling
  \/ Answered \/ Finished \/ Dropped \/ PowerLoss

IInv == Types /\ Control /\ Collected /\ Stored /\ Published /\ Wiped /\ AckedIsShown

-----------------------------------------------------------------------------
(* What a slot shows.                                                      *)

LEMMA Bytes ==
  /\ Hidden \in Cell /\ Marker \in Cell /\ Erased \in Cell /\ Line \subseteq Cell
  /\ Hidden # Marker /\ Hidden # Erased /\ Marker # Erased
  /\ \A line \in Line : line # Hidden /\ line # Marker /\ line # Erased
<1>1. ASSUME NEW line \in Line
      PROVE  line.number >= 1
  <2>1. PICK s \in Script : line \in [script : {s}, number : 1..Size[s]]
    BY Zenon DEF Line
  <2>2. line.number \in 1..Size[s]
    BY <2>1
  <2> QED BY <2>2
<1>2. Hidden.number = 0 /\ Marker.number = 0 /\ Erased.number = 0
  BY DEF Hidden, Marker, Erased, Byte
<1>3. \A line \in Line : line # Hidden /\ line # Marker /\ line # Erased
  BY <1>1, <1>2
<1>4. Hidden # Marker /\ Hidden # Erased /\ Marker # Erased
  <2>1. Hidden.script = "NUL" /\ Marker.script = "newline" /\ Erased.script = "0xFF"
    BY DEF Hidden, Marker, Erased, Byte
  <2> QED BY <2>1
<1> QED BY <1>3, <1>4 DEF Cell

(* The text of a slot is what comes before its first hiding byte.          *)
LEMMA FirstHidden ==
  ASSUME NEW cells \in Seq(Cell), Terminated(cells)
  PROVE  \E f \in 1..Len(cells) :
           /\ cells[f] = Hidden /\ \A n \in 1..(f - 1) : cells[n] # Hidden
           /\ Text(cells) = SubSeq(cells, 1, f - 1)
<1> DEFINE I == {i \in 1..Len(cells) : cells[i] = Hidden}
<1>1. I # {} /\ I \subseteq Nat
  BY DEF Terminated
<1>2. PICK f \in I : \A y \in I : <<y, f>> \notin OpToRel(<, Nat)
  BY <1>1, WFMin, NatLessThanWellFounded
<1>3. \A y \in I : f <= y
  <2> SUFFICES ASSUME NEW y \in I
               PROVE  f <= y
    OBVIOUS
  <2>1. ~(y < f)
    BY <1>1, <1>2 DEF OpToRel
  <2> QED BY <1>1, <2>1
<1>4. Min(I) = f
  <2>1. Min(I) \in I /\ \A y \in I : Min(I) <= y
    BY <1>3 DEF Min
  <2> QED BY <1>1, <1>3, <2>1
<1>5. SelectInSeq(cells, LAMBDA c : c = Hidden) = f
  BY <1>1, <1>4 DEF SelectInSeq
<1>6. f \in 1..Len(cells) /\ cells[f] = Hidden /\ \A n \in 1..(f - 1) : cells[n] # Hidden
  BY <1>3
<1> QED BY <1>5, <1>6 DEF Text

(* A slot that begins with the hiding byte, or erased, shows nothing.      *)
LEMMA Unshown ==
  ASSUME NEW cells \in Seq(Cell), Len(cells) > 0, cells[1] \in {Hidden, Erased}
  PROVE  ShownIn(cells) = {}
<1> SUFFICES ASSUME Terminated(cells)
             PROVE  Text(cells) = <<>> \/ ~Parses(Text(cells))
  BY DEF ShownIn
<1>1. PICK f \in 1..Len(cells) :
        /\ cells[f] = Hidden /\ \A n \in 1..(f - 1) : cells[n] # Hidden
        /\ Text(cells) = SubSeq(cells, 1, f - 1)
  BY FirstHidden
<1>2. CASE f = 1
  BY <1>1, <1>2
<1>3. CASE f # 1
  <2>1. 1 \in 1..(f - 1) /\ cells[1] = Erased
    BY <1>1, <1>3
  <2>2. 1 \in DOMAIN Text(cells) /\ Text(cells)[1] = Erased
    BY <1>1, <2>1
  <2> QED BY <2>2 DEF Parses
<1> QED BY <1>2, <1>3

(* What is shown ends before any erased cell.                              *)
LEMMA ShownText ==
  ASSUME NEW cells \in Seq(Cell), NEW t \in ShownIn(cells)
  PROVE  \E f \in 1..Len(cells) :
           /\ f > 1 /\ cells[f] = Hidden
           /\ \A n \in 1..(f - 1) : cells[n] # Hidden /\ cells[n] # Erased
           /\ Len(t) = f - 2 /\ t \in Seq(Cell) /\ \A n \in 1..Len(t) : t[n] = cells[n + 1]
<1>1. /\ Terminated(cells) /\ Text(cells) # <<>> /\ Parses(Text(cells)) /\ t = Tail(Text(cells))
  BY DEF ShownIn
<1>2. PICK f \in 1..Len(cells) :
        /\ cells[f] = Hidden /\ \A n \in 1..(f - 1) : cells[n] # Hidden
        /\ Text(cells) = SubSeq(cells, 1, f - 1)
  BY <1>1, FirstHidden
<1>3. /\ Text(cells) \in Seq(Cell) /\ Len(Text(cells)) = f - 1
      /\ \A n \in 1..(f - 1) : Text(cells)[n] = cells[n]
  BY <1>2
<1>4. f > 1
  BY <1>1, <1>3
<1>5. \A n \in 1..(f - 1) : cells[n] # Erased
  BY <1>1, <1>3 DEF Parses
<1>6. /\ Len(t) = f - 2 /\ t \in Seq(Cell)
      /\ \A n \in 1..Len(t) : t[n] = Text(cells)[n + 1] /\ n + 1 \in 1..(f - 1)
  BY <1>1, <1>3, <1>4
<1> QED BY <1>2, <1>3, <1>4, <1>5, <1>6

(* A slot that holds the lines of a script shows nothing else.             *)
LEMMA ShownWhole ==
  ASSUME NEW cells \in Seq(Cell), NEW lines \in Seq(Line), Len(lines) + 1 <= Len(cells),
         \A n \in 1..Len(lines) : cells[n + 1] = lines[n],
         NEW t \in ShownIn(cells)
  PROVE  /\ Len(lines) <= Len(t) /\ SubSeq(t, 1, Len(lines)) = lines
         /\ Len(lines) + 2 <= Len(cells) /\ cells[Len(lines) + 2] = Hidden => t = lines
<1>1. PICK f \in 1..Len(cells) :
        /\ f > 1 /\ cells[f] = Hidden /\ \A n \in 1..(f - 1) : cells[n] # Hidden
        /\ Len(t) = f - 2 /\ t \in Seq(Cell) /\ \A n \in 1..Len(t) : t[n] = cells[n + 1]
  BY ShownText
<1>2. Len(lines) \in Nat /\ \A n \in 1..Len(lines) : lines[n] \in Line
  OBVIOUS
<1>3. f >= Len(lines) + 2
  <2> SUFFICES ASSUME f < Len(lines) + 2
               PROVE  FALSE
    BY <1>1, <1>2
  <2>1. f - 1 \in 1..Len(lines) /\ (f - 1) + 1 = f
    BY <1>1, <1>2
  <2>2. cells[f] = lines[f - 1]
    BY <2>1
  <2> QED BY <1>1, <1>2, <2>1, <2>2, Bytes
<1>4. Len(lines) <= Len(t) /\ \A n \in 1..Len(lines) : t[n] = lines[n]
  BY <1>1, <1>2, <1>3
<1>5. SubSeq(t, 1, Len(lines)) = lines
  <2>1. SubSeq(t, 1, Len(lines)) \in Seq(Cell) /\ Len(SubSeq(t, 1, Len(lines))) = Len(lines)
    BY <1>1, <1>2, <1>4
  <2>2. \A n \in 1..Len(lines) : SubSeq(t, 1, Len(lines))[n] = lines[n]
    BY <1>1, <1>2, <1>4
  <2> QED BY <1>2, <2>1, <2>2, SeqEqual
<1>6. ASSUME Len(lines) + 2 <= Len(cells), cells[Len(lines) + 2] = Hidden
      PROVE  t = lines
  <2>1. ~(Len(lines) + 2 < f)
    BY <1>1, <1>2, <1>6
  <2>2. Len(t) = Len(lines)
    BY <1>1, <1>2, <1>3, <2>1
  <2>3. t \in Seq(Cell) /\ lines \in Seq(Cell)
    BY <1>1 DEF Line, Cell
  <2>4. \A n \in 1..Len(lines) : t[n] = lines[n]
    BY <1>4
  <2> QED BY <2>2, <2>3, <2>4, SeqEqual
<1> QED BY <1>4, <1>5, <1>6

-----------------------------------------------------------------------------
(* Sections and slots.                                                     *)

LEMMA Numbers ==
  /\ Sections \in Nat /\ Sections >= 1 /\ Room \in Nat /\ Room >= 2
  /\ Sections * Room \in Nat /\ Sections * Room >= Room /\ None \notin Slot
<1>1. Sections \in Nat /\ Sections >= 1 /\ Room \in Nat /\ Room >= 2 /\ None \notin Slot
  BY LuaLoadAssumption
<1>2. Sections * Room = (Sections - 1) * Room + Room /\ (Sections - 1) * Room >= 0
  BY <1>1
<1> QED BY <1>1, <1>2

LEMMA SectionPlace ==
  ASSUME NEW n \in 0..(Sections - 1)
  PROVE  /\ n * Room \in Nat /\ (n + 1) * Room = n * Room + Room
         /\ n * Room + Room <= Sections * Room /\ n > 0 => n * Room >= Room
<1>1. n \in Nat /\ n * Room \in Nat /\ (n + 1) * Room = n * Room + Room
  BY Numbers
<1>2. Sections * Room = (n + 1) * Room + (Sections - (n + 1)) * Room
  BY Numbers
<1>3. (Sections - (n + 1)) * Room >= 0
  <2>1. Sections - (n + 1) \in Nat
    BY Numbers
  <2> QED BY <2>1, Numbers
<1>4. n > 0 => n * Room >= Room
  <2>1. n * Room = (n - 1) * Room + Room
    BY <1>1, Numbers
  <2>2. n > 0 => (n - 1) * Room >= 0
    <3>1. n > 0 => n - 1 \in Nat
      BY <1>1
    <3> QED BY <3>1, Numbers
  <2> QED BY <1>1, <2>1, <2>2, Numbers
<1>5. n * Room + Room <= Sections * Room
  BY <1>1, <1>2, <1>3, Numbers
<1> QED BY <1>1, <1>4, <1>5

LEMMA Slots ==
  ASSUME Types, NEW s \in Slot
  PROVE  flash[s] \in Seq(Cell) /\ Len(flash[s]) = Sections * Room /\ DOMAIN flash[s] = Places
<1>1. flash[s] \in [1..(Sections * Room) -> Cell]
  BY DEF Types, Places
<1> QED BY <1>1, Numbers DEF Places

(* storing a section *)
LEMMA WithIs ==
  ASSUME Types, index \in Slot, NEW cells \in [1..Room -> Cell],
         flash' = With(index, section, cells)
  PROVE  /\ flash' \in [Slot -> [Places -> Cell]]
         /\ \A s \in Slot : s # index => flash'[s] = flash[s]
         /\ \A k \in Places : flash'[index][k] =
              IF k \in (section * Room + 1)..(section * Room + Room)
              THEN cells[k - section * Room] ELSE flash[index][k]
<1>1. section \in 0..(Sections - 1) /\ flash[index] \in [Places -> Cell]
      /\ flash \in [Slot -> [Places -> Cell]]
  BY DEF Types
<1>2. SectionCells(section) = (section * Room + 1)..(section * Room + Room)
  BY <1>1, SectionPlace DEF SectionCells
<1>3. flash'[index] = [k \in Places |-> IF k \in SectionCells(section)
                         THEN cells[k - section * Room] ELSE flash[index][k]]
  BY <1>1 DEF With
<1>4. flash' = [flash EXCEPT ![index] = flash'[index]]
  BY <1>1 DEF With
<1>5. ASSUME NEW k \in Places, k \in SectionCells(section)
      PROVE  cells[k - section * Room] \in Cell
  <2>1. k - section * Room \in 1..Room
    BY <1>1, <1>2, <1>5, SectionPlace, Numbers
  <2> QED BY <2>1
<1>6. flash'[index] \in [Places -> Cell]
  BY <1>1, <1>3, <1>5
<1> QED BY <1>1, <1>2, <1>3, <1>4, <1>6

LEMMA SectionsAreCells ==
  ASSUME Types
  PROVE  /\ ErasedSection \in [1..Room -> Cell] /\ \A k \in 1..Room : ErasedSection[k] = Erased
         /\ \A n \in 0..Room :
              /\ Programmed(n) \in [1..Room -> Cell]
              /\ \A k \in 1..Room : Programmed(n)[k] =
                   IF k > n THEN Erased ELSE IF k <= Len(buffer) THEN buffer[k] ELSE Hidden
<1>1. buffer \in Seq(Cell) /\ DOMAIN buffer = 1..Len(buffer) /\ Len(buffer) \in Nat
  BY DEF Types
<1>2. \A k \in 1..Room : Padded(buffer)[k] = IF k <= Len(buffer) THEN buffer[k] ELSE Hidden
  BY <1>1, Numbers DEF Padded
<1>3. Padded(buffer) \in [1..Room -> Cell]
  <2>1. \A k \in 1..Room : (IF k \in DOMAIN buffer THEN buffer[k] ELSE Hidden) \in Cell
    BY <1>1, Bytes
  <2> QED BY <2>1 DEF Padded
<1>4. ASSUME NEW n \in 0..Room
      PROVE  /\ Programmed(n) \in [1..Room -> Cell]
             /\ \A k \in 1..Room : Programmed(n)[k] =
                  IF k > n THEN Erased ELSE IF k <= Len(buffer) THEN buffer[k] ELSE Hidden
  BY <1>2, <1>3, Bytes, Numbers DEF Programmed
<1>5. ErasedSection \in [1..Room -> Cell] /\ \A k \in 1..Room : ErasedSection[k] = Erased
  BY Bytes DEF ErasedSection
<1> QED BY <1>4, <1>5

-----------------------------------------------------------------------------
(* The ranges.                                                             *)

LEMMA AnswerIs ==
  ASSUME NEW step \in Steps, NEW answer, Answer(step, answer)
  PROVE  /\ job' \in Jobs /\ job'.step = step /\ job'.then = "none" /\ job'.line = NoLine
         /\ result' = answer /\ (step = "idle" => job' = Idle)
BY DEF Answer, Idle, Jobs, Steps

LEMMA StoreIs ==
  ASSUME NEW then \in {"line", "parse", "publish"}, NEW line \in Line \cup {NoLine},
         StoreThen(then, line)
  PROVE  /\ job' \in Jobs /\ job'.step = "erase" /\ job'.then = then /\ job'.line = line
BY DEF StoreThen, Jobs, Steps

LEMMA NextStepIs ==
  ASSUME job \in Jobs, NEW step \in Steps, job' = [job EXCEPT !.step = step]
  PROVE  /\ job' \in Jobs /\ job'.step = step /\ job'.then = job.then /\ job'.line = job.line
BY DEF Jobs, Steps

(* A shorthand for what does not go into the middle of a message.          *)
LEMMA FailIs ==
  ASSUME Fail
  PROVE  /\ job' \in Jobs /\ job'.step = "finished" /\ job'.then = "none"
         /\ result' = "ERROR" /\ section' = 0 /\ buffer' = <<>>
BY AnswerIs DEF Fail, Finish, Steps

LEMMA NewTypes ==
  ASSUME flash' \in [Slot -> [Places -> Cell]], index' \in Slot \cup {None},
         section' \in 0..(Sections - 1), buffer' \in Seq(Cell), Len(buffer') <= Room,
         job' \in Jobs, job'.then = "line" => job'.line \in Line,
         result' \in {"none", "OK", "ERROR"}, sent' \in Seq(Line)
  PROVE  Types'
BY DEF Types

LEMMA Short ==
  /\ <<>> \in Seq(Cell) /\ Len(<<>>) <= Room /\ <<>> \in Seq(Line) /\ 0 \in 0..(Sections - 1)
  /\ \A c \in Cell : <<c>> \in Seq(Cell) /\ Len(<<c>>) = 1 /\ <<c>>[1] = c
BY Numbers

(* The ways a program ends.                                                *)
MoreStored ==
  /\ job.then = "line" /\ section + 1 < Sections
  /\ section' = section + 1 /\ buffer' = <<job.line>>
  /\ sent' = Append(sent, job.line) /\ Answer("done", "OK")
TooLarge == job.then = "line" /\ Fail /\ UNCHANGED sent
AllStored ==
  /\ job.then = "parse" /\ job' = [job EXCEPT !.step = "parse"]
  /\ UNCHANGED <<section, buffer, result, sent>>
MarkerStored ==
  job.then = "publish" /\ Answer("finished", "OK") /\ UNCHANGED <<section, buffer, sent>>

LEMMA ProgramIs ==
  ASSUME Types, Control, Program
  PROVE  /\ index \in Slot /\ index' = index /\ flash' = With(index, section, Programmed(Room))
         /\ MoreStored \/ TooLarge \/ AllStored \/ MarkerStored
<1>0. index \in Slot /\ section \in 0..(Sections - 1) /\ job.then \in {"line", "parse", "publish"}
  BY DEF Program, Control, Types, Jobs
<1>1. index' = index /\ flash' = With(index, section, Programmed(Room))
  BY DEF Program
<1>2. CASE job.then = "line" /\ section + 1 < Sections
  <2>1. ~(section + 1 >= Sections) /\ job.then # "parse" /\ job.then # "publish"
    BY <1>0, <1>2, Numbers
  <2>2. MoreStored
    BY <1>2, <2>1, Zenon DEF Program, MoreStored
  <2> QED BY <1>0, <1>1, <2>2
<1>3. CASE job.then = "line" /\ ~(section + 1 < Sections)
  <2>1. section + 1 >= Sections /\ job.then # "parse" /\ job.then # "publish"
    BY <1>0, <1>3, Numbers
  <2>2. TooLarge
    BY <1>3, <2>1, Zenon DEF Program, TooLarge
  <2> QED BY <1>0, <1>1, <2>2
<1>4. CASE job.then = "parse"
  <2>1. job.then # "line" /\ job.then # "publish"
    BY <1>4
  <2>2. AllStored
    BY <1>4, <2>1, Zenon DEF Program, AllStored
  <2> QED BY <1>0, <1>1, <2>2
<1>5. CASE job.then = "publish"
  <2>1. job.then # "line" /\ job.then # "parse"
    BY <1>5
  <2>2. MarkerStored
    BY <1>5, <2>1, Zenon DEF Program, MarkerStored, Finish
  <2> QED BY <1>0, <1>1, <2>2
<1> QED BY <1>0, <1>1, <1>2, <1>3, <1>4, <1>5

LEMMA TypesLuaStart ==
  ASSUME Types, NEW s \in Slot, LuaStart(s)
  PROVE  Types'
<1>1. index' = s /\ section' = 0 /\ sent' = <<>> /\ UNCHANGED flash
  BY DEF LuaStart
<1>2. CASE s \in Writable
  <2>1. Answer("done", "OK") /\ buffer' = <<Hidden>>
    BY <1>2 DEF LuaStart
  <2>2. job' \in Jobs /\ job'.then = "none" /\ result' = "OK"
    BY <2>1, AnswerIs DEF Steps
  <2>3. buffer' \in Seq(Cell) /\ Len(buffer') <= Room
    BY <2>1, Bytes, Short, Numbers
  <2> QED BY <1>1, <2>2, <2>3, Short, NewTypes DEF Types
<1>3. CASE s \notin Writable
  <2>1. Answer("finished", "ERROR") /\ buffer' = <<>>
    BY <1>3 DEF LuaStart, Finish
  <2>2. job' \in Jobs /\ job'.then = "none" /\ result' = "ERROR"
    BY <2>1, AnswerIs DEF Steps
  <2> QED BY <1>1, <2>1, <2>2, Short, NewTypes DEF Types
<1> QED BY <1>2, <1>3

LEMMA TypesLuaLine ==
  ASSUME Types, NEW line \in Line, LuaLine(line)
  PROVE  Types'
<1>1. UNCHANGED <<flash, index, section>>
  BY DEF LuaLine
<1>2. CASE Len(buffer) = Room
  <2>1. StoreThen("line", line) /\ UNCHANGED <<buffer, result, sent>>
    BY <1>2 DEF LuaLine
  <2>2. job' \in Jobs /\ job'.line = line
    BY <2>1, StoreIs
  <2> QED BY <1>1, <2>1, <2>2, NewTypes DEF Types
<1>3. CASE Len(buffer) # Room
  <2>1. buffer' = Append(buffer, line) /\ sent' = Append(sent, line) /\ Answer("done", "OK")
    BY <1>3 DEF LuaLine
  <2>2. job' \in Jobs /\ job'.then = "none" /\ result' = "OK"
    BY <2>1, AnswerIs DEF Steps
  <2>3. buffer \in Seq(Cell) /\ Len(buffer) <= Room /\ sent \in Seq(Line) /\ line \in Cell
    BY Bytes DEF Types
  <2>4. buffer' \in Seq(Cell) /\ Len(buffer') <= Room /\ sent' \in Seq(Line)
    BY <1>3, <2>1, <2>3, Numbers
  <2> QED BY <1>1, <2>2, <2>4, NewTypes DEF Types
<1> QED BY <1>2, <1>3

LEMMA TypesHandling ==
  ASSUME Types, Control, Handling
  PROVE  Types'
<1>0. index \in Slot /\ section \in 0..(Sections - 1)
  BY DEF Handling, Erase, Program, Parse, Wipe, Control, Types
<1>1. CASE Erase
  <2>1. flash' \in [Slot -> [Places -> Cell]]
    BY <1>0, <1>1, WithIs, SectionsAreCells DEF Erase
  <2>2. job' \in Jobs /\ job'.then = job.then /\ job'.line = job.line
    BY <1>1, NextStepIs DEF Erase, Steps, Types
  <2> QED BY <1>1, <2>1, <2>2, NewTypes DEF Erase, loader, Types
<1>2. CASE Program
  <2>1. flash' \in [Slot -> [Places -> Cell]] /\ UNCHANGED index
    <3>1. Room \in 0..Room
      BY Numbers
    <3> QED BY <1>0, <1>2, <3>1, WithIs, SectionsAreCells DEF Program
  <2>2. CASE MoreStored
    <3>1. job' \in Jobs /\ job'.then = "none" /\ result' = "OK"
      BY <2>2, AnswerIs DEF MoreStored, Steps
    <3>2. job.line \in Line /\ job.line \in Cell /\ sent \in Seq(Line)
      BY <2>2, Bytes DEF MoreStored, Types
    <3>3. buffer' \in Seq(Cell) /\ Len(buffer') <= Room /\ sent' \in Seq(Line)
      BY <2>2, <3>2, Short, Numbers DEF MoreStored
    <3>4. section' \in 0..(Sections - 1)
      BY <1>0, <2>2, Numbers DEF MoreStored
    <3> QED BY <2>1, <3>1, <3>3, <3>4, NewTypes DEF Types
  <2>3. CASE TooLarge
    BY <2>1, <2>3, FailIs, Short, NewTypes DEF TooLarge, Types
  <2>4. CASE AllStored
    <3>1. job' \in Jobs /\ job'.then = "parse"
      BY <2>4, NextStepIs DEF AllStored, Steps, Types
    <3> QED BY <2>1, <2>4, <3>1, NewTypes DEF AllStored, Types
  <2>5. CASE MarkerStored
    <3>1. job' \in Jobs /\ job'.then = "none" /\ result' = "OK"
      BY <2>5, AnswerIs DEF MarkerStored, Steps
    <3> QED BY <2>1, <2>5, <3>1, NewTypes DEF MarkerStored, Types
  <2> QED BY <1>2, <2>2, <2>3, <2>4, <2>5, ProgramIs
<1>3. CASE Parse
  <2>1. UNCHANGED <<flash, index, sent>>
    BY <1>3 DEF Parse
  <2>2. CASE Fail
    BY <2>1, <2>2, FailIs, Short, NewTypes DEF Types
  <2>3. CASE /\ buffer' = <<Marker>> \o SubSeq(flash[index], 2, Room)
             /\ section' = 0 /\ StoreThen("publish", NoLine) /\ UNCHANGED result
    <3>1. job' \in Jobs /\ job'.then = "publish"
      BY <2>3, StoreIs
    <3>2. flash[index] \in Seq(Cell) /\ Len(flash[index]) >= Room
      BY <1>0, Slots, Numbers
    <3>3. SubSeq(flash[index], 2, Room) \in Seq(Cell) /\ Len(SubSeq(flash[index], 2, Room)) = Room - 1
      BY <3>2, Numbers
    <3>4. buffer' \in Seq(Cell) /\ Len(buffer') <= Room
      BY <2>3, <3>3, Bytes, Short, Numbers
    <3> QED BY <2>1, <2>3, <3>1, <3>4, Short, NewTypes DEF Types
  <2> QED BY <1>3, <2>2, <2>3 DEF Parse
<1>4. CASE Wipe
  <2>1. flash' \in [Slot -> [Places -> Cell]] /\ UNCHANGED <<index, buffer, sent>>
    BY <1>0, <1>4, WithIs, SectionsAreCells DEF Wipe
  <2>2. CASE section + 1 < Sections
    <3>1. section' = section + 1 /\ UNCHANGED <<job, result>>
      BY <1>4, <2>2 DEF Wipe
    <3>2. section' \in 0..(Sections - 1)
      BY <1>0, <2>2, <3>1, Numbers
    <3> QED BY <2>1, <3>1, <3>2, NewTypes DEF Types
  <2>3. CASE ~(section + 1 < Sections)
    <3>1. Answer("finished", "OK") /\ UNCHANGED section
      BY <1>4, <2>3 DEF Wipe, Finish
    <3>2. job' \in Jobs /\ job'.then = "none" /\ result' = "OK"
      BY <3>1, AnswerIs DEF Steps
    <3> QED BY <2>1, <3>1, <3>2, NewTypes DEF Types
  <2> QED BY <2>2, <2>3
<1> QED BY <1>1, <1>2, <1>3, <1>4 DEF Handling

LEMMA TypesDelete ==
  ASSUME Types, NEW s \in Slot, Delete(s)
  PROVE  Types'
<1>1. UNCHANGED <<flash, section, buffer, sent>>
  BY DEF Delete
<1>2. CASE s \in Writable
  <2>1. index' = s /\ job' = [Idle EXCEPT !.step = "wipe"] /\ UNCHANGED result
    BY <1>2 DEF Delete
  <2>2. job' \in Jobs /\ job'.then = "none"
    BY <2>1 DEF Idle, Jobs, Steps
  <2> QED BY <1>1, <2>1, <2>2, NewTypes DEF Types
<1>3. CASE s \notin Writable
  <2>1. Answer("finished", "ERROR") /\ UNCHANGED index
    BY <1>3 DEF Delete, Finish
  <2>2. job' \in Jobs /\ job'.then = "none" /\ result' = "ERROR"
    BY <2>1, AnswerIs DEF Steps
  <2> QED BY <1>1, <2>1, <2>2, NewTypes DEF Types
<1> QED BY <1>2, <1>3

(* what the power leaves of an erase or a program *)
Torn(cells) ==
  \/ job.step \in {"erase", "wipe"} /\ cells = ErasedSection
  \/ job.step = "program" /\ \E n \in 0..(Room - 1) : cells = Programmed(n)

LEMMA PowerLossIs ==
  ASSUME Types, Control, FlashAfterPowerLoss
  PROVE  \/ UNCHANGED flash
         \/ \E cells \in [1..Room -> Cell] :
              index \in Slot /\ Torn(cells) /\ flash' = With(index, section, cells)
<1>1. job.step \in {"erase", "wipe", "program"} => index \in Slot
  BY DEF Control, Types
<1>2. ASSUME NEW n \in 0..(Room - 1)
      PROVE  Programmed(n) \in [1..Room -> Cell]
  BY SectionsAreCells, Numbers
<1> QED BY <1>1, <1>2, SectionsAreCells DEF FlashAfterPowerLoss, Torn

LEMMA TypesPowerLoss ==
  ASSUME Types, Control, FlashAfterPowerLoss, NoLoader, result' \in {"none", result}
  PROVE  Types'
<1>1. flash' \in [Slot -> [Places -> Cell]]
  BY PowerLossIs, WithIs DEF Types
<1>2. job' \in Jobs /\ job'.then = "none"
  BY DEF NoLoader, Idle, Jobs, Steps
<1> QED BY <1>1, <1>2, Short, NewTypes DEF NoLoader, Types

LEMMA TypesStep ==
  ASSUME Types, Control, [Moves]_luaVars
  PROVE  Types'
<1>1. CASE Unexpected
  BY <1>1, FailIs, Short, NewTypes DEF Unexpected, Types
<1>2. CASE LuaEnd
  <2>1. job' \in Jobs /\ job'.then = "parse"
    BY <1>2, StoreIs DEF LuaEnd
  <2> QED BY <1>2, <2>1, NewTypes DEF LuaEnd, loader, Types
<1>3. CASE Answered
  <2>1. job' \in Jobs /\ job'.then = "none"
    BY <1>3 DEF Answered, Idle, Jobs, Steps
  <2> QED BY <1>3, <2>1, NewTypes DEF Answered, loader, Types
<1>4. CASE Finished \/ Dropped \/ PowerLoss
  <2>1. FlashAfterPowerLoss /\ NoLoader /\ result' \in {"none", result}
    BY <1>4 DEF Finished, Dropped, PowerLoss, FlashAfterPowerLoss
  <2> QED BY <2>1, TypesPowerLoss
<1>5. CASE UNCHANGED luaVars
  BY <1>5 DEF luaVars, loader, Types
<1> QED BY <1>1, <1>2, <1>3, <1>4, <1>5, TypesLuaStart, TypesLuaLine, TypesHandling, TypesDelete
        DEF Moves

LEMMA ControlStep ==
  ASSUME Types, Control, [Moves]_luaVars
  PROVE  Control'
<1> USE Numbers
<1>1. ASSUME NEW s \in Slot, LuaStart(s)
      PROVE  Control'
  <2>1. index' # None /\ job'.step \in {"done", "finished"}
    BY <1>1, AnswerIs DEF LuaStart, Finish, Steps
  <2> QED BY <2>1 DEF Control
<1>2. ASSUME NEW s \in Slot, Delete(s)
      PROVE  Control'
  <2>1. CASE s \in Writable
    <3>1. index' # None /\ job'.step = "wipe"
      BY <1>2, <2>1 DEF Delete, Idle
    <3> QED BY <3>1 DEF Control
  <2>2. CASE s \notin Writable
    <3>1. job'.step = "finished" /\ UNCHANGED <<index, section, buffer>>
      BY <1>2, <2>2, AnswerIs DEF Delete, Finish, Steps
    <3> QED BY <3>1 DEF Control
  <2> QED BY <2>1, <2>2
<1>3. CASE Unexpected
  BY <1>3, FailIs DEF Unexpected, Control
<1>4. ASSUME NEW line \in Line, LuaLine(line)
      PROVE  Control'
  <2>1. index # None /\ UNCHANGED index
    BY <1>4 DEF LuaLine
  <2>2. job'.step = "done" \/ (job'.step = "erase" /\ job'.then = "line")
    <3>1. Answer("done", "OK") => job'.step = "done"
      BY AnswerIs DEF Steps
    <3>2. StoreThen("line", line) => job'.step = "erase" /\ job'.then = "line"
      BY StoreIs
    <3>3. Answer("done", "OK") \/ StoreThen("line", line)
      BY <1>4 DEF LuaLine
    <3> QED BY <3>1, <3>2, <3>3
  <2> QED BY <2>1, <2>2 DEF Control
<1>5. CASE LuaEnd
  <2>1. index # None /\ UNCHANGED index /\ job'.step = "erase" /\ job'.then = "parse"
    BY <1>5, StoreIs DEF LuaEnd, loader
  <2> QED BY <2>1 DEF Control
<1>6. CASE Erase
  <2>1. /\ job'.step = "program" /\ job'.then = job.then /\ UNCHANGED index
        /\ index # None /\ job.then # "none"
    BY <1>6, NextStepIs DEF Erase, loader, Steps, Types, Control
  <2> QED BY <2>1 DEF Control
<1>7. CASE Program
  <2>1. index' # None
    BY <1>7, ProgramIs
  <2>2. job'.step \in {"done", "finished", "parse"}
    BY <1>7, ProgramIs, AnswerIs, FailIs, NextStepIs
       DEF MoreStored, TooLarge, AllStored, MarkerStored, Steps, Types
  <2> QED BY <2>1, <2>2 DEF Control
<1>8. CASE Parse
  <2>1. index' # None
    BY <1>8 DEF Parse, Control
  <2>2. job'.step = "finished" \/ (job'.step = "erase" /\ job'.then = "publish")
    <3>1. StoreThen("publish", NoLine) => job'.step = "erase" /\ job'.then = "publish"
      BY StoreIs
    <3>2. Fail \/ StoreThen("publish", NoLine)
      BY <1>8 DEF Parse
    <3> QED BY <3>1, <3>2, FailIs
  <2> QED BY <2>1, <2>2 DEF Control
<1>9. CASE Wipe
  <2>1. index' # None
    BY <1>9 DEF Wipe, Control
  <2>2. job'.step \in {"wipe", "finished"}
    BY <1>9, AnswerIs DEF Wipe, Finish, Steps
  <2> QED BY <2>1, <2>2 DEF Control
<1>10. CASE Answered
  <2>1. job' = Idle /\ UNCHANGED index /\ index # None
    BY <1>10 DEF Answered, loader, Control
  <2> QED BY <2>1 DEF Control, Idle
<1>11. CASE Finished \/ Dropped \/ PowerLoss
  BY <1>11 DEF Finished, Dropped, PowerLoss, NoLoader, Control, Idle
<1>12. CASE UNCHANGED luaVars
  BY <1>12 DEF luaVars, loader, Control
<1> QED BY <1>1, <1>2, <1>3, <1>4, <1>5, <1>6, <1>7, <1>8, <1>9, <1>10, <1>11, <1>12
        DEF Moves, Handling

-----------------------------------------------------------------------------
(* What a section and the buffer hold.                                     *)

LEMMA PutKept ==
  ASSUME sent \in Seq(Line), NEW line \in Line, sent' = Append(sent, line)
  PROVE  /\ Len(sent') = Len(sent) + 1 /\ Len(sent) \in Nat
         /\ \A n \in 1..(Len(sent) + 1) : Put(sent', n) = Put(sent, n)
         /\ Put(sent', Len(sent) + 2) = line
<1>1. /\ Len(sent') = Len(sent) + 1 /\ Len(sent) \in Nat /\ sent'[Len(sent) + 1] = line
      /\ \A n \in 1..Len(sent) : sent'[n] = sent[n]
  OBVIOUS
<1>2. ASSUME NEW n \in 1..(Len(sent) + 1)
      PROVE  Put(sent', n) = Put(sent, n)
  <2>1. n = 1 \/ n - 1 \in 1..Len(sent)
    BY <1>1
  <2> QED BY <1>1, <2>1 DEF Put
<1>3. Put(sent', Len(sent) + 2) = line
  BY <1>1 DEF Put
<1> QED BY <1>1, <1>2, <1>3

LEMMA CollectedLuaLine ==
  ASSUME Types, Control, Collected, NEW line \in Line, LuaLine(line)
  PROVE  Collected'
<1>1. Loading /\ UNCHANGED <<flash, index, section>> /\ job.then # "line"
  BY DEF LuaLine, Loading, Idle
<1>2. CASE Len(buffer) = Room
  <2>1. StoreThen("line", line) /\ UNCHANGED <<buffer, sent>>
    BY <1>2 DEF LuaLine
  <2>2. job'.step = "erase"
    BY <2>1, StoreIs
  <2> QED BY <1>1, <1>2, <2>1, <2>2 DEF Collected, Put
<1>3. CASE Len(buffer) # Room
  <2>1. buffer' = Append(buffer, line) /\ sent' = Append(sent, line) /\ Answer("done", "OK")
    BY <1>3 DEF LuaLine
  <2>2. job'.step = "done" /\ job'.then = "none"
    BY <2>1, AnswerIs DEF Steps
  <2>3. /\ buffer \in Seq(Cell) /\ sent \in Seq(Line) /\ section * Room \in Nat
        /\ Len(sent) \in Nat /\ Len(buffer) \in Nat
    BY SectionPlace DEF Types
  <2>4. /\ Len(buffer') = Len(buffer) + 1 /\ buffer'[Len(buffer) + 1] = line
        /\ \A n \in 1..Len(buffer) : buffer'[n] = buffer[n]
    BY <2>1, <2>3
  <2>5. /\ Len(sent) + 1 = section * Room + Len(buffer) /\ Len(buffer) > 0
        /\ \A n \in 1..(section * Room) : flash[index][n] = Put(sent, n)
        /\ \A n \in 1..Len(buffer) : buffer[n] = Put(sent, section * Room + n)
    BY <1>1 DEF Collected
  <2> DEFINE new == sent'
  <2>10. /\ Len(new) = Len(sent) + 1 /\ Put(new, Len(sent) + 2) = line
         /\ \A n \in 1..(Len(sent) + 1) : Put(new, n) = Put(sent, n)
    BY <2>1, <2>3, PutKept
  <2> HIDE DEF new
  <2>6. Len(sent') + 1 = section * Room + Len(buffer')
    <3>1. Len(sent') = Len(sent) + 1
      BY <2>10 DEF new
    <3> QED BY <2>3, <2>4, <2>5, <3>1
  <2>7. \A n \in 1..(section * Room) : flash'[index'][n] = Put(sent', n)
    <3>1. \A n \in 1..(section * Room) : n \in 1..(Len(sent) + 1)
      BY <2>3, <2>5
    <3> QED BY <1>1, <2>5, <2>10, <3>1 DEF new
  <2>8. ASSUME NEW n \in 1..Len(buffer')
        PROVE  buffer'[n] = Put(sent', section * Room + n)
    <3>1. CASE n \in 1..Len(buffer)
      <4>1. section * Room + n \in 1..(Len(sent) + 1)
        BY <2>3, <2>5, <3>1
      <4> QED BY <2>4, <2>5, <2>10, <3>1, <4>1 DEF new
    <3>2. CASE n = Len(buffer) + 1
      <4>1. section * Room + n = Len(sent) + 2
        <5>1. Len(sent) + 1 = section * Room + Len(buffer)
          BY <2>5
        <5> QED BY <2>3, <3>2, <5>1
      <4>2. Put(sent', Len(sent) + 2) = line
        BY <2>10 DEF new
      <4>3. buffer'[n] = line
        BY <2>4, <3>2
      <4> QED BY <4>1, <4>2, <4>3
    <3> QED BY <2>3, <2>4, <3>1, <3>2
  <2> QED BY <1>1, <2>2, <2>3, <2>4, <2>6, <2>7, <2>8 DEF Collected
<1> QED BY <1>2, <1>3

(* A whole section is stored, and the line it had no room for begins the next. *)
LEMMA CollectedMoreStored ==
  ASSUME Types, Control, Collected, Program, MoreStored
  PROVE  Collected'
<1>1. Loading /\ index \in Slot /\ index' = index /\ job.line \in Line /\ job.then = "line"
  <2>1. index \in Slot /\ index' = index
    BY ProgramIs
  <2>2. job.then = "line" /\ job.line \in Line /\ job.step = "program"
    BY DEF Program, Types, MoreStored
  <2> QED BY <2>1, <2>2, Numbers DEF Loading
<1>2. /\ flash' = With(index, section, Programmed(Room)) /\ section' = section + 1
      /\ buffer' = <<job.line>> /\ sent' = Append(sent, job.line)
  BY ProgramIs DEF MoreStored
<1>3. job'.step = "done" /\ job'.then = "none"
  BY AnswerIs DEF MoreStored, Steps
<1>4. /\ Len(sent) + 1 = section * Room + Room /\ Len(buffer) = Room
      /\ \A n \in 1..(section * Room) : flash[index][n] = Put(sent, n)
      /\ \A n \in 1..Room : buffer[n] = Put(sent, section * Room + n)
  BY <1>1 DEF Collected
<1>5. /\ section * Room \in Nat /\ section' * Room = section * Room + Room
      /\ section * Room + Room <= Sections * Room /\ Room \in Nat /\ Room >= 2
      /\ sent \in Seq(Line) /\ section \in Nat /\ Sections * Room \in Nat
  BY <1>2, SectionPlace, Numbers DEF Types
<1>6. /\ Len(sent') = Len(sent) + 1 /\ Len(sent) \in Nat
      /\ \A n \in 1..(Len(sent) + 1) : Put(sent', n) = Put(sent, n)
      /\ Put(sent', Len(sent) + 2) = job.line
  BY <1>1, <1>2, <1>5, PutKept
<1>7. \A k \in Places : flash'[index][k] =
        IF k \in (section * Room + 1)..(section * Room + Room)
        THEN Programmed(Room)[k - section * Room] ELSE flash[index][k]
  <2>1. Room \in 0..Room
    BY <1>5
  <2>2. Programmed(Room) \in [1..Room -> Cell]
    BY <2>1, SectionsAreCells
  <2> QED BY <1>1, <1>2, <2>2, WithIs
<1>8. \A k \in 1..Room : Programmed(Room)[k] = buffer[k]
  <2>1. Room \in 0..Room
    BY <1>5
  <2> QED BY <1>4, <1>5, <2>1, SectionsAreCells
<1>9. ASSUME NEW n \in 1..(section' * Room)
      PROVE  flash'[index'][n] = Put(sent', n)
  <2>1. n \in Places /\ n \in 1..(Len(sent) + 1)
    BY <1>4, <1>5 DEF Places
  <2>2. CASE n \in 1..(section * Room)
    BY <1>1, <1>4, <1>5, <1>6, <1>7, <2>1, <2>2
  <2>3. CASE n \in (section * Room + 1)..(section * Room + Room)
    <3>1. n - section * Room \in 1..Room /\ section * Room + (n - section * Room) = n
      BY <1>5, <2>3
    <3>2. flash'[index][n] = buffer[n - section * Room]
      BY <1>7, <1>8, <2>1, <2>3, <3>1
    <3>3. buffer[n - section * Room] = Put(sent, n)
      BY <1>4, <3>1
    <3> QED BY <1>1, <1>6, <2>1, <3>2, <3>3
  <2> QED BY <1>5, <2>2, <2>3
<1>10. /\ Len(buffer') = 1 /\ Len(sent') + 1 = section' * Room + Len(buffer')
       /\ \A n \in 1..Len(buffer') : buffer'[n] = Put(sent', section' * Room + n)
  <2>1. Len(buffer') = 1 /\ buffer'[1] = job.line
    BY <1>2
  <2>2. section' * Room + 1 = Len(sent) + 2
    BY <1>4, <1>5, <1>6
  <2> QED BY <1>6, <2>1, <2>2
<1> QED BY <1>3, <1>9, <1>10 DEF Collected

LEMMA CollectedErase ==
  ASSUME Types, Control, Collected, Erase
  PROVE  Collected'
<1>1. /\ job'.step = "program" /\ job'.then = job.then /\ UNCHANGED <<index, section, buffer, sent>>
      /\ index \in Slot /\ flash' = With(index, section, ErasedSection) /\ job.step = "erase"
  BY NextStepIs DEF Erase, loader, Steps, Types, Control
<1>2. /\ section * Room \in Nat /\ section \in Nat /\ Room \in Nat /\ Room >= 2
      /\ section * Room + Room <= Sections * Room /\ Sections * Room \in Nat
  BY SectionPlace, Numbers DEF Types
<1>3. \A k \in Places : flash'[index][k] =
        IF k \in (section * Room + 1)..(section * Room + Room)
        THEN ErasedSection[k - section * Room] ELSE flash[index][k]
  BY <1>1, WithIs, SectionsAreCells
<1>4. \A n \in 1..(section * Room) : flash'[index'][n] = flash[index][n]
  BY <1>1, <1>2, <1>3 DEF Places
<1>5. section = 0 => flash'[index'][1] = Erased
  <2> SUFFICES ASSUME section = 0
               PROVE  flash'[index][1] = Erased
    BY <1>1
  <2>1. 1 \in Places /\ 1 \in (section * Room + 1)..(section * Room + Room) /\ 1 - section * Room = 1
    BY <1>2 DEF Places
  <2>2. 1 \in 1..Room
    BY <1>2
  <2> QED BY <1>3, <2>1, <2>2, SectionsAreCells
<1>6. CASE Loading
  BY <1>1, <1>4, <1>5, <1>6 DEF Collected, Put
<1>7. CASE ~Loading
  BY <1>1, <1>7 DEF Collected, Loading
<1> QED BY <1>6, <1>7

LEMMA CollectedStep ==
  ASSUME Types, Control, Collected, [Moves]_luaVars
  PROVE  Collected'
<1>1. ASSUME NEW s \in Slot, LuaStart(s)
      PROVE  Collected'
  <2>1. CASE s \in Writable
    <3>1. Answer("done", "OK") /\ buffer' = <<Hidden>> /\ section' = 0 /\ sent' = <<>>
      BY <1>1, <2>1 DEF LuaStart
    <3>2. job'.step = "done" /\ job'.then = "none"
      BY <3>1, AnswerIs DEF Steps
    <3>3. section' * Room = 0 /\ Len(buffer') = 1 /\ Len(sent') = 0 /\ buffer'[1] = Hidden
      BY <3>1, Numbers
    <3> QED BY <3>2, <3>3 DEF Collected, Put
  <2>2. CASE s \notin Writable
    <3>1. job'.step = "finished"
      BY <1>1, <2>2, AnswerIs DEF LuaStart, Finish, Steps
    <3> QED BY <3>1 DEF Collected, Loading
  <2> QED BY <2>1, <2>2
<1>2. ASSUME job'.step \in {"wipe", "finished", "parse"} \/ index' = None
      PROVE  Collected'
  BY <1>2 DEF Collected, Loading
<1>3. ASSUME NEW s \in Slot, Delete(s)
      PROVE  Collected'
  <2>1. job'.step \in {"wipe", "finished"}
    BY <1>3, AnswerIs DEF Delete, Finish, Steps, Idle
  <2> QED BY <1>2, <2>1
<1>4. CASE Unexpected
  BY <1>2, <1>4, FailIs DEF Unexpected
<1>5. CASE LuaEnd
  <2>1. /\ Loading /\ job'.step = "erase" /\ job'.then = "parse"
        /\ UNCHANGED <<flash, index, section, buffer, sent>>
    BY <1>5, StoreIs DEF LuaEnd, loader, Loading, Idle
  <2> QED BY <2>1 DEF Collected, Put
<1>6. CASE Program
  <2>1. CASE TooLarge \/ AllStored \/ MarkerStored
    <3>1. job'.step \in {"finished", "parse"}
      BY <2>1, FailIs, AnswerIs, NextStepIs DEF TooLarge, AllStored, MarkerStored, Steps, Types
    <3> QED BY <1>2, <3>1
  <2> QED BY <1>6, <2>1, ProgramIs, CollectedMoreStored
<1>7. CASE Parse
  <2>1. job'.step = "finished" \/ (job'.step = "erase" /\ job'.then = "publish")
    <3>1. StoreThen("publish", NoLine) => job'.step = "erase" /\ job'.then = "publish"
      BY StoreIs
    <3> QED BY <1>7, <3>1, FailIs DEF Parse
  <2> QED BY <2>1 DEF Collected, Loading
<1>8. CASE Wipe
  <2>1. job'.step \in {"wipe", "finished"}
    BY <1>8, AnswerIs DEF Wipe, Finish, Steps
  <2> QED BY <1>2, <2>1
<1>9. CASE Answered
  <2>1. /\ Loading /\ job' = Idle /\ UNCHANGED <<flash, index, section, buffer, sent>>
    BY <1>9 DEF Answered, loader, Loading, Control
  <2> QED BY <2>1 DEF Collected, Put, Idle
<1>10. CASE Finished \/ Dropped \/ PowerLoss
  BY <1>2, <1>10 DEF Finished, Dropped, PowerLoss, NoLoader
<1>11. CASE UNCHANGED luaVars
  BY <1>11 DEF luaVars, loader, Collected, Loading, Put
<1> QED BY <1>1, <1>3, <1>4, <1>5, <1>6, <1>7, <1>8, <1>9, <1>10, <1>11,
           CollectedLuaLine, CollectedErase
        DEF Moves, Handling

-----------------------------------------------------------------------------
(* What the slot holds once all is stored, and with the marker.            *)

LEMMA WholeSections ==
  ASSUME NEW k \in Nat
  PROVE  (k * Room) % Room = 0
<1> DEFINE q == (k * Room) \div Room
           r == (k * Room) % Room
<1>1. /\ Room \in Nat /\ Room > 0 /\ k * Room \in Nat
  BY Numbers
<1>2. q \in Int /\ r \in 0..(Room - 1) /\ k * Room = Room * q + r
  BY <1>1
<1> HIDE DEF q, r
<1>3. r = Room * (k - q)
  BY <1>1, <1>2
<1>4. k - q >= 1 => Room * (k - q) >= Room
  <2>1. Room * (k - q) = Room + Room * (k - q - 1)
    BY <1>1, <1>2
  <2>2. k - q >= 1 => Room * (k - q - 1) >= 0
    <3>1. k - q >= 1 => k - q - 1 \in Nat
      BY <1>2
    <3> QED BY <1>1, <3>1
  <2>3. Room * (k - q) \in Int /\ Room * (k - q - 1) \in Int
    BY <1>1, <1>2
  <2> QED BY <1>1, <2>1, <2>2, <2>3
<1>5. k - q <= -1 => Room * (k - q) < 0
  <2>1. Room * (k - q) = (-Room) + Room * (k - q + 1)
    BY <1>1, <1>2
  <2>2. k - q <= -1 => Room * (k - q + 1) <= 0
    <3>1. k - q <= -1 => -(k - q + 1) \in Nat
      BY <1>2
    <3>2. Room * (k - q + 1) = -(Room * (-(k - q + 1)))
      BY <1>1, <1>2
    <3>3. k - q <= -1 => Room * (-(k - q + 1)) \in Nat
      BY <1>1, <3>1
    <3> QED BY <3>2, <3>3
  <2>3. Room * (k - q) \in Int /\ Room * (k - q + 1) \in Int
    BY <1>1, <1>2
  <2> QED BY <1>1, <2>1, <2>2, <2>3
<1>6. k - q = 0
  BY <1>1, <1>2, <1>3, <1>4, <1>5
<1>7. r = 0
  BY <1>1, <1>3, <1>6
<1> QED BY <1>7 DEF r

LEMMA StoredAllStored ==
  ASSUME Types, Control, Collected, Program, AllStored
  PROVE  (flash[index][1] = Hidden /\ Ended(flash[index]))'
<1>1. /\ Loading /\ index \in Slot /\ index' = index /\ sent' = sent
      /\ flash' = With(index, section, Programmed(Room))
  <2>1. index \in Slot /\ index' = index /\ flash' = With(index, section, Programmed(Room))
    BY ProgramIs
  <2>2. job.then = "parse" /\ job.step = "program" /\ sent' = sent
    BY DEF Program, AllStored
  <2> QED BY <2>1, <2>2, Numbers DEF Loading
<1>2. /\ Len(sent) + 1 = section * Room + Len(buffer)
      /\ Len(buffer) > 0
  BY <1>1 DEF Collected
<1>3. /\ \A n \in 1..(section * Room) : flash[index][n] = Put(sent, n)
      /\ \A n \in 1..Len(buffer) : buffer[n] = Put(sent, section * Room + n)
  BY <1>1 DEF Collected
<1>4. /\ section * Room \in Nat /\ section * Room + Room <= Sections * Room
      /\ Room \in Nat /\ Room >= 2 /\ Sections * Room \in Nat
      /\ (section + 1) * Room = section * Room + Room /\ section + 1 \in Nat
  BY SectionPlace, Numbers DEF Types
<1>5. sent \in Seq(Line) /\ Len(sent) \in Nat /\ Len(buffer) \in Nat /\ Len(buffer) <= Room
  BY DEF Types
<1>6. \A k \in Places : flash'[index][k] =
        IF k \in (section * Room + 1)..(section * Room + Room)
        THEN Programmed(Room)[k - section * Room] ELSE flash[index][k]
  <2>1. Room \in 0..Room
    BY <1>4
  <2>2. Programmed(Room) \in [1..Room -> Cell]
    BY <2>1, SectionsAreCells
  <2> QED BY <1>1, <2>2, WithIs
<1>7. \A k \in 1..Room :
        Programmed(Room)[k] = IF k <= Len(buffer) THEN buffer[k] ELSE Hidden
  <2>1. Room \in 0..Room
    BY <1>4
  <2> QED BY <1>4, <2>1, SectionsAreCells
<1>8. ASSUME NEW n \in 1..(Len(sent) + 1)
      PROVE  n \in Places /\ flash'[index][n] = Put(sent, n)
  <2>1. n \in Places
    BY <1>2, <1>4, <1>5 DEF Places
  <2>2. CASE n \in 1..(section * Room)
    <3>1. n \notin (section * Room + 1)..(section * Room + Room)
      BY <1>4, <2>2
    <3> QED BY <1>3, <1>6, <2>1, <2>2, <3>1
  <2>3. CASE n \in (section * Room + 1)..(section * Room + Room)
    <3>1. n - section * Room \in 1..Len(buffer) /\ n - section * Room \in 1..Room
          /\ section * Room + (n - section * Room) = n
      BY <1>2, <1>4, <1>5, <2>3
    <3>2. flash'[index][n] = buffer[n - section * Room]
      BY <1>5, <1>6, <1>7, <2>1, <2>3, <3>1
    <3> QED BY <1>3, <2>1, <3>1, <3>2
  <2> QED BY <1>2, <1>4, <1>5, <2>2, <2>3
<1>9. Len(sent) + 1 <= Sections * Room
  BY <1>2, <1>4, <1>5
<1>10. ASSUME NEW n \in 1..Len(sent)
       PROVE  flash'[index][n + 1] = sent[n]
  <2>1. n + 1 \in 1..(Len(sent) + 1) /\ n + 1 # 1 /\ (n + 1) - 1 = n
    BY <1>5
  <2> QED BY <1>8, <2>1 DEF Put
<1>11. ASSUME ~FillsSection
       PROVE  Len(sent) + 2 <= Sections * Room /\ flash'[index][Len(sent) + 2] = Hidden
  <2>1. Len(buffer) # Room
    <3> SUFFICES ASSUME Len(buffer) = Room
                 PROVE  FillsSection
      BY <1>11
    <3>1. Len(sent) + 1 = (section + 1) * Room
      BY <1>2, <1>4
    <3> QED BY <1>4, <3>1, WholeSections DEF FillsSection
  <2>2. /\ Len(sent) + 2 = section * Room + (Len(buffer) + 1) /\ Len(buffer) + 1 \in 1..Room
        /\ (Len(sent) + 2) - section * Room = Len(buffer) + 1
    <3> DEFINE place == section * Room
               lines == Len(sent)
               cells == Len(buffer)
    <3>1. /\ place \in Nat /\ lines \in Nat /\ cells \in Nat /\ Room \in Nat
          /\ lines + 1 = place + cells /\ cells <= Room /\ cells # Room
      BY <1>2, <1>4, <1>5, <2>1
    <3> HIDE DEF place, lines, cells
    <3>2. /\ lines + 2 = place + (cells + 1) /\ cells + 1 \in 1..Room
          /\ (lines + 2) - place = cells + 1
      BY <3>1
    <3> QED BY <3>2 DEF place, lines, cells
  <2>3. Len(sent) + 2 \in Places /\ Len(sent) + 2 <= Sections * Room
        /\ Len(sent) + 2 \in (section * Room + 1)..(section * Room + Room)
    <3> DEFINE place == section * Room
               all == Sections * Room
               lines == Len(sent)
               cells == Len(buffer)
    <3>1. /\ place \in Nat /\ all \in Nat /\ lines \in Nat /\ cells \in Nat /\ Room \in Nat
          /\ place + Room <= all /\ lines + 2 = place + (cells + 1) /\ cells + 1 \in 1..Room
      BY <1>4, <1>5, <2>2
    <3> HIDE DEF place, all, lines, cells
    <3>2. /\ lines + 2 \in 1..all /\ lines + 2 <= all
          /\ lines + 2 \in (place + 1)..(place + Room)
      BY <3>1
    <3> QED BY <3>2 DEF Places, place, all, lines, cells
  <2>4. Programmed(Room)[Len(buffer) + 1] = Hidden
    BY <1>5, <1>7, <2>2
  <2> QED BY <1>6, <2>2, <2>3, <2>4
<1>12. flash'[index][1] = Hidden
  <2>1. 1 \in 1..(Len(sent) + 1)
    BY <1>5
  <2> QED BY <1>8, <2>1 DEF Put
<1> QED BY <1>1, <1>9, <1>10, <1>11, <1>12 DEF Ended, FillsSection

LEMMA StoredStep ==
  ASSUME Types, Control, Collected, Stored, [Moves]_luaVars
  PROVE  Stored'
<1>1. ASSUME job'.step # "parse"
      PROVE  Stored'
  BY <1>1 DEF Stored
<1>2. ASSUME NEW s \in Slot, LuaStart(s) \/ Delete(s)
      PROVE  Stored'
  BY <1>1, <1>2, AnswerIs DEF LuaStart, Delete, Finish, Steps, Idle
<1>3. ASSUME NEW line \in Line, LuaLine(line)
      PROVE  Stored'
  <2>1. Answer("done", "OK") => job'.step = "done"
    BY AnswerIs DEF Steps
  <2>2. StoreThen("line", line) => job'.step = "erase"
    BY StoreIs
  <2>3. Answer("done", "OK") \/ StoreThen("line", line)
    BY <1>3 DEF LuaLine
  <2> QED BY <1>1, <2>1, <2>2, <2>3
<1>4. CASE LuaEnd
  BY <1>1, <1>4, StoreIs DEF LuaEnd
<1>5. CASE Unexpected
  BY <1>1, <1>5, FailIs DEF Unexpected
<1>6. CASE Erase
  BY <1>1, <1>6, NextStepIs DEF Erase, Steps, Types
<1>7. CASE Program
  <2>1. CASE MoreStored \/ TooLarge \/ MarkerStored
    BY <1>1, <2>1, FailIs, AnswerIs DEF MoreStored, TooLarge, MarkerStored, Steps
  <2>2. CASE AllStored
    BY <1>7, <2>2, StoredAllStored DEF Stored
  <2> QED BY <1>7, <2>1, <2>2, ProgramIs
<1>8. CASE Parse
  <2>1. StoreThen("publish", NoLine) => job'.step = "erase"
    BY StoreIs
  <2> QED BY <1>1, <1>8, <2>1, FailIs DEF Parse
<1>9. CASE Wipe
  BY <1>1, <1>9, AnswerIs DEF Wipe, Finish, Steps
<1>10. CASE Answered \/ Finished \/ Dropped \/ PowerLoss
  BY <1>1, <1>10 DEF Answered, Finished, Dropped, PowerLoss, NoLoader, Idle
<1>11. CASE UNCHANGED luaVars
  BY <1>11 DEF luaVars, loader, Stored, Ended, FillsSection
<1> QED BY <1>2, <1>3, <1>4, <1>5, <1>6, <1>7, <1>8, <1>9, <1>10, <1>11
        DEF Moves, Handling

LEMMA WipedStep ==
  ASSUME Types, Control, Wiped, [Moves]_luaVars
  PROVE  Wiped'
<1>1. ASSUME job'.step # "wipe"
      PROVE  Wiped'
  BY <1>1 DEF Wiped
<1>2. ASSUME NEW s \in Slot, LuaStart(s)
      PROVE  Wiped'
  BY <1>1, <1>2, AnswerIs DEF LuaStart, Finish, Steps
<1>3. ASSUME NEW s \in Slot, Delete(s)
      PROVE  Wiped'
  <2>1. buffer' = <<>> /\ section' = 0
    BY <1>3 DEF Delete, Control
  <2> QED BY <2>1 DEF Wiped
<1>4. ASSUME NEW line \in Line, LuaLine(line)
      PROVE  Wiped'
  <2>1. Answer("done", "OK") => job'.step = "done"
    BY AnswerIs DEF Steps
  <2>2. StoreThen("line", line) => job'.step = "erase"
    BY StoreIs
  <2>3. Answer("done", "OK") \/ StoreThen("line", line)
    BY <1>4 DEF LuaLine
  <2> QED BY <1>1, <2>1, <2>2, <2>3
<1>5. CASE LuaEnd \/ Unexpected
  BY <1>1, <1>5, StoreIs, FailIs DEF LuaEnd, Unexpected
<1>6. CASE Erase
  BY <1>1, <1>6, NextStepIs DEF Erase, Steps, Types
<1>7. CASE Program
  <2>1. CASE MoreStored \/ TooLarge \/ MarkerStored
    BY <1>1, <2>1, FailIs, AnswerIs DEF MoreStored, TooLarge, MarkerStored, Steps
  <2>2. CASE AllStored
    BY <1>1, <2>2, NextStepIs DEF AllStored, Steps, Types
  <2> QED BY <1>7, <2>1, <2>2, ProgramIs
<1>8. CASE Parse
  <2>1. StoreThen("publish", NoLine) => job'.step = "erase"
    BY StoreIs
  <2> QED BY <1>1, <1>8, <2>1, FailIs DEF Parse
<1>9. CASE Wipe
  <2>1. /\ index \in Slot /\ index' = index /\ buffer' = <<>>
        /\ flash' = With(index, section, ErasedSection)
        /\ section > 0 => flash[index][1] = Erased
    BY <1>9 DEF Wipe, Control, Types, Wiped
  <2>2. /\ section * Room \in Nat /\ Room >= 2 /\ Room \in Nat /\ section \in Nat
        /\ section > 0 => section * Room >= Room
    BY SectionPlace, Numbers DEF Types
  <2>3. \A k \in Places : flash'[index][k] =
          IF k \in (section * Room + 1)..(section * Room + Room)
          THEN ErasedSection[k - section * Room] ELSE flash[index][k]
    BY <2>1, WithIs, SectionsAreCells
  <2>4. 1 \in Places
    BY Numbers DEF Places
  <2>5. flash'[index][1] = Erased
    <3>1. CASE section > 0
      <4>1. 1 \notin (section * Room + 1)..(section * Room + Room)
        BY <2>2, <3>1
      <4> QED BY <2>1, <2>3, <2>4, <3>1, <4>1
    <3>2. CASE section = 0
      <4>1. section * Room = 0
        BY <2>2, <3>2
      <4>2. 1 \in (section * Room + 1)..(section * Room + Room) /\ 1 - section * Room \in 1..Room
        BY <2>2, <4>1
      <4> QED BY <2>3, <2>4, <4>2, SectionsAreCells
    <3> QED BY <2>2, <3>1, <3>2
  <2> QED BY <2>1, <2>5 DEF Wiped
<1>10. CASE Answered \/ Finished \/ Dropped \/ PowerLoss
  BY <1>1, <1>10 DEF Answered, Finished, Dropped, PowerLoss, NoLoader, Idle
<1>11. CASE UNCHANGED luaVars
  BY <1>11 DEF luaVars, loader, Wiped
<1> QED BY <1>2, <1>3, <1>4, <1>5, <1>6, <1>7, <1>8, <1>9, <1>10, <1>11
        DEF Moves, Handling

-----------------------------------------------------------------------------
(* Text that parses and begins with these lines.                           *)
LEMMA ParsesLines ==
  ASSUME NEW cells \in Seq(Cell), NEW lines \in Seq(Line), Len(lines) <= Len(cells),
         \A n \in 1..Len(lines) : cells[n] = lines[n], Parses(Text(cells))
  PROVE  \A n \in 1..Len(lines) : lines[n].script \notin Broken
<1> SUFFICES ASSUME NEW n \in 1..Len(lines)
             PROVE  lines[n].script \notin Broken
  OBVIOUS
<1>1. lines[n] \in Line /\ cells[n] = lines[n] /\ n \in 1..Len(cells) /\ Len(cells) \in Nat
  OBVIOUS
<1>2. CASE Terminated(cells)
  <2>1. PICK f \in 1..Len(cells) :
          /\ cells[f] = Hidden /\ \A k \in 1..(f - 1) : cells[k] # Hidden
          /\ Text(cells) = SubSeq(cells, 1, f - 1)
    BY <1>2, FirstHidden
  <2>2. n <= f - 1
    <3> SUFFICES ASSUME f <= n
                 PROVE  FALSE
      BY <1>1
    <3>1. f \in 1..Len(lines) /\ lines[f] \in Line /\ cells[f] = lines[f]
      OBVIOUS
    <3> QED BY <2>1, <3>1, Bytes
  <2>3. n \in DOMAIN Text(cells) /\ Text(cells)[n] = cells[n]
    BY <1>1, <2>1, <2>2
  <2> QED BY <1>1, <2>3 DEF Parses
<1>3. CASE ~Terminated(cells)
  <2>1. Text(cells) = cells
    BY <1>3 DEF Text
  <2>2. n \in DOMAIN cells
    BY <1>1
  <2> QED BY <1>1, <2>1, <2>2 DEF Parses
<1> QED BY <1>2, <1>3

LEMMA TailIs ==
  ASSUME NEW q \in Seq(Cell), Len(q) > 0
  PROVE  /\ Tail(q) \in Seq(Cell) /\ Len(Tail(q)) = Len(q) - 1
         /\ \A n \in 1..Len(Tail(q)) : Tail(q)[n] = q[n + 1]
OBVIOUS

LEMMA PublishedParse ==
  ASSUME Types, Control, Stored, Parse, StoreThen("publish", NoLine),
         buffer' = <<Marker>> \o SubSeq(flash[index], 2, Room), section' = 0,
         Parses(Text(Tail(flash[index])))
  PROVE  Published'
<1>1. /\ index \in Slot /\ index' = index /\ sent' = sent /\ flash' = flash
      /\ flash[index][1] = Hidden /\ Ended(flash[index])
  BY DEF Parse, Control, Types, Stored
<1>2. /\ flash[index] \in Seq(Cell) /\ Len(flash[index]) = Sections * Room
      /\ Sections * Room \in Nat /\ Sections * Room >= Room /\ Room >= 2 /\ Room \in Nat
      /\ sent \in Seq(Line) /\ Len(sent) \in Nat
  BY <1>1, Slots, Numbers DEF Types
<1>3. /\ Len(buffer') = Room /\ buffer'[1] = Marker
      /\ \A n \in 2..Room : buffer'[n] = flash[index][n]
  <2> DEFINE q == SubSeq(flash[index], 2, Room)
  <2>1. q \in Seq(Cell) /\ Len(q) = Room - 1 /\ \A n \in 1..(Room - 1) : q[n] = flash[index][n + 1]
    BY <1>2
  <2>2. buffer' = <<Marker>> \o q
    OBVIOUS
  <2> HIDE DEF q
  <2>3. /\ Len(buffer') = Room /\ buffer'[1] = Marker
        /\ \A n \in 2..Room : buffer'[n] = q[n - 1]
    BY <1>2, <2>1, <2>2, Bytes, Short
  <2> QED BY <1>2, <2>1, <2>3
<1>4. \A n \in 2..(Sections * Room) : Image'[n] = flash[index][n]
  BY <1>1, <1>2, <1>3 DEF Image, Places
<1>5. /\ Len(sent) + 1 <= Sections * Room
      /\ \A n \in 1..Len(sent) : flash[index][n + 1] = sent[n]
      /\ ~FillsSection => Len(sent) + 2 <= Sections * Room
                          /\ flash[index][Len(sent) + 2] = Hidden
  BY <1>1 DEF Ended
<1>6. Ended(Image)'
  <2>1. FillsSection' = FillsSection
    BY <1>1 DEF FillsSection
  <2>2. \A n \in 1..Len(sent) : n + 1 \in 2..(Sections * Room)
    BY <1>2, <1>5
  <2>3. \A n \in 1..Len(sent) : Image'[n + 1] = sent[n]
    BY <1>4, <1>5, <2>2
  <2>4. ~FillsSection => Image'[Len(sent) + 2] = Hidden
    <3>1. Len(sent) + 2 <= Sections * Room => Len(sent) + 2 \in 2..(Sections * Room)
      BY <1>2
    <3> QED BY <1>4, <1>5, <3>1
  <2> QED BY <1>1, <1>5, <2>1, <2>3, <2>4 DEF Ended
<1>7. \A n \in 1..Len(sent) : sent[n].script \notin Broken
  <2> DEFINE cells == Tail(flash[index])
  <2>1. /\ cells \in Seq(Cell) /\ Len(cells) = Sections * Room - 1
        /\ \A n \in 1..Len(cells) : cells[n] = flash[index][n + 1]
    <3>1. Len(flash[index]) > 0
      BY <1>2
    <3> QED BY <1>2, <3>1, TailIs
  <2>2. Len(sent) <= Len(cells) /\ \A n \in 1..Len(sent) : cells[n] = sent[n]
    BY <1>2, <1>5, <2>1
  <2>3. Parses(Text(cells))
    OBVIOUS
  <2> HIDE DEF cells
  <2> QED BY <1>2, <2>1, <2>2, <2>3, ParsesLines
<1> QED BY <1>1, <1>3, <1>6, <1>7 DEF Published

LEMMA PublishedErase ==
  ASSUME Types, Control, Published, Erase
  PROVE  Published'
<1>1. /\ index \in Slot /\ job'.step = "program" /\ job'.then = job.then /\ job.step = "erase"
      /\ UNCHANGED <<index, section, buffer, sent>>
      /\ flash' = With(index, section, ErasedSection)
  BY NextStepIs DEF Erase, loader, Steps, Types, Control
<1>2. CASE job.then = "publish"
  <2>1. section = 0 /\ section * Room = 0 /\ Room \in Nat
    BY <1>1, <1>2, Numbers DEF Published
  <2>2. \A k \in Places : flash'[index][k] =
          IF k \in (section * Room + 1)..(section * Room + Room)
          THEN ErasedSection[k - section * Room] ELSE flash[index][k]
    BY <1>1, WithIs, SectionsAreCells
  <2>3. \A k \in Places : k > Room => flash'[index][k] = flash[index][k]
    BY <2>1, <2>2 DEF Places
  <2>4. Image' = Image
    <3>1. \A n \in Places : Image'[n] = Image[n]
      BY <1>1, <2>3, Numbers DEF Image, Places
    <3> QED BY <3>1 DEF Image
  <2> QED BY <1>1, <1>2, <2>4 DEF Published, Ended, FillsSection
<1>3. CASE job.then # "publish"
  BY <1>1, <1>3 DEF Published
<1> QED BY <1>2, <1>3

LEMMA PublishedStep ==
  ASSUME Types, Control, Stored, Published, [Moves]_luaVars
  PROVE  Published'
<1>1. ASSUME job'.step \notin {"erase", "program"} \/ job'.then # "publish"
      PROVE  Published'
  BY <1>1 DEF Published
<1>2. ASSUME NEW s \in Slot, LuaStart(s) \/ Delete(s)
      PROVE  Published'
  BY <1>1, <1>2, AnswerIs DEF LuaStart, Delete, Finish, Steps, Idle
<1>3. ASSUME NEW line \in Line, LuaLine(line)
      PROVE  Published'
  <2>1. Answer("done", "OK") => job'.step = "done"
    BY AnswerIs DEF Steps
  <2>2. StoreThen("line", line) => job'.then = "line"
    BY StoreIs
  <2>3. Answer("done", "OK") \/ StoreThen("line", line)
    BY <1>3 DEF LuaLine
  <2> QED BY <1>1, <2>1, <2>2, <2>3
<1>4. CASE LuaEnd \/ Unexpected
  BY <1>1, <1>4, StoreIs, FailIs DEF LuaEnd, Unexpected
<1>5. CASE Program
  <2>1. CASE MoreStored \/ TooLarge \/ MarkerStored
    BY <1>1, <2>1, FailIs, AnswerIs DEF MoreStored, TooLarge, MarkerStored, Steps
  <2>2. CASE AllStored
    <3>1. job'.step = "parse"
      BY <2>2, NextStepIs DEF AllStored, Steps, Types
    <3> QED BY <1>1, <3>1
  <2> QED BY <1>5, <2>1, <2>2, ProgramIs
<1>6. CASE Parse
  <2>1. CASE Fail
    BY <1>1, <2>1, FailIs
  <2>2. CASE ~Fail
    <3>1. /\ Parses(Text(Tail(flash[index]))) /\ section' = 0 /\ StoreThen("publish", NoLine)
          /\ buffer' = <<Marker>> \o SubSeq(flash[index], 2, Room)
      BY <1>6, <2>2, Zenon DEF Parse
    <3> QED BY <1>6, <3>1, PublishedParse
  <2> QED BY <2>1, <2>2
<1>7. CASE Wipe
  BY <1>1, <1>7, AnswerIs DEF Wipe, Finish, Steps
<1>8. CASE Answered \/ Finished \/ Dropped \/ PowerLoss
  BY <1>1, <1>8 DEF Answered, Finished, Dropped, PowerLoss, NoLoader, Idle
<1>9. CASE UNCHANGED luaVars
  BY <1>9 DEF luaVars, loader, Published, Ended, FillsSection, Image
<1> QED BY <1>2, <1>3, <1>4, <1>5, <1>6, <1>7, <1>8, <1>9, PublishedErase
        DEF Moves, Handling

(* The first section goes back, whole or torn.                             *)
LEMMA PublishedAs ==
  ASSUME Types, Control, Published, job.step = "program", job.then = "publish",
         NEW n \in 0..Room, flash' = With(index, section, Programmed(n))
  PROVE  /\ index \in Slot /\ flash'[index] \in Seq(Cell)
         /\ Len(flash'[index]) = Sections * Room
         /\ \A k \in Places : flash'[index][k] = IF k <= n \/ k > Room THEN Image[k] ELSE Erased
         /\ Image[1] = Marker
<1>1. /\ index \in Slot /\ section = 0 /\ section * Room = 0 /\ Room \in Nat /\ Room >= 2
      /\ Len(buffer) = Room /\ buffer[1] = Marker /\ Sections * Room \in Nat
      /\ Sections * Room >= Room
  BY Numbers DEF Control, Types, Published
<1>2. Programmed(n) \in [1..Room -> Cell] /\ \A k \in 1..Room :
        Programmed(n)[k] = IF k > n THEN Erased ELSE buffer[k]
  BY <1>1, SectionsAreCells
<1>3. /\ flash' \in [Slot -> [Places -> Cell]]
      /\ \A k \in Places : flash'[index][k] =
           IF k \in 1..Room THEN Programmed(n)[k] ELSE flash[index][k]
  <2>1. /\ flash' \in [Slot -> [Places -> Cell]]
        /\ \A k \in Places : flash'[index][k] =
             IF k \in (section * Room + 1)..(section * Room + Room)
             THEN Programmed(n)[k - section * Room] ELSE flash[index][k]
    BY <1>1, <1>2, WithIs
  <2>2. \A k \in Places : k \in Nat /\ k - section * Room = k
    BY <1>1 DEF Places
  <2> QED BY <1>1, <2>1, <2>2
<1>4. flash'[index] \in Seq(Cell) /\ Len(flash'[index]) = Sections * Room
  <2>1. flash'[index] \in [1..(Sections * Room) -> Cell]
    BY <1>1, <1>3 DEF Places
  <2> QED BY <1>1, <2>1
<1>5. ASSUME NEW k \in Places
      PROVE  flash'[index][k] = IF k <= n \/ k > Room THEN Image[k] ELSE Erased
  <2>1. Image[k] = IF k <= Room THEN buffer[k] ELSE flash[index][k]
    BY DEF Image
  <2>2. CASE k <= Room
    <3>1. k \in 1..Room
      BY <1>1, <2>2 DEF Places
    <3> QED BY <1>1, <1>2, <1>3, <2>1, <2>2, <3>1
  <2>3. CASE k > Room
    <3>1. k \notin 1..Room /\ ~(k <= Room)
      BY <1>1, <2>3 DEF Places
    <3> QED BY <1>3, <2>1, <2>3, <3>1
  <2> QED BY <1>1, <2>2, <2>3 DEF Places
<1>6. Image[1] = Marker
  BY <1>1 DEF Image, Places
<1> QED BY <1>1, <1>4, <1>5, <1>6

(* LuaEnd is only answered OK when the marker is stored: the slot shows     *)
(* the lines sent.                                                         *)
LEMMA AckedMarkerStored ==
  ASSUME Types, Control, Published, Program, MarkerStored
  PROVE  AckedIsShown'
<1>1. /\ job.step = "program" /\ job.then = "publish" /\ index' = index /\ sent' = sent
      /\ flash' = With(index, section, Programmed(Room)) /\ Room \in 0..Room
  BY ProgramIs, Numbers DEF MarkerStored, Program
<1> DEFINE cells == flash'[index]
<1>2. /\ index \in Slot /\ cells \in Seq(Cell) /\ Len(cells) = Sections * Room
      /\ \A k \in Places : cells[k] = Image[k]
      /\ Image[1] = Marker
  BY <1>1, PublishedAs, Numbers DEF Places
<1>3. /\ Ended(Image) /\ \A n \in 1..Len(sent) : sent[n].script \notin Broken
      /\ sent \in Seq(Line) /\ Len(sent) \in Nat /\ Sections * Room \in Nat
  BY <1>1, Numbers DEF Published, Types
<1> HIDE DEF cells
<1>4. ASSUME ~FillsSection
      PROVE  ShownIn(cells) = {sent}
  <2>a. /\ Len(sent) + 2 <= Sections * Room /\ Image[Len(sent) + 2] = Hidden
        /\ \A n \in 1..Len(sent) : Image[n + 1] = sent[n]
    BY <1>3, <1>4 DEF Ended
  <2>b. /\ Len(sent) + 2 \in Places
        /\ \A n \in 1..Len(sent) : n + 1 \in Places
    BY <1>3, <2>a DEF Places
  <2>1. /\ Len(sent) + 2 <= Len(cells) /\ cells[Len(sent) + 2] = Hidden
        /\ \A n \in 1..Len(sent) : cells[n + 1] = sent[n]
    BY <1>2, <2>a, <2>b
  <2>2. cells[1] = Marker
    BY <1>2, <1>3, <2>1 DEF Places
  <2>3. Terminated(cells)
    BY <1>2, <1>3, <2>1 DEF Terminated
  <2>4. PICK f \in 1..Len(cells) :
          /\ cells[f] = Hidden /\ \A n \in 1..(f - 1) : cells[n] # Hidden
          /\ Text(cells) = SubSeq(cells, 1, f - 1)
    BY <1>2, <2>3, FirstHidden
  <2>5. f <= Len(sent) + 2 /\ f > 1
    BY <1>2, <1>3, <2>1, <2>2, <2>4, Bytes
  <2>6. /\ Text(cells) \in Seq(Cell) /\ Len(Text(cells)) = f - 1
        /\ \A n \in 1..(f - 1) : Text(cells)[n] = cells[n]
    BY <1>2, <2>4
  <2>7. Text(cells) # <<>>
    BY <2>5, <2>6
  <2>8. ASSUME NEW n \in 1..(f - 1)
        PROVE  cells[n] # Erased /\ (cells[n] \in Line => cells[n].script \notin Broken)
    <3>1. CASE n = 1
      BY <2>2, <3>1, Bytes
    <3>2. CASE n # 1
      <4>1. n - 1 \in 1..Len(sent) /\ (n - 1) + 1 = n
        BY <1>3, <2>5, <3>2
      <4>2. cells[n] = sent[n - 1] /\ sent[n - 1] \in Line
        BY <1>3, <2>1, <4>1
      <4> QED BY <1>3, <4>1, <4>2, Bytes
    <3> QED BY <3>1, <3>2
  <2>9. Parses(Text(cells))
    BY <2>6, <2>8 DEF Parses
  <2>10. ShownIn(cells) = {Tail(Text(cells))}
    BY <2>3, <2>7, <2>9 DEF ShownIn
  <2>11. Len(sent) + 1 <= Len(cells)
    BY <1>2, <1>3, <2>1
  <2>12. Tail(Text(cells)) = sent
    BY <1>2, <1>3, <2>1, <2>10, <2>11, ShownWhole
  <2> QED BY <2>10, <2>12
<1>5. FillsSection' = FillsSection
  BY <1>1 DEF FillsSection
<1>6. Shown'[index] = ShownIn(cells)
  BY <1>2 DEF Shown, cells
<1> QED BY <1>1, <1>4, <1>5, <1>6 DEF AckedIsShown

LEMMA AckedStep ==
  ASSUME Types, Control, Published, Wiped, AckedIsShown, [Moves]_luaVars
  PROVE  AckedIsShown'
<1>1. ASSUME job'.step # "finished" \/ result' # "OK" \/ buffer' = <<>>
      PROVE  AckedIsShown'
  BY <1>1 DEF AckedIsShown
<1>2. ASSUME NEW s \in Slot, LuaStart(s)
      PROVE  AckedIsShown'
  BY <1>1, <1>2, AnswerIs DEF LuaStart, Finish, Steps
<1>3. ASSUME NEW s \in Slot, Delete(s)
      PROVE  AckedIsShown'
  BY <1>1, <1>3 DEF Delete, Control
<1>4. ASSUME NEW line \in Line, LuaLine(line)
      PROVE  AckedIsShown'
  <2>1. Answer("done", "OK") => job'.step = "done"
    BY AnswerIs DEF Steps
  <2>2. StoreThen("line", line) => job'.step = "erase"
    BY StoreIs
  <2>3. Answer("done", "OK") \/ StoreThen("line", line)
    BY <1>4 DEF LuaLine
  <2> QED BY <1>1, <2>1, <2>2, <2>3
<1>5. CASE LuaEnd \/ Unexpected
  BY <1>1, <1>5, StoreIs, FailIs DEF LuaEnd, Unexpected
<1>6. CASE Erase
  BY <1>1, <1>6, NextStepIs DEF Erase, Steps, Types
<1>7. CASE Program
  <2>1. CASE MoreStored
    BY <1>1, <2>1, AnswerIs DEF MoreStored, Steps
  <2>2. CASE TooLarge
    BY <1>1, <2>2, FailIs DEF TooLarge
  <2>3. CASE AllStored
    BY <1>1, <2>3, NextStepIs DEF AllStored, Steps, Types
  <2>4. CASE MarkerStored
    BY <1>7, <2>4, AckedMarkerStored
  <2> QED BY <1>7, <2>1, <2>2, <2>3, <2>4, ProgramIs
<1>8. CASE Parse
  <2>1. StoreThen("publish", NoLine) => job'.step = "erase"
    BY StoreIs
  <2> QED BY <1>1, <1>8, <2>1, FailIs DEF Parse
<1>9. CASE Wipe
  BY <1>1, <1>9 DEF Wipe, Wiped
<1>10. CASE Answered \/ Finished \/ Dropped \/ PowerLoss
  BY <1>1, <1>10 DEF Answered, Finished, Dropped, PowerLoss, NoLoader, Idle
<1>11. CASE UNCHANGED luaVars
  BY <1>11 DEF luaVars, loader, AckedIsShown, FillsSection, Shown
<1> QED BY <1>2, <1>3, <1>4, <1>5, <1>6, <1>7, <1>8, <1>9, <1>10, <1>11
        DEF Moves, Handling

LEMMA InitIInv ==
  Init => IInv
<1> SUFFICES ASSUME Init
             PROVE  IInv
  OBVIOUS
<1>1. /\ index = None /\ section = 0 /\ buffer = <<>> /\ sent = <<>> /\ job = Idle
      /\ job.step = "idle" /\ job.then = "none" /\ result = "none"
  BY DEF Init, Idle
<1>2. flash \in [Slot -> [Places -> Cell]]
  BY Bytes DEF Init, Places
<1>3. job \in Jobs
  BY <1>1 DEF Jobs, Idle, Steps
<1>4. Types
  BY <1>1, <1>2, <1>3, Short DEF Types
<1>5. Control /\ Collected
  BY <1>1, Numbers DEF Control, Collected, Loading
<1>6. Stored /\ Published /\ Wiped /\ AckedIsShown
  BY <1>1 DEF Stored, Published, Wiped, AckedIsShown
<1> QED BY <1>4, <1>5, <1>6 DEF IInv

LEMMA Inductive ==
  IInv /\ [Moves]_luaVars => IInv'
BY TypesStep, ControlStep, CollectedStep, StoredStep, PublishedStep, WipedStep, AckedStep DEF IInv

LEMMA NextMoves ==
  [Next]_luaVars => [Moves]_luaVars
BY DEF Next, SendLine, Moves, ConnectionLost, Dropped

LEMMA Invariant == Spec => []IInv
BY InitIInv, NextMoves, Inductive, PTL DEF Spec

(* CLuaLoad: its variables take the values the code can give them.         *)
THEOREM TypeCorrect == Spec => []TypeOK
<1>1. IInv => TypeOK
  BY DEF IInv, Types, TypeOK, Jobs, Places
<1> QED BY <1>1, Invariant, PTL

(* CLuaLoad, LuaEnd: an upload answered OK is there to be started, exactly  *)
(* as it was sent, unless it fills its last section.                       *)
THEOREM AckedUploadIsShown == Spec => []AckedIsShown
<1>1. IInv => AckedIsShown
  BY DEF IInv
<1> QED BY <1>1, Invariant, PTL

-----------------------------------------------------------------------------
(* LuaLoad implements ScriptStore.                                         *)

LEMMA ShownOne ==
  ASSUME NEW cells
  PROVE  ShownIn(cells) = {} \/ \E t \in ShownIn(cells) : ShownIn(cells) = {t}
BY DEF ShownIn

(* Only the slot written changes what it shows.                            *)
LEMMA ShownFrame ==
  ASSUME Types, index \in Slot, NEW cells \in [1..Room -> Cell],
         flash' = With(index, section, cells)
  PROVE  /\ Shown' = [Shown EXCEPT ![index] = ShownIn(flash'[index])]
         /\ flash'[index] \in Seq(Cell) /\ Len(flash'[index]) = Sections * Room
         /\ flash'[index][1] = IF section = 0 THEN cells[1] ELSE flash[index][1]
<1>1. /\ flash' \in [Slot -> [Places -> Cell]]
      /\ \A s \in Slot : s # index => flash'[s] = flash[s]
      /\ \A k \in Places : flash'[index][k] =
           IF k \in (section * Room + 1)..(section * Room + Room)
           THEN cells[k - section * Room] ELSE flash[index][k]
  BY WithIs
<1>2. Shown' = [Shown EXCEPT ![index] = ShownIn(flash'[index])]
  BY <1>1 DEF Shown
<1>3. flash'[index] \in Seq(Cell) /\ Len(flash'[index]) = Sections * Room
  <2>1. flash'[index] \in [1..(Sections * Room) -> Cell]
    BY <1>1 DEF Places
  <2> QED BY <2>1, Numbers
<1>4. /\ section \in Nat /\ section * Room \in Nat
      /\ section > 0 => section * Room >= Room
      /\ section = 0 => section * Room = 0
      /\ Room \in Nat /\ Room >= 2 /\ 1 \in Places
  BY SectionPlace, Numbers DEF Types, Places
<1>5. flash'[index][1] = IF section = 0 THEN cells[1] ELSE flash[index][1]
  <2>1. CASE section = 0
    <3>1. /\ 1 \in (section * Room + 1)..(section * Room + Room) /\ 1 - section * Room = 1
      BY <1>4, <2>1
    <3> QED BY <1>1, <1>4, <2>1, <3>1
  <2>2. CASE section # 0
    <3>1. 1 \notin (section * Room + 1)..(section * Room + Room)
      BY <1>4, <2>2
    <3> QED BY <1>1, <1>4, <2>2, <3>1
  <2> QED BY <2>1, <2>2
<1> QED BY <1>2, <1>3, <1>5

(* While a script arrives, and while a slot is wiped, the slot is hidden.  *)
HidingCells(cells) ==
  \/ job.step \in {"erase", "wipe"} /\ cells = ErasedSection
  \/ /\ job.step = "program" /\ job.then # "publish"
     /\ \E n \in 0..Room : cells = Programmed(n)

LEMMA Hides ==
  ASSUME Types, Control, Collected, Published, Wiped, NEW cells \in [1..Room -> Cell],
         HidingCells(cells), flash' = With(index, section, cells)
  PROVE  index \in Slot /\ Shown' = [Shown EXCEPT ![index] = {}]
<1>1. index \in Slot /\ index # None
  BY DEF HidingCells, Control, Types
<1>2. /\ section \in Nat /\ section * Room \in Nat /\ Room \in Nat /\ Room >= 2
      /\ section > 0 => section * Room >= Room
  BY SectionPlace, Numbers DEF Types
<1>3. ASSUME flash'[index][1] \in {Hidden, Erased}
      PROVE  Shown' = [Shown EXCEPT ![index] = {}]
  <2>1. /\ flash'[index] \in Seq(Cell) /\ Len(flash'[index]) = Sections * Room
        /\ Shown' = [Shown EXCEPT ![index] = ShownIn(flash'[index])]
    BY <1>1, ShownFrame
  <2>2. Len(flash'[index]) > 0
    BY <2>1, Numbers
  <2>3. ShownIn(flash'[index]) = {}
    BY <1>3, <2>1, <2>2, Unshown
  <2> QED BY <2>1, <2>3
<1>4. CASE Loading
  <2>1. section > 0 => 1 \in 1..(section * Room)
    BY <1>2
  <2>2. section > 0 => flash[index][1] = Hidden
    BY <1>4, <2>1 DEF Collected, Put
  <2>3. section = 0 => Len(buffer) > 0 /\ 1 \in 1..Len(buffer) /\ buffer[1] = Hidden
    <3>1. Len(buffer) \in Nat /\ (section = 0 => section * Room + 1 = 1)
      BY <1>2 DEF Types
    <3>2. Len(buffer) > 0 /\ \A n \in 1..Len(buffer) : buffer[n] = Put(sent, section * Room + n)
      BY <1>4 DEF Collected
    <3> QED BY <3>1, <3>2 DEF Put, Types
  <2>4. section = 0 => cells[1] \in {Hidden, Erased}
    <3>1. 1 \in 1..Room
      BY <1>2
    <3>2. CASE cells = ErasedSection
      BY <3>1, <3>2, SectionsAreCells
    <3>3. ASSUME NEW n \in 0..Room, cells = Programmed(n), section = 0
          PROVE  cells[1] \in {Hidden, Erased}
      <4>1. Programmed(n)[1] =
              IF 1 > n THEN Erased ELSE IF 1 <= Len(buffer) THEN buffer[1] ELSE Hidden
        BY <3>1, SectionsAreCells
      <4> QED BY <2>3, <3>3, <4>1
    <3> QED BY <3>2, <3>3 DEF HidingCells
  <2>5. flash'[index][1] \in {Hidden, Erased}
    BY <1>1, <1>2, <2>2, <2>4, ShownFrame
  <2> QED BY <1>1, <1>3, <2>5
<1>5. CASE ~Loading
  <2>1. cells = ErasedSection /\ (section > 0 => flash[index][1] = Erased)
    BY <1>1, <1>5 DEF HidingCells, Loading, Published, Wiped
  <2>2. 1 \in 1..Room
    BY <1>2
  <2>3. cells[1] = Erased
    BY <2>1, <2>2, SectionsAreCells
  <2>4. flash'[index][1] = Erased
    BY <1>1, <1>2, <2>1, <2>3, ShownFrame
  <2> QED BY <1>1, <1>3, <2>4
<1> QED BY <1>4, <1>5

(* Its first section back with the marker, or part of it: the slot shows   *)
(* the script sent or nothing.                                             *)
LEMMA ShowsWhole ==
  ASSUME Types, Control, Published, job.step = "program", job.then = "publish",
         NEW n \in 0..Room, flash' = With(index, section, Programmed(n)),
         NEW t \in ShownIn(flash'[index])
  PROVE  /\ Len(sent) <= Len(t) /\ SubSeq(t, 1, Len(sent)) = sent
         /\ ~FillsSection => t = sent
<1> DEFINE cells == flash'[index]
<1>1. /\ cells \in Seq(Cell) /\ Len(cells) = Sections * Room
      /\ \A k \in Places : cells[k] = IF k <= n \/ k > Room THEN Image[k] ELSE Erased
      /\ Image[1] = Marker
  BY PublishedAs
<1>2. /\ Len(sent) + 1 <= Sections * Room /\ \A k \in 1..Len(sent) : Image[k + 1] = sent[k]
      /\ ~FillsSection => Len(sent) + 2 <= Sections * Room /\ Image[Len(sent) + 2] = Hidden
  BY DEF Published, Ended
<1>3. /\ sent \in Seq(Line) /\ Len(sent) \in Nat /\ Sections * Room \in Nat
      /\ Room \in Nat /\ Sections * Room >= Room /\ t \in ShownIn(cells)
  BY Numbers DEF Types
<1> HIDE DEF cells
<1>4. PICK f \in 1..Len(cells) :
        /\ f > 1 /\ cells[f] = Hidden
        /\ \A k \in 1..(f - 1) : cells[k] # Hidden /\ cells[k] # Erased
  BY <1>1, <1>3, ShownText
<1>5. n < Room => f <= n
  <2> SUFFICES ASSUME n < Room, ~(f <= n)
               PROVE  FALSE
    OBVIOUS
  <2>0. f \in Nat
    BY <1>1, <1>3
  <2>1. n + 1 \in Places /\ n + 1 <= Room /\ n + 1 > n /\ n + 1 \in 1..f
    BY <1>3, <2>0 DEF Places
  <2>2. cells[n + 1] = Erased
    BY <1>1, <1>3, <2>1
  <2>3. n + 1 = f \/ n + 1 \in 1..(f - 1)
    BY <1>1, <1>3, <2>1
  <2> QED BY <1>4, <2>2, <2>3, Bytes
<1>6. \A k \in 1..f : cells[k] = Image[k]
  <2> SUFFICES ASSUME NEW k \in 1..f
               PROVE  cells[k] = Image[k]
    OBVIOUS
  <2>1. k \in Places /\ k \in Nat
    BY <1>1, <1>3 DEF Places
  <2>2. k <= n \/ k > Room
    BY <1>3, <1>5, <2>1
  <2> QED BY <1>1, <2>1, <2>2
<1>7. f >= Len(sent) + 2
  <2> SUFFICES ASSUME f < Len(sent) + 2
               PROVE  FALSE
    BY <1>3
  <2>1. f - 1 \in 1..Len(sent) /\ (f - 1) + 1 = f /\ f \in 1..f
    BY <1>1, <1>3, <1>4
  <2>2. cells[f] = sent[f - 1] /\ sent[f - 1] \in Line
    BY <1>2, <1>3, <1>6, <2>1
  <2> QED BY <1>4, <2>2, Bytes
<1>8. /\ Len(sent) + 1 <= Len(cells) /\ \A k \in 1..Len(sent) : cells[k + 1] = sent[k]
      /\ ~FillsSection => Len(sent) + 2 <= Len(cells) /\ cells[Len(sent) + 2] = Hidden
  <2>1. \A k \in 1..Len(sent) : k + 1 \in 1..f
    BY <1>3, <1>7
  <2>2. Len(sent) + 2 \in 1..f
    BY <1>1, <1>3, <1>7
  <2> QED BY <1>1, <1>2, <1>6, <2>1, <2>2
<1> QED BY <1>1, <1>3, <1>8, ShownWhole

LEMMA PublishesOrForgets ==
  ASSUME Types, Control, Published, job.step = "program", job.then = "publish",
         NEW n \in 0..Room, flash' = With(index, section, Programmed(n)),
         sent' \in {sent, <<>>}
  PROVE  index \in Slot /\ (Store!Publish(index) \/ Store!Forget(index))
<1>1. index \in Slot
  BY PublishedAs
<1>2. Shown' = [Shown EXCEPT ![index] = ShownIn(flash'[index])]
  BY <1>1, SectionsAreCells, ShownFrame
<1>3. CASE ShownIn(flash'[index]) = {}
  BY <1>1, <1>2, <1>3 DEF Store!Forget
<1>4. ASSUME NEW t \in ShownIn(flash'[index]), ShownIn(flash'[index]) = {t}
      PROVE  Store!Publish(index)
  <2>1. Store!StartsWith(t, sent) /\ (t # sent => Store!FillsSection(sent))
    BY ShowsWhole DEF Store!StartsWith, Store!FillsSection, FillsSection
  <2>2. t \in Shown'[index]
    BY <1>1, <1>2 DEF Shown
  <2> QED BY <1>1, <1>2, <1>4, <2>1, <2>2 DEF Store!Publish
<1> QED BY <1>1, <1>3, <1>4, ShownOne

LEMMA StoreInit ==
  Init => Store!Init
<1> SUFFICES ASSUME Init
             PROVE  Store!Init
  OBVIOUS
<1>1. sent = <<>> /\ Types
  BY InitIInv DEF Init, IInv
<1>2. ASSUME NEW s \in Slot
      PROVE  ShownIn(flash[s]) \in {{}, {<<>>}}
  <2> DEFINE cells == flash[s]
  <2>1. cells \in Seq(Cell) /\ Len(cells) = Sections * Room
    BY <1>1, Slots
  <2>2. /\ Len(cells) >= 2 /\ cells[2] = Hidden /\ Len(cells) \in Nat
        /\ s \in Writable => cells[1] = Hidden
    BY <2>1, Numbers DEF Init
  <2> HIDE DEF cells
  <2>3. CASE s \in Writable
    BY <2>1, <2>2, <2>3, Unshown DEF cells
  <2>4. ASSUME NEW t \in ShownIn(cells)
        PROVE  t = <<>>
    <3>1. PICK f \in 1..Len(cells) :
            /\ f > 1 /\ \A k \in 1..(f - 1) : cells[k] # Hidden
            /\ Len(t) = f - 2 /\ t \in Seq(Cell)
      BY <2>1, ShownText
    <3>2. f = 2
      BY <2>2, <3>1
    <3> QED BY <3>1, <3>2
  <2> QED BY <2>4, ShownOne DEF cells
<1> QED BY <1>1, <1>2 DEF Store!Init, Shown

LEMMA StoreStep ==
  ASSUME IInv, [Moves]_luaVars
  PROVE  [Store!Next]_(Store!vars)
<1> USE DEF IInv
<1>1. ASSUME UNCHANGED flash, sent' = <<>>
      PROVE  Store!Next
  <2>1. UNCHANGED Shown
    BY <1>1 DEF Shown
  <2> QED BY <1>1, <2>1 DEF Store!Next, Store!Stop
<1>2. ASSUME UNCHANGED <<flash, sent>>
      PROVE  UNCHANGED Store!vars
  BY <1>2 DEF Shown, Store!vars
<1>3. ASSUME NEW cells \in [1..Room -> Cell], HidingCells(cells),
             flash' = With(index, section, cells), sent' \in {sent, <<>>}
      PROVE  Store!Next
  <2>1. index \in Slot /\ Store!Forget(index)
    BY <1>3, Hides DEF Store!Forget
  <2> QED BY <2>1 DEF Store!Next
<1>4. ASSUME NEW line \in Line, LuaLine(line)
      PROVE  [Store!Next]_(Store!vars)
  <2>1. CASE Len(buffer) = Room
    BY <1>2, <1>4, <2>1 DEF LuaLine
  <2>2. CASE Len(buffer) # Room
    <3>1. sent' = Append(sent, line) /\ UNCHANGED Shown
      BY <1>4, <2>2 DEF LuaLine, Shown
    <3> QED BY <3>1 DEF Store!Next, Store!Receive
  <2> QED BY <2>1, <2>2
<1>5. CASE Erase
  <2>1. /\ HidingCells(ErasedSection) /\ flash' = With(index, section, ErasedSection)
        /\ sent' = sent
    BY <1>5 DEF Erase, HidingCells
  <2> QED BY <1>3, <2>1, SectionsAreCells
<1>6. CASE Wipe
  <2>1. /\ HidingCells(ErasedSection) /\ flash' = With(index, section, ErasedSection)
        /\ sent' = sent
    BY <1>6 DEF Wipe, HidingCells
  <2> QED BY <1>3, <2>1, SectionsAreCells
<1>7. CASE Program
  <2>1. /\ job.step = "program" /\ Room \in 0..Room /\ index \in Slot
        /\ flash' = With(index, section, Programmed(Room))
        /\ Programmed(Room) \in [1..Room -> Cell]
    <3>1. Room \in 0..Room
      BY Numbers
    <3> QED BY <1>7, <3>1, ProgramIs, SectionsAreCells DEF Program
  <2>2. job.then # "publish" => HidingCells(Programmed(Room))
    BY <2>1 DEF HidingCells
  <2>3. CASE MoreStored
    <3>1. job.then = "line" /\ job.line \in Line /\ sent' = Append(sent, job.line)
      BY <2>3 DEF MoreStored, Types
    <3>2. Shown' = [Shown EXCEPT ![index] = {}]
      BY <2>1, <2>2, <3>1, Hides
    <3>3. ShownIn(flash[index]) = {}
      <4>1. Loading /\ section \in 0..(Sections - 1)
        BY <2>1, <3>1, Numbers DEF Loading, Types
      <4>2. section > 0 => 1 \in 1..(section * Room)
        BY <4>1, SectionPlace, Numbers
      <4>3. flash[index][1] \in {Hidden, Erased}
        BY <2>1, <4>1, <4>2, Numbers DEF Collected, Put
      <4> QED BY <2>1, <4>3, Slots, Unshown, Numbers
    <3>4. UNCHANGED Shown
      BY <3>2, <3>3, <2>1 DEF Shown
    <3> QED BY <3>1, <3>4 DEF Store!Next, Store!Receive
  <2>4. CASE TooLarge \/ AllStored
    <3>1. job.then # "publish" /\ sent' = sent
      BY <2>4 DEF TooLarge, AllStored
    <3> QED BY <1>3, <2>1, <2>2, <3>1
  <2>5. CASE MarkerStored
    <3>1. job.then = "publish" /\ sent' = sent
      BY <2>5 DEF MarkerStored
    <3> QED BY <2>1, <3>1, PublishesOrForgets DEF Store!Next
  <2> QED BY <1>7, <2>3, <2>4, <2>5, ProgramIs
<1>8. CASE PowerLoss
  <2>1. FlashAfterPowerLoss /\ sent' = <<>>
    BY <1>8 DEF PowerLoss, NoLoader
  <2>2. ASSUME NEW cells \in [1..Room -> Cell], index \in Slot, Torn(cells),
               flash' = With(index, section, cells)
        PROVE  Store!Next
    <3>1. CASE job.step = "program" /\ job.then = "publish"
      <4>1. PICK n \in 0..(Room - 1) : cells = Programmed(n)
        BY <2>2, <3>1 DEF Torn
      <4>2. n \in 0..Room
        BY Numbers
      <4> QED BY <2>1, <2>2, <3>1, <4>1, <4>2, PublishesOrForgets DEF Store!Next
    <3>2. CASE ~(job.step = "program" /\ job.then = "publish")
      <4>1. \A n \in 0..(Room - 1) : n \in 0..Room
        BY Numbers
      <4>2. HidingCells(cells)
        BY <2>2, <3>2, <4>1 DEF Torn, HidingCells
      <4> QED BY <1>3, <2>1, <2>2, <4>2
    <3> QED BY <3>1, <3>2
  <2> QED BY <1>1, <2>1, <2>2, PowerLossIs
<1>9. ASSUME NEW s \in Slot, LuaStart(s)
      PROVE  Store!Next
  BY <1>1, <1>9 DEF LuaStart
<1>10. CASE Finished \/ Dropped
  BY <1>1, <1>10 DEF Finished, Dropped, NoLoader
<1>11. ASSUME NEW s \in Slot, Delete(s)
       PROVE  UNCHANGED Store!vars
  BY <1>2, <1>11 DEF Delete
<1>12. CASE LuaEnd \/ Unexpected \/ Parse \/ Answered
  BY <1>2, <1>12 DEF LuaEnd, Unexpected, Parse, Answered
<1>13. CASE UNCHANGED luaVars
  BY <1>2, <1>13 DEF luaVars
<1> QED BY <1>4, <1>5, <1>6, <1>7, <1>8, <1>9, <1>10, <1>11, <1>12, <1>13
        DEF Moves, Handling

(* CLuaLoad, CLuaStorage: at every moment, also with the power gone between *)
(* or within two flash operations, a slot shows nothing or one script that  *)
(* was uploaded to it, whole: LuaLoad implements ScriptStore.              *)
THEOREM ShowsWholeScripts == Spec => StoresWholeScripts
<1>1. IInv /\ [Moves]_luaVars => [Store!Next]_(Store!vars)
  BY StoreStep
<1> QED BY StoreInit, <1>1, NextMoves, Invariant, PTL DEF Spec, StoresWholeScripts, Store!Spec

=============================================================================
