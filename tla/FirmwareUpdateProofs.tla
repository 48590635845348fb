------------------------- MODULE FirmwareUpdateProofs -------------------------
(***************************************************************************)
(* There is a way back at every moment of an update, for any versions,     *)
(* packages and files, and however often power or a step fails.            *)
(*                                                                         *)
(* Recoverable alone is not inductive: that a step may be taken depends on *)
(* the flag, and what it leaves on which job is under way and which of the *)
(* backups has been made.  WayBack says so for each control state.         *)
(***************************************************************************)
EXTENDS FirmwareUpdate, TLAPS

(* The job in hand suits the place it is at, and a first block is written  *)
(* from a file that is there.                                              *)
JobsFit ==
  /\ pc \in {"backup", "write"} => task.job \in {"update", "menu"}
  /\ pc = "save" => task.job = "update"
  /\ pc \in {"copy", "fill", "first"} => task.job # "none"
  /\ pc = "first" => Source # Missing

(* The flag tells what a restart finds: both boards in order, or two whole *)
(* backups.                                                                *)
FlagTells == IF flag = "PREV" THEN BothWhole(file["prev"]) ELSE BothWhole(flash) /\ Suited

(* No firmware that starts is torn, and no file that may be copied.        *)
NoneTorn ==
  /\ \A b \in Board : Bootable(b) => Whole(flash[b])
  /\ \A s \in {"pend", "orig"}, b \in Board : Intact(file[s][b])

(* How far an update has come.                                             *)
Progress ==
  /\ pc = "pending" => flag = "PENDING"
  /\ pc \in {"backup", "write", "save"} => flag = "NORMAL" /\ task.job = "update"
  /\ pc \in {"backup", "write"} /\ task.board = "zc624" => Whole(file["prev"]["zc95"])
  /\ pc = "save" => BothWhole(file["prev"])
  /\ pc \in {"copy", "fill", "first"} => flag = "PREV" /\ task.job # "menu"
  /\ pc = "first" => flash[task.board] = AllButFirst(Source)
  /\ pc \in {"good", "running"} => Suited

WayBack == excuses = {} => FlagTells /\ NoneTorn /\ Progress

IInv == TypeOK /\ JobsFit /\ WayBack

-----------------------------------------------------------------------------
(* Types.                                                                  *)

Places == {"off", "flag", "pending", "backup", "write", "save", "copy", "fill",
           "first", "validate", "boot", "launch", "started", "check", "good",
           "running", "dead", "menu"}
Tasks == [job : {"none", "update", "restore", "repair", "menu"},
          board : Board, slot : Slot, ok : BOOLEAN]
Flags == {"NORMAL", "PENDING", "PREV"}
Files == [Slot -> [Board -> Image \cup {Missing}]]

LEMMA ImageFacts ==
  /\ Wiped \in Image /\ Missing \notin Image
  /\ ~Whole(Wiped) /\ Wiped.first = Blank
  /\ \A v \in Version : WholeImage(v) \in Image /\ Whole(WholeImage(v))
  /\ \A i \in Image : /\ [i EXCEPT !.rest = Part] \in Image
                      /\ AllButFirst(i) \in Image /\ AllButFirst(i).first = Blank
                      /\ \A j \in Image : [i EXCEPT !.first = j.first] \in Image
<1>1. Blank \notin Version /\ Part \notin Version /\ Missing \notin Image
  BY FirmwareAssumption
<1>2. Wiped \in Image /\ Wiped.first = Blank
  BY DEF Wiped, Image
<1>3. ASSUME NEW v \in Version
      PROVE  WholeImage(v) \in Image /\ Whole(WholeImage(v))
  BY <1>1 DEF WholeImage, Image, Whole
<1>4. ASSUME NEW i \in Image
      PROVE  /\ [i EXCEPT !.rest = Part] \in Image
             /\ AllButFirst(i) \in Image /\ AllButFirst(i).first = Blank
             /\ \A j \in Image : [i EXCEPT !.first = j.first] \in Image
  BY DEF Image, AllButFirst, Wiped
<1> QED BY <1>1, <1>2, <1>3, <1>4 DEF Whole

LEMMA TaskType ==
  ASSUME NEW job \in {"update", "restore", "repair", "menu"}, NEW b \in Board,
         NEW s \in Slot
  PROVE  /\ Task(job, b, s) = [job |-> job, board |-> b, slot |-> s, ok |-> TRUE]
         /\ Task(job, b, s) \in Tasks
BY DEF Task, Tasks

(* a restore remembers how the first copy went *)
LEMMA SecondTask ==
  ASSUME NEW ok \in BOOLEAN
  PROVE  [Task("restore", "zc624", "prev") EXCEPT !.ok = ok]
           = [job |-> "restore", board |-> "zc624", slot |-> "prev", ok |-> ok]
BY DEF Task

LEMMA NoTaskType == NoTask \in Tasks /\ NoTask.job = "none"
BY DEF NoTask, Tasks, Board, Slot

(* What the end of a copy leads to, for each job. *)
LEMMA CopiedLeads ==
  ASSUME TypeOK, NEW ok \in BOOLEAN, Copied(ok), task.job # "none"
  PROVE  /\ UNCHANGED <<up, sound, uses>> /\ task' \in Tasks
         /\ pc' \in {"copy", "launch", "dead", "boot", "menu"}
         /\ pc' = "copy" => task.job \in {"update", "restore"} /\ task'.job = task.job
         /\ pc' = "menu" => task.job = "menu"
<1>1. /\ task.job \in {"update", "restore", "repair", "menu"}
      /\ task.board \in {"zc95", "zc624"}
  BY DEF TypeOK, Board
<1>2. {"zc95", "zc624"} \subseteq Board /\ {"prev", "pend"} \subseteq Slot
  BY DEF Board, Slot
<1>3. CASE task.job = "restore" /\ task.board = "zc95"
  <2>1. /\ pc' = "copy" /\ UNCHANGED <<up, sound, uses>>
        /\ task' = [Task("restore", "zc624", "prev") EXCEPT !.ok = ok]
    BY <1>3 DEF Copied, Go
  <2>2. task' \in Tasks /\ task'.job = "restore"
    BY <1>2, <2>1, SecondTask DEF Tasks
  <2> QED BY <1>3, <2>1, <2>2
<1>4. CASE task.job = "update" /\ task.board = "zc95"
  <2>1. /\ UNCHANGED <<up, sound, uses>>
        /\ \/ pc' = "copy" /\ task' = Task("update", "zc624", "pend")
           \/ pc' = "dead" /\ task' = NoTask
    <3>1. CASE ok
      BY <1>4, <3>1 DEF Copied, Go
    <3>2. CASE ~ok
      BY <1>4, <3>2 DEF Copied, Go
    <3> QED BY <3>1, <3>2
  <2> QED BY <1>2, <1>4, <2>1, TaskType, NoTaskType
<1>5. CASE task.job \in {"update", "restore"} /\ task.board = "zc624"
  BY <1>5, NoTaskType DEF Copied, Go
<1>6. CASE task.job \in {"repair", "menu"}
  BY <1>6, NoTaskType DEF Copied, Go
<1> QED BY <1>1, <1>3, <1>4, <1>5, <1>6

(* What a backup leads to. *)
LEMMA BackedUpLeads ==
  ASSUME TypeOK, task.job \in {"update", "menu"}, BackedUp
  PROVE  /\ UNCHANGED <<up, sound, uses>> /\ task' \in Tasks
         /\ \/ task.job = "menu" /\ pc' = "menu"
            \/ task.job = "update" /\ task.board = "zc95"
               /\ pc' = "backup" /\ task' = Task("update", "zc624", "prev")
            \/ task.job = "update" /\ task.board = "zc624" /\ pc' = "save" /\ UNCHANGED task
<1>1. task.board \in {"zc95", "zc624"} /\ task \in Tasks
  BY DEF TypeOK, Board, Tasks
<1>2. "zc624" \in Board /\ "prev" \in Slot
  BY DEF Board, Slot
<1>3. CASE task.job = "menu"
  BY <1>3, NoTaskType DEF BackedUp, Go
<1>4. CASE task.job = "update" /\ task.board = "zc95"
  BY <1>2, <1>4, TaskType DEF BackedUp, Go
<1>5. CASE task.job = "update" /\ task.board = "zc624"
  BY <1>1, <1>5 DEF BackedUp, Go
<1> QED BY <1>1, <1>3, <1>4, <1>5

LEMMA NoBackupLeads ==
  ASSUME TypeOK, NoBackup
  PROVE  /\ UNCHANGED <<up, sound, uses>> /\ task' = NoTask /\ task' \in Tasks
         /\ pc' = IF task.job = "menu" THEN "menu" ELSE "launch"
BY NoTaskType DEF NoBackup, Go

(* The conjuncts of TypeOK, by their names here. *)
LEMMA TypeParts ==
  TypeOK <=> /\ pc \in Places /\ task \in Tasks /\ flag \in Flags
             /\ flash \in [Board -> Image] /\ file \in Files
             /\ up \in BOOLEAN /\ sound \in BOOLEAN
             /\ excuses \subseteq {"user", "eeprom", "lost"} /\ uses \in 0..MaxUses
BY DEF TypeOK, Places, Tasks, Flags, Files

LEMMA NewTypes ==
  ASSUME pc' \in Places, task' \in Tasks, flag' \in Flags,
         flash' \in [Board -> Image], file' \in Files, up' \in BOOLEAN, sound' \in BOOLEAN,
         excuses' \subseteq {"user", "eeprom", "lost"}, uses' \in 0..MaxUses
  PROVE  TypeOK'
BY DEF TypeOK, Places, Tasks, Flags, Files

LEMMA InitType == Init => TypeOK /\ JobsFit
<1> SUFFICES ASSUME Init PROVE TypeOK /\ JobsFit
  OBVIOUS
<1>1. flash \in [Board -> Image]
  BY ImageFacts, FirmwareAssumption DEF Init
<1>2. file \in Files
  BY FirmwareAssumption DEF Init, Files
<1>3. uses \in 0..MaxUses
  BY FirmwareAssumption DEF Init
<1>4. TypeOK
  BY <1>1, <1>2, <1>3, NoTaskType, TypeParts DEF Init, Places, Flags
<1> QED BY <1>4 DEF Init, JobsFit

LEMMA ChosenSlots ==
  ASSUME NEW v, NEW strays PROVE Chosen(v, strays) \subseteq Slot
<1>1. \A S : FirstOf(S) \subseteq Slot
  BY DEF FirstOf, Searched, Slot
<1> QED BY <1>1 DEF Chosen

LEMMA TypeStep ==
  ASSUME TypeOK, JobsFit, [Next]_vars
  PROVE  TypeOK' /\ JobsFit'
<1> DEFINE Kept == UNCHANGED <<up, sound, uses>>
<1>0. /\ pc \in Places /\ task \in Tasks /\ flag \in Flags
      /\ flash \in [Board -> Image] /\ file \in Files
      /\ up \in BOOLEAN /\ sound \in BOOLEAN
      /\ excuses \subseteq {"user", "eeprom", "lost"} /\ uses \in 0..MaxUses
      /\ task.board \in Board /\ task.slot \in Slot
      /\ Source \in Image \cup {Missing}
      /\ "zc95" \in Board /\ "zc624" \in Board
      /\ "prev" \in Slot /\ "pend" \in Slot
  BY TypeParts DEF Tasks, Files, Source, Board, Slot
<1> USE DEF memory
<1>1. CASE PowerOn \/ EnterMenu \/ SwitchOff \/ PowerFails \/ Settle
  BY <1>0, <1>1, NoTaskType, NewTypes
     DEF PowerOn, EnterMenu, SwitchOff, PowerFails, Settle, Off, Go, JobsFit, Source,
         Places, Flags
<1>2. CASE CheckFlag
  <2>1. Kept /\ UNCHANGED <<flag, memory, excuses>>
        /\ \/ pc' \in {"validate", "pending"} /\ UNCHANGED task
           \/ pc' = "copy" /\ task' = Task("restore", "zc95", "prev")
    BY <1>0, <1>2 DEF CheckFlag, Go, Flags
  <2> QED BY <1>0, <2>1, TaskType, NewTypes DEF JobsFit, Places
<1>3. CASE ClearFlag \/ SaveFlag
  <2>1. Kept /\ UNCHANGED memory
        /\ flag' \in Flags /\ excuses' \subseteq {"user", "eeprom", "lost"}
        /\ \/ pc' = "backup" /\ task' = Task("update", "zc95", "prev")
           \/ pc' = "copy" /\ task' = Task("update", "zc95", "pend")
    BY <1>0, <1>3 DEF ClearFlag, SaveFlag, SetFlag, Go, Flags
  <2> QED BY <1>0, <2>1, TaskType, NewTypes DEF JobsFit, Places
<1>4. CASE OpenBackup
  <2>1. file' \in Files /\ UNCHANGED <<flag, flash, excuses>>
    BY <1>0, <1>4, ImageFacts DEF OpenBackup, Files
  <2>2. \/ Kept /\ pc' = "write" /\ UNCHANGED task
        \/ NoBackup
    BY <1>4 DEF OpenBackup, Go
  <2> QED BY <1>0, <1>4, <2>1, <2>2, NoBackupLeads, NoTaskType, NewTypes
          DEF OpenBackup, JobsFit, Places
<1>5. CASE WriteBackup
  <2>1. flash[task.board] \in Image /\ [flash[task.board] EXCEPT !.rest = Part] \in Image
    BY <1>0, ImageFacts
  <2>2. \A i \in Image : [file EXCEPT !["prev"][task.board] = i] \in Files
    BY <1>0 DEF Files
  <2>3. /\ file' \in Files /\ UNCHANGED <<flag, flash>>
        /\ excuses' \subseteq {"user", "eeprom", "lost"}
        /\ BackedUp \/ NoBackup
    BY <1>0, <1>5, <2>1, <2>2 DEF WriteBackup
  <2>4. Kept /\ task' \in Tasks /\ pc' \in {"menu", "launch", "backup", "save"}
        /\ (pc' \in {"backup", "save"} => task'.job = "update")
    BY <1>0, <1>5, <2>3, BackedUpLeads, NoBackupLeads, TaskType DEF WriteBackup, JobsFit
  <2> QED BY <1>0, <2>3, <2>4, NewTypes DEF JobsFit, Places
<1>6. CASE WipeFlash
  <2>1. flash' \in [Board -> Image] /\ UNCHANGED <<flag, file, excuses>>
    BY <1>0, <1>6, ImageFacts DEF WipeFlash, SetFlash
  <2>2. \/ Kept /\ pc' = "fill" /\ UNCHANGED task
        \/ Copied(FALSE)
    BY <1>6 DEF WipeFlash, Go
  <2> QED BY <1>0, <1>6, <2>1, <2>2, CopiedLeads, NewTypes DEF WipeFlash, JobsFit, Places
<1>7. CASE FillFlash
  <2>1. flash' \in [Board -> Image] /\ UNCHANGED <<flag, file>>
        /\ excuses' \subseteq {"user", "eeprom", "lost"}
    BY <1>0, <1>7, ImageFacts DEF FillFlash, SetFlash
  <2>2. \/ Kept /\ pc' = "first" /\ UNCHANGED task /\ Source # Missing
        \/ Copied(FALSE)
    BY <1>7 DEF FillFlash, Go
  <2>3. CASE Copied(FALSE)
    BY <1>0, <1>7, <2>1, <2>3, CopiedLeads, NewTypes DEF FillFlash, JobsFit, Places
  <2>4. CASE Kept /\ pc' = "first" /\ UNCHANGED task /\ Source # Missing
    BY <1>0, <1>7, <2>1, <2>4, NewTypes DEF FillFlash, JobsFit, Places, Source
  <2> QED BY <2>2, <2>3, <2>4
<1>8. CASE WriteFirst
  <2>1. Source \in Image
    BY <1>0, <1>8 DEF WriteFirst, JobsFit
  <2>2. flash' \in [Board -> Image] /\ UNCHANGED <<flag, file, excuses>>
    <3>1. flash[task.board] \in Image
      BY <1>0
    <3>2. [flash[task.board] EXCEPT !.first = Source.first] \in Image
      BY <2>1, <3>1, ImageFacts
    <3> QED BY <1>0, <1>8, <3>2 DEF WriteFirst, SetFlash
  <2>3. Copied(TRUE) \/ Copied(FALSE)
    BY <1>8 DEF WriteFirst
  <2> QED BY <1>0, <1>8, <2>2, <2>3, CopiedLeads, NewTypes DEF WriteFirst, JobsFit, Places
<1>9. CASE ValidateVersion
  <2>1. Kept /\ UNCHANGED <<flag, memory, excuses>>
        /\ \/ pc' = "boot" /\ UNCHANGED task
           \/ \E s \in Slot : pc' = "copy" /\ task' = Task("repair", "zc624", s)
    <3>1. \A v, strays : \A s \in Chosen(v, strays) : s \in Slot
      BY ChosenSlots
    <3>2. \/ Go("boot") /\ UNCHANGED task
          \/ \E strays \in SUBSET {s \in Slot : ~Readable(s)} :
               \E s \in Chosen(flash["zc95"].first, strays) :
                 Go("copy") /\ task' = Task("repair", "zc624", s)
      BY <1>9, Zenon DEF ValidateVersion
    <3>3. UNCHANGED <<flag, memory, excuses>>
      BY <1>9 DEF ValidateVersion
    <3> QED BY <3>1, <3>2, <3>3 DEF Go
  <2> QED BY <1>0, <2>1, TaskType, NewTypes DEF JobsFit, Places
<1>10. CASE Boot \/ Launch \/ CheckPart2 \/ SetNormal
  BY <1>0, <1>10, NewTypes DEF Boot, Launch, CheckPart2, SetNormal, Go, JobsFit, Places, Flags
<1>11. CASE CheckPart1
  BY <1>0, <1>11, NewTypes DEF CheckPart1, Bootable, JobsFit, Places
<1>12. CASE RequestUpdate
  <2>1. file' \in Files
    BY <1>0, <1>12, FirmwareAssumption DEF RequestUpdate, Files
  <2> QED BY <1>0, <1>12, <2>1, NewTypes DEF RequestUpdate, JobsFit, Places, Flags
<1>13. CASE MenuEntry
  <2>1. /\ pc = "menu" /\ UNCHANGED flag /\ UNCHANGED <<up, sound>>
        /\ excuses' \subseteq {"user", "eeprom", "lost"}
    BY <1>0, <1>13 DEF MenuEntry, MenuLaunch, MenuBackup, MenuCopy, MenuUpload, Choose, Menu, Go
  <2>2. uses' \in 0..MaxUses
    BY <1>0, <1>13, FirmwareAssumption
       DEF MenuEntry, MenuLaunch, MenuBackup, MenuCopy, MenuUpload, Choose, Go
  <2>3. CASE MenuLaunch
    BY <1>0, <2>1, <2>2, <2>3, NewTypes DEF MenuLaunch, Go, JobsFit, Places
  <2>4. ASSUME NEW b \in Board, MenuBackup(b) PROVE TypeOK' /\ JobsFit'
    BY <1>0, <2>1, <2>2, <2>4, TaskType, NewTypes DEF MenuBackup, Choose, JobsFit, Places
  <2>5. ASSUME NEW b \in Board, NEW s \in Slot, MenuCopy(b, s) PROVE TypeOK' /\ JobsFit'
    BY <1>0, <2>1, <2>2, <2>5, TaskType, NewTypes DEF MenuCopy, Choose, JobsFit, Places
  <2>6. ASSUME NEW b \in Board, NEW i \in Uploads, MenuUpload(b, i) PROVE TypeOK' /\ JobsFit'
    <3>1. i \in Image
      BY FirmwareAssumption
    <3>2. flash' \in [Board -> Image] /\ file' \in Files
      BY <1>0, <2>6, <3>1 DEF MenuUpload, Files
    <3> QED BY <1>0, <2>1, <2>2, <2>6, <3>2, NewTypes DEF MenuUpload, Choose, JobsFit, Places
  <2> QED BY <1>13, <2>3, <2>4, <2>5, <2>6 DEF MenuEntry
<1>14. CASE UNCHANGED vars
  BY <1>0, <1>14, NewTypes DEF vars, JobsFit, Source
<1> QED BY <1>1, <1>2, <1>3, <1>4, <1>5, <1>6, <1>7, <1>8, <1>9, <1>10, <1>11, <1>12,
           <1>13, <1>14 DEF Next, Firmware, Power, User

-----------------------------------------------------------------------------
(* The way back.                                                           *)

LEMMA InitWayBack == Init => WayBack
<1> SUFFICES ASSUME Init PROVE WayBack
  OBVIOUS
<1>1. \A b \in Board : flash[b] = WholeImage(Installed) /\ Whole(flash[b])
                       /\ flash[b].first = Installed
  BY ImageFacts, FirmwareAssumption DEF Init, WholeImage
<1>2. Suited
  BY <1>1, FirmwareAssumption DEF Suited, Bootable, Board
<1>3. NoneTorn
  BY <1>1, FirmwareAssumption DEF NoneTorn, Init, Intact, Slot
<1> QED BY <1>1, <1>2, <1>3 DEF WayBack, FlagTells, BothWhole, Progress, Init

(* What a copy reads may be trusted. *)
LEMMA SourceIntact ==
  ASSUME TypeOK, BothWhole(file["prev"]), NoneTorn
  PROVE  Intact(Source)
<1>1. task.slot \in Slot /\ task.board \in Board
  BY DEF TypeOK
<1> QED BY <1>1 DEF BothWhole, NoneTorn, Intact, Source, Slot

(* Suited boards that are not torn are whole. *)
LEMMA SuitedWhole ==
  ASSUME Suited, NoneTorn PROVE BothWhole(flash)
BY DEF Suited, NoneTorn, BothWhole, Board

(* A step that leaves flag, flash and files alone. *)
LEMMA Frame ==
  ASSUME UNCHANGED <<flag, flash, file>>
  PROVE  /\ FlagTells => FlagTells'
         /\ NoneTorn => NoneTorn'
         /\ Suited' = Suited
BY DEF FlagTells, NoneTorn, Suited, Bootable

(* After a failed or a finished copy. *)
LEMMA CopiedProgress ==
  ASSUME TypeOK, flag = "PREV", flag' = flag, task.job \notin {"none", "menu"},
         NEW ok \in BOOLEAN, Copied(ok)
  PROVE  Progress'
<1>1. /\ pc' \in {"copy", "launch", "dead", "boot"}
      /\ pc' = "copy" => task'.job \in {"update", "restore"}
  BY CopiedLeads
<1> QED BY <1>1 DEF Progress

LEMMA WayBackStep ==
  ASSUME TypeOK, JobsFit, WayBack, [Next]_vars
  PROVE  WayBack'
<1> SUFFICES ASSUME excuses' = {} PROVE (FlagTells /\ NoneTorn /\ Progress)'
  BY DEF WayBack
<1> USE DEF memory
<1>0. excuses = {}
  <2>1. excuses \subseteq excuses'
    BY DEF Next, Firmware, Power, User, CheckFlag, ClearFlag, SaveFlag, SetFlag, OpenBackup,
       WriteBackup, WipeFlash, FillFlash, WriteFirst, ValidateVersion, Boot, Launch,
       CheckPart1, CheckPart2, SetNormal, PowerOn, SwitchOff, PowerFails, Off, Settle,
       RequestUpdate, EnterMenu, MenuEntry, MenuLaunch, MenuBackup, MenuCopy, MenuUpload,
       Choose, Menu, vars
  <2> QED BY <2>1
<1>a. FlagTells /\ NoneTorn /\ Progress
  BY <1>0 DEF WayBack
<1>b. /\ task.board \in Board /\ task.slot \in Slot
      /\ flash \in [Board -> Image] /\ file \in [Slot -> [Board -> Image \cup {Missing}]]
      /\ Board = {"zc95", "zc624"} /\ Slot = {"prev", "pend", "orig"}
      /\ flag \in {"NORMAL", "PENDING", "PREV"}
  BY DEF TypeOK, Board, Slot
<1>1. CASE PowerOn \/ SwitchOff \/ PowerFails
  BY <1>a, <1>1, Frame DEF PowerOn, SwitchOff, PowerFails, Off, Go, Progress
<1>2. CASE Settle \/ UNCHANGED vars
  BY <1>a, <1>2, Frame DEF Settle, vars, Progress, Source
<1>3. CASE CheckFlag
  <2>1. UNCHANGED <<flag, flash, file>>
        /\ \/ pc' = "validate"
           \/ pc' = "pending" /\ flag = "PENDING"
           \/ pc' = "copy" /\ flag = "PREV" /\ task' = Task("restore", "zc95", "prev")
    BY <1>3, <1>b DEF CheckFlag, Go
  <2>2. Task("restore", "zc95", "prev").job = "restore"
    BY <1>b, TaskType
  <2> QED BY <1>a, <2>1, <2>2, Frame DEF Progress
<1>4. CASE ClearFlag
  <2>1. /\ flag' = "NORMAL" /\ flag = "PENDING" /\ pc' = "backup" /\ UNCHANGED <<flash, file>>
        /\ task' = Task("update", "zc95", "prev")
    BY <1>0, <1>4, <1>a DEF ClearFlag, SetFlag, Go, Progress
  <2>2. task'.job = "update" /\ task'.board = "zc95"
    BY <1>b, <2>1, TaskType
  <2> QED BY <1>a, <2>1, <2>2 DEF FlagTells, NoneTorn, Progress, Suited, Bootable
<1>5. CASE SaveFlag
  <2>1. /\ flag' = "PREV" /\ pc' = "copy" /\ UNCHANGED <<flash, file>>
        /\ BothWhole(file["prev"])
        /\ task' = Task("update", "zc95", "pend")
    BY <1>0, <1>5, <1>a DEF SaveFlag, SetFlag, Go, Progress
  <2>2. task'.job = "update"
    BY <1>b, <2>1, TaskType
  <2> QED BY <1>a, <2>1, <2>2 DEF FlagTells, NoneTorn, Progress, Bootable
<1>6. CASE OpenBackup
  <2>1. flag = "NORMAL" /\ UNCHANGED <<flag, flash>> /\ task.job = "update"
    BY <1>6, <1>a DEF OpenBackup, Progress
  <2>2. /\ \A s \in {"pend", "orig"} : file'[s] = file[s]
        /\ task.board = "zc624" => file'["prev"]["zc95"] = file["prev"]["zc95"]
    BY <1>6, <1>b DEF OpenBackup
  <2>3. (pc' = "write" /\ UNCHANGED task) \/ pc' = "launch"
    BY <1>6, <2>1, NoBackupLeads DEF OpenBackup, Go
  <2> QED BY <1>6, <1>a, <2>1, <2>2, <2>3
          DEF OpenBackup, FlagTells, NoneTorn, Progress, Suited, Bootable
<1>7. CASE WriteBackup
  <2>1. flag = "NORMAL" /\ UNCHANGED <<flag, flash>> /\ task.job = "update"
    BY <1>7, <1>a DEF WriteBackup, Progress
  <2>2. /\ \A s \in {"pend", "orig"} : file'[s] = file[s]
        /\ task.board = "zc624" => file'["prev"]["zc95"] = file["prev"]["zc95"]
    BY <1>7, <1>b DEF WriteBackup
  <2>3. Whole(flash[task.board])
    BY <1>a, <1>b, <2>1 DEF FlagTells, BothWhole
  <2>4. \/ pc' = "launch"
        \/ BackedUp /\ file'["prev"][task.board] = flash[task.board]
    BY <1>7, <1>b, <2>1, NoBackupLeads DEF WriteBackup
  <2>5. CASE pc' = "launch"
    BY <1>a, <2>1, <2>2, <2>5 DEF FlagTells, NoneTorn, Progress, Suited, Bootable
  <2>6. CASE BackedUp /\ file'["prev"][task.board] = flash[task.board]
    <3>1. \/ task.board = "zc95" /\ pc' = "backup" /\ task' = Task("update", "zc624", "prev")
          \/ task.board = "zc624" /\ pc' = "save" /\ UNCHANGED task
      BY <2>1, <2>6, BackedUpLeads
    <3>2. Task("update", "zc624", "prev").job = "update"
      BY <1>b, TaskType
    <3>3. task.board = "zc624" => BothWhole(file'["prev"])
      BY <1>7, <1>a, <1>b, <2>2, <2>3, <2>6 DEF WriteBackup, Progress, BothWhole
    <3>4. Progress'
      BY <1>a, <2>1, <2>3, <2>6, <3>1, <3>2, <3>3 DEF Progress
    <3> QED BY <1>a, <2>1, <2>2, <3>4 DEF FlagTells, NoneTorn, Suited, Bootable
  <2> QED BY <2>4, <2>5, <2>6
<1>8. CASE WipeFlash
  <2>1. /\ flag = "PREV" /\ UNCHANGED <<flag, file>>
        /\ task.job \notin {"none", "menu"}
    BY <1>8, <1>a DEF WipeFlash, Progress, JobsFit
  <2>2. \A b \in Board : flash'[b] = flash[b] \/ flash'[b] = Wiped
    BY <1>8, <1>b DEF WipeFlash, SetFlash
  <2>3. NoneTorn'
    BY <1>a, <2>1, <2>2, ImageFacts DEF NoneTorn, Bootable
  <2>4. Progress'
    <3>1. CASE Copied(FALSE)
      BY <2>1, <3>1, CopiedProgress
    <3>2. CASE ~Copied(FALSE)
      BY <1>8, <2>1, <3>2 DEF WipeFlash, Go, Progress
    <3> QED BY <3>1, <3>2
  <2> QED BY <1>a, <2>1, <2>3, <2>4 DEF FlagTells
<1>9. CASE FillFlash
  <2>1. /\ flag = "PREV" /\ UNCHANGED <<flag, file>>
        /\ task.job \notin {"none", "menu"}
    BY <1>9, <1>a DEF FillFlash, Progress, JobsFit
  <2>2. \/ Copied(FALSE) /\ UNCHANGED flash
        \/ /\ pc' = "first" /\ UNCHANGED task /\ Source # Missing
           /\ flash' = [flash EXCEPT ![task.board] = AllButFirst(Source)]
    BY <1>0, <1>9 DEF FillFlash, SetFlash, Go
  <2>3. CASE Copied(FALSE) /\ UNCHANGED flash
    BY <1>a, <2>1, <2>3, CopiedProgress, Frame
  <2>4. CASE /\ pc' = "first" /\ UNCHANGED task /\ Source # Missing
             /\ flash' = [flash EXCEPT ![task.board] = AllButFirst(Source)]
    <3>1. Source \in Image /\ Source' = Source
      BY <1>b, <2>1, <2>4 DEF Source
    <3>2. AllButFirst(Source).first = Blank /\ AllButFirst(Source') = AllButFirst(Source)
      BY <3>1, ImageFacts
    <3>3. NoneTorn'
      BY <1>a, <1>b, <2>1, <2>4, <3>2 DEF NoneTorn, Bootable
    <3>4. Progress'
      BY <1>b, <2>1, <2>4, <3>2 DEF Progress
    <3> QED BY <1>a, <2>1, <3>3, <3>4 DEF FlagTells
  <2> QED BY <2>2, <2>3, <2>4
<1>10. CASE WriteFirst
  <2>1. /\ flag = "PREV" /\ UNCHANGED <<flag, file>>
        /\ task.job \notin {"none", "menu"}
        /\ flash[task.board] = AllButFirst(Source) /\ Source # Missing
    BY <1>10, <1>a DEF WriteFirst, Progress, JobsFit
  <2>2. Source \in Image /\ Intact(Source)
    BY <1>a, <1>b, <2>1, SourceIntact DEF FlagTells, Source
  <2>3. [AllButFirst(Source) EXCEPT !.first = Source.first] = Source
    BY <2>2 DEF Image, AllButFirst, Wiped
  <2>4. \A b \in Board : flash'[b] = flash[b] \/ flash'[b] = Source
    BY <1>10, <1>b, <2>1, <2>3 DEF WriteFirst, SetFlash
  <2>5. NoneTorn'
    BY <1>a, <2>1, <2>2, <2>4 DEF NoneTorn, Bootable, Intact
  <2>6. Progress'
    BY <1>10, <2>1, CopiedProgress DEF WriteFirst
  <2> QED BY <1>a, <2>1, <2>5, <2>6 DEF FlagTells
<1>11. CASE ValidateVersion
  <2>1. UNCHANGED <<flag, flash, file>>
        /\ \/ pc' = "boot"
           \/ ~Suited /\ pc' = "copy" /\ task'.job = "repair"
    <3>1. \A v, strays : \A s \in Chosen(v, strays) : Task("repair", "zc624", s).job = "repair"
      BY <1>b, ChosenSlots, TaskType
    <3>2. \/ Go("boot")
          \/ ~Suited /\ \E strays \in SUBSET {s \in Slot : ~Readable(s)} :
               \E s \in Chosen(flash["zc95"].first, strays) :
                 Go("copy") /\ task' = Task("repair", "zc624", s)
      BY <1>11, Zenon DEF ValidateVersion
    <3> QED BY <1>11, <3>1, <3>2 DEF ValidateVersion, Go
  <2>2. pc' = "copy" => flag = "PREV"
    BY <1>a, <2>1 DEF FlagTells
  <2> QED BY <1>a, <2>1, <2>2, Frame DEF Progress
<1>12. CASE Boot \/ Launch \/ CheckPart1
  BY <1>a, <1>12, Frame DEF Boot, Launch, CheckPart1, Go, Progress
<1>13. CASE CheckPart2
  BY <1>a, <1>13, Frame DEF CheckPart2, Good, Go, Progress
<1>14. CASE SetNormal
  <2>1. /\ Suited /\ BothWhole(flash) /\ UNCHANGED <<flash, file>>
        /\ flag' \in {"NORMAL", flag} /\ pc' = "running"
    BY <1>14, <1>a, SuitedWhole DEF SetNormal, Go, Progress
  <2> QED BY <1>a, <2>1 DEF FlagTells, NoneTorn, Progress, Suited, Bootable
<1>15. CASE RequestUpdate
  <2>1. /\ Suited /\ BothWhole(flash) /\ UNCHANGED flash
        /\ flag' = "PENDING" /\ pc' = "running"
    BY <1>15, <1>a, SuitedWhole DEF RequestUpdate, Progress
  <2>2. \A s \in {"pend", "orig"}, b \in Board : Intact(file'[s][b])
    BY <1>15, <1>a, <1>b, FirmwareAssumption DEF RequestUpdate, NoneTorn
  <2> QED BY <1>a, <2>1, <2>2 DEF FlagTells, NoneTorn, Progress, Suited, Bootable
<1>16. CASE EnterMenu \/ MenuEntry
  BY <1>16 DEF EnterMenu, MenuEntry, MenuLaunch, MenuBackup, MenuCopy, MenuUpload,
     Choose, Menu
<1> QED BY <1>1, <1>2, <1>3, <1>4, <1>5, <1>6, <1>7, <1>8, <1>9, <1>10, <1>11, <1>12,
           <1>13, <1>14, <1>15, <1>16 DEF Next, Firmware, Power, User

LEMMA Invariant == Spec => []IInv
<1>1. Init => IInv
  BY InitType, InitWayBack DEF IInv
<1>2. ASSUME IInv, [Next]_vars PROVE IInv'
  BY <1>2, TypeStep, WayBackStep DEF IInv
<1> QED BY <1>1, <1>2, PTL DEF Spec

-----------------------------------------------------------------------------
(* What follows.                                                           *)

(* Every variable of the bootloader and the two boards keeps its range.    *)
THEOREM TypeCorrect == Spec => []TypeOK
BY Invariant, PTL DEF IInv

(* Wherever power fails or a step goes wrong, either both firmwares are    *)
(* whole or the flag leads back to two whole backups (check_eeprom_flag,   *)
(* backup_zc95_firmware, zc624_backup_firmware).                           *)
THEOREM AlwaysRecoverable == Spec => []Recoverable
<1>1. IInv => Recoverable
  BY DEF IInv, WayBack, FlagTells, Recoverable
<1> QED BY Invariant, <1>1, PTL

(* A board that starts has all of its firmware, at every moment of a copy  *)
(* (copy_sd_card_file_to_flash keeps the first block back).                *)
THEOREM NeverStartsTorn == Spec => []StartsWhole
<1>1. IInv => StartsWhole
  BY DEF IInv, WayBack, NoneTorn, StartsWhole
<1> QED BY Invariant, <1>1, PTL

(* The main firmware gets past its checks only on two whole firmwares that *)
(* suit each other (CHwCheck).                                             *)
THEOREM NeverRunsTorn == Spec => []RunsWhole
<1>1. IInv => RunsWhole
  BY SuitedWhole DEF IInv, WayBack, Progress, RunsWhole
<1> QED BY Invariant, <1>1, PTL

=============================================================================
