---------------------------- MODULE FirmwareUpdate ----------------------------
(***************************************************************************)
(* How the ZC95 bootloader replaces the firmware of both boards from the   *)
(* SD card, and how it gets back when that fails.                          *)
(*                                                                         *)
(* A byte in the EEPROM says what to do at the next start: NORMAL,         *)
(* PENDING (back up both firmwares as "prev", then copy "pend" over them)  *)
(* or PREV (copy "prev" back).  The main firmware sets it to NORMAL once   *)
(* it has found both boards in order.  Power may fail between any two      *)
(* steps, and the card, the EEPROM and the I2C bus may fail in all of them.*)
(*                                                                         *)
(* main, check_eeprom_flag, backup_zc95_firmware, copy_sd_card_file_to_    *)
(* flash and the menus in zc95Bootloader.c; zc624.c; eeprom.c; the ZC624   *)
(* bootloader; CHwCheck and set_normal_bootloader_mode of the main         *)
(* firmware.  A firmware, on flash or in a file, is its first block, which *)
(* holds the version and makes it bootable, and the rest.                  *)
(***************************************************************************)
EXTENDS Integers, FiniteSets, Sequences

CONSTANTS
  Version,    \* firmware versions
  Api,        \* per version: [major, minor] of the API between the boards
  Broken,     \* versions of the main board's firmware that never come up
  Packages,   \* pairs of firmwares a user asks to be updated to
  Original,   \* the firmwares in the "orig" files
  Installed,  \* the version installed at first
  Uploads,    \* images a user uploads from the menu
  MaxUses,    \* bound: entries chosen from the menu, but for "launch"
  Blank,      \* no first block
  Part,       \* the rest erased or partly written
  Missing     \* no such file

Board == {"zc95", "zc624"}
Slot == {"prev", "pend", "orig"}

Image == [first : Version \cup {Blank}, rest : Version \cup {Part}]
Whole(image) == image # Missing /\ image.first # Blank /\ image.rest = image.first
(* a file as it was released, not cut short where a reader cannot tell *)
Intact(image) == image # Missing /\ image.first # Blank => Whole(image)
Wiped == [first |-> Blank, rest |-> Part]
WholeImage(v) == [first |-> v, rest |-> v]

(* zc95 version v works with zc624 version w *)
Compatible(v, w) == Api[w].major = Api[v].major /\ Api[w].minor >= Api[v].minor

ASSUME FirmwareAssumption ==
  /\ Blank \notin Version /\ Part \notin Version /\ Missing \notin Image
  /\ Api \in [Version -> [major : Nat, minor : Nat]]
  /\ Broken \subseteq Version
  /\ Packages \subseteq [Board -> Image \cup {Missing}]
  /\ Original \in [Board -> Image \cup {Missing}]
  /\ \A b \in Board : Intact(Original[b]) /\ \A p \in Packages : Intact(p[b])
  /\ Installed \in Version \ Broken /\ Compatible(Installed, Installed)
  /\ Uploads \subseteq Image /\ MaxUses \in Nat

VARIABLES
  pc,       \* where the main board is
  task,     \* [job, board, slot, ok]: the backup or copy under way
  flag,     \* the EEPROM flag
  flash,    \* the firmware on each board
  file,     \* the files on the SD card
  up,       \* the output module has left its bootloader
  sound,    \* from here on nothing fails
  excuses,  \* history: "user", "eeprom", "lost": what went wrong unnoticed
  uses      \* history: entries chosen from the menu

memory == <<flash, file>>
vars == <<pc, task, flag, memory, up, sound, excuses, uses>>

NoTask == [job |-> "none", board |-> "zc95", slot |-> "prev", ok |-> TRUE]
Task(job, board, slot) == [job |-> job, board |-> board, slot |-> slot, ok |-> TRUE]
Source == file[task.slot][task.board]
Bootable(board) == flash[board].first # Blank

(* on to p *)
Go(p) == pc' = p /\ UNCHANGED <<up, sound, uses>>

(* set_eeprom_flag: the write may fail, and no caller looks *)
SetFlag(value) ==
  \/ flag' = value /\ UNCHANGED excuses
  \/ /\ ~sound /\ flag # value
     /\ excuses' = excuses \cup {"eeprom"} /\ UNCHANGED flag

-----------------------------------------------------------------------------
(* Power.                                                                  *)

PowerOn ==
  /\ pc = "off" /\ Go("flag")
  /\ UNCHANGED <<task, flag, memory, excuses>>

(* ESC, or the upload tool's ACK, over serial: main clears the flag *)
EnterMenu ==
  /\ pc = "off" /\ Go("menu")
  /\ \/ flag' = "NORMAL"
     \/ ~sound /\ UNCHANGED flag
  /\ excuses' = excuses \cup {"user"}
  /\ UNCHANGED <<task, memory>>

Hung == pc = "started" /\ flash["zc95"].rest \in Broken \cup {Part}
Idle == pc \in {"running", "dead", "menu"} \/ Hung

Off == /\ pc' = "off" /\ up' = FALSE /\ task' = NoTask
       /\ UNCHANGED <<flag, memory, sound, excuses, uses>>

(* The user switches a unit off that is done, or that shows an error. *)
SwitchOff == Idle /\ Off

(* Power fails in the middle of something.  What was written to a file     *)
(* that is still open is lost; the step that opened it left it empty.      *)
PowerFails == pc # "off" /\ ~Idle /\ ~sound /\ Off

Settle == /\ ~sound /\ sound' = TRUE
          /\ UNCHANGED <<pc, task, flag, memory, up, excuses, uses>>

-----------------------------------------------------------------------------
(* check_eeprom_flag.                                                      *)

(* Mutant of CheckFlag: the way back is not known, and the bootloader dies. *)
CheckFlagForward ==
  /\ pc = "flag"
  /\ Go(CASE flag = "NORMAL" -> "validate"
          [] flag = "PENDING" -> "pending"
          [] flag = "PREV" -> "dead")
  /\ UNCHANGED <<task, flag, memory, excuses>>

(* a flag that cannot be read counts as NORMAL *)
CheckFlag ==
  /\ pc = "flag"
  /\ \E value \in {flag} \cup (IF sound THEN {} ELSE {"NORMAL"}) :
       CASE value = "NORMAL" -> Go("validate") /\ UNCHANGED task
         [] value = "PENDING" -> Go("pending") /\ UNCHANGED task
         [] value = "PREV" -> Go("copy") /\ task' = Task("restore", "zc95", "prev")
  /\ UNCHANGED <<flag, memory, excuses>>

(* "If something goes wrong before we wipe the current f/w, just boot up   *)
(* as normal next time" *)
ClearFlag ==
  /\ pc = "pending" /\ Go("backup")
  /\ SetFlag("NORMAL")
  /\ task' = Task("update", "zc95", "prev")
  /\ UNCHANGED memory

(* Mutant of SaveFlag: the flag is left for the main firmware to set. *)
SaveFlagLater ==
  /\ pc = "save" /\ Go("copy")
  /\ task' = Task("update", "zc95", "pend")
  /\ UNCHANGED <<flag, memory, excuses>>

(* both are backed up: the next start, unless this one works, goes back *)
SaveFlag ==
  /\ pc = "save" /\ Go("copy")
  /\ SetFlag("PREV")
  /\ task' = Task("update", "zc95", "pend")
  /\ UNCHANGED memory

-----------------------------------------------------------------------------
(* Backups: backup_zc95_firmware, zc624_backup_firmware.                   *)

(* where a failed backup leads *)
NoBackup == Go(IF task.job = "menu" THEN "menu" ELSE "launch") /\ task' = NoTask
BackedUp ==
  CASE task.job = "menu" -> Go("menu") /\ task' = NoTask
    [] task.job = "update" /\ task.board = "zc95" ->
         Go("backup") /\ task' = Task("update", "zc624", "prev")
    [] task.job = "update" /\ task.board = "zc624" -> Go("save") /\ UNCHANGED task

(* the file is created, or neither card nor output module answers *)
OpenBackup ==
  /\ pc = "backup"
  /\ \/ /\ Go("write") /\ UNCHANGED task
        /\ file' = [file EXCEPT !["prev"][task.board] = Wiped]
     \/ ~sound /\ NoBackup /\ UNCHANGED file
  /\ UNCHANGED <<flag, flash, excuses>>

(* The blocks go to the file.  A failed write is noticed; a failed read    *)
(* from the output module is not.                                          *)
WriteBackup ==
  /\ pc = "write"
  /\ LET image == flash[task.board]
         Saved(i) == file' = [file EXCEPT !["prev"][task.board] = i]
         torn == [image EXCEPT !.rest = Part]
     IN \/ BackedUp /\ Saved(image) /\ UNCHANGED excuses
        \/ ~sound /\ NoBackup /\ Saved(torn) /\ UNCHANGED excuses
        \/ /\ ~sound /\ task.board = "zc624"
           /\ BackedUp /\ Saved(torn) /\ excuses' = excuses \cup {"lost"}
  /\ UNCHANGED <<flag, flash>>

-----------------------------------------------------------------------------
(* Copying a file over a firmware: copy_sd_card_file_to_flash,             *)
(* zc624_send_sd_card_file with the ZC624 bootloader.                      *)

(* where a copy leads; a restore sends the second file in any case *)
Copied(ok) ==
  CASE task.job = "restore" /\ task.board = "zc95" ->
         Go("copy") /\ task' = [Task("restore", "zc624", "prev") EXCEPT !.ok = ok]
    [] task.job = "update" /\ task.board = "zc95" /\ ok ->
         Go("copy") /\ task' = Task("update", "zc624", "pend")
    [] task.job = "update" /\ task.board = "zc95" /\ ~ok ->
         Go("dead") /\ task' = NoTask
    [] task.job \in {"update", "restore"} /\ task.board = "zc624" ->
         Go(IF ok /\ task.ok THEN "launch" ELSE "dead") /\ task' = NoTask
    [] task.job = "repair" -> Go("boot") /\ task' = NoTask
    [] task.job = "menu" -> Go("menu") /\ task' = NoTask

SetFlash(image) == flash' = [flash EXCEPT ![task.board] = image]

(* zc95: open the file, then wipe.  zc624: wipe, then open the file; the   *)
(* wipe may be refused, or done without an answer.                         *)
WipeFlash ==
  /\ pc = "copy"
  /\ \/ /\ task.board = "zc95" => Source # Missing
        /\ SetFlash(Wiped) /\ Go("fill") /\ UNCHANGED task
     \/ /\ task.board = "zc95" /\ (Source = Missing \/ ~sound)
        /\ Copied(FALSE) /\ UNCHANGED flash
     \/ /\ task.board = "zc624" /\ ~sound
        /\ Copied(FALSE) /\ flash' \in {flash, [flash EXCEPT !["zc624"] = Wiped]}
  /\ UNCHANGED <<flag, file, excuses>>

(* Mutant of AllButFirst: the first block goes first. *)
FromTheFirst(image) == [Wiped EXCEPT !.first = image.first]
(* Mutant of AllButFirst: a stale buffer goes into the first block. *)
StaleFirst(image) == [first |-> Part, rest |-> image.rest]
AllButFirst(image) == [Wiped EXCEPT !.rest = image.rest]

(* All blocks but the first, which both boards keep back.  The output      *)
(* module drops a block that arrives damaged, and all after it, without    *)
(* telling.                                                                *)
FillFlash ==
  /\ pc = "fill"
  /\ \/ /\ Source # Missing
        /\ SetFlash(AllButFirst(Source))
        /\ Go("first") /\ UNCHANGED <<task, excuses>>
     \/ /\ Source = Missing \/ ~sound
        /\ Copied(FALSE) /\ UNCHANGED <<flash, excuses>>
     \/ /\ Source # Missing /\ task.board = "zc624" /\ ~sound
        /\ Go("first") /\ excuses' = excuses \cup {"lost"}
        /\ UNCHANGED <<flash, task>>
  /\ UNCHANGED <<flag, file>>

(* Then the first block.  The end of transmission to the output module may *)
(* get lost, which nobody notices; closing the file may fail.              *)
WriteFirst ==
  /\ pc = "first"
  /\ \/ Copied(TRUE) /\ SetFlash([flash[task.board] EXCEPT !.first = Source.first])
     \/ /\ ~sound
        /\ Copied(FALSE) /\ SetFlash([flash[task.board] EXCEPT !.first = Source.first])
     \/ ~sound /\ task.board = "zc624" /\ Copied(TRUE) /\ UNCHANGED flash
  /\ UNCHANGED <<flag, file, excuses>>

-----------------------------------------------------------------------------
(* zc624_validate_and_update_version: a matching file for the output       *)
(* module, if its firmware does not suit the main board's.                 *)

(* the order the files are looked through *)
Searched == <<"pend", "prev", "orig">>
Readable(s) == file[s]["zc624"] # Missing
Stored(S) == {s \in Slot : Readable(s) /\ file[s]["zc624"].first \in S}

(* The slots that may be chosen for main board version v: the first that   *)
(* matches best.  is_valid of every file is that of the first file, and    *)
(* the API numbers of a file that cannot be opened are whatever the stack  *)
(* holds: strays is the set of those that seem to match.                   *)
FirstOf(S) == {Searched[i] : i \in {i \in 1..3 :
                 /\ Searched[i] \in S
                 /\ \A j \in 1..(i - 1) : Searched[j] \notin S}}
Chosen(v, strays) ==
  LET same == Stored({v})
      equal == Stored({w \in Version : Api[w] = Api[v]}) \cup strays
      suits == Stored({w \in Version : Compatible(v, w)}) \cup strays
  IN IF ~Readable("pend") \/ file["pend"]["zc624"].first = Blank THEN {}
     ELSE IF same # {} THEN FirstOf(same)
     ELSE IF equal # {} THEN FirstOf(equal)
     ELSE FirstOf(suits)

Suited == /\ Bootable("zc95") /\ Bootable("zc624")
          /\ Compatible(flash["zc95"].first, flash["zc624"].first)

ValidateVersion ==
  /\ pc = "validate"
  /\ \/ /\ Suited \/ ~Bootable("zc95") \/ ~sound
        /\ Go("boot") /\ UNCHANGED task
     \/ /\ Bootable("zc95") /\ ~Suited
        /\ \E strays \in SUBSET {s \in Slot : ~Readable(s)} :
             LET chosen == Chosen(flash["zc95"].first, strays)
             IN IF chosen = {} THEN Go("boot") /\ UNCHANGED task
                ELSE \E s \in chosen : Go("copy") /\ task' = Task("repair", "zc624", s)
  /\ UNCHANGED <<flag, memory, excuses>>

(* is_firmware_in_flash_valid: start it, or show the menu *)
Boot ==
  /\ pc = "boot"
  /\ Go(IF Bootable("zc95") THEN "started" ELSE "menu")
  /\ UNCHANGED <<task, flag, memory, excuses>>

(* launch_firmware, which dies without one *)
Launch ==
  /\ pc = "launch"
  /\ Go(IF Bootable("zc95") THEN "started" ELSE "dead")
  /\ UNCHANGED <<task, flag, memory, excuses>>

-----------------------------------------------------------------------------
(* The main firmware: CHwCheck and main.                                   *)

(* check_part1 tells the output module to leave its bootloader, which it   *)
(* does if it has a first block.                                           *)
CheckPart1 ==
  /\ pc = "started" /\ ~Hung
  /\ pc' = "check"
  /\ up' \in {Bootable("zc624")} \cup (IF sound THEN {} ELSE {FALSE})
  /\ UNCHANGED <<task, flag, memory, sound, excuses, uses>>

(* Mutant of Good: the versions are not compared. *)
UpAtLeast == up
Good == up /\ Suited
CheckPart2 ==
  /\ pc = "check"
  /\ \/ Good /\ Go("good")
     \/ ~Good /\ Go("dead")
     \/ ~sound /\ Go("dead")
  /\ UNCHANGED <<task, flag, memory, excuses>>

(* set_normal_bootloader_mode *)
SetNormal ==
  /\ pc = "good" /\ Go("running")
  /\ flag' \in {"NORMAL"} \cup (IF sound THEN {} ELSE {flag})
  /\ UNCHANGED <<task, memory, excuses>>

(* New files on the card and the flag set to use them. *)
RequestUpdate ==
  /\ pc = "running" /\ pc' = pc
  /\ \E p \in Packages : file' = [file EXCEPT !["pend"] = p]
  /\ flag' = "PENDING"
  /\ UNCHANGED <<task, flash, up, sound, excuses, uses>>

-----------------------------------------------------------------------------
(* The bootloader's menus.                                                 *)

Menu == pc = "menu" /\ excuses' = excuses \cup {"user"} /\ UNCHANGED flag

(* an entry that leads on to p *)
Choose(p) == /\ Menu /\ pc' = p
             /\ uses < MaxUses /\ uses' = uses + 1
             /\ UNCHANGED <<up, sound>>

(* restore orig, prev or pending *)
MenuCopy(board, slot) ==
  /\ Choose("copy")
  /\ task' = Task("menu", board, slot)
  /\ UNCHANGED memory

MenuBackup(board) ==
  /\ Choose("backup")
  /\ task' = Task("menu", board, "prev")
  /\ UNCHANGED memory

(* An upload by XMODEM ends with a whole firmware or, if it is aborted,    *)
(* with one that was wiped.                                                *)
MenuUpload(board, image) ==
  /\ Choose("menu")
  /\ \/ flash' = [flash EXCEPT ![board] = image] /\ UNCHANGED file
     \/ file' = [file EXCEPT !["pend"][board] = image] /\ UNCHANGED flash
  /\ UNCHANGED task

MenuLaunch ==
  /\ Menu /\ Go("launch")
  /\ UNCHANGED <<task, memory>>

MenuEntry == \/ MenuLaunch
             \/ \E board \in Board :
                  \/ MenuBackup(board)
                  \/ \E slot \in Slot : MenuCopy(board, slot)
                  \/ \E image \in Uploads : MenuUpload(board, image)

-----------------------------------------------------------------------------
Init ==
  /\ pc = "running" /\ task = NoTask /\ flag = "NORMAL"
  /\ flash = [b \in Board |-> WholeImage(Installed)]
  /\ file = [s \in Slot |-> IF s = "orig" THEN Original
                            ELSE [b \in Board |-> Missing]]
  /\ up = TRUE /\ sound = FALSE /\ excuses = {} /\ uses = 0

Firmware == \/ CheckFlag \/ ClearFlag \/ SaveFlag \/ OpenBackup \/ WriteBackup
            \/ WipeFlash \/ FillFlash \/ WriteFirst \/ ValidateVersion
            \/ Boot \/ Launch \/ CheckPart1 \/ CheckPart2 \/ SetNormal

Power == PowerOn \/ SwitchOff \/ PowerFails \/ Settle

User == RequestUpdate \/ EnterMenu \/ MenuEntry

Next == Firmware \/ Power \/ User

Spec == Init /\ [][Next]_vars

(* The processors run, and a user faced with an error or a dark screen     *)
(* switches the unit off and on.                                           *)
FairSpec == /\ Spec
            /\ WF_vars(Firmware) /\ WF_vars(PowerOn)
            /\ WF_vars(pc # "running" /\ SwitchOff)

-----------------------------------------------------------------------------
(* Properties.                                                             *)

(* Every variable keeps its range. *)
TypeOK ==
  /\ pc \in {"off", "flag", "pending", "backup", "write", "save", "copy", "fill",
             "first", "validate", "boot", "launch", "started", "check", "good",
             "running", "dead", "menu"}
  /\ task \in [job : {"none", "update", "restore", "repair", "menu"},
               board : Board, slot : Slot, ok : BOOLEAN]
  /\ flag \in {"NORMAL", "PENDING", "PREV"}
  /\ flash \in [Board -> Image]
  /\ file \in [Slot -> [Board -> Image \cup {Missing}]]
  /\ up \in BOOLEAN /\ sound \in BOOLEAN
  /\ excuses \subseteq {"user", "eeprom", "lost"} /\ uses \in 0..MaxUses

BothWhole(images) == \A b \in Board : Whole(images[b])

(* Wherever power fails or a step goes wrong, either both firmwares are    *)
(* whole, or the flag leads back to two whole backups, unless the EEPROM   *)
(* or a lost block went unnoticed or the user took over.                   *)
Recoverable ==
  excuses = {} => BothWhole(flash) \/ (flag = "PREV" /\ BothWhole(file["prev"]))

(* What a board would start is complete, even if power fails between any   *)
(* two blocks of an update or of a way back: the first block, without      *)
(* which a board does not start, is written over the complete rest         *)
(* (copy_sd_card_file_to_flash, "Don't write the first block until after").*)
StartsWhole ==
  excuses = {} => \A b \in Board : Bootable(b) => Whole(flash[b])

(* A main firmware that has found everything in order runs on two whole    *)
(* firmwares that suit each other.                                         *)
RunsWhole == pc \in {"good", "running"} /\ excuses = {} => BothWhole(flash) /\ Suited

(* Whatever an update was interrupted by, once nothing fails any more the  *)
(* unit comes up again.                                                    *)
ComesUp == (<>sound /\ [](excuses = {})) => []<>(pc = "running")

=============================================================================
