------------------------------ MODULE InterCore ------------------------------
(***************************************************************************)
(* How the two cores of the ZC95 main board talk, and how core 0 stops     *)
(* core 1 to write flash.                                                  *)
(*                                                                         *)
(* Each core sends the other 32 bit messages through a hardware FIFO of    *)
(* FifoSize entries.  Core 0 pushes commands and waits while the FIFO is   *)
(* full.  Core 1 pushes the display state, skipping a full FIFO, but a Lua *)
(* script that calls SetMenuOption waits as core 0 does.  A flash write    *)
(* needs core 1 out of the way, since it runs from the same flash: a       *)
(* mutex, a semaphore and a suspend message see to that.                   *)
(*                                                                         *)
(* main in zc95.cpp, CRoutineOutputCore1, FlashHelper.cpp, Core1::loop,    *)
(* process_message and core1_suspend, CRoutine::set_menu_value, _exit.     *)
(* What a command does is left to PowerControl.                            *)
(***************************************************************************)
EXTENDS Integers, Sequences

CONSTANTS
  FifoSize,     \* 8: entries of each FIFO
  Burst,        \* commands and flash writes of one pass of core 0's loop
  LoopCalls,    \* SetMenuOption calls in a script's Loop
  ChangeCalls   \* SetMenuOption calls in its MinMaxChange

ASSUME CoresAssumption ==
  /\ FifoSize \in Nat \ {0} /\ Burst \in Nat
  /\ LoopCalls \in Nat /\ ChangeCalls \in Nat

VARIABLES
  pc0,        \* where core 0 is
  burst,      \* commands and flash writes core 0 has left in this pass
  shown,      \* the level core 0 displays
  capture,    \* the audio capture's DMA is running
  was_capturing,  \* _analogue_capture_running
  to1, to0,   \* the FIFOs
  mutex,      \* owner of g_core1_suspend_mutex: "none", "core0", "core1"
  sem,        \* g_core1_suspend_sem
  fatal,      \* gFatalError
  pc1,        \* where core 1 is
  back,       \* where core 1 goes on after a script's calls
  calls,      \* SetMenuOption calls the script has left
  level,      \* the level core 1 outputs
  sent,       \* the level it last reported
  output      \* the output module has not been shut down

core0Vars == <<pc0, burst, shown, capture, was_capturing>>
core1Vars == <<pc1, back, calls, level, sent, output>>
lockVars == <<mutex, sem>>
vars == <<core0Vars, to1, to0, lockVars, fatal, core1Vars>>

Levels == {0, 1}
MenuMessage == [type |-> "menu"]
LevelMessage(l) == [type |-> "level", level |-> l]

Room(fifo) == Len(fifo) < FifoSize
Released(s) == IF s < 1 THEN s + 1 ELSE s

-----------------------------------------------------------------------------
(* Core 0.                                                                 *)

(* Mutant of SendCommand: the push does not look for room. *)
SendCommandAnyway ==
  /\ pc0 = "commands" /\ burst > 0
  /\ to1' = Append(to1, "command")
  /\ burst' = burst - 1
  /\ UNCHANGED <<pc0, shown, capture, was_capturing, to0, lockVars, fatal, core1Vars>>

(* A blocking push of a command: front panel, menu or remote client. *)
SendCommand ==
  /\ pc0 = "commands" /\ burst > 0 /\ Room(to1)
  /\ to1' = Append(to1, "command")
  /\ burst' = burst - 1
  /\ UNCHANGED <<pc0, shown, capture, was_capturing, to0, lockVars, fatal, core1Vars>>

CommandsDone ==
  /\ pc0 = "commands" /\ pc0' = "drain"
  /\ burst' = Burst
  /\ UNCHANGED <<shown, capture, was_capturing, to1, to0, lockVars, fatal, core1Vars>>

(* CRoutineOutputCore1::loop, process_message *)
Drain ==
  /\ pc0 = "drain" /\ to0 # <<>>
  /\ to0' = Tail(to0)
  /\ IF Head(to0).type = "menu"
     THEN pc0' = "reply" /\ UNCHANGED shown
     ELSE shown' = Head(to0).level /\ UNCHANGED pc0
  /\ UNCHANGED <<burst, capture, was_capturing, to1, lockVars, fatal, core1Vars>>

(* menu_changed_callback: the new value goes back as a change by the user *)
Reply ==
  /\ pc0 = "reply" /\ Room(to1)
  /\ to1' = Append(to1, "change")
  /\ pc0' = "drain"
  /\ UNCHANGED <<burst, shown, capture, was_capturing, to0, lockVars, fatal, core1Vars>>

(* The FIFO is empty.  On a fatal error core 0 stops the routine and shows *)
(* the error for good, CHwCheck::die.                                      *)
DrainDone ==
  /\ pc0 = "drain" /\ to0 = <<>>
  /\ pc0' = IF fatal THEN "stop" ELSE "commands"
  /\ UNCHANGED <<burst, shown, capture, was_capturing, to1, to0, lockVars, fatal, core1Vars>>

Die ==
  /\ pc0 = "stop" /\ Room(to1)
  /\ to1' = Append(to1, "command")
  /\ pc0' = "dead"
  /\ UNCHANGED <<burst, shown, capture, was_capturing, to0, lockVars, fatal, core1Vars>>

(* the audio processing is switched on or off *)
SwitchCapture ==
  /\ pc0 = "commands"
  /\ capture' = ~capture
  /\ UNCHANGED <<pc0, burst, shown, was_capturing, to1, to0, lockVars, fatal, core1Vars>>

(* The dials' ADC fails, or core 0 panics: _exit. *)
Core0Fails ==
  /\ pc0 = "commands" /\ ~fatal
  /\ fatal' = TRUE
  /\ pc0' \in {"commands", "dead"}
  /\ UNCHANGED <<burst, shown, capture, was_capturing, to1, to0, lockVars, core1Vars>>

-----------------------------------------------------------------------------
(* Core 0: a flash write, flash_safe_execute with the FlashHelper.         *)

StartWrite ==
  /\ pc0 = "commands" /\ burst > 0 /\ pc0' = "enter"
  /\ burst' = burst - 1
  /\ UNCHANGED <<shown, capture, was_capturing, to1, to0, lockVars, fatal, core1Vars>>

(* The log lines around a write take longer than core 1 needs to take the  *)
(* mutex it was waiting for, so core 0 does not overtake it.               *)
EnterMutex ==
  /\ pc0 = "enter" /\ mutex = "none" /\ pc1 # "lock"
  /\ mutex' = "core0" /\ pc0' = "acquire"
  /\ UNCHANGED <<burst, shown, capture, was_capturing, to1, to0, sem, fatal, core1Vars>>

AcquireSem ==
  /\ pc0 = "acquire" /\ sem = 1
  /\ sem' = 0 /\ pc0' = "suspend"
  /\ UNCHANGED <<burst, shown, capture, was_capturing, to1, to0, mutex, fatal, core1Vars>>

SuspendCore1 ==
  /\ pc0 = "suspend" /\ Room(to1)
  /\ to1' = Append(to1, "suspend") /\ pc0' = "wait"
  /\ UNCHANGED <<burst, shown, capture, was_capturing, to0, lockVars, fatal, core1Vars>>

(* Mutant of Core1Suspended: the message sent is taken for the answer. *)
Core1SuspendedAtOnce ==
  /\ pc0 = "wait"
  /\ was_capturing' = capture /\ capture' = FALSE
  /\ pc0' = "write"
  /\ UNCHANGED <<burst, shown, to1, to0, lockVars, fatal, core1Vars>>

(* core 1 has let go of the semaphore: stop the capture *)
Core1Suspended ==
  /\ pc0 = "wait" /\ sem = 1
  /\ sem' = 0
  /\ was_capturing' = capture /\ capture' = FALSE
  /\ pc0' = "write"
  /\ UNCHANGED <<burst, shown, to1, to0, mutex, fatal, core1Vars>>

ExitMutex ==
  /\ pc0 = "write"
  /\ mutex' = "none" /\ pc0' = "exit"
  /\ UNCHANGED <<burst, shown, capture, was_capturing, to1, to0, sem, fatal, core1Vars>>

ReleaseSem ==
  /\ pc0 = "exit"
  /\ sem' = Released(sem)
  /\ capture' = was_capturing
  /\ pc0' = "commands"
  /\ UNCHANGED <<burst, shown, was_capturing, to1, to0, mutex, fatal, core1Vars>>

Core0 == \/ SendCommand \/ CommandsDone \/ Drain \/ Reply \/ DrainDone \/ Die
         \/ EnterMutex \/ AcquireSem \/ SuspendCore1 \/ Core1Suspended
         \/ ExitMutex \/ ReleaseSem
Core0Env == SwitchCapture \/ Core0Fails \/ StartWrite

-----------------------------------------------------------------------------
(* Core 1.                                                                 *)

(* the routine runs, may change the output and call SetMenuOption *)
RoutineLoop ==
  /\ pc1 = "routine" /\ pc1' = "script" /\ back' = "status"
  /\ calls' \in 0..LoopCalls
  /\ level' \in Levels
  /\ UNCHANGED <<core0Vars, to1, to0, lockVars, fatal, sent, output>>

(* set_menu_value: a blocking push *)
SetMenuValue ==
  /\ pc1 = "script" /\ calls > 0 /\ Room(to0)
  /\ to0' = Append(to0, MenuMessage)
  /\ calls' = calls - 1
  /\ UNCHANGED <<core0Vars, to1, lockVars, fatal, pc1, back, level, sent, output>>

ScriptDone ==
  /\ pc1 = "script" /\ calls = 0
  /\ pc1' = back
  /\ UNCHANGED <<core0Vars, to1, to0, lockVars, fatal, back, calls, level, sent, output>>

(* Mutants of UpdatePowerLevels: a push that waits, and one that forgets   *)
(* that it failed.                                                         *)
UpdatePowerLevelsBlocking ==
  /\ pc1 = "status" /\ pc1' = "messages"
  /\ IF sent # level
     THEN Room(to0) /\ to0' = Append(to0, LevelMessage(level)) /\ sent' = level
     ELSE UNCHANGED <<to0, sent>>
  /\ UNCHANGED <<core0Vars, to1, lockVars, fatal, back, calls, level, output>>
UpdatePowerLevelsOnce ==
  /\ pc1 = "status" /\ pc1' = "messages"
  /\ to0' = IF sent # level /\ Room(to0) THEN Append(to0, LevelMessage(level)) ELSE to0
  /\ sent' = level
  /\ UNCHANGED <<core0Vars, to1, lockVars, fatal, back, calls, level, output>>

(* A lost message of update_power_levels is sent again next time, as       *)
(* _output_power only changes with the push.                               *)
UpdatePowerLevels ==
  /\ pc1 = "status" /\ pc1' = "messages"
  /\ IF sent # level /\ Room(to0)
     THEN to0' = Append(to0, LevelMessage(level)) /\ sent' = level
     ELSE UNCHANGED <<to0, sent>>
  /\ UNCHANGED <<core0Vars, to1, lockVars, fatal, back, calls, level, output>>

ReceiveCommand ==
  /\ pc1 = "messages" /\ to1 # <<>> /\ Head(to1) = "command"
  /\ to1' = Tail(to1)
  /\ UNCHANGED <<core0Vars, to0, lockVars, fatal, core1Vars>>

(* the script's MinMaxChange or MultiChoiceChange *)
ReceiveChange ==
  /\ pc1 = "messages" /\ to1 # <<>> /\ Head(to1) = "change"
  /\ to1' = Tail(to1)
  /\ pc1' = "script" /\ back' = "messages"
  /\ calls' \in 0..ChangeCalls
  /\ UNCHANGED <<core0Vars, to0, lockVars, fatal, level, sent, output>>

(* core1_suspend, with interrupts off and outside flash: release the       *)
(* semaphore, then wait for the mutex                                      *)
ReceiveSuspend ==
  /\ pc1 = "messages" /\ to1 # <<>> /\ Head(to1) = "suspend"
  /\ to1' = Tail(to1)
  /\ pc1' = "release"
  /\ UNCHANGED <<core0Vars, to0, lockVars, fatal, back, calls, level, sent, output>>

ReleaseCore0 ==
  /\ pc1 = "release" /\ pc1' = "lock"
  /\ sem' = Released(sem)
  /\ UNCHANGED <<core0Vars, to1, to0, mutex, fatal, back, calls, level, sent, output>>

LockMutex ==
  /\ pc1 = "lock" /\ mutex = "none"
  /\ mutex' = "core1" /\ pc1' = "unlock"
  /\ UNCHANGED <<core0Vars, to1, to0, sem, fatal, back, calls, level, sent, output>>

UnlockMutex ==
  /\ pc1 = "unlock"
  /\ mutex' = "none" /\ pc1' = "messages"
  /\ UNCHANGED <<core0Vars, to1, to0, sem, fatal, back, calls, level, sent, output>>

(* Mutant of MessagesDone: the fatal error only matters to a routine that  *)
(* puts something out.                                                     *)
MessagesDoneIfActive ==
  /\ pc1 = "messages" /\ to1 = <<>>
  /\ IF fatal /\ level > 0 THEN pc1' = "halt" /\ output' = FALSE
                            ELSE pc1' = "routine" /\ UNCHANGED output
  /\ UNCHANGED <<core0Vars, to1, to0, lockVars, fatal, back, calls, level, sent>>

(* The FIFO is empty.  On a fatal error core 1 sends the output module     *)
(* PowerDown and halts.                                                    *)
MessagesDone ==
  /\ pc1 = "messages" /\ to1 = <<>>
  /\ IF fatal THEN pc1' = "halt" /\ output' = FALSE
              ELSE pc1' = "routine" /\ UNCHANGED output
  /\ UNCHANGED <<core0Vars, to1, to0, lockVars, fatal, back, calls, level, sent>>

(* The output module does not answer, or core 1 panics: then _exit itself  *)
(* sends PowerDown.                                                        *)
Core1Fails ==
  /\ pc1 = "routine" /\ ~fatal
  /\ fatal' = TRUE
  /\ \/ pc1' = "status" /\ UNCHANGED output
     \/ pc1' = "halt" /\ output' = FALSE
  /\ UNCHANGED <<core0Vars, to1, to0, lockVars, back, calls, level, sent>>

Core1 == \/ RoutineLoop \/ SetMenuValue \/ ScriptDone \/ UpdatePowerLevels
         \/ ReceiveCommand \/ ReceiveChange \/ ReceiveSuspend \/ ReleaseCore0
         \/ LockMutex \/ UnlockMutex \/ MessagesDone

-----------------------------------------------------------------------------
Init ==
  /\ pc0 = "commands" /\ burst = Burst /\ shown = 0
  /\ capture = FALSE /\ was_capturing = FALSE
  /\ to1 = <<>> /\ to0 = <<>>
  /\ mutex = "none" /\ sem = 1
  /\ fatal = FALSE
  /\ pc1 = "routine" /\ back = "status" /\ calls = 0
  /\ level = 0 /\ sent = 0 /\ output = TRUE

Next == Core0 \/ Core0Env \/ Core1 \/ Core1Fails

Spec == Init /\ [][Next]_vars

(* A script waits for room in the FIFO to core 0. *)
ScriptWaits == pc1 = "script" /\ calls > 0 /\ ~Room(to0)

(* where a core works on the other's messages, and waits while it does *)
Reading0 == pc0 \in {"drain", "reply"}
Waiting0 == pc0 = "reply" /\ ~Room(to1)
Reading1 == \/ pc1 \in {"messages", "release", "lock", "unlock"}
            \/ pc1 = "script" /\ back = "messages"
Waiting1 == ScriptWaits \/ (pc1 = "lock" /\ mutex # "none")

(* Both cores run for ever.  Each gets to the end of its FIFO, unless it   *)
(* is left waiting: a pass of either loop does far more than push a few    *)
(* messages, so it fills a FIFO more slowly than the other empties it.     *)
(* Failures, writes and audio owe nothing.                                 *)
FairSpec == /\ Spec
            /\ WF_vars(Core0) /\ WF_vars(Core1)
            /\ []<>~Reading0 \/ <>[]Waiting0
            /\ []<>~Reading1 \/ <>[]Waiting1

-----------------------------------------------------------------------------
(* Properties.                                                             *)

Status == {MenuMessage} \cup {LevelMessage(l) : l \in Levels}

(* Every variable keeps its range, and both FIFOs their size. *)
TypeOK ==
  /\ pc0 \in {"commands", "drain", "reply", "stop", "dead", "enter", "acquire",
              "suspend", "wait", "write", "exit"}
  /\ burst \in 0..Burst /\ shown \in Levels
  /\ capture \in BOOLEAN /\ was_capturing \in BOOLEAN
  /\ to1 \in Seq({"command", "change", "suspend"}) /\ Len(to1) <= FifoSize
  /\ to0 \in Seq(Status) /\ Len(to0) <= FifoSize
  /\ mutex \in {"none", "core0", "core1"} /\ sem \in {0, 1}
  /\ fatal \in BOOLEAN
  /\ pc1 \in {"routine", "script", "status", "messages", "release", "lock",
              "unlock", "halt"}
  /\ back \in {"status", "messages"}
  /\ calls \in Nat /\ level \in Levels /\ sent \in Levels /\ output \in BOOLEAN

(* While core 0 writes flash, core 1 waits for the mutex outside flash with *)
(* its interrupts off, and no audio capture runs, however writes follow    *)
(* each other (enter_safe_zone_timeout_ms, core1_suspend).                 *)
FlashAlone == pc0 = "write" => pc1 = "lock" /\ ~capture

Healthy == []~fatal /\ []<>~ScriptWaits

(* Without a fatal error, and unless a script is left waiting, both cores  *)
(* come round for ever: neither full FIFOs nor flash writes block them.    *)
CoresKeepGoing ==
  Healthy => []<>(pc0 = "commands") /\ []<>(pc1 = "routine")

(* The display shows what core 1 puts out once that stops changing and no  *)
(* script fills the FIFO, though core 1 gives up on a full one             *)
(* (update_power_levels).                                                  *)
DisplayCatchesUp ==
  \A l \in Levels :
    []~fatal /\ <>[](level = l /\ calls = 0) => <>[](shown = l)

(* A fatal error on either core ends in the output module shut down, unless *)
(* it finds a script waiting (gFatalError, _exit).                         *)
FatalShutsDown == fatal ~> (~output \/ ScriptWaits)

(* "The change will result in the scripts MinMaxChange or                  *)
(* MultiChoiceChange function being called asynchronously".                *)
MenuChangeArrives ==
  []~fatal => ((\E i \in 1..Len(to0) : to0[i] = MenuMessage) ~> (back = "messages"))

=============================================================================
