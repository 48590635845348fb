--------------------------- MODULE InterCoreProofs ---------------------------
(***************************************************************************)
(* Core 1 never runs from flash while core 0 writes it, for FIFOs of any   *)
(* size and any number of commands, writes and script calls.               *)
(*                                                                         *)
(* The inductive invariant follows the hand-over: at every place of core 0 *)
(* it says what the semaphore holds, whether a suspend message is under    *)
(* way, and where core 1 can be.                                           *)
(***************************************************************************)
EXTENDS InterCore, TLAPS

None(fifo) == \A i \in 1..Len(fifo) : fifo[i] # "suspend"
One(fifo) == \E i \in 1..Len(fifo) :
               /\ fifo[i] = "suspend"
               /\ \A j \in 1..Len(fifo) : fifo[j] = "suspend" => j = i

Commands == {"command", "change", "suspend"}

(* Core 1 has taken the suspend message, and not yet come back. *)
InSuspend == pc1 \in {"release", "lock", "unlock"}

Owner ==
  /\ mutex = "core0" <=> pc0 \in {"acquire", "suspend", "wait", "write"}
  /\ mutex = "core1" <=> pc1 = "unlock"

Resting ==
  pc0 \in {"commands", "drain", "reply", "stop", "dead", "enter"}
    => None(to1) /\ sem = 1 /\ pc1 # "release"
Acquiring == pc0 = "acquire" => None(to1) /\ sem = 1 /\ ~InSuspend
Suspending == pc0 = "suspend" => None(to1) /\ sem = 0 /\ ~InSuspend
Waiting ==
  pc0 = "wait" => \/ One(to1) /\ sem = 0 /\ ~InSuspend
                  \/ None(to1) /\ sem = 0 /\ pc1 = "release"
                  \/ None(to1) /\ sem = 1 /\ pc1 = "lock"
Writing == pc0 = "write" => None(to1) /\ sem = 0 /\ pc1 = "lock" /\ ~capture
Leaving == pc0 = "exit" => None(to1) /\ sem = 0 /\ pc1 # "release"

HandOver == Owner /\ Resting /\ Acquiring /\ Suspending /\ Waiting /\ Writing /\ Leaving

IInv == TypeOK /\ HandOver

-----------------------------------------------------------------------------
(* FIFOs.                                                                  *)

LEMMA AppendType ==
  ASSUME NEW S, NEW f \in Seq(S), NEW e \in S, Room(f)
  PROVE  Append(f, e) \in Seq(S) /\ Len(Append(f, e)) <= FifoSize
BY CoresAssumption DEF Room

LEMMA TailType ==
  ASSUME NEW S, NEW f \in Seq(S), f # <<>>, Len(f) <= FifoSize
  PROVE  Tail(f) \in Seq(S) /\ Len(Tail(f)) <= FifoSize /\ Head(f) \in S
BY CoresAssumption

(* Appending another message adds no suspend message, appending one to a   *)
(* FIFO without makes it the only one.                                     *)
LEMMA AppendCount ==
  ASSUME NEW f \in Seq(Commands), NEW e \in Commands
  PROVE  /\ e # "suspend" /\ None(f) => None(Append(f, e))
         /\ e # "suspend" /\ One(f) => One(Append(f, e))
         /\ e = "suspend" /\ None(f) => One(Append(f, e))
<1>1. /\ Len(Append(f, e)) = Len(f) + 1 /\ Len(f) \in Nat
      /\ Append(f, e)[Len(f) + 1] = e
      /\ \A i \in 1..Len(f) : Append(f, e)[i] = f[i]
  OBVIOUS
<1>2. \A i \in 1..(Len(f) + 1) : i \in 1..Len(f) \/ i = Len(f) + 1
  BY <1>1
<1>3. 1..Len(f) \subseteq 1..(Len(f) + 1) /\ Len(f) + 1 \in 1..(Len(f) + 1)
  BY <1>1
<1>4. e # "suspend" /\ None(f) => None(Append(f, e))
  BY <1>1, <1>2 DEF None
<1>5. e # "suspend" /\ One(f) => One(Append(f, e))
  <2>1. SUFFICES ASSUME e # "suspend", One(f) PROVE One(Append(f, e))
    OBVIOUS
  <2>2. PICK i \in 1..Len(f) :
          /\ f[i] = "suspend"
          /\ \A j \in 1..Len(f) : f[j] = "suspend" => j = i
    BY <2>1 DEF One
  <2>3. i \in 1..Len(Append(f, e)) /\ Append(f, e)[i] = "suspend"
    BY <1>1, <1>3, <2>2
  <2>4. \A j \in 1..Len(Append(f, e)) : Append(f, e)[j] = "suspend" => j = i
    BY <1>1, <1>2, <2>1, <2>2
  <2> QED BY <2>3, <2>4 DEF One
<1>6. e = "suspend" /\ None(f) => One(Append(f, e))
  <2>1. SUFFICES ASSUME e = "suspend", None(f) PROVE One(Append(f, e))
    OBVIOUS
  <2>2. \A j \in 1..Len(Append(f, e)) :
          Append(f, e)[j] = "suspend" => j = Len(f) + 1
    BY <1>1, <1>2, <2>1 DEF None
  <2>3. Len(f) + 1 \in 1..Len(Append(f, e)) /\ Append(f, e)[Len(f) + 1] = "suspend"
    BY <1>1, <1>3, <2>1
  <2> QED BY <2>2, <2>3 DEF One
<1> QED BY <1>4, <1>5, <1>6

LEMMA TailCount ==
  ASSUME NEW f \in Seq(Commands), f # <<>>
  PROVE  /\ None(f) => None(Tail(f)) /\ Head(f) # "suspend"
         /\ One(f) /\ Head(f) # "suspend" => One(Tail(f))
         /\ One(f) /\ Head(f) = "suspend" => None(Tail(f))
<1>1. /\ Len(f) \in Nat /\ Len(f) >= 1 /\ Len(Tail(f)) = Len(f) - 1
      /\ Head(f) = f[1]
      /\ \A i \in 1..Len(Tail(f)) : Tail(f)[i] = f[i + 1]
  OBVIOUS
<1>2. \A i \in 1..Len(Tail(f)) : i + 1 \in 1..Len(f) /\ i + 1 # 1
  BY <1>1
<1>3. 1 \in 1..Len(f)
  BY <1>1
<1>4. None(f) => None(Tail(f)) /\ Head(f) # "suspend"
  BY <1>1, <1>2, <1>3 DEF None
<1>5. One(f) /\ Head(f) # "suspend" => One(Tail(f))
  <2>1. SUFFICES ASSUME One(f), Head(f) # "suspend" PROVE One(Tail(f))
    OBVIOUS
  <2>2. PICK i \in 1..Len(f) :
          /\ f[i] = "suspend"
          /\ \A j \in 1..Len(f) : f[j] = "suspend" => j = i
    BY <2>1 DEF One
  <2>3. i - 1 \in 1..Len(Tail(f)) /\ (i - 1) + 1 = i
    BY <1>1, <2>1, <2>2
  <2>4. Tail(f)[i - 1] = "suspend"
    BY <1>1, <2>2, <2>3
  <2>5. \A j \in 1..Len(Tail(f)) : Tail(f)[j] = "suspend" => j = i - 1
    BY <1>1, <1>2, <2>2
  <2> QED BY <2>3, <2>4, <2>5 DEF One
<1>6. One(f) /\ Head(f) = "suspend" => None(Tail(f))
  BY <1>1, <1>2, <1>3 DEF One, None
<1> QED BY <1>4, <1>5, <1>6

-----------------------------------------------------------------------------
(* The invariant.                                                          *)

LEMMA InitIInv == Init => IInv
<1>1. SUFFICES ASSUME Init PROVE IInv
  OBVIOUS
<1>2. to1 \in Seq(Commands) /\ Len(to1) = 0 /\ to0 \in Seq(Status) /\ Len(to0) = 0
  BY <1>1 DEF Init
<1>3. TypeOK
  <2>1. to1 \in Seq({"command", "change", "suspend"}) /\ Len(to1) <= FifoSize
    BY <1>2, CoresAssumption DEF Commands
  <2>2. to0 \in Seq(Status) /\ Len(to0) <= FifoSize
    BY <1>2, CoresAssumption
  <2>3. burst \in 0..Burst /\ calls \in Nat /\ {shown, level, sent} \subseteq Levels
    BY <1>1, CoresAssumption DEF Init, Levels
  <2> QED BY <1>1, <2>1, <2>2, <2>3 DEF Init, TypeOK
<1>4. None(to1)
  BY <1>2 DEF None
<1>5. HandOver
  BY <1>1, <1>4 DEF Init, HandOver, Owner, Resting, Acquiring, Suspending,
                    Waiting, Writing, Leaving, InSuspend
<1> QED BY <1>3, <1>5 DEF IInv

(* Every step keeps the types: one step per action. *)
LEMMA TypeStep ==
  ASSUME TypeOK, [Next]_vars
  PROVE  TypeOK'
<1> USE CoresAssumption
<1>0. /\ \A l \in Levels : LevelMessage(l) \in Status
      /\ MenuMessage \in Status
      /\ \A m \in Status : m.type = "menu" \/ m.level \in Levels
  <2>1. \A m \in Status : m = MenuMessage \/ \E l \in Levels : m = LevelMessage(l)
    BY DEF Status
  <2>2. MenuMessage.type = "menu" /\ \A l \in Levels : LevelMessage(l).level \in Levels
    BY DEF MenuMessage, LevelMessage
  <2>3. \A m \in Status : m.type = "menu" \/ m.level \in Levels
    BY <2>1, <2>2
  <2>4. MenuMessage \in Status /\ \A l \in Levels : LevelMessage(l) \in Status
    BY DEF Status
  <2> QED BY <2>3, <2>4
<1>1. CASE SendCommand
  <2>1. to1' \in Seq(Commands) /\ Len(to1') <= FifoSize
    BY <1>1, AppendType DEF SendCommand, TypeOK, Commands
  <2> QED BY <1>1, <2>1 DEF SendCommand, TypeOK, core1Vars, lockVars, Commands
<1>2. CASE CommandsDone
  BY <1>2 DEF CommandsDone, TypeOK, core1Vars, lockVars
<1>3. CASE Drain
  <2>1. to0' \in Seq(Status) /\ Len(to0') <= FifoSize /\ Head(to0) \in Status
    BY <1>3, TailType DEF Drain, TypeOK
  <2>2. Head(to0).type = "menu" \/ Head(to0).level \in Levels
    BY <1>0, <2>1
  <2> QED BY <1>3, <2>1, <2>2 DEF Drain, TypeOK, core1Vars, lockVars
<1>4. CASE Reply
  <2>1. to1' \in Seq(Commands) /\ Len(to1') <= FifoSize
    BY <1>4, AppendType DEF Reply, TypeOK, Commands
  <2> QED BY <1>4, <2>1 DEF Reply, TypeOK, core1Vars, lockVars, Commands
<1>5. CASE DrainDone
  BY <1>5 DEF DrainDone, TypeOK, core1Vars, lockVars
<1>6. CASE Die
  <2>1. to1' \in Seq(Commands) /\ Len(to1') <= FifoSize
    BY <1>6, AppendType DEF Die, TypeOK, Commands
  <2> QED BY <1>6, <2>1 DEF Die, TypeOK, core1Vars, lockVars, Commands
<1>7. CASE SwitchCapture
  BY <1>7 DEF SwitchCapture, TypeOK, core1Vars, lockVars
<1>8. CASE Core0Fails
  BY <1>8 DEF Core0Fails, TypeOK, core1Vars, lockVars
<1>9. CASE StartWrite
  BY <1>9 DEF StartWrite, TypeOK, core1Vars, lockVars
<1>10. CASE EnterMutex \/ AcquireSem
  BY <1>10 DEF EnterMutex, AcquireSem, TypeOK, core1Vars, lockVars
<1>11. CASE SuspendCore1
  <2>1. to1' \in Seq(Commands) /\ Len(to1') <= FifoSize
    BY <1>11, AppendType DEF SuspendCore1, TypeOK, Commands
  <2> QED BY <1>11, <2>1 DEF SuspendCore1, TypeOK, core1Vars, lockVars, Commands
<1>12. CASE Core1Suspended
  BY <1>12 DEF Core1Suspended, TypeOK, core1Vars
<1>22. CASE ExitMutex
  BY <1>22 DEF ExitMutex, TypeOK, core1Vars
<1>23. CASE ReleaseSem
  <2>1. sem' \in {0, 1}
    BY <1>23 DEF ReleaseSem, Released, TypeOK
  <2> QED BY <1>23, <2>1 DEF ReleaseSem, TypeOK, core1Vars
<1>13. CASE RoutineLoop
  BY <1>13 DEF RoutineLoop, TypeOK, core0Vars, lockVars
<1>14. CASE SetMenuValue
  <2>1. to0' \in Seq(Status) /\ Len(to0') <= FifoSize
    BY <1>0, <1>14, AppendType DEF SetMenuValue, TypeOK
  <2> QED BY <1>14, <2>1 DEF SetMenuValue, TypeOK, core0Vars, lockVars
<1>15. CASE ScriptDone
  BY <1>15 DEF ScriptDone, TypeOK, core0Vars, lockVars
<1>16. CASE UpdatePowerLevels
  <2>1. to0' \in Seq(Status) /\ Len(to0') <= FifoSize
    <3>1. CASE sent # level /\ Room(to0)
      <4>1. LevelMessage(level) \in Status /\ to0 \in Seq(Status)
        BY <1>0 DEF TypeOK
      <4>2. to0' = Append(to0, LevelMessage(level))
        BY <1>16, <3>1 DEF UpdatePowerLevels
      <4> QED BY <3>1, <4>1, <4>2, AppendType
    <3>2. CASE ~(sent # level /\ Room(to0))
      BY <1>16, <3>2 DEF UpdatePowerLevels, TypeOK
    <3> QED BY <3>1, <3>2
  <2> QED BY <1>16, <2>1 DEF UpdatePowerLevels, TypeOK, core0Vars, lockVars
<1>17. CASE ReceiveCommand \/ ReceiveChange \/ ReceiveSuspend
  <2>1. to1 \in Seq(Commands) /\ Len(to1) <= FifoSize
    BY DEF TypeOK, Commands
  <2>2. to1 # <<>> /\ to1' = Tail(to1)
    BY <1>17 DEF ReceiveCommand, ReceiveChange, ReceiveSuspend
  <2>3. to1' \in Seq(Commands) /\ Len(to1') <= FifoSize
    BY <2>1, <2>2, TailType
  <2> QED BY <1>17, <2>3 DEF ReceiveCommand, ReceiveChange, ReceiveSuspend,
                             TypeOK, core0Vars, core1Vars, lockVars, Commands
<1>18. CASE ReleaseCore0 \/ LockMutex \/ UnlockMutex
  BY <1>18 DEF ReleaseCore0, LockMutex, UnlockMutex, Released, TypeOK, core0Vars
<1>19. CASE MessagesDone
  <2>1. /\ pc1' \in {"halt", "routine"}
        /\ UNCHANGED <<core0Vars, to1, to0, lockVars, fatal, back, calls, level, sent>>
    BY <1>19 DEF MessagesDone
  <2>2. output' \in BOOLEAN
    BY <1>19, Zenon DEF MessagesDone, TypeOK
  <2> QED BY <2>1, <2>2 DEF TypeOK, core0Vars, lockVars
<1>20. CASE Core1Fails
  <2>1. /\ pc1' \in {"status", "halt"} /\ fatal' = TRUE
        /\ UNCHANGED <<core0Vars, to1, to0, lockVars, back, calls, level, sent>>
    BY <1>20 DEF Core1Fails
  <2>2. output' \in BOOLEAN
    BY <1>20, Zenon DEF Core1Fails, TypeOK
  <2> QED BY <2>1, <2>2 DEF TypeOK, core0Vars, lockVars
<1>21. CASE UNCHANGED vars
  BY <1>21 DEF vars, TypeOK, core0Vars, core1Vars, lockVars
<1> QED BY <1>1, <1>2, <1>3, <1>4, <1>5, <1>6, <1>7, <1>8, <1>9, <1>10, <1>11,
           <1>12, <1>13, <1>14, <1>15, <1>16, <1>17, <1>18, <1>19, <1>20, <1>21,
           <1>22, <1>23
        DEF Next, Core0, Core0Env, Core1

(* Every step keeps the hand-over: the messages under way first, then one  *)
(* step per action that takes part in it.                                  *)
LEMMA HandOverStep ==
  ASSUME IInv, [Next]_vars
  PROVE  HandOver'
<1>0. TypeOK /\ to1 \in Seq(Commands)
  BY DEF IInv, TypeOK, Commands
<1> USE DEF IInv, HandOver, Owner, Resting, Acquiring, Suspending, Waiting,
            Writing, Leaving, InSuspend
<1>1. CASE SendCommand \/ Reply \/ Die
  <2>1. \/ to1' = Append(to1, "command") /\ "command" \in Commands
        \/ to1' = Append(to1, "change") /\ "change" \in Commands
    BY <1>1 DEF SendCommand, Reply, Die, Commands
  <2>2. None(to1) => None(to1')
    BY <1>0, <2>1, AppendCount
  <2> QED BY <1>1, <2>2 DEF SendCommand, Reply, Die, core1Vars, lockVars
<1>2. CASE CommandsDone \/ Drain \/ DrainDone \/ SwitchCapture \/ Core0Fails
           \/ StartWrite
  BY <1>2 DEF CommandsDone, Drain, DrainDone, SwitchCapture, Core0Fails,
              StartWrite, core1Vars, lockVars
<1>3. CASE EnterMutex
  BY <1>3 DEF EnterMutex, core1Vars
<1>4. CASE AcquireSem
  BY <1>4 DEF AcquireSem, core1Vars
<1>5. CASE SuspendCore1
  <2>1. None(to1) => One(to1')
    BY <1>0, <1>5, AppendCount DEF SuspendCore1, Commands
  <2> QED BY <1>5, <2>1 DEF SuspendCore1, core1Vars, lockVars
<1>6. CASE Core1Suspended
  BY <1>6 DEF Core1Suspended, core1Vars
<1>7. CASE ExitMutex
  BY <1>7 DEF ExitMutex, core1Vars
<1>8. CASE ReleaseSem
  BY <1>8 DEF ReleaseSem, Released, core1Vars
<1>9. CASE RoutineLoop \/ SetMenuValue \/ UpdatePowerLevels \/ Core1Fails
           \/ MessagesDone
  BY <1>9 DEF RoutineLoop, SetMenuValue, UpdatePowerLevels, Core1Fails,
              MessagesDone, core0Vars, lockVars
<1>10. CASE ScriptDone
  BY <1>0, <1>10 DEF ScriptDone, TypeOK, core0Vars, lockVars
<1>11. CASE ReceiveCommand \/ ReceiveChange
  <2>1. /\ None(to1) => None(to1')
        /\ One(to1) => One(to1')
    BY <1>0, <1>11, TailCount DEF ReceiveCommand, ReceiveChange
  <2> QED BY <1>11, <2>1 DEF ReceiveCommand, ReceiveChange, core0Vars, core1Vars,
                             lockVars
<1>12. CASE ReceiveSuspend
  <2>1. /\ ~None(to1)
        /\ One(to1) => None(to1')
    BY <1>0, <1>12, TailCount DEF ReceiveSuspend
  <2> QED BY <1>0, <1>12, <2>1 DEF ReceiveSuspend, TypeOK, core0Vars, lockVars
<1>13. CASE ReleaseCore0
  BY <1>0, <1>13 DEF ReleaseCore0, Released, TypeOK, core0Vars
<1>14. CASE LockMutex
  BY <1>0, <1>14 DEF LockMutex, TypeOK, core0Vars
<1>15. CASE UnlockMutex
  BY <1>0, <1>15 DEF UnlockMutex, TypeOK, core0Vars
<1>16. CASE UNCHANGED vars
  BY <1>16 DEF vars, core0Vars, core1Vars, lockVars
<1> QED BY <1>1, <1>2, <1>3, <1>4, <1>5, <1>6, <1>7, <1>8, <1>9, <1>10, <1>11,
           <1>12, <1>13, <1>14, <1>15, <1>16
        DEF Next, Core0, Core0Env, Core1

LEMMA Invariant == Spec => []IInv
<1>1. ASSUME IInv, [Next]_vars PROVE IInv'
  BY <1>1, TypeStep, HandOverStep DEF IInv
<1> QED BY InitIInv, <1>1, PTL DEF Spec

-----------------------------------------------------------------------------
(* What follows.                                                           *)

(* Every variable of both cores keeps its range, and no push overflows a   *)
(* FIFO (multicore_fifo_push_blocking behind multicore_fifo_wready).       *)
THEOREM TypeCorrect == Spec => []TypeOK
BY Invariant, PTL DEF IInv

(* Whenever core 0 writes flash, core 1 sits in core1_suspend waiting for  *)
(* the mutex, and the audio capture is stopped                             *)
(* (enter_safe_zone_timeout_ms).                                           *)
THEOREM FlashWrittenAlone == Spec => []FlashAlone
<1>1. IInv => FlashAlone
  BY DEF IInv, HandOver, Writing, FlashAlone
<1> QED BY Invariant, <1>1, PTL

=============================================================================
