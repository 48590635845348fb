-------------------------- MODULE RemoteSessionProofs --------------------------
(***************************************************************************)
(* Remote access sessions, for any slots, scripts, sizes, connections and  *)
(* message numbers: what the loader keeps by itself it keeps in a session, *)
(* the list of patterns is current, and the pattern that runs is the one   *)
(* asked for, in a session that asked for it.                              *)
(***************************************************************************)
EXTENDS RemoteSession, WellFoundedInduction, TLAPS

Loader == INSTANCE LuaLoadProofs

(* What a client sends names a slot to upload to, and a line of a script.  *)
Asks(m) ==
  /\ m.type \in {"LuaStart", "DeleteLuaScript"} => m.arg \in Slot
  /\ m.type = "LuaLine" => m.line \in Lua!Line

(* The ranges the steps rely on, TypeOK among them: an upload is only under *)
(* way in its own state, and in that state there is one.                   *)
Types ==
  /\ TypeOK
  /\ state = "LUA_LOAD" => index # None
  /\ Asks(got) /\ Asks(pending)
  /\ \E orders : fifo \in Seq(orders)

(* What core 1 will run once it has taken all its messages.                *)
WillRun == IF fifo = <<>> THEN running # {} ELSE fifo[Len(fifo)].type # "stop"
InASession ==
  /\ WillRun => state = "ROUTINE_RUN"
  /\ job.step # "idle" => state # "ROUTINE_RUN"

(* A pattern core 1 has yet to start, and is to find, is still where it was *)
(* on the list, whenever there is one.                                     *)
StillListed(order, made) ==
  order.type # "stop" /\ order.meant # {} =>
    /\ order.id \in DOMAIN List /\ order.meant = {List[order.id]}
    /\ made # <<>> =>
         order.id \in DOMAIN made /\ order.meant = {Entry(made[order.id].slot)}
StartsListed == \A n \in 1..Len(fifo) : StillListed(fifo[n], routines)

-----------------------------------------------------------------------------
(* A session handles a LuaStart, LuaLine and so on as the loader by itself. *)

LEMMA SameIdle == Lua!Idle = Loader!Idle
BY DEF Lua!Idle, Loader!Idle, Lua!NoLine, Loader!NoLine, Lua!Byte, Loader!Byte

LEMMA SameNoLoader == Lua!NoLoader <=> Loader!NoLoader
BY SameIdle DEF Lua!NoLoader, Loader!NoLoader

LEMMA SameLine == Lua!Line = Loader!Line
BY DEF Lua!Line, Loader!Line

LEMMA SameNoLine == Lua!NoLine = Loader!NoLine
BY DEF Lua!NoLine, Loader!NoLine, Lua!Byte, Loader!Byte

LEMMA SameBytes ==
  /\ Lua!Hidden = Loader!Hidden /\ Lua!Marker = Loader!Marker /\ Lua!Erased = Loader!Erased
BY DEF Lua!Hidden, Loader!Hidden, Lua!Marker, Loader!Marker, Lua!Erased, Loader!Erased,
       Lua!Byte, Loader!Byte

LEMMA SameCell == Lua!Cell = Loader!Cell
BY SameLine, SameBytes DEF Lua!Cell, Loader!Cell

LEMMA SameAnswer ==
  ASSUME NEW step, NEW answer
  PROVE  Lua!Answer(step, answer) <=> Loader!Answer(step, answer)
BY SameIdle DEF Lua!Answer, Loader!Answer

LEMMA SameFinish ==
  ASSUME NEW answer
  PROVE  Lua!Finish(answer) <=> Loader!Finish(answer)
BY SameAnswer DEF Lua!Finish, Loader!Finish

LEMMA SameFail == Lua!Fail <=> Loader!Fail
BY SameFinish DEF Lua!Fail, Loader!Fail

LEMMA SameStoreThen ==
  ASSUME NEW then, NEW line
  PROVE  Lua!StoreThen(then, line) <=> Loader!StoreThen(then, line)
BY DEF Lua!StoreThen, Loader!StoreThen

LEMMA SameLuaStart ==
  ASSUME NEW s
  PROVE  Lua!LuaStart(s) <=> Loader!LuaStart(s)
BY SameIdle, SameAnswer, SameFinish, SameBytes DEF Lua!LuaStart, Loader!LuaStart

LEMMA SameLuaLine ==
  ASSUME NEW line
  PROVE  Lua!LuaLine(line) <=> Loader!LuaLine(line)
BY SameIdle, SameAnswer, SameStoreThen DEF Lua!LuaLine, Loader!LuaLine

LEMMA SameLuaEnd == Lua!LuaEnd <=> Loader!LuaEnd
BY SameIdle, SameStoreThen, SameNoLine DEF Lua!LuaEnd, Loader!LuaEnd, Lua!loader, Loader!loader

LEMMA SameUnexpected == Lua!Unexpected <=> Loader!Unexpected
BY SameIdle, SameFail DEF Lua!Unexpected, Loader!Unexpected

LEMMA SameDelete ==
  ASSUME NEW s
  PROVE  Lua!Delete(s) <=> Loader!Delete(s)
BY SameIdle, SameFinish DEF Lua!Delete, Loader!Delete

LEMMA SameSections ==
  /\ Lua!ErasedSection = Loader!ErasedSection
  /\ \A n : Lua!Programmed(n) = Loader!Programmed(n)
  /\ \A s, n, cells : Lua!With(s, n, cells) = Loader!With(s, n, cells)
<1>1. Lua!ErasedSection = Loader!ErasedSection
  BY SameBytes DEF Lua!ErasedSection, Loader!ErasedSection
<1>2. \A n : Lua!Programmed(n) = Loader!Programmed(n)
  BY SameBytes DEF Lua!Programmed, Loader!Programmed, Lua!Padded, Loader!Padded
<1>3. \A s, n, cells : Lua!With(s, n, cells) = Loader!With(s, n, cells)
  BY DEF Lua!With, Loader!With, Lua!SectionCells, Loader!SectionCells
<1> QED BY <1>1, <1>2, <1>3

LEMMA SameText ==
  /\ \A cells : Lua!Terminated(cells) <=> Loader!Terminated(cells)
  /\ \A cells : Lua!Text(cells) = Loader!Text(cells)
  /\ \A text : Lua!Parses(text) <=> Loader!Parses(text)
<1>1. \A cells : Lua!Terminated(cells) <=> Loader!Terminated(cells)
  BY SameBytes DEF Lua!Terminated, Loader!Terminated
<1>2. \A cells : Lua!Text(cells) = Loader!Text(cells)
  BY DEF Lua!Text, Loader!Text, Lua!Terminated, Loader!Terminated,
         Lua!SelectInSeq, Loader!SelectInSeq, Lua!Hidden, Loader!Hidden, Lua!Byte, Loader!Byte,
         Lua!Min, Loader!Min
<1>3. \A text : Lua!Parses(text) <=> Loader!Parses(text)
  BY SameBytes, SameLine DEF Lua!Parses, Loader!Parses
<1> QED BY <1>1, <1>2, <1>3

LEMMA SameHandling == Lua!Handling <=> Loader!Handling
<1>1. Lua!Erase <=> Loader!Erase
  BY SameSections DEF Lua!Erase, Loader!Erase, Lua!loader, Loader!loader
<1>2. Lua!Program <=> Loader!Program
  BY SameSections, SameAnswer, SameFail, SameFinish DEF Lua!Program, Loader!Program
<1>3. Lua!Parse <=> Loader!Parse
  BY SameText, SameFail, SameStoreThen, SameNoLine, SameBytes DEF Lua!Parse, Loader!Parse
<1>4. Lua!Wipe <=> Loader!Wipe
  BY SameSections, SameFinish DEF Lua!Wipe, Loader!Wipe
<1> QED BY <1>1, <1>2, <1>3, <1>4 DEF Lua!Handling, Loader!Handling

LEMMA SamePowerLoss == Lua!FlashAfterPowerLoss <=> Loader!FlashAfterPowerLoss
BY SameSections DEF Lua!FlashAfterPowerLoss, Loader!FlashAfterPowerLoss

LEMMA SameInit == Lua!Init <=> Loader!Init
BY SameBytes, SameIdle DEF Lua!Init, Loader!Init

LEMMA SameTypes ==
  (Lua!TypeOK <=> Loader!TypeOK) /\ (Lua!TypeOK' <=> Loader!TypeOK')
BY SameCell, SameLine, SameNoLine DEF Lua!TypeOK, Loader!TypeOK, Lua!Steps, Loader!Steps

LEMMA SameStore ==
  /\ Loader!Store!Init => Lua!Store!Init
  /\ [Loader!Store!Next]_(Loader!Store!vars) => [Lua!Store!Next]_(Lua!Store!vars)
<1>1. \A cells : Lua!ShownIn(cells) = Loader!ShownIn(cells)
  BY SameText DEF Lua!ShownIn, Loader!ShownIn
<1>2. Lua!Shown = Loader!Shown /\ Lua!Shown' = Loader!Shown'
  BY <1>1 DEF Lua!Shown, Loader!Shown
<1>3. Loader!Store!Init => Lua!Store!Init
  BY <1>2 DEF Lua!Store!Init, Loader!Store!Init
<1>4. UNCHANGED Loader!Store!vars => UNCHANGED Lua!Store!vars
  BY <1>2 DEF Lua!Store!vars, Loader!Store!vars
<1>5. Loader!Store!Next => Lua!Store!Next
  BY <1>2, SameLine
     DEF Lua!Store!Next, Loader!Store!Next, Lua!Store!Receive, Loader!Store!Receive,
         Lua!Store!Stop, Loader!Store!Stop, Lua!Store!Forget, Loader!Store!Forget,
         Lua!Store!Publish, Loader!Store!Publish, Lua!Store!StartsWith, Loader!Store!StartsWith,
         Lua!Store!FillsSection, Loader!Store!FillsSection
<1> QED BY <1>3, <1>4, <1>5

LEMMA LuaLoadAssumed == Loader!LuaLoadAssumption
BY SessionAssumption DEF Lua!LuaLoadAssumption, Loader!LuaLoadAssumption

-----------------------------------------------------------------------------
(* The loader within the session.                                          *)

LEMMA LeastIs ==
  ASSUME NEW S \in SUBSET Nat, S # {}
  PROVE  Min(S) \in S
<1>1. PICK n \in S : \A m \in S : <<m, n>> \notin OpToRel(<, Nat)
  BY WFMin, NatLessThanWellFounded
<1>2. \A m \in S : n <= m
  <2> SUFFICES ASSUME NEW m \in S
               PROVE  n <= m
    OBVIOUS
  <2>1. ~(m < n)
    BY <1>1 DEF OpToRel
  <2> QED BY <2>1
<1> QED BY <1>2 DEF Min

(* Every step of a session is a step of the loader, or none.               *)
LEMMA LoaderMoves ==
  ASSUME Types, [Next]_vars
  PROVE  [Loader!Moves]_(Loader!luaVars)
<1>1. CASE Client
  BY <1>1 DEF Client, SerialSend, WsMessage, SerialBegin, Quit, luaVars, Loader!luaVars, Loader!loader
<1>2. CASE \/ Deliver \/ BadMessage \/ ClearList \/ PatternStop \/ JustAnswer \/ Core1
           \/ UNCHANGED vars
  BY <1>2 DEF Deliver, BadMessage, ClearList, PatternStop, JustAnswer, Core1, vars, luaVars,
              Loader!luaVars, Loader!loader
<1>3. CASE LuaStart
  <2>1. pending.arg \in Slot /\ Loader!LuaStart(pending.arg)
    BY <1>3, SameLuaStart DEF LuaStart, Types, Asks
  <2> QED BY <2>1 DEF Loader!Moves
<1>4. CASE LuaMessage
  <2>1. pending.type = "LuaLine" => pending.line \in Loader!Line
    BY SameLine DEF Types, Asks
  <2> QED BY <1>4, <2>1, SameLuaLine, SameLuaEnd, SameUnexpected DEF LuaMessage, Loader!Moves
<1>5. CASE DeleteScript
  <2>1. pending.arg \in Slot /\ Loader!Delete(pending.arg)
    BY <1>5, SameDelete DEF DeleteScript, Types, Asks
  <2> QED BY <2>1 DEF Loader!Moves
<1>6. CASE FlashWork
  BY <1>6, SameHandling DEF FlashWork, Loader!Moves
<1>7. CASE LineDone
  BY <1>7, SameIdle DEF LineDone, Loader!Moves, Loader!Answered, Loader!loader
<1>8. CASE UploadDone
  BY <1>8, SameNoLoader DEF UploadDone, Loader!Moves, Loader!Finished
<1>9. CASE PatternStart
  <2>1. CASE state = "LUA_LOAD"
    BY <1>9, <2>1, SameNoLoader, SameIdle DEF PatternStart, Free, Loader!Moves, Loader!Dropped
  <2>2. CASE state # "LUA_LOAD"
    BY <1>9, <2>2 DEF PatternStart, Loader!luaVars, Loader!loader
  <2> QED BY <2>1, <2>2
<1>10. CASE Reset
  BY <1>10, SameNoLoader, SameIdle DEF Reset, Free, Loader!Moves, Loader!Dropped
<1>11. CASE PowerCycle
  BY <1>11, SameNoLoader, SamePowerLoss DEF PowerCycle, Loader!Moves, Loader!PowerLoss
<1> QED BY <1>1, <1>2, <1>3, <1>4, <1>5, <1>6, <1>7, <1>8, <1>9, <1>10, <1>11
        DEF Next, Core0

LEMMA LoaderStep ==
  ASSUME Types, Loader!IInv, [Next]_vars
  PROVE  Loader!IInv'
BY LuaLoadAssumed, LoaderMoves, Loader!Inductive

(* What the steps need to know of the loader.                              *)
LEMMA LoaderIs ==
  ASSUME Loader!IInv
  PROVE  /\ Lua!TypeOK /\ None \notin Slot
         /\ index = None => job.step \in {"idle", "finished"}
         /\ job.step = "idle" => job = Lua!Idle
         /\ Lua!Idle.step = "idle"
<1>1. Loader!Types /\ Loader!Control
  BY DEF Loader!IInv
<1>2. Loader!TypeOK
  BY <1>1 DEF Loader!Types, Loader!TypeOK, Loader!Jobs, Loader!Places
<1>3. /\ index = None => job.step \in {"idle", "finished"}
      /\ job.step = "idle" => job = Lua!Idle
  BY <1>1, SameIdle DEF Loader!Control
<1>4. Lua!Idle.step = "idle"
  BY DEF Lua!Idle
<1>5. None \notin Slot
  BY SessionAssumption DEF Lua!LuaLoadAssumption
<1> QED BY <1>2, <1>3, <1>4, <1>5, SameTypes

-----------------------------------------------------------------------------
(* The ranges.                                                             *)

LEMMA MessageIs ==
  ASSUME NEW id, NEW m \in Messages(id)
  PROVE  m.id = id /\ Asks(m) /\ Asks([m EXCEPT !.type = "Garbled"])
<1>1. CASE \E type \in {"LuaStart", "DeleteLuaScript"}, s \in Slot :
             m = Message(type, id, s, Lua!NoLine)
  BY <1>1 DEF Message, Asks
<1>2. CASE \E n \in 1..(Cardinality(Slot) + 1) : m = Message("PatternStart", id, n, Lua!NoLine)
  BY <1>2 DEF Message, Asks
<1>3. CASE \E type \in {"LuaEnd", "PatternStop", "Query"} :
             m = Message(type, id, 0, Lua!NoLine)
  BY <1>3 DEF Message, Asks
<1>4. CASE \E line \in Lua!Line : m = Message("LuaLine", id, 0, line)
  BY <1>4 DEF Message, Asks
<1> QED BY <1>1, <1>2, <1>3, <1>4 DEF Messages

LEMMA ClientTypes ==
  ASSUME Types, Client
  PROVE  Asks(got)' /\ Asks(pending)' /\ waiting' \subseteq MsgId /\ unsent' \subseteq waiting'
<1>1. /\ waiting \subseteq MsgId /\ Asks(got) /\ Asks(pending)
      /\ unsent \subseteq waiting
  BY DEF Types, TypeOK
<1>2. CASE SerialBegin \/ Quit
  BY <1>1, <1>2 DEF SerialBegin, Quit, Asks, asked
<1>3. ASSUME MsgId # waiting, NEW m \in Messages(Min(MsgId \ waiting)), SerialSend(m) \/ WsMessage(m)
      PROVE  Asks(got)' /\ Asks(pending)' /\ waiting' \subseteq MsgId /\ unsent' \subseteq waiting'
  <2>1. MsgId \ waiting # {} /\ MsgId \ waiting \in SUBSET Nat
    BY <1>1, <1>3, SessionAssumption
  <2>2. Min(MsgId \ waiting) \in MsgId
    BY <2>1, LeastIs
  <2>3. m.id \in MsgId /\ Asks(m) /\ Asks([m EXCEPT !.type = "Garbled"])
    BY <1>3, <2>2, MessageIs
  <2>4. CASE SerialSend(m)
    <3>1. got' \in {m, [m EXCEPT !.type = "Garbled"]} /\ pending' = pending /\ waiting' = {m.id}
          /\ waiting = {} /\ unsent' = unsent
      BY <2>4 DEF SerialSend
    <3> QED BY <1>1, <2>3, <3>1 DEF Asks
  <2>5. CASE WsMessage(m)
    <3>1. pending' \in {m, pending} /\ got' = got /\ waiting' \in {waiting, waiting \cup {m.id}}
          /\ unsent' = unsent
      BY <2>5 DEF WsMessage, linkVars
    <3> QED BY <1>1, <2>3, <3>1 DEF Asks
  <2> QED BY <1>3, <2>4, <2>5
<1> QED BY <1>2, <1>3 DEF Client

LEMMA OrdersStep ==
  ASSUME \E orders : fifo \in Seq(orders), [Next]_vars
  PROVE  /\ \E orders : fifo' \in Seq(orders)
         /\ Len(fifo) <= FifoSize => Len(fifo') <= FifoSize
<1>1. PICK orders : fifo \in Seq(orders)
  OBVIOUS
<1>0. FifoSize \in Nat
  BY SessionAssumption
<1>2. ASSUME NEW order, Push(order)
      PROVE  (\E o : fifo' \in Seq(o)) /\ Len(fifo') <= FifoSize
  <2>1. fifo \in Seq(orders \cup {order})
    BY <1>1
  <2>2. fifo' \in Seq(orders \cup {order}) /\ Len(fifo') = Len(fifo) + 1
    BY <1>2, <2>1 DEF Push
  <2>3. Len(fifo) < FifoSize /\ Len(fifo) \in Nat
    BY <1>1, <1>2 DEF Push
  <2> QED BY <1>0, <2>2, <2>3
<1>3. ASSUME UNCHANGED fifo
      PROVE  \E o : fifo' \in Seq(o)
  BY <1>1, <1>3
<1>4. CASE LuaStart \/ PatternStart \/ PatternStop \/ Reset
  BY <1>2, <1>3, <1>4 DEF LuaStart, PatternStart, PatternStop, Reset
<1>5. CASE Core1
  <2>1. fifo' \in Seq(orders) /\ Len(fifo') = Len(fifo) - 1 /\ Len(fifo) \in Nat
    BY <1>1, <1>5 DEF Core1
  <2> QED BY <1>0, <2>1
<1>6. CASE PowerCycle
  <2>1. fifo' \in Seq({}) /\ Len(fifo') = 0
    BY <1>6 DEF PowerCycle
  <2> QED BY <1>0, <2>1
<1>7. CASE Client
  BY <1>3, <1>7 DEF Client, SerialSend, WsMessage, SerialBegin, Quit, core1Vars
<1>8. CASE Deliver \/ BadMessage \/ LuaMessage \/ DeleteScript \/ FlashWork \/ LineDone
           \/ ClearList \/ UploadDone \/ JustAnswer
  BY <1>3, <1>8 DEF Deliver, BadMessage, LuaMessage, DeleteScript, FlashWork, LineDone,
                    ClearList, UploadDone, JustAnswer, core1Vars
<1>9. CASE UNCHANGED vars
  BY <1>3, <1>9 DEF vars, core1Vars
<1> QED BY <1>4, <1>5, <1>6, <1>7, <1>8, <1>9 DEF Next, Core0

(* An upload is only under way in its own state.                           *)
Uploading ==
  (index # None /\ job.step # "wipe" /\ job.step # "finished") => state = "LUA_LOAD"

(* what the steps of the loader do to index and job *)
LEMMA LuaSteps ==
  ASSUME Loader!IInv
  PROVE  /\ \A s : Lua!LuaStart(s) => index' = s /\ job'.step \in {"done", "finished"}
         /\ \A line : Lua!LuaLine(line) => index' = index /\ job'.step \in {"done", "erase"}
         /\ Lua!LuaEnd => index' = index /\ job'.step = "erase"
         /\ Lua!Unexpected => index' = index /\ job'.step = "finished"
         /\ \A s : Lua!Delete(s) =>
              index' \in {s, index} /\ job'.step \in {"wipe", "finished"}
         /\ Lua!Handling => /\ job.step \in {"erase", "program", "parse", "wipe"}
                            /\ index' = index
                            /\ job.step = "wipe" => job'.step \in {"wipe", "finished"}
         /\ Lua!NoLoader => index' = None /\ job' = Lua!Idle
<1>1. /\ \A step, answer : Lua!Answer(step, answer) => job'.step = step
      /\ \A answer : Lua!Finish(answer) => job'.step = "finished"
      /\ Lua!Fail => job'.step = "finished"
      /\ \A then, line : Lua!StoreThen(then, line) => job'.step = "erase"
  BY DEF Lua!Answer, Lua!Finish, Lua!Fail, Lua!StoreThen, Lua!Idle
<1>2. \A s : Lua!LuaStart(s) => index' = s /\ job'.step \in {"done", "finished"}
  BY <1>1 DEF Lua!LuaStart
<1>3. \A line : Lua!LuaLine(line) => index' = index /\ job'.step \in {"done", "erase"}
  BY <1>1 DEF Lua!LuaLine
<1>4. Lua!LuaEnd => index' = index /\ job'.step = "erase"
  BY <1>1 DEF Lua!LuaEnd, Lua!loader
<1>5. Lua!Unexpected => index' = index /\ job'.step = "finished"
  BY <1>1 DEF Lua!Unexpected
<1>6. ASSUME NEW s, Lua!Delete(s)
      PROVE  index' \in {s, index} /\ job'.step \in {"wipe", "finished"}
  <2>1. [Lua!Idle EXCEPT !.step = "wipe"].step = "wipe"
    BY DEF Lua!Idle
  <2> QED BY <1>1, <1>6, <2>1 DEF Lua!Delete
<1>7. ASSUME Lua!Handling
      PROVE  /\ job.step \in {"erase", "program", "parse", "wipe"}
             /\ index' = index
             /\ job.step = "wipe" => job'.step \in {"wipe", "finished"}
  <2>1. CASE Lua!Erase
    BY <2>1 DEF Lua!Erase, Lua!loader
  <2>2. CASE Lua!Program
    BY <2>2 DEF Lua!Program
  <2>3. CASE Lua!Parse
    BY <2>3 DEF Lua!Parse
  <2>4. CASE Lua!Wipe
    BY <1>1, <2>4 DEF Lua!Wipe
  <2> QED BY <1>7, <2>1, <2>2, <2>3, <2>4 DEF Lua!Handling
<1>8. Lua!NoLoader => index' = None /\ job' = Lua!Idle
  BY DEF Lua!NoLoader
<1> QED BY <1>2, <1>3, <1>4, <1>5, <1>6, <1>7, <1>8

LEMMA UploadingStep ==
  ASSUME Uploading, Loader!IInv, [Next]_vars
  PROVE  Uploading'
<1>1. /\ index = None => job.step \in {"idle", "finished"}
      /\ Lua!Idle.step = "idle"
  BY LoaderIs
<1>2. ASSUME UNCHANGED <<index, job, state>>
      PROVE  Uploading'
  BY <1>2 DEF Uploading
<1>3. ASSUME index' = None \/ job'.step \in {"wipe", "finished"} \/ state' = "LUA_LOAD"
      PROVE  Uploading'
  BY <1>3 DEF Uploading
<1>4. CASE Client
  BY <1>2, <1>4 DEF Client, SerialSend, WsMessage, SerialBegin, Quit, luaVars
<1>5. CASE Deliver \/ BadMessage \/ ClearList \/ JustAnswer \/ Core1
  BY <1>2, <1>5 DEF Deliver, BadMessage, ClearList, JustAnswer, Core1, luaVars
<1>6. CASE LuaStart \/ LuaMessage
  BY <1>3, <1>6 DEF LuaStart, LuaMessage
<1>7. CASE DeleteScript
  BY <1>3, <1>7, LuaSteps DEF DeleteScript
<1>8. CASE FlashWork
  <2>1. CASE job.step = "wipe"
    BY <1>3, <1>8, <2>1, LuaSteps DEF FlashWork
  <2>2. CASE job.step # "wipe"
    <3>1. state' = "LUA_LOAD"
      BY <1>1, <1>8, <2>2, LuaSteps DEF FlashWork, Uploading
    <3> QED BY <1>3, <3>1
  <2> QED BY <2>1, <2>2
<1>9. CASE LineDone
  <2>1. state' = "LUA_LOAD"
    BY <1>1, <1>9 DEF LineDone, Uploading
  <2> QED BY <1>3, <2>1
<1>10. CASE UploadDone \/ Reset \/ PowerCycle
  BY <1>3, <1>10, LuaSteps DEF UploadDone, Reset, PowerCycle
<1>11. CASE PatternStart
  <2>1. CASE state = "LUA_LOAD"
    BY <1>3, <1>11, <2>1, LuaSteps DEF PatternStart
  <2>2. CASE state # "LUA_LOAD"
    <3>1. index' = None
      BY <1>1, <1>11, <2>2 DEF PatternStart, Uploading
    <3> QED BY <1>3, <3>1
  <2> QED BY <2>1, <2>2
<1>12. CASE PatternStop
  <2>1. index' = None
    BY <1>1, <1>12 DEF PatternStop, Free, Uploading, luaVars
  <2> QED BY <1>3, <2>1
<1>13. CASE UNCHANGED vars
  BY <1>2, <1>13 DEF vars, luaVars
<1> QED BY <1>4, <1>5, <1>6, <1>7, <1>8, <1>9, <1>10, <1>11, <1>12, <1>13 DEF Next, Core0

(* In the state of an upload there is one.                                 *)
LEMMA LoadingStep ==
  ASSUME state = "LUA_LOAD" => index # None, Asks(pending), Loader!IInv, [Next]_vars
  PROVE  state' = "LUA_LOAD" => index' # None
<1>1. CASE Client
  BY <1>1 DEF Client, SerialSend, WsMessage, SerialBegin, Quit, luaVars
<1>2. CASE Deliver \/ BadMessage \/ ClearList \/ JustAnswer \/ Core1 \/ UNCHANGED vars
  BY <1>2 DEF Deliver, BadMessage, ClearList, JustAnswer, Core1, luaVars, vars
<1>3. CASE LuaStart
  <2>1. pending.arg \in Slot /\ index' = pending.arg
    BY <1>3, LuaSteps DEF LuaStart, Asks
  <2> QED BY <2>1, LoaderIs
<1>4. CASE LuaMessage \/ FlashWork \/ LineDone
  <2>1. index' = index /\ state' = state
    BY <1>4, LuaSteps DEF LuaMessage, FlashWork, LineDone
  <2> QED BY <2>1
<1>5. CASE DeleteScript \/ UploadDone \/ PatternStart \/ PatternStop \/ Reset \/ PowerCycle
  <2>1. state' # "LUA_LOAD"
    BY <1>5 DEF DeleteScript, UploadDone, PatternStart, PatternStop, Reset, PowerCycle
  <2> QED BY <2>1
<1> QED BY <1>1, <1>2, <1>3, <1>4, <1>5 DEF Next, Core0

LEMMA TypesStep ==
  ASSUME Types, Loader!IInv, [Next]_vars
  PROVE  Types'
<1>1. Lua!TypeOK'
  <2>1. Loader!IInv'
    BY LoaderStep
  <2>2. Loader!TypeOK'
    BY <2>1 DEF Loader!IInv, Loader!Types, Loader!TypeOK, Loader!Jobs, Loader!Places
  <2> QED BY <2>2, SameTypes
<1>2. Uploading'
  BY UploadingStep DEF Types, TypeOK, Uploading
<1>3. Asks(got)' /\ Asks(pending)' /\ waiting' \subseteq MsgId /\ unsent' \subseteq waiting'
  <2>1. Asks(NoMessage)
    BY DEF Asks, NoMessage
  <2>2. Asks(got) /\ Asks(pending) /\ waiting \subseteq MsgId
    BY DEF Types, TypeOK
  <2>0. unsent \subseteq waiting
    BY DEF Types, TypeOK
  <2>3. CASE Client
    BY <2>3, ClientTypes
  <2>4. CASE [Core0 \/ Core1 \/ PowerCycle]_vars
    <3>1. got' \in {got, NoMessage} /\ pending' \in {pending, got, NoMessage}
      BY <2>4 DEF Core0, Deliver, BadMessage, LuaStart, LuaMessage, DeleteScript, FlashWork,
                  LineDone, ClearList, UploadDone, PatternStart, PatternStop, JustAnswer, Reset, Core1,
                  PowerCycle, Answered, linkVars, vars
    <3>2. waiting' \subseteq waiting
      BY <2>4 DEF Core0, Deliver, BadMessage, LuaStart, LuaMessage, DeleteScript, FlashWork,
                  LineDone, ClearList, UploadDone, PatternStart, PatternStop, JustAnswer, Reset, Core1,
                  PowerCycle, Answered, asked, vars
    <3>3. unsent' \subseteq waiting'
      <4>1. \A id : Answered(id) => unsent' \subseteq waiting'
        <5> SUFFICES ASSUME NEW id, Answered(id)
                     PROVE  unsent' \subseteq waiting'
          OBVIOUS
        <5> QED BY <2>0 DEF Answered
      <4> QED BY <2>0, <2>4, <4>1
              DEF Core0, Deliver, BadMessage, LuaStart, LuaMessage, DeleteScript, FlashWork,
                  LineDone, ClearList, UploadDone, PatternStart, PatternStop, JustAnswer, Reset,
                  Core1, PowerCycle, asked, vars
    <3> QED BY <2>1, <2>2, <3>1, <3>2, <3>3 DEF Asks
  <2> QED BY <2>3, <2>4 DEF Next
<1>4. /\ rx' \in {"idle", "recv", "got"} /\ held' \in BOOLEAN /\ resetting' \in BOOLEAN
      /\ state' \in {"ACTIVE", "LUA_LOAD", "ROUTINE_RUN"}
  <2>1. /\ rx \in {"idle", "recv", "got"} /\ held \in BOOLEAN /\ resetting \in BOOLEAN
        /\ state \in {"ACTIVE", "LUA_LOAD", "ROUTINE_RUN"}
    BY DEF Types, TypeOK
  <2>2. CASE Client
    BY <2>1, <2>2 DEF Client, SerialSend, WsMessage, SerialBegin, Quit, linkVars
  <2>3. CASE [Core0 \/ Core1 \/ PowerCycle]_vars
    <3>1. rx' \in {rx, "idle"} /\ resetting' \in {resetting, FALSE}
      BY <2>3 DEF Core0, Deliver, BadMessage, LuaStart, LuaMessage, DeleteScript, FlashWork,
                  LineDone, ClearList, UploadDone, PatternStart, PatternStop, JustAnswer, Reset, Core1,
                  PowerCycle, linkVars, vars
    <3>2. state' \in {state, "ACTIVE", "LUA_LOAD", "ROUTINE_RUN"}
      BY <2>3 DEF Core0, Deliver, BadMessage, LuaStart, LuaMessage, DeleteScript, FlashWork,
                  LineDone, ClearList, UploadDone, PatternStart, PatternStop, JustAnswer, Reset, Core1,
                  PowerCycle, vars
    <3>3. held' \in {held, FALSE, TRUE}
      <4>1. CASE Reset
        BY <2>1, <4>1, Zenon DEF Reset
      <4>2. CASE ~Reset
        BY <2>3, <4>2 DEF Core0, Deliver, BadMessage, LuaStart, LuaMessage, DeleteScript,
                  FlashWork, LineDone, ClearList, UploadDone, PatternStart, PatternStop, JustAnswer, Core1,
                  PowerCycle, linkVars, vars
      <4> QED BY <4>1, <4>2
    <3> QED BY <2>1, <3>1, <3>2, <3>3
  <2> QED BY <2>2, <2>3 DEF Next
<1>5. (\E orders : fifo' \in Seq(orders)) /\ Len(fifo') <= FifoSize
  BY OrdersStep DEF Types, TypeOK
<1>6. state' = "LUA_LOAD" => index' # None
  BY LoadingStep DEF Types, Asks
<1> QED BY <1>1, <1>2, <1>3, <1>4, <1>5, <1>6 DEF Types, TypeOK, Uploading

-----------------------------------------------------------------------------
(* The pattern that runs.                                                  *)

LEMMA TailIs ==
  ASSUME NEW S, NEW q \in Seq(S), q # <<>>
  PROVE  Len(q) \in Nat /\ Len(Tail(q)) = Len(q) - 1 /\ Head(q) = q[1]
OBVIOUS

LEMMA InASessionStep ==
  ASSUME InASession, Types, Loader!IInv, [Next]_vars
  PROVE  InASession'
<1>1. /\ Lua!Idle.step = "idle" /\ (job.step = "idle" => job = Lua!Idle)
      /\ WillRun => state = "ROUTINE_RUN"
      /\ job.step # "idle" => state # "ROUTINE_RUN"
  BY LoaderIs DEF InASession
<1>2. PICK orders : fifo \in Seq(orders)
  BY DEF Types
<1>3. ASSUME NEW order, Push(order)
      PROVE  WillRun' <=> order.type # "stop"
  <2>1. /\ fifo' # <<>> /\ Len(fifo') = Len(fifo) + 1
        /\ fifo'[Len(fifo) + 1] = order
    BY <1>2, <1>3 DEF Push
  <2> QED BY <2>1 DEF WillRun
<1>4. ASSUME UNCHANGED <<fifo, running>>
      PROVE  WillRun' <=> WillRun
  BY <1>4 DEF WillRun
<1>5. ASSUME UNCHANGED core1Vars, UNCHANGED <<state, job>>
      PROVE  InASession'
  BY <1>1, <1>4, <1>5 DEF InASession, core1Vars
<1>6. Stop.type = "stop" /\ \A id, meant : Start(id, meant).type # "stop"
  BY DEF Stop, Start
<1>7. CASE Client
  BY <1>5, <1>7 DEF Client, SerialSend, WsMessage, SerialBegin, Quit, luaVars
<1>8. CASE Deliver \/ BadMessage \/ ClearList \/ JustAnswer
  BY <1>5, <1>8 DEF Deliver, BadMessage, ClearList, JustAnswer, luaVars
<1>9. CASE LuaStart
  <2>1. state' = "LUA_LOAD" /\ running' = running
    BY <1>9 DEF LuaStart
  <2>2. ~WillRun'
    <3>1. CASE state = "ROUTINE_RUN"
      BY <1>3, <1>6, <1>9, <3>1 DEF LuaStart
    <3>2. CASE state # "ROUTINE_RUN"
      BY <1>1, <1>4, <1>9, <3>2 DEF LuaStart
    <3> QED BY <3>1, <3>2
  <2> QED BY <2>1, <2>2 DEF InASession
<1>10. CASE LuaMessage \/ DeleteScript
  <2>1. state # "ROUTINE_RUN" /\ state' = state /\ UNCHANGED <<fifo, running>>
    BY <1>10 DEF LuaMessage, DeleteScript, core1Vars
  <2> QED BY <1>1, <1>4, <2>1 DEF InASession
<1>11. CASE FlashWork
  <2>1. state # "ROUTINE_RUN" /\ state' = state /\ UNCHANGED <<fifo, running>>
    BY <1>1, <1>11, LuaSteps DEF FlashWork, core1Vars
  <2> QED BY <1>1, <1>4, <2>1 DEF InASession
<1>12. CASE LineDone
  <2>1. job'.step = "idle" /\ state' = state /\ UNCHANGED <<fifo, running>>
    BY <1>1, <1>12 DEF LineDone, core1Vars
  <2> QED BY <1>1, <1>4, <2>1 DEF InASession
<1>13. CASE UploadDone
  <2>1. state # "ROUTINE_RUN" /\ state' = "ACTIVE" /\ UNCHANGED <<fifo, running>>
    BY <1>1, <1>13 DEF UploadDone, core1Vars
  <2> QED BY <1>1, <1>4, <2>1 DEF InASession
<1>14. CASE PatternStart
  <2>1. job'.step = "idle"
    BY <1>1, <1>14, LuaSteps DEF PatternStart, Free
  <2>2. state' = "ROUTINE_RUN" \/ ~WillRun'
    BY <1>3, <1>6, <1>14 DEF PatternStart
  <2> QED BY <2>1, <2>2 DEF InASession
<1>15. CASE PatternStop
  <2>1. state' = "ACTIVE" /\ ~WillRun'
    BY <1>3, <1>6, <1>15 DEF PatternStop
  <2> QED BY <2>1 DEF InASession
<1>16. CASE Reset
  <2>1. state' = "ACTIVE" /\ running' = running
    BY <1>16 DEF Reset
  <2>2. ~WillRun'
    <3>1. CASE state = "ROUTINE_RUN"
      BY <1>3, <1>6, <1>16, <3>1 DEF Reset
    <3>2. CASE state # "ROUTINE_RUN"
      BY <1>1, <1>4, <1>16, <3>2 DEF Reset
    <3> QED BY <3>1, <3>2
  <2> QED BY <2>1, <2>2 DEF InASession
<1>17. CASE Core1
  <2>1. /\ fifo # <<>> /\ fifo' = Tail(fifo) /\ state' = state /\ job' = job
        /\ running' = {} <=> Head(fifo).type = "stop"
    BY <1>17 DEF Core1, luaVars
  <2>2. CASE fifo' = <<>>
    <3>0. Len(Tail(fifo)) = Len(fifo) - 1 /\ Len(fifo) \in Nat /\ Head(fifo) = fifo[1]
      BY <1>2, <2>1, TailIs
    <3>1. Len(fifo) = 1 /\ Head(fifo) = fifo[Len(fifo)]
      <4>1. Tail(fifo) = <<>> /\ Len(<<>>) = 0
        BY <2>1, <2>2
      <4>2. Len(Tail(fifo)) = 0
        BY <4>1
      <4> QED BY <3>0, <4>2
    <3>2. WillRun' <=> WillRun
      BY <2>1, <2>2, <3>1 DEF WillRun
    <3> QED BY <1>1, <2>1, <3>2 DEF InASession
  <2>3. CASE fifo' # <<>>
    <3>1. Len(fifo') = Len(fifo) - 1 /\ fifo'[Len(fifo')] = fifo[Len(fifo)]
      BY <1>2, <2>1, <2>3
    <3>2. WillRun' <=> WillRun
      BY <2>1, <2>3, <3>1 DEF WillRun
    <3> QED BY <1>1, <2>1, <3>2 DEF InASession
  <2> QED BY <2>2, <2>3
<1>18. CASE PowerCycle
  <2>1. job'.step = "idle" /\ ~WillRun'
    BY <1>1, <1>18, LuaSteps DEF PowerCycle, WillRun
  <2> QED BY <2>1 DEF InASession
<1>19. CASE UNCHANGED vars
  BY <1>5, <1>19 DEF vars, luaVars
<1> QED BY <1>7, <1>8, <1>9, <1>10, <1>11, <1>12, <1>13, <1>14, <1>15, <1>16, <1>17, <1>18, <1>19
        DEF Next, Core0

-----------------------------------------------------------------------------
(* The list of patterns.                                                   *)

LEMMA ListKept ==
  ASSUME UNCHANGED flash
  PROVE  Lua!Shown' = Lua!Shown /\ List' = List /\ \A s : Entry(s)' = Entry(s)
<1>1. Lua!Shown' = Lua!Shown
  BY DEF Lua!Shown
<1>2. Lua!Listed' = Lua!Listed
  BY <1>1 DEF Lua!Listed
<1> QED BY <1>1, <1>2 DEF List, Entry

(* An entry is what there is to run in its slot.                           *)
LEMMA ListedEntries ==
  ASSUME NEW n \in DOMAIN List
  PROVE  Entry(List[n].slot) = List[n]
<1>1. \A s : Entry(Entry(s).slot) = Entry(s)
  BY DEF Entry
<1>2. \E s : List[n] = Entry(s)
  BY DEF List
<1> QED BY <1>1, <1>2

LEMMA MenuStep ==
  ASSUME MenuIsCurrent, Types, Loader!IInv, [Next]_vars
  PROVE  MenuIsCurrent'
<1>1. /\ Lua!Idle.step = "idle" /\ None \notin Slot
      /\ index = None => job.step \in {"idle", "finished"}
      /\ (index # None /\ job.step # "wipe" /\ job.step # "finished") => state = "LUA_LOAD"
      /\ state = "LUA_LOAD" => index # None
  BY LoaderIs DEF Types, TypeOK
<1>2. ASSUME UNCHANGED <<flash, index, job, routines, cut>>
      PROVE  MenuIsCurrent'
  BY <1>2, ListKept DEF MenuIsCurrent
<1>3. ASSUME index' # None \/ job'.step # "idle"
      PROVE  MenuIsCurrent'
  BY <1>1, <1>3 DEF MenuIsCurrent
<1>4. ASSUME routines' = List'
      PROVE  MenuIsCurrent'
  BY <1>4 DEF MenuIsCurrent
<1>5. CASE Client
  BY <1>2, <1>5 DEF Client, SerialSend, WsMessage, SerialBegin, Quit, luaVars
<1>6. CASE Deliver \/ BadMessage \/ PatternStop \/ JustAnswer \/ Core1
  BY <1>2, <1>6 DEF Deliver, BadMessage, PatternStop, JustAnswer, Core1, luaVars
<1>61. CASE ClearList
  <2>1. index' # None \/ job'.step # "idle"
    BY <1>1, <1>61 DEF ClearList, luaVars
  <2> QED BY <1>3, <2>1
<1>7. CASE LuaStart
  BY <1>1, <1>3, <1>7, LuaSteps DEF LuaStart, Types, Asks
<1>8. CASE LuaMessage
  <2>1. index # None /\ index' = index
    BY <1>8, LuaSteps DEF LuaMessage, Lua!LuaLine, Lua!LuaEnd, Lua!Unexpected
  <2> QED BY <1>3, <2>1
<1>9. CASE DeleteScript
  BY <1>3, <1>9, LuaSteps DEF DeleteScript
<1>10. CASE FlashWork
  <2>1. index # None /\ index' = index
    BY <1>1, <1>10, LuaSteps DEF FlashWork
  <2> QED BY <1>3, <2>1
<1>11. CASE LineDone
  <2>1. index # None /\ index' = index
    BY <1>1, <1>11 DEF LineDone
  <2> QED BY <1>3, <2>1
<1>12. CASE UploadDone
  BY <1>4, <1>12, ListKept DEF UploadDone
<1>13. CASE PatternStart
  <2>1. CASE state = "LUA_LOAD"
    BY <1>4, <1>13, <2>1, ListKept DEF PatternStart
  <2>2. CASE state # "LUA_LOAD"
    BY <1>2, <1>13, <2>2 DEF PatternStart
  <2> QED BY <2>1, <2>2
<1>14. CASE Reset
  <2>1. CASE cut'
    BY <2>1 DEF MenuIsCurrent
  <2>2. CASE ~cut'
    <3>1. ~cut /\ state # "LUA_LOAD" /\ job = Lua!Idle /\ UNCHANGED <<flash, routines>>
      BY <1>14, <2>2 DEF Reset, Free
    <3>2. index = None
      BY <1>1, <3>1
    <3>3. routines' = List'
      BY <3>1, <3>2, ListKept DEF MenuIsCurrent
    <3> QED BY <1>4, <3>3
  <2> QED BY <2>1, <2>2
<1>15. CASE PowerCycle
  BY <1>4, <1>15 DEF PowerCycle
<1>16. CASE UNCHANGED vars
  BY <1>2, <1>16 DEF vars, luaVars
<1> QED BY <1>5, <1>6, <1>61, <1>7, <1>8, <1>9, <1>10, <1>11, <1>12, <1>13, <1>14, <1>15,
           <1>16 DEF Next, Core0

LEMMA AppendIs ==
  ASSUME NEW S, NEW q \in Seq(S), NEW e
  PROVE  \A n \in 1..Len(Append(q, e)) :
           Append(q, e)[n] = e \/ (n \in 1..Len(q) /\ Append(q, e)[n] = q[n])
OBVIOUS

LEMMA StartsListedStep ==
  ASSUME StartsListed, MenuIsCurrent, Types, Loader!IInv, [Next]_vars
  PROVE  StartsListed'
<1>1. /\ Lua!Idle.step = "idle" /\ (job.step = "idle" => job = Lua!Idle)
      /\ index # None /\ job.step # "wipe" /\ job.step # "finished" => state = "LUA_LOAD"
  BY LoaderIs DEF Types, TypeOK
<1>2. PICK orders : fifo \in Seq(orders)
  BY DEF Types
(* the list is as it was, or is made from the same scripts, or is gone *)
<1>3. ASSUME NEW made \in {routines, List, <<>>}, NEW order, StillListed(order, routines)
      PROVE  StillListed(order, made)
  <2> SUFFICES ASSUME order.type # "stop", order.meant # {}
               PROVE  /\ order.id \in DOMAIN List /\ order.meant = {List[order.id]}
                      /\ made # <<>> =>
                           /\ order.id \in DOMAIN made
                           /\ order.meant = {Entry(made[order.id].slot)}
    BY DEF StillListed
  <2>2. /\ order.id \in DOMAIN List /\ order.meant = {List[order.id]}
        /\ routines # <<>> =>
             order.id \in DOMAIN routines /\ order.meant = {Entry(routines[order.id].slot)}
    BY <1>3 DEF StillListed
  <2>3. Entry(List[order.id].slot) = List[order.id]
    BY <2>2, ListedEntries
  <2> QED BY <1>3, <2>2, <2>3
<1>31. ASSUME UNCHANGED flash, \A n \in 1..Len(fifo') : StillListed(fifo'[n], routines')
      PROVE  StartsListed'
  BY <1>31, ListKept, SMT DEF StartsListed, StillListed, Entry
<1>4. ASSUME UNCHANGED flash, routines' \in {routines, List, <<>>}, UNCHANGED fifo
      PROVE  StartsListed'
  <2>1. \A n \in 1..Len(fifo') : StillListed(fifo'[n], routines')
    BY <1>3, <1>4 DEF StartsListed
  <2> QED BY <1>4, <1>31, <2>1
<1>5. ASSUME UNCHANGED flash, routines' \in {routines, List, <<>>},
             NEW order, Push(order), StillListed(order, routines')
      PROVE  StartsListed'
  <2>1. \A n \in 1..Len(fifo') :
          fifo'[n] = order \/ (n \in 1..Len(fifo) /\ fifo'[n] = fifo[n])
    BY <1>2, <1>5, AppendIs DEF Push
  <2> SUFFICES ASSUME NEW n \in 1..Len(fifo')
               PROVE  StillListed(fifo'[n], routines')
    BY <1>5, <1>31
  <2>2. CASE fifo'[n] = order
    BY <1>5, <2>2
  <2>3. CASE n \in 1..Len(fifo) /\ fifo'[n] = fifo[n]
    <3>1. StillListed(fifo[n], routines)
      BY <2>3 DEF StartsListed
    <3> QED BY <1>3, <1>5, <2>3, <3>1
  <2> QED BY <2>1, <2>2, <2>3
<1>6. StillListed(Stop, routines')
  BY DEF StillListed, Stop
<1>7. CASE Client
  BY <1>4, <1>7 DEF Client, SerialSend, WsMessage, SerialBegin, Quit, luaVars, core1Vars
<1>8. CASE Deliver \/ BadMessage \/ ClearList \/ LineDone \/ UploadDone \/ JustAnswer
  BY <1>4, <1>8 DEF Deliver, BadMessage, ClearList, LineDone, UploadDone, JustAnswer,
                    luaVars, core1Vars
<1>9. CASE LuaMessage \/ DeleteScript
  BY <1>4, <1>9 DEF LuaMessage, DeleteScript, core1Vars, Lua!LuaLine, Lua!LuaEnd,
                    Lua!Unexpected, Lua!Delete
<1>10. CASE FlashWork
  <2>1. CASE job.step \in {"erase", "program", "wipe"}
    <3>1. fifo' = <<>>
      BY <1>10, <2>1 DEF FlashWork, core1Vars
    <3> QED BY <3>1 DEF StartsListed
  <2>2. CASE job.step \notin {"erase", "program", "wipe"}
    <3>1. Lua!Parse
      BY <1>10, <2>2 DEF FlashWork, Lua!Handling, Lua!Erase, Lua!Program, Lua!Wipe
    <3> QED BY <1>4, <1>10, <3>1 DEF FlashWork, Lua!Parse, core1Vars
  <2> QED BY <2>1, <2>2
<1>11. CASE LuaStart \/ PatternStop \/ Reset
  <2>1. UNCHANGED <<flash, routines>> /\ (Push(Stop) \/ UNCHANGED fifo)
    BY <1>11 DEF LuaStart, PatternStop, Reset, Lua!LuaStart, luaVars
  <2> QED BY <1>4, <1>5, <1>6, <2>1
<1>12. CASE PatternStart
  <2>1. UNCHANGED flash /\ routines' \in {routines, List}
    BY <1>12, ListKept DEF PatternStart
  <2>2. CASE pending.arg \notin DOMAIN routines'
    BY <1>5, <1>6, <1>12, <2>1, <2>2 DEF PatternStart
  <2>3. CASE pending.arg \in DOMAIN routines' /\ cut'
    <3>1. Push(Start(pending.arg, {}))
      BY <1>12, <2>3 DEF PatternStart
    <3>2. StillListed(Start(pending.arg, {}), routines')
      BY DEF StillListed, Start
    <3> QED BY <1>5, <2>1, <3>1, <3>2
  <2>4. CASE pending.arg \in DOMAIN routines' /\ ~cut'
    <3>1. Push(Start(pending.arg, {routines'[pending.arg]}))
      BY <1>12, <2>4 DEF PatternStart
    <3>2. routines' = List
      <4>1. CASE state = "LUA_LOAD"
        BY <1>12, <4>1, ListKept DEF PatternStart
      <4>2. CASE state # "LUA_LOAD"
        <5>1. job = Lua!Idle /\ ~cut /\ routines' = routines
          BY <1>12, <2>4, <4>2 DEF PatternStart
        <5>2. index = None
          BY <1>1, <4>2, <5>1
        <5> QED BY <5>1, <5>2 DEF MenuIsCurrent
      <4> QED BY <4>1, <4>2
    <3>4. Entry(List[pending.arg].slot) = List[pending.arg]
      BY <2>4, <3>2, ListedEntries
    <3>5. StillListed(Start(pending.arg, {routines'[pending.arg]}), routines')
      BY <2>4, <3>2, <3>4 DEF StillListed, Start
    <3> QED BY <1>5, <2>1, <3>1, <3>5
  <2> QED BY <2>2, <2>3, <2>4
<1>13. CASE Core1
  <2>1. fifo # <<>> /\ fifo' = Tail(fifo) /\ UNCHANGED <<flash, routines>>
    BY <1>13 DEF Core1, luaVars
  <2>2. \A n \in 1..Len(fifo') : n + 1 \in 1..Len(fifo) /\ fifo'[n] = fifo[n + 1]
    BY <1>2, <2>1
  <2>3. \A n \in 1..Len(fifo') : StillListed(fifo'[n], routines')
    BY <2>1, <2>2 DEF StartsListed
  <2> QED BY <1>31, <2>1, <2>3
<1>14. CASE PowerCycle
  BY <1>14 DEF PowerCycle, StartsListed
<1>15. CASE UNCHANGED vars
  BY <1>4, <1>15 DEF vars, luaVars, core1Vars
<1> QED BY <1>7, <1>8, <1>9, <1>10, <1>11, <1>12, <1>13, <1>14, <1>15 DEF Next, Core0

LEMMA RunsListed ==
  ASSUME StartsListed, Types, Core1
  PROVE  \A r \in running' : r.ran # r.meant => r.meant = {} \/ routines = <<>>
<1> SUFFICES ASSUME NEW r \in running', r.meant # {}, routines # <<>>
             PROVE  r.ran = r.meant
  OBVIOUS
<1>1. fifo # <<>> /\ Head(fifo).type # "stop"
  BY DEF Core1
<1>2. /\ r.ran = (IF Head(fifo).id \in DOMAIN routines
                 THEN {Entry(routines[Head(fifo).id].slot)} ELSE {})
      /\ r.meant = Head(fifo).meant
  BY <1>1 DEF Core1
<1>3. Head(fifo) = fifo[1] /\ 1 \in 1..Len(fifo)
  BY <1>1 DEF Types
<1>4. fifo[1].id \in DOMAIN routines /\ fifo[1].meant = {Entry(routines[fifo[1].id].slot)}
  BY <1>1, <1>2, <1>3 DEF StartsListed, StillListed
<1> QED BY <1>2, <1>3, <1>4

-----------------------------------------------------------------------------
SessionInv == Loader!IInv /\ Types /\ InASession /\ MenuIsCurrent /\ StartsListed

LEMMA InitInv ==
  Init => SessionInv
<1> SUFFICES ASSUME Init
             PROVE  SessionInv
  OBVIOUS
<1>1. Loader!IInv
  BY LuaLoadAssumed, SameInit, Loader!InitIInv DEF Init
<1>2. Lua!TypeOK /\ Lua!Idle.step = "idle" /\ index = None /\ job = Lua!Idle
  BY <1>1, LoaderIs DEF Init, Lua!Init
<1>3. Asks(NoMessage)
  BY DEF Asks, NoMessage
<1>4. \E orders : fifo \in Seq(orders)
  <2>1. fifo \in Seq({})
    BY DEF Init
  <2> QED BY <2>1
<1>5. Types
  <2>1. Len(fifo) = 0 /\ FifoSize \in Nat
    BY SessionAssumption DEF Init
  <2>2. Len(fifo) <= FifoSize
    BY <2>1
  <2>3. TypeOK
    BY <1>2, <2>2 DEF TypeOK, Init
  <2>4. state # "LUA_LOAD" /\ Asks(got) /\ Asks(pending)
    BY <1>3 DEF Init
  <2> QED BY <1>4, <2>3, <2>4 DEF Types
<1>6. InASession /\ MenuIsCurrent /\ StartsListed
  BY <1>2 DEF InASession, WillRun, MenuIsCurrent, StartsListed, Init
<1> QED BY <1>1, <1>5, <1>6 DEF SessionInv

LEMMA Invariant == Spec => []SessionInv
<1>1. SessionInv /\ [Next]_vars => SessionInv'
  BY LoaderStep, TypesStep, InASessionStep, MenuStep, StartsListedStep DEF SessionInv
<1> QED BY InitInv, <1>1, PTL DEF Spec

(* CMessageProcessor, CLuaLoad: the variables take their values, and an     *)
(* upload is only under way in the state for it.                           *)
THEOREM TypeCorrect == Spec => []TypeOK
<1>1. SessionInv => TypeOK
  BY DEF SessionInv, Types
<1> QED BY <1>1, Invariant, PTL

(* CMessageProcessor::set_state, delete_lua_script: the patterns list names *)
(* what is in flash, until a connection is lost in the middle of an upload. *)
THEOREM MenuStaysCurrent == Spec => []MenuIsCurrent
<1>1. SessionInv => MenuIsCurrent
  BY DEF SessionInv
<1> QED BY <1>1, Invariant, PTL

(* ~CRoutineRun: core 1 runs a pattern for no session but one that started  *)
(* it, however many messages wait for core 1.                              *)
THEOREM StopsWithTheSession == Spec => []RunsInASession
<1>1. SessionInv => RunsInASession
  BY DEF SessionInv, InASession, WillRun, RunsInASession
<1> QED BY <1>1, Invariant, PTL

(* PatternStart: core 1, however late it reads the message, runs the pattern *)
(* the client chose from the list, if that was not outdated then and is not *)
(* half made now: every flash operation waits for core 1 to read first, and *)
(* without one the list is made anew as it was.                            *)
THEOREM StartsWhatWasChosen == Spec => RunsWhatWasListed
<1>1. SessionInv =>
        (Core1 => \A r \in running' : r.ran # r.meant => r.meant = {} \/ routines = <<>>)
  BY RunsListed DEF SessionInv
<1> QED BY <1>1, Invariant, PTL DEF Spec, RunsWhatWasListed

(* CLuaStorage: what the loader promises by itself it keeps in a session,   *)
(* for clients that send its messages in any order and leave at any moment. *)
THEOREM SessionsStoreWholeScripts == Spec => Lua!StoresWholeScripts
<1>1. Loader!IInv /\ [Loader!Moves]_(Loader!luaVars) => [Loader!Store!Next]_(Loader!Store!vars)
  BY LuaLoadAssumed, Loader!StoreStep
<1>2. Init => Loader!Store!Init
  BY LuaLoadAssumed, SameInit, Loader!StoreInit DEF Init
<1>3. SessionInv /\ [Next]_vars => [Loader!Store!Next]_(Loader!Store!vars)
  BY <1>1, LoaderMoves DEF SessionInv
<1> QED BY <1>2, <1>3, SameStore, Invariant, PTL
       DEF Spec, Lua!StoresWholeScripts, Lua!Store!Spec

=============================================================================
