---------------------------- MODULE RemoteSession ----------------------------
(***************************************************************************)
(* A remote access connection, from the client's message to the pattern    *)
(* core 1 runs: CSerialConnection or CWsConnection, CMessageProcessor,     *)
(* CRoutineRun, the script upload of LuaLoad and the shared _routines.     *)
(*                                                                         *)
(* Core 0 handles one message at a time, in its loop.  Characters arrive   *)
(* on the serial line in an interrupt; the web socket is polled by the     *)
(* loop itself.  Core 1 takes its FIFO when it comes to it, and then looks *)
(* the pattern up in the list core 0 keeps, which may be half made.        *)
(*                                                                         *)
(* A serial client waits for each answer, as docs/JSON.md asks; a web      *)
(* socket client may send up to MsgId messages before it looks.  After     *)
(* EOT a client waits for the reset.  Messages that change nothing here    *)
(* (lists, details, versions, power and menu values) are one, "Query".     *)
(***************************************************************************)
EXTENDS Integers, Sequences, FiniteSetsExt

CONSTANTS
  Slot, Writable, Sections, Room, Script, Broken, Size, None,   \* see LuaLoad
  BuiltIn,  \* the routines that are not scripts, as one
  MsgId,    \* the message numbers a client uses in turn
  Kinds,    \* the connections there can be: "serial", "ws"
  FifoSize, \* 8: messages the FIFO to core 1 holds
  Crowded   \* the serial send queue may have no room for an answer

VARIABLES
  flash, index, section, buffer, job, result, sent,   \* see LuaLoad
  kind,       \* the connection in use
  rx,         \* CSerialConnection::_state: "idle", "recv" or "got"
  got,        \* _recv_buffer once complete
  held,       \* _recv_buffer_position # 0 although no message has begun
  resetting,  \* _reset_connection, or the socket no longer established
  pending,    \* _pending_message_buffer, or None
  state,      \* CMessageProcessor::_state
  routines,   \* _routines: what the menu and core 1 choose from; <<>>
              \* while reload_routines makes it anew
  fifo,       \* messages to core 1
  running,    \* the pattern core 1 runs: [entry, meant], or None
  waiting,    \* history: messages the client has no answer to
  unsent,     \* history: those of them whose answer found no room
  cut         \* history: an upload was cut short since the list was made

luaVars == <<flash, index, section, buffer, job, result, sent>>
linkVars == <<kind, rx, got, held, resetting>>
core1Vars == <<fifo, running>>
asked == <<waiting, unsent>>
vars == <<luaVars, linkVars, pending, state, routines, core1Vars, asked, cut>>

Lua == INSTANCE LuaLoad

ASSUME SessionAssumption ==
  /\ Slot \subseteq Nat /\ BuiltIn \notin Slot /\ MsgId \subseteq Nat
  /\ Kinds \subseteq {"serial", "ws"} /\ Crowded \in BOOLEAN
  /\ FifoSize \in Nat \ {0}
  /\ Lua!LuaLoadAssumption

-----------------------------------------------------------------------------
NoMessage == [type |-> "none", id |-> None, arg |-> 0, line |-> Lua!NoLine]
Message(type, id, arg, line) == [type |-> type, id |-> id, arg |-> arg, line |-> line]

Stop == [type |-> "stop", id |-> 0, meant |-> {}]
Start(id, meant) == [type |-> "start", id |-> id, meant |-> meant]

(* CRoutines::get_routines: the scripts that parse in slot order, then the rest *)
Entry(s) == [slot |-> s, text |-> IF s = BuiltIn THEN {} ELSE Lua!Shown[s]]
List ==
  LET listed == Lua!Listed
      place(s) == Cardinality({t \in listed : t <= s})
      last == Cardinality(listed) + 1
  IN [n \in 1..last |->
        Entry(IF n = last THEN BuiltIn ELSE CHOOSE s \in listed : place(s) = n)]

(* Core 0 is in its loop, and in no handler. *)
Free == job = Lua!Idle /\ routines # <<>>

(* multicore_fifo_push_blocking *)
Push(order) == Len(fifo) < FifoSize /\ fifo' = Append(fifo, order)

(* CSerialConnection::send drops what its queue has no room for. *)
Answered(id) ==
  /\ pending' = NoMessage
  /\ \/ waiting' = waiting \ {id} /\ unsent' = unsent \ {id}
     \/ Crowded /\ kind = "serial" /\ UNCHANGED waiting
        /\ unsent' = unsent \cup ({id} \cap waiting)

-----------------------------------------------------------------------------
(* The client *)

Messages(id) ==
  {Message(type, id, s, Lua!NoLine) : type \in {"LuaStart", "DeleteLuaScript"}, s \in Slot}
  \cup {Message("PatternStart", id, n, Lua!NoLine) : n \in 1..(Cardinality(Slot) + 1)}
  \cup {Message(type, id, 0, Lua!NoLine) : type \in {"LuaEnd", "PatternStop", "Query"}}
  \cup {Message("LuaLine", id, 0, line) : line \in {l \in Lua!Line : Lua!NextLine(l)}}

SerialSend(m) ==
  /\ kind = "serial" /\ ~resetting /\ waiting = {}
  /\ rx \in {"idle", "recv"}
  /\ rx' = "got" /\ got' = IF held THEN [m EXCEPT !.type = "Garbled"] ELSE m
  /\ waiting' = {m.id}
  /\ UNCHANGED <<luaVars, kind, held, resetting, pending, state, routines, core1Vars, unsent,
                 cut>>

(* the first characters only, for now *)
SerialBegin ==
  /\ kind = "serial" /\ ~resetting /\ waiting = {}
  /\ rx = "idle" /\ rx' = "recv"
  /\ UNCHANGED <<luaVars, kind, got, held, resetting, pending, state, routines, core1Vars,
                 asked, cut>>

(* Mutant of WsMessage: the message replaces the one that waits. *)
WsMessageOverwrites(m) ==
  /\ kind = "ws" /\ ~resetting /\ Free
  /\ pending' = m /\ waiting' = waiting \cup {m.id}
  /\ UNCHANGED <<luaVars, linkVars, state, routines, core1Vars, unsent, cut>>

(* CMessageProcessor::message, called from the poll: a second one is refused *)
WsMessage(m) ==
  /\ kind = "ws" /\ ~resetting /\ Free
  /\ \/ /\ pending = NoMessage
        /\ pending' = m /\ waiting' = waiting \cup {m.id}
     \/ pending # NoMessage /\ UNCHANGED <<pending, waiting>>
  /\ UNCHANGED <<luaVars, linkVars, state, routines, core1Vars, unsent, cut>>

(* EOT, or the socket closed: by the client, or lost *)
Quit ==
  /\ ~resetting /\ resetting' = TRUE
  /\ waiting' = {} /\ unsent' = {}
  /\ UNCHANGED <<luaVars, kind, rx, got, held, pending, state, routines, core1Vars, cut>>

Client ==
  \/ MsgId # waiting /\ \E m \in Messages(Min(MsgId \ waiting)) : SerialSend(m) \/ WsMessage(m)
  \/ SerialBegin \/ Quit

-----------------------------------------------------------------------------
(* The message processor *)

(* CSerialConnection::loop *)
Deliver ==
  /\ rx = "got" /\ pending = NoMessage /\ Free
  /\ pending' = got /\ got' = NoMessage
  /\ rx' = "idle" /\ held' = FALSE
  /\ UNCHANGED <<luaVars, kind, resetting, state, routines, core1Vars, asked, cut>>

(* deserializeJson fails: answered with the number -1 *)
BadMessage ==
  /\ Free /\ pending.type = "Garbled"
  /\ pending' = NoMessage
  /\ UNCHANGED <<luaVars, linkVars, state, routines, core1Vars, asked, cut>>

(* Mutant of LuaStart: the state stays as it is. *)
LuaStartStateKept ==
  /\ Free /\ pending.type = "LuaStart"
  /\ Lua!LuaStart(pending.arg)
  /\ UNCHANGED <<linkVars, pending, state, routines, core1Vars, asked, cut>>

(* set_state(LUA_LOAD): a routine that runs is stopped *)
LuaStart ==
  /\ Free /\ pending.type = "LuaStart"
  /\ Lua!LuaStart(pending.arg)
  /\ state' = "LUA_LOAD"
  /\ IF state = "ROUTINE_RUN" THEN Push(Stop) ELSE UNCHANGED fifo
  /\ UNCHANGED <<linkVars, pending, routines, running, asked, cut>>

LuaMessage ==
  /\ Free /\ state = "LUA_LOAD"
  /\ \/ pending.type = "LuaLine" /\ Lua!LuaLine(pending.line)
     \/ pending.type = "LuaEnd" /\ Lua!LuaEnd
     \/ pending.type \in {"DeleteLuaScript", "PatternStop", "Query"} /\ Lua!Unexpected
  /\ UNCHANGED <<linkVars, pending, state, routines, core1Vars, asked, cut>>

DeleteScript ==
  /\ Free /\ state = "ACTIVE" /\ pending.type = "DeleteLuaScript"
  /\ Lua!Delete(pending.arg)
  /\ UNCHANGED <<linkVars, pending, state, routines, core1Vars, asked, cut>>

(* Mutant of FlashWork: the flash is written although core 1 still reads.   *)
FlashWorkUnasked ==
  /\ Lua!Handling
  /\ UNCHANGED <<linkVars, pending, state, routines, core1Vars, asked, cut>>

(* Around each erase and program core 1 is suspended (see InterCore): by a  *)
(* message, so it has read all those before it.                            *)
FlashWork ==
  /\ Lua!Handling
  /\ job.step \in {"erase", "program", "wipe"} => fifo = <<>>
  /\ UNCHANGED <<linkVars, pending, state, routines, core1Vars, asked, cut>>

LineDone ==
  /\ job.step = "done" /\ job' = Lua!Idle
  /\ Answered(pending.id)
  /\ UNCHANGED <<flash, index, section, buffer, result, sent, linkVars, state, routines,
                 core1Vars, cut>>

(* reload_routines, half way: what core 1 finds there meanwhile is anything *)
ClearList ==
  /\ \/ job.step = "finished"
     \/ job = Lua!Idle /\ state = "LUA_LOAD" /\ pending.type = "PatternStart"
  /\ routines # <<>> /\ routines' = <<>>
  /\ UNCHANGED <<luaVars, linkVars, pending, state, core1Vars, asked, cut>>

(* Mutant of UploadDone: set_state does not refresh the list. *)
UploadDoneListKept ==
  /\ job.step = "finished" /\ Lua!NoLoader
  /\ Answered(pending.id)
  /\ state' = "ACTIVE" /\ cut' = FALSE
  /\ UNCHANGED <<flash, result, linkVars, routines, core1Vars>>

(* set_state(ACTIVE), or the end of delete_lua_script: reload_routines *)
UploadDone ==
  /\ job.step = "finished" /\ routines = <<>> /\ Lua!NoLoader
  /\ Answered(pending.id)
  /\ state' = "ACTIVE" /\ routines' = List /\ cut' = FALSE
  /\ UNCHANGED <<flash, result, linkVars, core1Vars>>

(* set_state(ROUTINE_RUN) first: a loader goes, and the list is made anew.   *)
(* An id that is not on the list ends the run it began.                      *)
PatternStart ==
  /\ job = Lua!Idle /\ pending.type = "PatternStart"
  /\ IF state = "LUA_LOAD"
     THEN routines = <<>> /\ Lua!NoLoader /\ routines' = List /\ cut' = FALSE
     ELSE UNCHANGED <<index, section, buffer, job, sent, routines, cut>>
  /\ IF pending.arg \in DOMAIN routines'
     THEN /\ state' = "ROUTINE_RUN"
          /\ Push(Start(pending.arg, IF cut' THEN {} ELSE {routines'[pending.arg]}))
     ELSE state' = "ACTIVE" /\ Push(Stop)
  /\ Answered(pending.id)
  /\ UNCHANGED <<flash, result, linkVars, running>>

(* Mutant of PatternStop: the routine is left running. *)
PatternStopForgotten ==
  /\ Free /\ state = "ROUTINE_RUN" /\ pending.type = "PatternStop"
  /\ state' = "ACTIVE"
  /\ Answered(pending.id)
  /\ UNCHANGED <<luaVars, linkVars, routines, core1Vars, cut>>

PatternStop ==
  /\ Free /\ state = "ROUTINE_RUN" /\ pending.type = "PatternStop"
  /\ state' = "ACTIVE" /\ Push(Stop)
  /\ Answered(pending.id)
  /\ UNCHANGED <<luaVars, linkVars, routines, running, cut>>

(* a query, or a message the state does not know: answered *)
JustAnswer ==
  /\ Free /\ pending.type \in {"LuaLine", "LuaEnd", "DeleteLuaScript", "PatternStop", "Query"}
  /\ \/ state = "ACTIVE" /\ pending.type # "DeleteLuaScript"
     \/ state = "ROUTINE_RUN" /\ pending.type # "PatternStop"
  /\ Answered(pending.id)
  /\ UNCHANGED <<luaVars, linkVars, state, routines, core1Vars, cut>>

(* The message processor is deleted, and a new one made.  Its destructor    *)
(* does not refresh the list, and _recv_buffer_position stays.              *)
Reset ==
  /\ resetting /\ Free
  /\ kind = "serial" => rx # "got" /\ pending = NoMessage
  /\ IF state = "ROUTINE_RUN" THEN Push(Stop) ELSE UNCHANGED fifo
  /\ cut' = (cut \/ state = "LUA_LOAD")
  /\ Lua!NoLoader
  /\ state' = "ACTIVE" /\ pending' = NoMessage
  /\ rx' = "idle" /\ held' = (held \/ rx = "recv") /\ resetting' = FALSE
  /\ UNCHANGED <<flash, result, kind, got, routines, running, asked>>

Core0 ==
  \/ Deliver \/ BadMessage \/ LuaStart \/ LuaMessage \/ DeleteScript \/ FlashWork
  \/ LineDone \/ ClearList \/ UploadDone \/ PatternStart \/ PatternStop \/ JustAnswer \/ Reset

(* Core1::process_messages, activate_routine: the list is read now, with no *)
(* lock.  Past its end is whatever lies there: nothing known.               *)
Core1 ==
  /\ fifo # <<>> /\ fifo' = Tail(fifo)
  /\ running' =
       IF Head(fifo).type = "stop" THEN {}
       ELSE {[ran |-> IF Head(fifo).id \in DOMAIN routines
                      THEN {Entry(routines[Head(fifo).id].slot)} ELSE {},
              meant |-> Head(fifo).meant]}
  /\ UNCHANGED <<luaVars, linkVars, pending, state, routines, asked, cut>>

(* boot: CRoutines::get_routines on what is in flash *)
PowerCycle ==
  /\ Lua!FlashAfterPowerLoss /\ Lua!NoLoader /\ result' = "none"
  /\ rx' = "idle" /\ got' = NoMessage /\ held' = FALSE /\ resetting' = FALSE
  /\ pending' = NoMessage /\ state' = "ACTIVE"
  /\ waiting' = {} /\ unsent' = {}
  /\ routines' = List' /\ cut' = FALSE
  /\ fifo' = <<>> /\ running' = {}
  /\ UNCHANGED kind

Init ==
  /\ Lua!Init
  /\ kind \in Kinds /\ rx = "idle" /\ got = NoMessage /\ held = FALSE /\ resetting = FALSE
  /\ pending = NoMessage /\ state = "ACTIVE" /\ waiting = {} /\ unsent = {}
  /\ routines = List /\ cut = FALSE
  /\ fifo = <<>> /\ running = {}

Next == Client \/ Core0 \/ Core1 \/ PowerCycle

(* Both cores run their loops; clients and the power do what they like. *)
Spec == Init /\ [][Next]_vars /\ WF_vars(Core0) /\ WF_vars(Core1)

-----------------------------------------------------------------------------
(* The connection's and the processor's variables take their values. *)
TypeOK ==
  /\ Lua!TypeOK
  /\ rx \in {"idle", "recv", "got"} /\ held \in BOOLEAN /\ resetting \in BOOLEAN
  /\ state \in {"ACTIVE", "LUA_LOAD", "ROUTINE_RUN"}
  /\ unsent \subseteq waiting /\ waiting \subseteq MsgId
  /\ Len(fifo) <= FifoSize
  /\ (index # None /\ job.step # "wipe" /\ job.step # "finished") => state = "LUA_LOAD"

(* CMessageProcessor::set_state, delete_lua_script: when no upload is under *)
(* way the patterns list names the scripts that are in flash, except after  *)
(* a connection was lost in the middle of one.                              *)
MenuIsCurrent == index = None /\ job = Lua!Idle /\ ~cut => routines = List

(* PatternStart (docs/JSON.md: "the script id (as returned in the           *)
(* PatternList message) to start"): core 1, which looks the id up later, in *)
(* a list that uploads, deletions and refused ones have core 0 make anew    *)
(* meanwhile, runs the script that stood at that place when the client      *)
(* asked.  Nothing is promised of a list that was outdated then, and        *)
(* nothing of a look into one that is half made.                            *)
RunsWhatWasListed ==
  [][Core1 => \A r \in running' : r.ran # r.meant => r.meant = {} \/ routines = <<>>]_vars

(* ~CRoutineRun (docs/JSON.md: "On disconnection, any running pattern will  *)
(* be stopped"): with the FIFO read, a pattern runs only in a session that  *)
(* started one, never behind an upload or after the client has gone.        *)
RunsInASession == running # {} /\ fifo = <<>> => state = "ROUTINE_RUN"

(* Every message is answered (docs/JSON.md: "The ZC95 will respond to all   *)
(* messages sent to it"), once the box has it whole, unless the answer      *)
(* itself finds no room in the send queue: then it is dropped.              *)
Has(id) == \E m \in {got, pending} : m.id = id /\ m.type # "Garbled"
Answers == \A id \in MsgId : id \in waiting /\ Has(id) ~> id \notin waiting \/ id \in unsent

(* The same for every message, also the first after an EOT in the middle of *)
(* another (docs/JSON.md: "An EOT (0x04) character can be sent at any point *)
(* to reset the connection").                                               *)
EveryMessageAnswered == \A id \in MsgId : id \in waiting ~> id \notin waiting

=============================================================================
