---------------------------- MODULE PowerControl ----------------------------
(***************************************************************************)
(* How the power of an output channel is decided on the ZC95 main board.   *)
(*                                                                         *)
(* Core 0 reads the front panel dials and the remote access sessions and   *)
(* tells core 1 through the inter-core FIFO.  Core 1 runs the pattern      *)
(* ("routine"), combines the power the routine asks for with the dial, the *)
(* remote power and two ramps, and sends the result to the ZC624 output    *)
(* module whenever it differs from what it sent last.                      *)
(*                                                                         *)
(* Core 0 : update_power_levels_from_front_panel, CRoutineOutputCore1,     *)
(*          CMenuRoutineAdjust, CRoutineRun, CBtGatt::routine_run, the     *)
(*          remote access menus.                                           *)
(* Core 1 : Core1::loop, Core1::process_message, CPowerLevelControl,       *)
(*          CPowerLevelRamp, COutputChannel, CFullChannelAsSimpleChannel.  *)
(*                                                                         *)
(* Powers are 0..FullPower (1000 in the code), the ramps end at            *)
(* FullPercent (100).  The binary32 arithmetic of calc_output_power is     *)
(* modelled by exact rational arithmetic, and by the pairs RoundsUp whose  *)
(* product binary32 rounds to just above an integer, which ceil then lifts *)
(* to the next one (1000 * 127, for example).                              *)
(***************************************************************************)
EXTENDS Integers, Sequences

CONSTANTS
  NumChannels,     \* MAX_CHANNELS, 4
  FullPower,       \* 1000: the largest power level
  FullPercent,     \* 100: where both ramps end
  PanelPowers,     \* the dial positions tried
  RemotePowers,    \* the powers a remote client asks for, which may be too big
  RoutinePowers,   \* the powers a routine asks for
  RoutineConfigs,  \* per routine: the channels it drives as SIMPLE ones
  RoundsUp,        \* pairs of powers whose binary32 product rounds up
  FifoSize,        \* 8: depth of the RP2040 inter-core FIFO
  RampLevel,       \* start of the extended ramp, in percent
  TicksPerPP,      \* ticks of the extended ramp per percentage point
  TickWrap,        \* the ticks after which the 32 bit microsecond count wraps
  RampShape        \* the configured shape: elapsed part -> part of full power

Channels == 0..(NumChannels - 1)

(* The extended ramp counts in 1/TicksPerPP of a percent. *)
FullRamp == FullPercent * TicksPerPP

ASSUME ConstantsAssumption ==
  /\ NumChannels \in Nat \ {0}
  /\ FullPower \in Nat \ {0} /\ FullPercent \in Nat \ {0}
  /\ PanelPowers \subseteq 0..FullPower /\ 0 \in PanelPowers
  /\ RemotePowers \subseteq Nat
  /\ RoutinePowers \subseteq 0..FullPower
  /\ RoutineConfigs \subseteq SUBSET Channels
  /\ RoundsUp \subseteq (1..FullPower) \X (1..FullPower)
  /\ FifoSize \in Nat \ {0}
  /\ TicksPerPP \in Nat \ {0} /\ TickWrap \in Nat \ {0}
  /\ RampLevel \in 1..(FullPercent - 1)
  /\ RampShape \in [0..FullRamp -> 0..FullRamp]

VARIABLES
  \* core 0
  menu,             \* the screen shown: it owns the routine and the session
  running,          \* a remote session has started a routine
  fp_cache,         \* CRoutineOutputCore1::_front_pannel_power
  remote_cache,     \* CRoutineOutputCore1::_remote_power
  todo,             \* calls the running core 0 function has yet to make
  power_mode,       \* saved setting: HIGH, MEDIUM or LOW
  \* between the cores
  fifo,             \* core 0 -> core 1
  \* core 1
  stage,            \* which part of Core1::loop is next
  active,           \* _active_routine != NULL
  wrapped,          \* channels driven through a CFullChannelAsSimpleChannel
  real_sent,        \* _output_power of the CZC624ChannelFull objects
  wrap_sent,        \* _output_power of the wrapper objects
  front_panel_power, remote_access_power, routine_power, output_power,
  remote_mode_active,
  initial_ramp,     \* [percent, in_progress]
  ext_ramp,         \* [in_progress, elapsed, percent]
  \* ZC624
  device_power      \* the last SetPower each channel was sent

core0Vars == <<menu, running, fp_cache, remote_cache, power_mode, todo>>
levelVars == <<front_panel_power, remote_access_power, remote_mode_active>>
channelVars == <<active, wrapped, real_sent, wrap_sent, device_power>>
core1Vars == <<stage, levelVars, channelVars, routine_power, output_power,
               initial_ramp, ext_ramp>>
vars == <<core0Vars, fifo, core1Vars>>

MinOf(a, b) == IF a < b THEN a ELSE b
CeilDiv(a, n) == (a + n - 1) \div n
AllZero == [c \in Channels |-> 0]

-----------------------------------------------------------------------------
(* Power arithmetic (CPowerLevelControl.cpp, CPowerLevelRamp.cpp).         *)

(* ceil of the binary32 product of a power and a fraction of full power *)
Scaled(a, b) ==
  CeilDiv(a * b, FullPower) + (IF <<a, b>> \in RoundsUp THEN 1 ELSE 0)

(* get_ramp_power_percent, in the units of FullRamp *)
ExtPercent(ext) == IF ext.in_progress THEN RampShape[ext.percent] ELSE FullRamp

(* Mutant of Wanted: the dial forgotten in remote mode. *)
WantedNoDial(routine, panel, remote, remote_mode) ==
  MinOf(Scaled(routine, IF remote_mode THEN remote ELSE panel), FullPower)

(* calc_output_power: in remote mode the dial is a limit *)
Wanted(routine, panel, remote, remote_mode) ==
  IF remote_mode THEN MinOf(Scaled(routine, remote), panel)
                 ELSE MinOf(Scaled(routine, panel), FullPower)

Ramped(power, percent, ext) ==
  (power * percent * ext) \div (FullPercent * FullRamp)

CalcOutputPower(routine, panel, remote, remote_mode, percent, ext) ==
  Ramped(Wanted(routine, panel, remote, remote_mode), percent, ext)

(* get_output_power_level: the output mode scales what is sent *)
ModePercent(mode) == CASE mode = "HIGH" -> 100
                       [] mode = "MEDIUM" -> 66
                       [] mode = "LOW" -> 33
ModeScaled(mode, power) == (power * ModePercent(mode)) \div 100

-----------------------------------------------------------------------------
(* Core 1: the channel objects.                                            *)

(* Mutant of Sent: the cache of the real channel, wrapped or not. *)
SentReal(c) == real_sent[c]

(* the cache of the object _active_channels[c] points at *)
Sent(c) == IF c \in wrapped THEN wrap_sent[c] ELSE real_sent[c]

(* COutputChannel::update_power on the channels cs: send what changed *)
UpdatePower(cs, out, mode) ==
  LET level(c) == ModeScaled(mode, out[c])
      dirty == {c \in cs : level(c) # Sent(c)}
  IN /\ device_power' = [c \in Channels |-> IF c \in dirty THEN level(c)
                                            ELSE device_power[c]]
     /\ real_sent' = [c \in Channels |-> IF c \in dirty \ wrapped THEN level(c)
                                         ELSE real_sent[c]]
     /\ wrap_sent' = [c \in Channels |-> IF c \in dirty \cap wrapped
                                         THEN level(c) ELSE wrap_sent[c]]

NoRamp == [in_progress |-> FALSE, elapsed |-> 0, percent |-> 0]
ResetRamp == [ext_ramp EXCEPT !.in_progress = FALSE]

(* what zero_power_level leaves of the output, and a mutant *)
OutputKept == output_power
ZeroedOutput == AllZero

(* Core1::stop_routine: power 0 through the object in use, both ramps and  *)
(* all requests zeroed, the wrappers deleted, power 0 through the real     *)
(* channels.  initial is the initial ramp that is left behind.             *)
StopRoutine(initial, simple, now_active, requested) ==
  /\ device_power' = [c \in Channels |-> IF Sent(c) # 0 \/ real_sent[c] # 0
                                         THEN 0 ELSE device_power[c]]
  /\ real_sent' = AllZero
  /\ wrap_sent' = AllZero
  /\ wrapped' = simple
  /\ active' = now_active
  /\ routine_power' = requested
  /\ output_power' = ZeroedOutput
  /\ initial_ramp' = initial
  /\ ext_ramp' = ResetRamp

-----------------------------------------------------------------------------
(* Core 0: the calls made on CRoutineOutputCore1.                          *)

Load(simple)        == [type |-> "LOAD", simple |-> simple]
Stop                == [type |-> "STOP"]
ExtRampStart        == [type |-> "EXTRAMP"]
Reinit              == [type |-> "REINIT"]
RemoteMode(on)      == [type |-> "MODE", on |-> on]
PanelPower(c, p)    == [type |-> "PANEL", channel |-> c, power |-> p]
RemotePower(c, p)   == [type |-> "REMOTE", channel |-> c, power |-> p]

(* one call per channel, channel 0 first *)
PanelPowersCalls(p)  == [i \in 1..NumChannels |-> PanelPower(i - 1, p[i - 1])]
RemotePowersCalls(p) == [i \in 1..NumChannels |-> RemotePower(i - 1, p[i - 1])]

Idle == todo = <<>>

(* Mutant of Unchanged: only a remote session is stopped. *)
UnchangedOrLocal(call) ==
  \/ call.type = "PANEL" /\ fp_cache[call.channel] = call.power
  \/ call.type = "REMOTE" /\ remote_cache[call.channel] = call.power
  \/ call.type = "STOP" /\ ~running

(* A setter pushes only what differs from its cache; every push blocks     *)
(* while the FIFO is full.                                                 *)
Unchanged(call) ==
  \/ call.type = "PANEL" /\ fp_cache[call.channel] = call.power
  \/ call.type = "REMOTE" /\ remote_cache[call.channel] = call.power

SkipCall ==
  /\ ~Idle /\ Unchanged(Head(todo))
  /\ todo' = Tail(todo)
  /\ UNCHANGED <<menu, running, fp_cache, remote_cache, power_mode, fifo>>

PushCall ==
  /\ ~Idle /\ ~Unchanged(Head(todo))
  /\ Len(fifo) < FifoSize
  /\ fifo' = Append(fifo, Head(todo))
  /\ todo' = Tail(todo)
  /\ fp_cache' = IF Head(todo).type = "PANEL"
                 THEN [fp_cache EXCEPT ![Head(todo).channel] = Head(todo).power]
                 ELSE fp_cache
  /\ remote_cache' = IF Head(todo).type = "REMOTE"
                     THEN [remote_cache EXCEPT ![Head(todo).channel] = Head(todo).power]
                     ELSE remote_cache
  /\ UNCHANGED <<menu, running, power_mode>>

Begin(calls) == /\ Idle
                /\ todo' = calls
                /\ UNCHANGED <<fp_cache, remote_cache, fifo>>

(* update_power_levels_from_front_panel *)
PollFrontPanel ==
  /\ \E p \in [Channels -> PanelPowers] : Begin(PanelPowersCalls(p))
  /\ UNCHANGED <<menu, running, power_mode>>

(* CMenuRoutineSelection: pick a pattern and show its screen *)
StartLocal ==
  /\ menu = "main" /\ menu' = "local"
  /\ \E simple \in RoutineConfigs : Begin(<<Load(simple)>>)
  /\ UNCHANGED <<running, power_mode>>

(* CMenuRoutineAdjust::button_pressed on "Ramp start" *)
StartExtendedRamp ==
  /\ menu = "local"
  /\ Begin(<<ExtRampStart>>)
  /\ UNCHANGED <<menu, running, power_mode>>

(* ~CMenuRoutineAdjust *)
LeaveLocal ==
  /\ menu = "local" /\ menu' = "main"
  /\ Begin(<<Stop>>)
  /\ UNCHANGED <<running, power_mode>>

(* The remote access screens.  "ws" is websocket or serial; "ble" and      *)
(* "ble_direct" are Bluetooth with the power dials as limits, or not.      *)
RemoteMenus == {"ws", "ble", "ble_direct"}
IfLimited(calls, screen) == IF screen = "ble_direct" THEN <<>> ELSE calls

EnterRemote ==
  /\ menu = "main" /\ menu' \in RemoteMenus
  /\ Begin(IfLimited(<<RemoteMode(TRUE)>>, menu'))
  /\ UNCHANGED <<running, power_mode>>

(* PatternStart; CBtGatt::routine_run(true) also opens the remote power *)
RemoteStart ==
  /\ menu \in RemoteMenus /\ (menu # "ws" => ~running)
  /\ \E simple \in RoutineConfigs :
       Begin(IF menu = "ble" THEN <<Load(simple)>> \o
                  RemotePowersCalls([c \in Channels |-> FullPower])
             ELSE <<Load(simple)>>)
  /\ running' = TRUE
  /\ UNCHANGED <<menu, power_mode>>

(* SetPower message of a running websocket session *)
RemoteSetPower ==
  /\ menu = "ws" /\ running
  /\ \E p \in [Channels -> RemotePowers] : Begin(RemotePowersCalls(p))
  /\ UNCHANGED <<menu, running, power_mode>>

(* Mutant of StopSession: the client's powers stay cached. *)
StopSessionOnly == <<Stop>>

(* ~CRoutineRun, and CBtGatt::routine_run(false) *)
StopSession == <<Stop>> \o IfLimited(RemotePowersCalls(AllZero), menu)

(* PatternStop, or the session's connection is lost *)
RemoteStop ==
  /\ menu \in RemoteMenus /\ running /\ running' = FALSE
  /\ Begin(StopSession)
  /\ UNCHANGED <<menu, power_mode>>

(* the destructors of the remote access screens *)
LeaveRemote ==
  /\ menu \in RemoteMenus /\ menu' = "main"
  /\ running' = FALSE
  /\ Begin((IF running THEN StopSession ELSE <<>>)
           \o IfLimited(<<RemoteMode(FALSE)>>, menu))
  /\ UNCHANGED power_mode

(* CMenuChannelConfig, on saving *)
SaveChannelConfig ==
  /\ menu = "main"
  /\ Begin(<<Reinit>>)
  /\ UNCHANGED <<menu, running, power_mode>>

(* the output power setting, a byte both cores read *)
ChangePowerMode ==
  /\ menu = "main" /\ Idle
  /\ power_mode' \in {"HIGH", "MEDIUM", "LOW"} \ {power_mode}
  /\ UNCHANGED <<menu, running, fp_cache, remote_cache, todo, fifo>>

Core0Call == (SkipCall \/ PushCall) /\ UNCHANGED core1Vars

Core0 == /\ \/ PollFrontPanel \/ StartLocal \/ StartExtendedRamp \/ LeaveLocal
            \/ EnterRemote \/ RemoteStart \/ RemoteSetPower \/ RemoteStop
            \/ LeaveRemote \/ SaveChannelConfig \/ ChangePowerMode
         /\ UNCHANGED core1Vars

-----------------------------------------------------------------------------
(* Core 1: Core1::loop, one action per part.                               *)

(* channel_set_power: the routine asks for power p on channel c *)
SetPower(c, p) ==
  /\ active
  /\ routine_power' = [routine_power EXCEPT ![c] = p]
  /\ output_power' =
       IF p = routine_power[c] THEN output_power
       ELSE [output_power EXCEPT ![c] =
               CalcOutputPower(p, front_panel_power[c],
                 remote_access_power[c], remote_mode_active,
                 initial_ramp.percent, ExtPercent(ext_ramp))]
  /\ UpdatePower({c}, output_power', power_mode)
  /\ UNCHANGED <<active, wrapped>>

(* the routine's loop *)
RoutineLoop ==
  /\ stage = "routine" /\ stage' = "channels"
  /\ \/ UNCHANGED <<routine_power, output_power, channelVars>>
     \/ \E c \in Channels, p \in RoutinePowers : SetPower(c, p)
  /\ UNCHANGED <<core0Vars, fifo, levelVars, initial_ramp, ext_ramp>>

(* the routine's answer to a menu change, trigger, key, audio or pulse, by *)
(* messages that are left out, or by an error that stops its script        *)
RoutineHandler ==
  /\ stage = "messages"
  /\ \E c \in Channels, p \in RoutinePowers : SetPower(c, p)
  /\ UNCHANGED <<stage, core0Vars, fifo, levelVars, initial_ramp, ext_ramp>>

(* update_power on every channel *)
ChannelsLoop ==
  /\ stage = "channels" /\ stage' = "ramp"
  /\ UpdatePower(Channels, output_power, power_mode)
  /\ UNCHANGED <<core0Vars, fifo, levelVars, active, wrapped, routine_power,
                 output_power, initial_ramp, ext_ramp>>

(* Mutant of CalcRamp: a ramp that never ends. *)
CalcRampEndless(ext, elapsed) ==
  IF ~ext.in_progress THEN ext
  ELSE [in_progress |-> TRUE, elapsed |-> elapsed, percent |-> FullRamp]

(* calc_ramp_percent: elapsed counts modulo the width of the C variable *)
CalcRamp(ext, elapsed) ==
  LET percent == RampLevel * TicksPerPP + elapsed
  IN IF ~ext.in_progress THEN ext
     ELSE [in_progress |-> percent <= FullRamp,
           elapsed |-> elapsed,
           percent |-> MinOf(percent, FullRamp)]

(* CPowerLevelControl::loop.  step: the initial ramp's period is over;     *)
(* calc: the extended ramp's 100 ms are over, one tick.                    *)
RampLoop(step, calc) ==
  /\ stage = "ramp" /\ stage' = "messages"
  /\ LET stepping == step /\ initial_ramp.in_progress
         percent == IF stepping /\ initial_ramp.percent < FullPercent
                    THEN initial_ramp.percent + 1 ELSE initial_ramp.percent
         elapsed == (ext_ramp.elapsed + 1) % TickWrap
     IN /\ initial_ramp' =
             IF stepping THEN [percent |-> percent,
                               in_progress |-> percent # FullPercent]
             ELSE initial_ramp
        /\ ext_ramp' = IF calc THEN CalcRamp(ext_ramp, elapsed) ELSE ext_ramp
        /\ output_power' =
             IF stepping \/ calc
             THEN [c \in Channels |->
                     CalcOutputPower(routine_power[c], front_panel_power[c],
                       remote_access_power[c], remote_mode_active, percent,
                       ExtPercent(ext_ramp'))]
             ELSE output_power
  /\ UNCHANGED <<core0Vars, fifo, levelVars, channelVars, routine_power>>

(* Core1::process_message on the head of the FIFO *)
Receive(type) == /\ stage = "messages"
                 /\ fifo # <<>> /\ Head(fifo).type = type
                 /\ fifo' = Tail(fifo)
                 /\ UNCHANGED <<core0Vars, stage>>

(* output of one channel under new levels *)
Recalc(panel, remote, remote_mode, percent, ext, c) ==
  CalcOutputPower(routine_power[c], panel[c], remote[c], remote_mode, percent, ext)

(* activate_routine: stop what runs, wrap the SIMPLE channels of the new   *)
(* routine, start the initial ramp, and start() asks for its first power   *)
ReceiveLoad ==
  /\ Receive("LOAD")
  /\ \E p \in RoutinePowers :
       StopRoutine([percent |-> 0, in_progress |-> TRUE], Head(fifo).simple,
                   TRUE, [c \in Channels |-> p])
  /\ UNCHANGED levelVars

(* stop_routine; MESSAGE_REINIT_CHANNELS then also builds new, silent,     *)
(* channel objects                                                         *)
ReceiveStop ==
  /\ Receive("STOP") \/ Receive("REINIT")
  /\ StopRoutine([percent |-> 0, in_progress |-> FALSE], {}, FALSE, AllZero)
  /\ UNCHANGED levelVars

(* set_front_panel_power, then update_channel_power *)
ReceivePanelPower ==
  /\ Receive("PANEL")
  /\ LET c == Head(fifo).channel
         power == Head(fifo).power
     IN /\ front_panel_power' = [front_panel_power EXCEPT ![c] = power]
        /\ output_power' =
             IF front_panel_power[c] = power THEN output_power
             ELSE [output_power EXCEPT ![c] =
                     Recalc(front_panel_power', remote_access_power,
                            remote_mode_active, initial_ramp.percent,
                            ExtPercent(ext_ramp), c)]
        /\ UpdatePower({c}, output_power', power_mode)
  /\ UNCHANGED <<remote_access_power, remote_mode_active, active, wrapped,
                 routine_power, initial_ramp, ext_ramp>>

(* Mutant of Clamped: whatever the client asked for. *)
Unclamped(power) == power
Clamped(power) == MinOf(power, FullPower)

(* set_remote_power clamps what the client asked for *)
ReceiveRemotePower ==
  /\ Receive("REMOTE")
  /\ LET c == Head(fifo).channel
         power == Clamped(Head(fifo).power)
     IN /\ remote_access_power' = [remote_access_power EXCEPT ![c] = power]
        /\ output_power' =
             IF remote_access_power[c] = power THEN output_power
             ELSE [output_power EXCEPT ![c] =
                     Recalc(front_panel_power, remote_access_power',
                            remote_mode_active, initial_ramp.percent,
                            ExtPercent(ext_ramp), c)]
        /\ UpdatePower({c}, output_power', power_mode)
  /\ UNCHANGED <<front_panel_power, remote_mode_active, active, wrapped,
                 routine_power, initial_ramp, ext_ramp>>

(* remote_mode_enable, then update_channel_power on every channel *)
ReceiveRemoteModeOn ==
  /\ Receive("MODE") /\ Head(fifo).on
  /\ remote_mode_active' = TRUE
  /\ remote_access_power' = AllZero
  /\ output_power' = [c \in Channels |->
                        Recalc(front_panel_power, AllZero, TRUE,
                               initial_ramp.percent, ExtPercent(ext_ramp), c)]
  /\ UpdatePower(Channels, output_power', power_mode)
  /\ UNCHANGED <<front_panel_power, active, wrapped, routine_power,
                 initial_ramp, ext_ramp>>

(* remote_mode_disable ends in zero_power_level *)
ReceiveRemoteModeOff ==
  /\ Receive("MODE") /\ ~Head(fifo).on
  /\ remote_mode_active' = FALSE
  /\ remote_access_power' = AllZero
  /\ routine_power' = AllZero
  /\ output_power' = AllZero
  /\ initial_ramp' = [percent |-> 0, in_progress |-> FALSE]
  /\ ext_ramp' = ResetRamp
  /\ UpdatePower(Channels, AllZero, power_mode)
  /\ UNCHANGED <<front_panel_power, active, wrapped>>

(* CPowerLevelRamp::ramp_start *)
ReceiveExtRampStart ==
  /\ Receive("EXTRAMP")
  /\ ext_ramp' = CalcRamp([ext_ramp EXCEPT !.in_progress = TRUE], 0)
  /\ UNCHANGED <<levelVars, channelVars, routine_power, output_power,
                 initial_ramp>>

(* process_messages returns once the FIFO is empty *)
MessagesDone ==
  /\ stage = "messages" /\ fifo = <<>> /\ stage' = "routine"
  /\ UNCHANGED <<core0Vars, fifo, levelVars, channelVars, routine_power,
                 output_power, initial_ramp, ext_ramp>>

Core1 == \/ RoutineLoop \/ ChannelsLoop
         \/ \E step, calc \in BOOLEAN : RampLoop(step, calc)
         \/ ReceiveLoad \/ ReceiveStop \/ ReceivePanelPower \/ ReceiveRemotePower
         \/ ReceiveRemoteModeOn \/ ReceiveRemoteModeOff \/ ReceiveExtRampStart
         \/ MessagesDone

-----------------------------------------------------------------------------
Init ==
  /\ menu = "main" /\ running = FALSE /\ power_mode = "HIGH"
  /\ fp_cache = AllZero /\ remote_cache = AllZero
  /\ todo = <<>> /\ fifo = <<>>
  /\ stage = "routine"
  /\ active = FALSE /\ wrapped = {}
  /\ real_sent = AllZero /\ wrap_sent = AllZero /\ device_power = AllZero
  /\ front_panel_power = AllZero /\ remote_access_power = AllZero
  /\ routine_power = AllZero /\ output_power = AllZero
  /\ remote_mode_active = FALSE
  /\ initial_ramp = [percent |-> 0, in_progress |-> FALSE]
  /\ ext_ramp = NoRamp

Next == Core0 \/ Core0Call \/ Core1 \/ RoutineHandler

Spec == Init /\ [][Next]_vars

(* Both cores run their loops for ever, a blocking push goes through when  *)
(* there is room, and the ramp periods keep ending.  The user, the clients *)
(* and the dials owe nothing.  process_messages gets to the end of the     *)
(* FIFO again and again because core 0 pushes at most once per dial sample *)
(* (50 ms), far slower than core 1 drains.                                 *)
Fairness ==
  /\ WF_vars(Core0Call)
  /\ WF_vars(Core1)
  /\ SF_vars(MessagesDone)
  /\ SF_vars(RampLoop(TRUE, TRUE))

FairSpec == Spec /\ Fairness

-----------------------------------------------------------------------------
(* Properties.                                                             *)

Message == [type : {"LOAD"}, simple : RoutineConfigs]
           \cup [type : {"STOP", "EXTRAMP", "REINIT"}]
           \cup [type : {"MODE"}, on : BOOLEAN]
           \cup [type : {"PANEL"}, channel : Channels, power : PanelPowers]
           \cup [type : {"REMOTE"}, channel : Channels,
                 power : RemotePowers \cup {0, FullPower}]

Levels == [Channels -> 0..FullPower]

(* Every variable keeps the range its C++ declaration and setters give it. *)
TypeOK ==
  /\ menu \in {"main", "local"} \cup RemoteMenus /\ running \in BOOLEAN
  /\ power_mode \in {"HIGH", "MEDIUM", "LOW"}
  /\ fp_cache \in [Channels -> PanelPowers]
  /\ remote_cache \in [Channels -> RemotePowers \cup {0, FullPower}]
  /\ todo \in Seq(Message) /\ fifo \in Seq(Message) /\ Len(fifo) <= FifoSize
  /\ stage \in {"routine", "channels", "ramp", "messages"}
  /\ active \in BOOLEAN /\ wrapped \in SUBSET Channels
  /\ real_sent \in Levels /\ wrap_sent \in Levels /\ device_power \in Levels
  /\ front_panel_power \in [Channels -> PanelPowers]
  /\ remote_access_power \in Levels /\ routine_power \in Levels
  /\ output_power \in Levels
  /\ remote_mode_active \in BOOLEAN
  /\ initial_ramp \in [percent : 0..FullPercent, in_progress : BOOLEAN]
  /\ ext_ramp \in [in_progress : BOOLEAN, elapsed : 0..(TickWrap - 1),
                   percent : 0..FullRamp]

(* Without a routine nothing asks for power and the output module was last *)
(* told 0 on every channel, however the routine ended: menu, client, lost  *)
(* connection or channel reconfiguration (Core1::stop_routine).            *)
SilentWithoutRoutine ==
  ~active => routine_power = AllZero /\ device_power = AllZero

(* The power last sent never exceeds the dial position core 1 knows by     *)
(* more than the one unit binary32 rounding can add, in any mode and       *)
(* during any ramp (calc_output_power and its callers).                    *)
FrontPanelLimits ==
  \A c \in Channels : device_power[c] <= front_panel_power[c] + 1

(* In remote mode the dial is a hard limit and the client's power bounds   *)
(* the output up to the same rounding.                                     *)
RemoteLimits ==
  remote_mode_active =>
    \A c \in Channels : /\ device_power[c] <= front_panel_power[c]
                        /\ device_power[c] <= remote_access_power[c] + 1

(* The power sent never runs ahead of the initial ramp, whatever messages  *)
(* arrive while it climbs (initial_ramp_start, CPowerLevelControl::loop).  *)
RampLimits ==
  \A c \in Channels : device_power[c] * FullPercent
                      <= (front_panel_power[c] + 1) * initial_ramp.percent

(* The three limits on what the output module was last told, at every      *)
(* moment, across mode changes, new routines and everything queued between *)
(* the cores (calc_output_power and all its callers).                      *)
PowerLimits == FrontPanelLimits /\ RemoteLimits /\ RampLimits

(* The cache that suppresses unchanged SetPower messages always names the  *)
(* power the output module was last told, across wrapping, unwrapping and  *)
(* rebuilding the channel objects (COutputChannel::update_power).          *)
CacheIsDevice == \A c \in Channels : Sent(c) = device_power[c]

(* Once core 1 has read everything, both sides agree: the caches that let  *)
(* core 0 skip a message are never stale, although core 1 also zeroes the  *)
(* remote powers by itself when the mode changes.                          *)
CachesAgree ==
  Idle /\ fifo = <<>> =>
    \A c \in Channels :
      /\ fp_cache[c] = front_panel_power[c]
      /\ MinOf(remote_cache[c], FullPower) = remote_access_power[c]

(* A new routine starts from silence: the step that loads one leaves every *)
(* channel at 0, even over a routine that was running at full power.       *)
StartsSilent ==
  [][initial_ramp'.in_progress /\ initial_ramp'.percent = 0
       => device_power' = AllZero]_vars

(* A stop that core 0 has issued silences the output module, and nothing   *)
(* queued before it can hold it up for ever.                               *)
StopSilences ==
  (\E i \in 1..Len(todo) : todo[i] = Stop) ~> (device_power = AllZero)

(* the next message core 1 reads restarts the extended ramp *)
RestartPending == fifo # <<>> /\ Head(fifo).type = "EXTRAMP"

(* An extended ramp that is started, and not started again, ends.          *)
RampEnds == ext_ramp.in_progress ~> (~ext_ramp.in_progress \/ RestartPending)

=============================================================================
