------------------------- MODULE PowerControlProofs -------------------------
(***************************************************************************)
(* What PowerControl promises for any number of channels, any dial, remote *)
(* and routine powers, any ramp shape and any set of rounding pairs.       *)
(***************************************************************************)
EXTENDS PowerControl, TLAPS

-----------------------------------------------------------------------------
(* Arithmetic.                                                             *)

(* A quotient is bounded by what bounds the dividend. *)
LEMMA DivBound ==
  ASSUME NEW a \in Nat, NEW b \in Nat, NEW n \in Nat \ {0}, a <= b * n
  PROVE  a \div n \in 0..b
  BY SMT

(* A rounded up quotient is bounded the same way. *)
LEMMA CeilDivBound ==
  ASSUME NEW a \in Nat, NEW b \in Nat, NEW n \in Nat \ {0}, a <= b * n
  PROVE  CeilDiv(a, n) \in 0..b
  BY SMT DEF CeilDiv

(* Scaling by a part of full power adds at most the rounding unit. *)
LEMMA ScaledBound ==
  ASSUME NEW a \in 0..FullPower, NEW b \in 0..FullPower
  PROVE  Scaled(a, b) \in 0..(b + 1)
<1> FullPower \in Nat \ {0}
  BY ConstantsAssumption
<1>1. a * b \in Nat /\ a * b <= b * FullPower
  BY SMT
<1>2. CeilDiv(a * b, FullPower) \in 0..b
  BY <1>1, CeilDivBound
<1> QED
  BY <1>2 DEF Scaled

(* What calc_output_power wants before the ramps. *)
LEMMA WantedBound ==
  ASSUME NEW routine \in 0..FullPower, NEW panel \in 0..FullPower,
         NEW remote \in 0..FullPower, NEW mode \in BOOLEAN
  PROVE  LET w == Wanted(routine, panel, remote, mode)
         IN /\ w \in 0..FullPower /\ w <= panel + 1
            /\ mode => w <= panel /\ w <= remote + 1
<1> FullPower \in Nat \ {0}
  BY ConstantsAssumption
<1>1. Scaled(routine, remote) \in 0..(remote + 1)
  BY ScaledBound
<1>2. Scaled(routine, panel) \in 0..(panel + 1)
  BY ScaledBound
<1> QED
  BY <1>1, <1>2 DEF Wanted, MinOf

(* Both ramps only ever take power away; the first bounds what is left. *)
LEMMA RampedBound ==
  ASSUME NEW w \in Nat, NEW percent \in 0..FullPercent, NEW ext \in 0..FullRamp
  PROVE  /\ Ramped(w, percent, ext) \in 0..w
         /\ Ramped(w, percent, ext) * FullPercent <= w * percent
<1> DEFINE d == FullPercent * FullRamp
           x == w * percent
           r == Ramped(w, percent, ext)
<1>0. FullPercent \in Nat \ {0} /\ FullRamp \in Nat \ {0}
  BY ConstantsAssumption, SMT DEF FullRamp
<1>1. d \in Nat \ {0}
  BY <1>0, SMT
<1>2. x \in Nat /\ x <= w * FullPercent
  BY <1>0, SMT
<1>3. x * ext \in Nat /\ x * ext <= x * FullRamp
  BY <1>0, <1>2, SMT
<1>4. x * FullRamp <= (w * FullPercent) * FullRamp
  BY <1>0, <1>2, SMT
<1>5. x * ext <= w * d
  BY <1>0, <1>2, <1>3, <1>4, SMT
<1>6. r = (x * ext) \div d
  BY DEF Ramped
<1>7. r \in 0..w
  BY <1>1, <1>3, <1>5, <1>6, DivBound
<1>8. r * d <= x * ext
  BY <1>1, <1>3, <1>6, SMT
<1>9. (r * FullPercent) * FullRamp <= x * FullRamp
  BY <1>0, <1>2, <1>3, <1>7, <1>8, SMT
<1>10. r * FullPercent <= x
  <2> r * FullPercent \in Nat
    BY <1>0, <1>7, SMT
  <2> HIDE DEF r, x
  <2> QED
    BY <1>0, <1>2, <1>9, SMT
<1> QED
  BY <1>7, <1>10

(* What a recalculated output may be, given the levels it was made from. *)
Within(out, panel, remote, mode, percent) ==
  /\ out \in 0..FullPower /\ out <= panel + 1
  /\ out * FullPercent <= (panel + 1) * percent
  /\ mode => out <= panel /\ out <= remote + 1

(* Every recalculation of one channel's output. *)
LEMMA OutputBound ==
  ASSUME NEW routine \in 0..FullPower, NEW panel \in 0..FullPower,
         NEW remote \in 0..FullPower, NEW mode \in BOOLEAN,
         NEW percent \in 0..FullPercent, NEW ext \in 0..FullRamp
  PROVE  Within(CalcOutputPower(routine, panel, remote, mode, percent, ext),
                panel, remote, mode, percent)
<1> DEFINE w == Wanted(routine, panel, remote, mode)
           out == CalcOutputPower(routine, panel, remote, mode, percent, ext)
<1>0. FullPercent \in Nat \ {0} /\ FullPower \in Nat
  BY ConstantsAssumption
<1>1. /\ w \in 0..FullPower /\ w <= panel + 1
      /\ mode => w <= panel /\ w <= remote + 1
  BY WantedBound
<1>2. out \in 0..w /\ out * FullPercent <= w * percent
  <2>1. out = Ramped(w, percent, ext)
    BY DEF CalcOutputPower
  <2> HIDE DEF w, out
  <2>2. w \in Nat
    BY <1>0, <1>1
  <2> QED
    BY <2>1, <2>2, RampedBound
<1>3. w * percent <= (panel + 1) * percent
  BY <1>0, <1>1, SMT
<1>4. out * FullPercent <= (panel + 1) * percent
  BY <1>0, <1>1, <1>2, <1>3, SMT
<1> HIDE DEF w, out
<1>5. /\ out \in 0..FullPower /\ out <= panel + 1
      /\ mode => out <= panel /\ out <= remote + 1
  BY <1>0, <1>1, <1>2, SMT
<1> QED
  BY <1>4, <1>5 DEF out, Within

(* The output mode only takes power away. *)
LEMMA ModeScaledBound ==
  ASSUME NEW mode \in {"HIGH", "MEDIUM", "LOW"}, NEW p \in Nat
  PROVE  ModeScaled(mode, p) \in 0..p
  BY SMT DEF ModeScaled, ModePercent

-----------------------------------------------------------------------------
(* The invariant.                                                          *)

(* The power recalculated last is limited like the power sent last,        *)
(* because ChannelsLoop sends what an earlier recalculation left.          *)
OutputLimits ==
  \A c \in Channels :
    Within(output_power[c], front_panel_power[c], remote_access_power[c],
           remote_mode_active, initial_ramp.percent)

DeviceLimits ==
  \A c \in Channels :
    Within(device_power[c], front_panel_power[c], remote_access_power[c],
           remote_mode_active, initial_ramp.percent)

(* A board without a routine has its initial ramp at zero and not running, *)
(* so that no later recalculation can wake it.                             *)
Dormant ==
  ~active => /\ routine_power = AllZero
             /\ initial_ramp.percent = 0 /\ ~initial_ramp.in_progress

PowerInv == CacheIsDevice /\ OutputLimits /\ DeviceLimits /\ Dormant

IInv == TypeOK /\ PowerInv

-----------------------------------------------------------------------------
(* Lemmas about the operators the actions are built from.                  *)

Modes == {"HIGH", "MEDIUM", "LOW"}

(* The constants, as the provers like them. *)
LEMMA Constants ==
  /\ NumChannels \in Nat \ {0} /\ FullPower \in Nat \ {0}
  /\ FullPercent \in Nat \ {0} /\ FullRamp \in Nat \ {0}
  /\ TickWrap \in Nat \ {0} /\ FifoSize \in Nat \ {0}
  /\ RampLevel * TicksPerPP \in 0..FullRamp
  /\ AllZero \in Levels /\ AllZero \in [Channels -> PanelPowers]
  /\ AllZero \in [Channels -> RemotePowers \cup {0, FullPower}]
<1>1. FullRamp \in Nat \ {0}
  BY ConstantsAssumption, SMT DEF FullRamp
<1>2. RampLevel * TicksPerPP \in 0..FullRamp
  BY ConstantsAssumption, SMT DEF FullRamp
<1> QED
  BY <1>1, <1>2, ConstantsAssumption DEF AllZero, Levels

(* The ramp percentage in force stays within its units. *)
LEMMA ExtPercentType ==
  ASSUME TypeOK PROVE ExtPercent(ext_ramp) \in 0..FullRamp
  BY Constants, ConstantsAssumption DEF TypeOK, ExtPercent

(* calc_ramp_percent keeps the ramp well formed. *)
LEMMA CalcRampType ==
  ASSUME NEW e \in [in_progress : BOOLEAN, elapsed : 0..(TickWrap - 1),
                    percent : 0..FullRamp],
         NEW n \in 0..(TickWrap - 1)
  PROVE  /\ CalcRamp(e, n) \in [in_progress : BOOLEAN,
                                elapsed : 0..(TickWrap - 1),
                                percent : 0..FullRamp]
         /\ ExtPercent(CalcRamp(e, n)) \in 0..FullRamp
<1> DEFINE p == RampLevel * TicksPerPP + n
<1>1. p \in Nat /\ MinOf(p, FullRamp) \in 0..FullRamp
  BY Constants DEF MinOf
<1>2. CalcRamp(e, n) \in [in_progress : BOOLEAN, elapsed : 0..(TickWrap - 1),
                          percent : 0..FullRamp]
  <2> HIDE DEF p
  <2>1. CalcRamp(e, n) = IF ~e.in_progress THEN e
          ELSE [in_progress |-> p <= FullRamp, elapsed |-> n,
                percent |-> MinOf(p, FullRamp)]
    BY DEF CalcRamp, p
  <2>2. (p <= FullRamp) \in BOOLEAN
    OBVIOUS
  <2> QED
    BY <1>1, <2>1, <2>2
<1>3. ExtPercent(CalcRamp(e, n)) \in 0..FullRamp
  BY <1>2, Constants, ConstantsAssumption DEF ExtPercent
<1> QED
  BY <1>2, <1>3

(* update_power sends the scaled output on the channels it visits, leaves  *)
(* the others alone, and keeps every cache equal to what was sent.         *)
LEMMA UpdatePowerSends ==
  ASSUME TypeOK, CacheIsDevice, wrapped' = wrapped,
         NEW cs \in SUBSET Channels, NEW out \in Levels, NEW mode \in Modes,
         UpdatePower(cs, out, mode)
  PROVE  /\ device_power' = [c \in Channels |->
              IF c \in cs THEN ModeScaled(mode, out[c]) ELSE device_power[c]]
         /\ device_power' \in Levels
         /\ real_sent' \in Levels /\ wrap_sent' \in Levels
         /\ CacheIsDevice'
<1> DEFINE level(c) == ModeScaled(mode, out[c])
<1>1. ASSUME NEW c \in Channels PROVE level(c) \in 0..FullPower
  <2>1. out[c] \in 0..FullPower /\ out[c] \in Nat
    BY Constants DEF Levels
  <2>2. level(c) \in 0..out[c]
    BY <2>1, ModeScaledBound DEF Modes
  <2> QED
    BY <2>1, <2>2, Constants
<1> HIDE DEF level
<1>2. /\ device_power' = [c \in Channels |->
           IF c \in cs /\ level(c) # Sent(c) THEN level(c) ELSE device_power[c]]
      /\ real_sent' = [c \in Channels |->
           IF c \in cs /\ level(c) # Sent(c) /\ c \notin wrapped
           THEN level(c) ELSE real_sent[c]]
      /\ wrap_sent' = [c \in Channels |->
           IF c \in cs /\ level(c) # Sent(c) /\ c \in wrapped
           THEN level(c) ELSE wrap_sent[c]]
  BY DEF UpdatePower, level
<1>3. device_power' = [c \in Channels |->
        IF c \in cs THEN level(c) ELSE device_power[c]]
  BY <1>2 DEF CacheIsDevice
<1>4. device_power' \in Levels /\ real_sent' \in Levels /\ wrap_sent' \in Levels
  BY <1>1, <1>2 DEF TypeOK, Levels
<1>5. CacheIsDevice'
  <2> SUFFICES ASSUME NEW c \in Channels PROVE Sent(c)' = device_power'[c]
    BY DEF CacheIsDevice
  <2>1. Sent(c) = device_power[c]
    BY DEF CacheIsDevice
  <2> QED
    BY <1>2, <2>1 DEF Sent
<1> QED
  BY <1>3, <1>4, <1>5 DEF level

(* stop_routine silences the output module whatever was sent before. *)
LEMMA StopRoutineSilences ==
  ASSUME TypeOK, CacheIsDevice,
         NEW initial, NEW simple, NEW now_active, NEW requested,
         StopRoutine(initial, simple, now_active, requested)
  PROVE  device_power' = AllZero /\ CacheIsDevice'
<1>1. device_power' = AllZero
  BY DEF StopRoutine, CacheIsDevice, AllZero
<1>2. CacheIsDevice'
  BY <1>1 DEF StopRoutine, CacheIsDevice, Sent, AllZero
<1> QED
  BY <1>1, <1>2

(* The loops over the channels in set_remote_power's callers and in        *)
(* update_power_levels_from_front_panel make well formed calls.            *)
LEMMA CallsType ==
  /\ \A p \in [Channels -> PanelPowers] : PanelPowersCalls(p) \in Seq(Message)
  /\ \A p \in [Channels -> RemotePowers \cup {0, FullPower}] :
       RemotePowersCalls(p) \in Seq(Message)
  /\ StopSession \in Seq(Message)
  /\ <<Stop>> \in Seq(Message) /\ <<Reinit>> \in Seq(Message)
  /\ <<ExtRampStart>> \in Seq(Message)
  /\ \A on \in BOOLEAN : <<RemoteMode(on)>> \in Seq(Message)
  /\ \A simple \in RoutineConfigs : <<Load(simple)>> \in Seq(Message)
<1>1. \A i \in 1..NumChannels : i - 1 \in Channels
  BY Constants DEF Channels
<1>2. \A p \in [Channels -> PanelPowers] : PanelPowersCalls(p) \in Seq(Message)
  <2> TAKE p \in [Channels -> PanelPowers]
  <2>1. \A i \in 1..NumChannels : PanelPower(i - 1, p[i - 1]) \in Message
    BY <1>1 DEF PanelPower, Message
  <2> QED
    BY <2>1, Constants DEF PanelPowersCalls
<1>3. \A p \in [Channels -> RemotePowers \cup {0, FullPower}] :
        RemotePowersCalls(p) \in Seq(Message)
  <2> TAKE p \in [Channels -> RemotePowers \cup {0, FullPower}]
  <2>1. \A i \in 1..NumChannels : RemotePower(i - 1, p[i - 1]) \in Message
    BY <1>1 DEF RemotePower, Message
  <2> QED
    BY <2>1, Constants DEF RemotePowersCalls
<1>4. /\ Stop \in Message /\ Reinit \in Message /\ ExtRampStart \in Message
      /\ \A on \in BOOLEAN : RemoteMode(on) \in Message
      /\ \A simple \in RoutineConfigs : Load(simple) \in Message
  BY DEF Stop, Reinit, ExtRampStart, RemoteMode, Load, Message
<1>5. StopSession \in Seq(Message)
  <2> DEFINE zeros == RemotePowersCalls(AllZero)
  <2>1. zeros \in Seq(Message) /\ <<>> \in Seq(Message) /\ <<Stop>> \in Seq(Message)
    BY <1>3, <1>4, Constants
  <2>2. StopSession = <<Stop>> \o (IF menu = "ble_direct" THEN <<>> ELSE zeros)
    BY DEF StopSession, IfLimited
  <2> HIDE DEF zeros
  <2> QED
    BY <2>1, <2>2
<1> QED
  BY <1>2, <1>3, <1>4, <1>5

-----------------------------------------------------------------------------
(* Type correctness.                                                       *)

LEMMA InitType == Init => TypeOK
<1> SUFFICES ASSUME Init PROVE TypeOK
  OBVIOUS
<1>1. 0 \in 0..(TickWrap - 1) /\ 0 \in 0..FullRamp /\ 0 \in 0..FullPercent
  BY Constants
<1>2. NoRamp \in [in_progress : BOOLEAN, elapsed : 0..(TickWrap - 1),
                  percent : 0..FullRamp]
  BY <1>1 DEF NoRamp
<1> QED
  <2>1. /\ <<>> \in Seq(Message) /\ Len(<<>>) <= FifoSize
        /\ [percent |-> 0, in_progress |-> FALSE]
             \in [percent : 0..FullPercent, in_progress : BOOLEAN]
    BY <1>1, Constants
  <2> QED
    BY <1>2, <2>1, Constants DEF Init, TypeOK

(* Core 0 never touches what core 1 owns, so its variables are all there   *)
(* is to check.                                                            *)
LEMMA Core0CallType ==
  ASSUME TypeOK, Core0Call PROVE TypeOK'
<1>1. Head(todo) \in Message /\ Tail(todo) \in Seq(Message)
  BY DEF TypeOK, Core0Call, SkipCall, PushCall, Idle
<1>2. CASE SkipCall
  BY <1>1, <1>2 DEF Core0Call, SkipCall, TypeOK, core1Vars, levelVars, channelVars
<1>3. CASE PushCall
  <2>1. fifo' \in Seq(Message) /\ Len(fifo') <= FifoSize
    BY <1>1, <1>3, Constants DEF PushCall, TypeOK
  <2>2. fp_cache' \in [Channels -> PanelPowers]
    BY <1>1, <1>3 DEF PushCall, TypeOK, Message
  <2>3. remote_cache' \in [Channels -> RemotePowers \cup {0, FullPower}]
    BY <1>1, <1>3 DEF PushCall, TypeOK, Message
  <2> QED
    BY <1>1, <1>3, <2>1, <2>2, <2>3
    DEF Core0Call, PushCall, TypeOK, core1Vars, levelVars, channelVars
<1> QED
  BY <1>2, <1>3 DEF Core0Call

LEMMA Core0Type ==
  ASSUME TypeOK, Core0 PROVE TypeOK'
<1>1. UNCHANGED core1Vars
  BY DEF Core0
<1>2. todo' \in Seq(Message)
  <2>1. CASE PollFrontPanel
    BY <2>1, CallsType DEF PollFrontPanel, Begin
  <2>2. CASE StartLocal
    BY <2>2, CallsType DEF StartLocal, Begin
  <2>3. CASE StartExtendedRamp
    BY <2>3, CallsType DEF StartExtendedRamp, Begin
  <2>4. CASE LeaveLocal
    BY <2>4, CallsType DEF LeaveLocal, Begin
  <2>5. CASE EnterRemote
    <3> DEFINE first == <<RemoteMode(TRUE)>>
    <3>1. /\ todo' = IF menu' = "ble_direct" THEN <<>> ELSE first
          /\ first \in Seq(Message)
      BY <2>5, CallsType DEF EnterRemote, Begin, IfLimited
    <3> HIDE DEF first
    <3> QED
      BY <3>1
  <2>6. CASE RemoteStart
    <3>1. PICK simple \in RoutineConfigs :
            todo' = IF menu = "ble" THEN <<Load(simple)>> \o
                         RemotePowersCalls([c \in Channels |-> FullPower])
                    ELSE <<Load(simple)>>
      BY <2>6, CallsType DEF RemoteStart, Begin
    <3>2. RemotePowersCalls([c \in Channels |-> FullPower]) \in Seq(Message)
      BY CallsType
    <3>3. <<Load(simple)>> \in Seq(Message)
      BY CallsType
    <3> QED
      BY <3>1, <3>2, <3>3
  <2>7. CASE RemoteSetPower
    BY <2>7, CallsType DEF RemoteSetPower, Begin
  <2>8. CASE RemoteStop
    BY <2>8, CallsType DEF RemoteStop, Begin
  <2>9. CASE LeaveRemote
    <3> DEFINE last == <<RemoteMode(FALSE)>>
    <3>1. /\ todo' = (IF running THEN StopSession ELSE <<>>)
                      \o (IF menu = "ble_direct" THEN <<>> ELSE last)
          /\ last \in Seq(Message) /\ StopSession \in Seq(Message)
      BY <2>9, CallsType DEF LeaveRemote, Begin, IfLimited
    <3> HIDE DEF last
    <3> QED
      BY <3>1
  <2>10. CASE SaveChannelConfig
    BY <2>10, CallsType DEF SaveChannelConfig, Begin
  <2>11. CASE ChangePowerMode
    BY <2>11 DEF ChangePowerMode, TypeOK
  <2> QED
    BY <2>1, <2>2, <2>3, <2>4, <2>5, <2>6, <2>7, <2>8, <2>9, <2>10, <2>11
    DEF Core0
<1>3. /\ menu' \in {"main", "local"} \cup RemoteMenus /\ running' \in BOOLEAN
      /\ power_mode' \in Modes
  BY DEF Core0, PollFrontPanel, StartLocal, StartExtendedRamp, LeaveLocal,
         EnterRemote, RemoteStart, RemoteSetPower, RemoteStop, LeaveRemote,
         SaveChannelConfig, ChangePowerMode, TypeOK, Modes
<1>4. UNCHANGED <<fp_cache, remote_cache, fifo>>
  BY DEF Core0, PollFrontPanel, StartLocal, StartExtendedRamp, LeaveLocal,
         EnterRemote, RemoteStart, RemoteSetPower, RemoteStop, LeaveRemote,
         SaveChannelConfig, ChangePowerMode, Begin
<1> QED
  BY <1>1, <1>2, <1>3, <1>4
  DEF TypeOK, Modes, core1Vars, levelVars, channelVars

(* What core 1 leaves alone of core 0, and what a received message was. *)
LEMMA ReceiveType ==
  ASSUME TypeOK, NEW type, Receive(type)
  PROVE  /\ Head(fifo) \in Message /\ Head(fifo).type = type
         /\ fifo' \in Seq(Message) /\ Len(fifo') <= FifoSize
         /\ stage = "messages"
         /\ UNCHANGED <<core0Vars, stage>>
<1> fifo \in Seq(Message) /\ fifo # <<>> /\ Len(fifo) <= FifoSize
  BY DEF TypeOK, Receive
<1>1. Head(fifo) \in Message /\ Tail(fifo) \in Seq(Message)
  OBVIOUS
<1>2. Len(Tail(fifo)) <= FifoSize
  BY Constants
<1> QED
  BY <1>1, <1>2 DEF Receive

(* One recalculated channel, and a recalculation of all of them. *)
LEMMA RecalcType ==
  ASSUME TypeOK, NEW panel \in Levels, NEW remote \in Levels,
         NEW mode \in BOOLEAN, NEW c \in Channels
  PROVE  Within(Recalc(panel, remote, mode, initial_ramp.percent,
                       ExtPercent(ext_ramp), c),
                panel[c], remote[c], mode, initial_ramp.percent)
<1>1. /\ routine_power[c] \in 0..FullPower /\ panel[c] \in 0..FullPower
      /\ remote[c] \in 0..FullPower
      /\ initial_ramp.percent \in 0..FullPercent
  BY DEF TypeOK, Levels
<1>2. ExtPercent(ext_ramp) \in 0..FullRamp
  BY ExtPercentType
<1>3. \A r, p, q \in 0..FullPower, m \in BOOLEAN, n \in 0..FullPercent,
          x \in 0..FullRamp :
        Within(CalcOutputPower(r, p, q, m, n, x), p, q, m, n)
  BY OutputBound
<1> QED
  BY <1>1, <1>2, <1>3, ZenonT(30) DEF Recalc

-----------------------------------------------------------------------------
(* The invariant says what the properties ask.                             *)

LEMMA Percents ==
  ASSUME TypeOK
  PROVE  /\ initial_ramp.percent \in 0..FullPercent
         /\ \A c \in Channels : front_panel_power[c] \in 0..FullPower
         /\ front_panel_power \in Levels
  BY ConstantsAssumption DEF TypeOK, Levels

(* A smaller power is within the same limits. *)
LEMMA WithinLess ==
  ASSUME NEW out, NEW p \in 0..out, NEW panel \in 0..FullPower,
         NEW remote \in 0..FullPower, NEW mode \in BOOLEAN,
         NEW percent \in 0..FullPercent,
         Within(out, panel, remote, mode, percent)
  PROVE  Within(p, panel, remote, mode, percent)
<1>1. out \in Nat /\ p \in Nat /\ p <= out /\ out <= FullPower
  BY Constants DEF Within
<1>2. p * FullPercent <= out * FullPercent
  BY <1>1, Constants, SMT
<1>3. (panel + 1) * percent \in Nat /\ p * FullPercent \in Nat
  BY <1>1, Constants, SMT
<1>4. p * FullPercent <= (panel + 1) * percent
  <2>1. out * FullPercent \in Nat /\ out * FullPercent <= (panel + 1) * percent
    BY <1>1, Constants, SMT DEF Within
  <2> QED
    BY <1>2, <1>3, <2>1
<1>5. /\ p \in 0..FullPower /\ p <= panel + 1
      /\ mode => p <= panel /\ p <= remote + 1
  BY <1>1, Constants, SMT DEF Within
<1> QED
  BY <1>4, <1>5 DEF Within

(* Silence is within any limits. *)
LEMMA ZeroWithin ==
  ASSUME NEW panel \in 0..FullPower, NEW remote \in 0..FullPower,
         NEW mode \in BOOLEAN, NEW percent \in 0..FullPercent
  PROVE  Within(0, panel, remote, mode, percent)
<1>1. (panel + 1) * percent \in Nat /\ 0 * FullPercent = 0
  BY Constants, SMT
<1> QED
  BY <1>1, Constants, SMT DEF Within

(* A ramp at zero leaves nothing. *)
LEMMA WithinZero ==
  ASSUME NEW panel \in 0..FullPower, NEW remote, NEW mode, NEW out,
         Within(out, panel, remote, mode, 0)
  PROVE  out = 0
<1>1. out \in Nat /\ out * FullPercent <= (panel + 1) * 0
  BY Constants DEF Within
<1>2. (panel + 1) * 0 = 0
  BY Constants, SMT
<1> QED
  BY <1>1, <1>2, Constants, SMT

(* A climbing ramp only widens the limits. *)
LEMMA WithinLater ==
  ASSUME NEW out, NEW panel \in 0..FullPower, NEW remote \in 0..FullPower,
         NEW mode \in BOOLEAN, NEW percent \in 0..FullPercent,
         NEW later \in 0..FullPercent, percent <= later,
         Within(out, panel, remote, mode, percent)
  PROVE  Within(out, panel, remote, mode, later)
<1>1. (panel + 1) * percent <= (panel + 1) * later
  BY Constants, SMT
<1>2. /\ (panel + 1) * percent \in Nat /\ (panel + 1) * later \in Nat
      /\ out \in Nat /\ out * FullPercent \in Nat
  BY Constants, SMT DEF Within
<1>3. out * FullPercent <= (panel + 1) * later
  BY <1>1, <1>2 DEF Within
<1> QED
  BY <1>3 DEF Within

LEMMA InvImplies ==
  ASSUME IInv
  PROVE  FrontPanelLimits /\ RemoteLimits /\ RampLimits /\ SilentWithoutRoutine
<1> USE DEF IInv, PowerInv
<1>1. FrontPanelLimits /\ RemoteLimits /\ RampLimits
  BY DEF DeviceLimits, Within, FrontPanelLimits, RemoteLimits, RampLimits
<1>2. SilentWithoutRoutine
  <2> SUFFICES ASSUME ~active PROVE routine_power = AllZero /\ device_power = AllZero
    BY DEF SilentWithoutRoutine
  <2>1. ASSUME NEW c \in Channels PROVE device_power[c] = 0
    <3>1. Within(device_power[c], front_panel_power[c], remote_access_power[c],
                 remote_mode_active, 0)
      BY DEF DeviceLimits, Dormant
    <3>2. front_panel_power[c] \in 0..FullPower
      BY Percents
    <3> QED
      BY <3>1, <3>2, WithinZero
  <2>2. device_power \in [Channels -> 0..FullPower]
    BY DEF TypeOK, Levels
  <2> QED
    BY <2>1, <2>2 DEF AllZero, Dormant
<1> QED
  BY <1>1, <1>2

-----------------------------------------------------------------------------
(* Every step keeps the invariant.                                         *)

(* What the lemmas above ask of the levels. *)
LEMMA LevelsType ==
  ASSUME TypeOK, NEW c \in Channels
  PROVE  /\ front_panel_power[c] \in 0..FullPower
         /\ remote_access_power[c] \in 0..FullPower
         /\ routine_power[c] \in 0..FullPower
         /\ output_power[c] \in Nat /\ device_power[c] \in Nat
         /\ remote_mode_active \in BOOLEAN /\ power_mode \in Modes
         /\ initial_ramp.percent \in 0..FullPercent
<1>1. front_panel_power[c] \in 0..FullPower
  BY Percents
<1>2. /\ remote_access_power[c] \in 0..FullPower
      /\ routine_power[c] \in 0..FullPower
      /\ output_power[c] \in 0..FullPower /\ device_power[c] \in 0..FullPower
  BY DEF TypeOK, Levels
<1>3. /\ remote_mode_active \in BOOLEAN /\ power_mode \in Modes
      /\ initial_ramp.percent \in 0..FullPercent
  BY DEF TypeOK, Modes
<1> QED
  BY <1>1, <1>2, <1>3, Constants

(* After update_power on the channels cs the powers sent are within the    *)
(* new limits, when the powers left alone are.                             *)
LEMMA SentWithin ==
  ASSUME TypeOK, TypeOK', CacheIsDevice, OutputLimits', wrapped' = wrapped,
         NEW cs \in SUBSET Channels, NEW out \in Levels, NEW mode \in Modes,
         UpdatePower(cs, out, mode), out = output_power',
         \A c \in Channels \ cs :
           Within(device_power[c], front_panel_power'[c],
                  remote_access_power'[c], remote_mode_active',
                  initial_ramp'.percent)
  PROVE  DeviceLimits'
<1> SUFFICES ASSUME NEW c \in Channels
             PROVE  Within(device_power'[c], front_panel_power'[c],
                           remote_access_power'[c], remote_mode_active',
                           initial_ramp'.percent)
  BY DEF DeviceLimits
<1>1. device_power' = [d \in Channels |->
        IF d \in cs THEN ModeScaled(mode, out[d]) ELSE device_power[d]]
  BY UpdatePowerSends
<1>2. CASE c \notin cs
  BY <1>1, <1>2
<1>3. CASE c \in cs
  <2>1. device_power'[c] = ModeScaled(mode, out[c])
    BY <1>1, <1>3
  <2>2. ModeScaled(mode, out[c]) \in 0..out[c]
    <3>1. out[c] \in Nat
      BY Constants DEF Levels
    <3> QED
      BY <3>1, ModeScaledBound DEF Modes
  <2>3. Within(out[c], front_panel_power'[c], remote_access_power'[c],
               remote_mode_active', initial_ramp'.percent)
    BY DEF OutputLimits
  <2>4. /\ front_panel_power'[c] \in 0..FullPower
        /\ remote_access_power'[c] \in 0..FullPower
        /\ remote_mode_active' \in BOOLEAN
        /\ initial_ramp'.percent \in 0..FullPercent
    BY ConstantsAssumption DEF TypeOK, Levels
  <2> QED
    BY <2>1, <2>2, <2>3, <2>4, WithinLess
<1> QED
  BY <1>2, <1>3

(* Where core 1's levels stay, so does what depends on them. *)
LEMMA Core0Step ==
  ASSUME IInv, Core0 \/ Core0Call PROVE IInv'
<1>1. TypeOK'
  BY Core0CallType, Core0Type DEF IInv
<1>2. UNCHANGED core1Vars
  BY DEF Core0, Core0Call
<1> QED
  BY <1>1, <1>2
  DEF IInv, PowerInv, CacheIsDevice, Sent, OutputLimits, DeviceLimits, Dormant,
      core1Vars, levelVars, channelVars

(* a routine asks for power, in its loop or in a handler *)
LEMMA SetPowerStep ==
  ASSUME IInv, NEW c \in Channels, NEW p \in RoutinePowers, SetPower(c, p),
         stage' \in {"messages", "channels"},
         UNCHANGED <<core0Vars, fifo, levelVars, initial_ramp, ext_ramp>>
  PROVE  IInv'
<1> USE DEF IInv, PowerInv
<1>1. /\ routine_power' = [routine_power EXCEPT ![c] = p]
      /\ output_power' =
           IF p = routine_power[c] THEN output_power
           ELSE [output_power EXCEPT ![c] =
                   CalcOutputPower(p, front_panel_power[c],
                     remote_access_power[c], remote_mode_active,
                     initial_ramp.percent, ExtPercent(ext_ramp))]
      /\ UpdatePower({c}, output_power', power_mode)
      /\ active /\ UNCHANGED <<active, wrapped>>
  BY DEF SetPower
<1> DEFINE new == CalcOutputPower(p, front_panel_power[c],
                    remote_access_power[c], remote_mode_active,
                    initial_ramp.percent, ExtPercent(ext_ramp))
<1>2. p \in 0..FullPower
  BY ConstantsAssumption
<1>3. Within(new, front_panel_power[c], remote_access_power[c],
             remote_mode_active, initial_ramp.percent)
  BY <1>2, LevelsType, ExtPercentType, OutputBound
<1>4. output_power' = IF p = routine_power[c] THEN output_power
                      ELSE [output_power EXCEPT ![c] = new]
  BY <1>1
<1> HIDE DEF new
<1>5. routine_power' \in Levels /\ output_power' \in Levels
  BY <1>1, <1>2, <1>3, <1>4 DEF TypeOK, Levels, Within
<1>6. OutputLimits'
  BY <1>3, <1>4 DEF OutputLimits, TypeOK, Levels, levelVars
<1>7. /\ device_power' \in Levels /\ real_sent' \in Levels
      /\ wrap_sent' \in Levels /\ CacheIsDevice'
  BY <1>1, <1>5, LevelsType, UpdatePowerSends
<1>8. TypeOK'
  BY <1>1, <1>5, <1>7 DEF TypeOK, core0Vars, levelVars
<1>9. DeviceLimits'
  <2>1. \A d \in Channels \ {c} :
          Within(device_power[d], front_panel_power'[d],
                 remote_access_power'[d], remote_mode_active',
                 initial_ramp'.percent)
    BY DEF DeviceLimits, levelVars
  <2> QED
    BY <1>1, <1>5, <1>6, <1>8, <2>1, LevelsType, SentWithin
<1>10. Dormant'
  BY <1>1 DEF Dormant
<1> QED
  BY <1>6, <1>7, <1>8, <1>9, <1>10

LEMMA RoutineLoopStep ==
  ASSUME IInv, RoutineLoop PROVE IInv'
<1>1. CASE UNCHANGED <<routine_power, output_power, channelVars>>
  BY <1>1
  DEF RoutineLoop, IInv, PowerInv, TypeOK, CacheIsDevice, Sent, OutputLimits,
      DeviceLimits, Dormant, core0Vars, levelVars, channelVars
<1>2. ASSUME NEW c \in Channels, NEW p \in RoutinePowers, SetPower(c, p)
      PROVE  IInv'
  BY <1>2, SetPowerStep DEF RoutineLoop
<1> QED
  BY <1>1, <1>2 DEF RoutineLoop

LEMMA RoutineHandlerStep ==
  ASSUME IInv, RoutineHandler PROVE IInv'
<1>1. PICK c \in Channels, p \in RoutinePowers : SetPower(c, p)
  BY DEF RoutineHandler
<1> QED
  BY <1>1, SetPowerStep DEF RoutineHandler

LEMMA ChannelsLoopStep ==
  ASSUME IInv, ChannelsLoop PROVE IInv'
<1> USE DEF IInv, PowerInv
<1>1. /\ UNCHANGED <<core0Vars, fifo, levelVars, active, wrapped, routine_power,
                     output_power, initial_ramp, ext_ramp>>
      /\ stage' = "ramp" /\ UpdatePower(Channels, output_power, power_mode)
  BY DEF ChannelsLoop
<1>2. output_power \in Levels /\ power_mode \in Modes
  BY DEF TypeOK, Modes
<1>3. /\ device_power' \in Levels /\ real_sent' \in Levels
      /\ wrap_sent' \in Levels /\ CacheIsDevice'
  BY <1>1, <1>2, UpdatePowerSends
<1>4. TypeOK'
  BY <1>1, <1>3 DEF TypeOK, core0Vars, levelVars
<1>5. OutputLimits' /\ Dormant'
  BY <1>1 DEF OutputLimits, Dormant, levelVars
<1>6. DeviceLimits'
  BY <1>1, <1>2, <1>4, <1>5, SentWithin
<1> QED
  BY <1>3, <1>4, <1>5, <1>6

RampState == [in_progress : BOOLEAN, elapsed : 0..(TickWrap - 1),
              percent : 0..FullRamp]

LEMMA RampLoopStep ==
  ASSUME IInv, NEW step \in BOOLEAN, NEW calc \in BOOLEAN, RampLoop(step, calc)
  PROVE  IInv'
<1> USE DEF IInv, PowerInv
<1> DEFINE stepping == step /\ initial_ramp.in_progress
           percent == IF stepping /\ initial_ramp.percent < FullPercent
                      THEN initial_ramp.percent + 1 ELSE initial_ramp.percent
           elapsed == (ext_ramp.elapsed + 1) % TickWrap
<1>0. /\ UNCHANGED <<core0Vars, fifo, levelVars, channelVars, routine_power>>
      /\ stage' = "messages"
      /\ initial_ramp' = IF stepping THEN [percent |-> percent,
                                           in_progress |-> percent # FullPercent]
                         ELSE initial_ramp
      /\ ext_ramp' = IF calc THEN CalcRamp(ext_ramp, elapsed) ELSE ext_ramp
      /\ output_power' =
           IF stepping \/ calc
           THEN [c \in Channels |->
                   CalcOutputPower(routine_power[c], front_panel_power[c],
                     remote_access_power[c], remote_mode_active, percent,
                     ExtPercent(ext_ramp'))]
           ELSE output_power
  BY DEF RampLoop
<1>1. /\ initial_ramp.percent \in 0..FullPercent
      /\ initial_ramp.in_progress \in BOOLEAN /\ ext_ramp \in RampState
  BY DEF TypeOK, RampState
<1>2. percent \in 0..FullPercent /\ initial_ramp.percent <= percent
  BY <1>1, Constants
<1>3. elapsed \in 0..(TickWrap - 1)
  BY <1>1, Constants, SMT DEF RampState
<1>4. ~stepping => percent = initial_ramp.percent
  OBVIOUS
<1>5. stepping => initial_ramp.in_progress
  OBVIOUS
<1> HIDE DEF stepping, percent, elapsed
<1>6. ext_ramp' \in RampState
  BY <1>0, <1>1, <1>3, CalcRampType DEF RampState
<1>7. initial_ramp' \in [percent : 0..FullPercent, in_progress : BOOLEAN]
      /\ initial_ramp'.percent = percent
  BY <1>0, <1>1, <1>2, <1>4 DEF TypeOK
<1>8. ExtPercent(ext_ramp') \in 0..FullRamp
  BY <1>6, Constants, ConstantsAssumption DEF ExtPercent, RampState
<1>9. ASSUME NEW c \in Channels
      PROVE  Within(output_power'[c], front_panel_power[c],
                    remote_access_power[c], remote_mode_active, percent)
  <2>1. CASE stepping \/ calc
    <3> DEFINE ext == ExtPercent(ext_ramp')
               new == CalcOutputPower(routine_power[c], front_panel_power[c],
                        remote_access_power[c], remote_mode_active, percent, ext)
    <3>1. output_power'[c] = new
      BY <1>0, <2>1
    <3>2. ext \in 0..FullRamp
      BY <1>8
    <3> HIDE DEF ext
    <3>3. Within(new, front_panel_power[c], remote_access_power[c],
                 remote_mode_active, percent)
      BY <1>2, <3>2, LevelsType, OutputBound
    <3> QED
      BY <3>1, <3>3
  <2>2. CASE ~(stepping \/ calc)
    BY <1>0, <1>4, <2>2 DEF OutputLimits
  <2> QED
    BY <2>1, <2>2
<1>10. output_power' \in Levels
  <2>1. \A c \in Channels : output_power'[c] \in 0..FullPower
    BY <1>9 DEF Within
  <2>2. output_power' = [c \in Channels |-> output_power'[c]]
    BY <1>0 DEF TypeOK, Levels
  <2> QED
    BY <2>1, <2>2 DEF Levels
<1>11. TypeOK'
  BY <1>0, <1>6, <1>7, <1>10
  DEF TypeOK, RampState, core0Vars, levelVars, channelVars
<1>12. OutputLimits'
  BY <1>0, <1>7, <1>9 DEF OutputLimits, levelVars
<1>13. DeviceLimits'
  <2> SUFFICES ASSUME NEW c \in Channels
               PROVE  Within(device_power[c], front_panel_power[c],
                             remote_access_power[c], remote_mode_active, percent)
    BY <1>0, <1>7 DEF DeviceLimits, levelVars, channelVars
  <2>1. Within(device_power[c], front_panel_power[c], remote_access_power[c],
               remote_mode_active, initial_ramp.percent)
    BY DEF DeviceLimits
  <2> QED
    BY <1>1, <1>2, <2>1, LevelsType, WithinLater
<1>14. Dormant'
  BY <1>0, <1>4, <1>5, <1>7 DEF Dormant, channelVars
<1>15. CacheIsDevice'
  BY <1>0 DEF CacheIsDevice, Sent, channelVars
<1> QED
  BY <1>11, <1>12, <1>13, <1>14, <1>15

(* A stopped board is silent, whatever ramp and requests are left behind. *)
LEMMA StoppedStep ==
  ASSUME IInv, stage = "messages", fifo' \in Seq(Message), Len(fifo') <= FifoSize,
         UNCHANGED <<core0Vars, stage, levelVars>>,
         NEW going \in BOOLEAN, NEW simple \in SUBSET Channels,
         NEW now_active \in BOOLEAN, NEW requested \in Levels,
         ~now_active => ~going /\ requested = AllZero,
         StopRoutine([percent |-> 0, in_progress |-> going], simple,
                     now_active, requested)
  PROVE  IInv'
<1> USE DEF IInv, PowerInv
<1> DEFINE initial == [percent |-> 0, in_progress |-> going]
<1>1. device_power' = AllZero /\ CacheIsDevice'
  BY StopRoutineSilences
<1>2. /\ real_sent' = AllZero /\ wrap_sent' = AllZero /\ wrapped' = simple
      /\ active' = now_active /\ routine_power' = requested
      /\ output_power' = AllZero /\ initial_ramp' = initial
      /\ ext_ramp' = ResetRamp
  BY DEF StopRoutine, ZeroedOutput
<1>3. initial \in [percent : 0..FullPercent, in_progress : BOOLEAN]
  BY Constants
<1>4. ResetRamp \in RampState
  BY DEF TypeOK, ResetRamp, RampState
<1>5. initial.percent = 0 /\ initial.in_progress = going
  OBVIOUS
<1> HIDE DEF initial
<1>6. TypeOK'
  BY <1>1, <1>2, <1>3, <1>4, Constants
  DEF TypeOK, RampState, core0Vars, levelVars
<1>7. ASSUME NEW c \in Channels
      PROVE  Within(0, front_panel_power[c], remote_access_power[c],
                    remote_mode_active, 0)
  BY LevelsType, Constants, ZeroWithin
<1>8. OutputLimits' /\ DeviceLimits'
  BY <1>1, <1>2, <1>5, <1>7 DEF OutputLimits, DeviceLimits, AllZero, levelVars
<1>9. Dormant'
  BY <1>2, <1>5 DEF Dormant
<1> QED
  BY <1>1, <1>6, <1>8, <1>9

LEMMA ReceiveLoadStep ==
  ASSUME IInv, ReceiveLoad PROVE IInv'
<1>1. /\ Head(fifo) \in Message /\ Head(fifo).type = "LOAD"
      /\ fifo' \in Seq(Message) /\ Len(fifo') <= FifoSize
      /\ stage = "messages" /\ UNCHANGED <<core0Vars, stage>>
  BY ReceiveType DEF IInv, ReceiveLoad
<1>2. Head(fifo).simple \in SUBSET Channels
  BY <1>1, ConstantsAssumption DEF Message
<1>3. PICK p \in RoutinePowers :
        StopRoutine([percent |-> 0, in_progress |-> TRUE], Head(fifo).simple,
                    TRUE, [c \in Channels |-> p])
  BY DEF ReceiveLoad
<1>4. [c \in Channels |-> p] \in Levels
  BY ConstantsAssumption DEF Levels
<1>5. UNCHANGED levelVars
  BY DEF ReceiveLoad
<1> DEFINE yes == TRUE
<1>6. yes \in BOOLEAN /\ yes
  OBVIOUS
<1>7. StopRoutine([percent |-> 0, in_progress |-> yes], Head(fifo).simple, yes,
                  [c \in Channels |-> p])
  BY <1>3
<1> HIDE DEF yes
<1> QED
  BY <1>1, <1>2, <1>4, <1>5, <1>6, <1>7, StoppedStep

LEMMA ReceiveStopStep ==
  ASSUME IInv, ReceiveStop PROVE IInv'
<1>1. /\ fifo' \in Seq(Message) /\ Len(fifo') <= FifoSize
      /\ stage = "messages" /\ UNCHANGED <<core0Vars, stage>>
  BY ReceiveType DEF IInv, ReceiveStop
<1>2. UNCHANGED levelVars
  BY DEF ReceiveStop
<1> DEFINE no == FALSE
<1>3. no \in BOOLEAN /\ ~no
  OBVIOUS
<1>4. StopRoutine([percent |-> 0, in_progress |-> no], {}, no, AllZero)
  BY DEF ReceiveStop
<1> HIDE DEF no
<1> QED
  BY <1>1, <1>2, <1>3, <1>4, Constants, StoppedStep

(* New levels on the channels cs, whose output is recalculated or was      *)
(* already within them, and sent.                                          *)
LEMMA LevelsStep ==
  ASSUME IInv, stage = "messages", fifo' \in Seq(Message), Len(fifo') <= FifoSize,
         UNCHANGED <<core0Vars, stage, active, wrapped, routine_power,
                     initial_ramp, ext_ramp>>,
         front_panel_power' \in [Channels -> PanelPowers],
         remote_access_power' \in Levels, remote_mode_active' \in BOOLEAN,
         output_power' \in Levels, NEW cs \in SUBSET Channels,
         \A c \in cs :
           Within(output_power'[c], front_panel_power'[c],
                  remote_access_power'[c], remote_mode_active',
                  initial_ramp.percent),
         \A c \in Channels \ cs :
           /\ front_panel_power'[c] = front_panel_power[c]
           /\ remote_access_power'[c] = remote_access_power[c]
           /\ remote_mode_active' = remote_mode_active
           /\ output_power'[c] = output_power[c],
         UpdatePower(cs, output_power', power_mode)
  PROVE  IInv'
<1> USE DEF IInv, PowerInv
<1>0. power_mode \in Modes
  BY DEF TypeOK, Modes
<1>1. /\ device_power' \in Levels /\ real_sent' \in Levels
      /\ wrap_sent' \in Levels /\ CacheIsDevice'
  BY <1>0, UpdatePowerSends
<1>2. TypeOK'
  BY <1>1 DEF TypeOK, core0Vars
<1>3. OutputLimits' /\ Dormant'
  BY DEF OutputLimits, Dormant
<1>4. DeviceLimits'
  <2>1. \A c \in Channels \ cs :
          Within(device_power[c], front_panel_power'[c],
                 remote_access_power'[c], remote_mode_active',
                 initial_ramp'.percent)
    BY DEF DeviceLimits
  <2> QED
    BY <1>0, <1>2, <1>3, <2>1, SentWithin
<1> QED
  BY <1>1, <1>2, <1>3, <1>4

LEMMA ReceivePanelPowerStep ==
  ASSUME IInv, ReceivePanelPower PROVE IInv'
<1> DEFINE c == Head(fifo).channel
           power == Head(fifo).power
           new == Recalc(front_panel_power', remote_access_power,
                         remote_mode_active, initial_ramp.percent,
                         ExtPercent(ext_ramp), c)
<1>1. /\ Head(fifo) \in Message /\ Head(fifo).type = "PANEL"
      /\ fifo' \in Seq(Message) /\ Len(fifo') <= FifoSize
      /\ stage = "messages" /\ UNCHANGED <<core0Vars, stage>>
  BY ReceiveType DEF IInv, ReceivePanelPower
<1>2. c \in Channels /\ power \in PanelPowers
  BY <1>1 DEF Message
<1>3. /\ front_panel_power' = [front_panel_power EXCEPT ![c] = power]
      /\ output_power' = IF front_panel_power[c] = power THEN output_power
                         ELSE [output_power EXCEPT ![c] = new]
      /\ UpdatePower({c}, output_power', power_mode)
      /\ UNCHANGED <<remote_access_power, remote_mode_active, active, wrapped,
                     routine_power, initial_ramp, ext_ramp>>
  BY DEF ReceivePanelPower
<1> HIDE DEF c, power
<1>4. /\ front_panel_power' \in [Channels -> PanelPowers]
      /\ front_panel_power' \in Levels
      /\ front_panel_power'[c] = power
  BY <1>2, <1>3, ConstantsAssumption DEF IInv, TypeOK, Levels
<1>5. Within(new, power, remote_access_power[c], remote_mode_active,
             initial_ramp.percent)
  BY <1>2, <1>4, RecalcType DEF IInv, TypeOK
<1> HIDE DEF new
<1>6. output_power' \in Levels
  BY <1>2, <1>3, <1>5 DEF Within, IInv, TypeOK, Levels
<1>7. Within(output_power'[c], front_panel_power'[c], remote_access_power'[c],
             remote_mode_active', initial_ramp.percent)
  <2>1. CASE front_panel_power[c] = power
    BY <1>2, <1>3, <1>4, <2>1 DEF IInv, PowerInv, OutputLimits
  <2>2. CASE front_panel_power[c] # power
    BY <1>2, <1>3, <1>4, <1>5, <2>2 DEF IInv, TypeOK, Levels
  <2> QED
    BY <2>1, <2>2
<1>8. \A d \in Channels \ {c} :
        /\ front_panel_power'[d] = front_panel_power[d]
        /\ remote_access_power'[d] = remote_access_power[d]
        /\ remote_mode_active' = remote_mode_active
        /\ output_power'[d] = output_power[d]
  BY <1>3 DEF IInv, TypeOK, Levels
<1>9. remote_access_power' \in Levels /\ remote_mode_active' \in BOOLEAN
  BY <1>3 DEF IInv, TypeOK
<1> DEFINE cs == {c}
<1>10. /\ cs \in SUBSET Channels /\ UpdatePower(cs, output_power', power_mode)
       /\ \A d \in cs :
            Within(output_power'[d], front_panel_power'[d],
                   remote_access_power'[d], remote_mode_active',
                   initial_ramp.percent)
       /\ \A d \in Channels \ cs :
            /\ front_panel_power'[d] = front_panel_power[d]
            /\ remote_access_power'[d] = remote_access_power[d]
            /\ remote_mode_active' = remote_mode_active
            /\ output_power'[d] = output_power[d]
  BY <1>2, <1>3, <1>7, <1>8
<1> HIDE DEF cs
<1> QED
  BY <1>1, <1>3, <1>4, <1>6, <1>9, <1>10, LevelsStep

LEMMA ReceiveRemotePowerStep ==
  ASSUME IInv, ReceiveRemotePower PROVE IInv'
<1> DEFINE c == Head(fifo).channel
           power == Clamped(Head(fifo).power)
           new == Recalc(front_panel_power, remote_access_power',
                         remote_mode_active, initial_ramp.percent,
                         ExtPercent(ext_ramp), c)
<1>1. /\ Head(fifo) \in Message /\ Head(fifo).type = "REMOTE"
      /\ fifo' \in Seq(Message) /\ Len(fifo') <= FifoSize
      /\ stage = "messages" /\ UNCHANGED <<core0Vars, stage>>
  BY ReceiveType DEF IInv, ReceiveRemotePower
<1>2. c \in Channels /\ power \in 0..FullPower
  <2>0. c \in Channels /\ Head(fifo).power \in RemotePowers \cup {0, FullPower}
    BY <1>1 DEF Message
  <2>1. \A p \in RemotePowers \cup {0, FullPower} : p \in Nat
    BY Constants, ConstantsAssumption
  <2> QED
    BY <2>0, <2>1, Constants DEF Clamped, MinOf
<1>3. /\ remote_access_power' = [remote_access_power EXCEPT ![c] = power]
      /\ output_power' = IF remote_access_power[c] = power THEN output_power
                         ELSE [output_power EXCEPT ![c] = new]
      /\ UpdatePower({c}, output_power', power_mode)
      /\ UNCHANGED <<front_panel_power, remote_mode_active, active, wrapped,
                     routine_power, initial_ramp, ext_ramp>>
  BY DEF ReceiveRemotePower
<1> HIDE DEF c, power
<1>4. remote_access_power' \in Levels /\ remote_access_power'[c] = power
  BY <1>2, <1>3 DEF IInv, TypeOK, Levels
<1>5. Within(new, front_panel_power[c], power, remote_mode_active,
             initial_ramp.percent)
  BY <1>2, <1>4, Percents, RecalcType DEF IInv, TypeOK
<1> HIDE DEF new
<1>6. output_power' \in Levels
  BY <1>2, <1>3, <1>5 DEF Within, IInv, TypeOK, Levels
<1>7. Within(output_power'[c], front_panel_power'[c], remote_access_power'[c],
             remote_mode_active', initial_ramp.percent)
  <2>1. CASE remote_access_power[c] = power
    BY <1>2, <1>3, <1>4, <2>1 DEF IInv, PowerInv, OutputLimits
  <2>2. CASE remote_access_power[c] # power
    BY <1>2, <1>3, <1>4, <1>5, <2>2 DEF IInv, TypeOK, Levels
  <2> QED
    BY <2>1, <2>2
<1>8. \A d \in Channels \ {c} :
        /\ front_panel_power'[d] = front_panel_power[d]
        /\ remote_access_power'[d] = remote_access_power[d]
        /\ remote_mode_active' = remote_mode_active
        /\ output_power'[d] = output_power[d]
  BY <1>3 DEF IInv, TypeOK, Levels
<1>9. /\ front_panel_power' \in [Channels -> PanelPowers]
      /\ remote_mode_active' \in BOOLEAN
  BY <1>3 DEF IInv, TypeOK
<1> DEFINE cs == {c}
<1>10. /\ cs \in SUBSET Channels /\ UpdatePower(cs, output_power', power_mode)
       /\ \A d \in cs :
            Within(output_power'[d], front_panel_power'[d],
                   remote_access_power'[d], remote_mode_active',
                   initial_ramp.percent)
       /\ \A d \in Channels \ cs :
            /\ front_panel_power'[d] = front_panel_power[d]
            /\ remote_access_power'[d] = remote_access_power[d]
            /\ remote_mode_active' = remote_mode_active
            /\ output_power'[d] = output_power[d]
  BY <1>2, <1>3, <1>7, <1>8
<1> HIDE DEF cs
<1> QED
  BY <1>1, <1>3, <1>4, <1>6, <1>9, <1>10, LevelsStep

LEMMA ReceiveRemoteModeOnStep ==
  ASSUME IInv, ReceiveRemoteModeOn PROVE IInv'
<1> DEFINE on == TRUE
           new(c) == Recalc(front_panel_power, AllZero, on, initial_ramp.percent,
                            ExtPercent(ext_ramp), c)
<1>0. on \in BOOLEAN
  OBVIOUS
<1>1. /\ fifo' \in Seq(Message) /\ Len(fifo') <= FifoSize
      /\ stage = "messages" /\ UNCHANGED <<core0Vars, stage>>
  BY ReceiveType DEF IInv, ReceiveRemoteModeOn
<1>2. /\ remote_mode_active' = on /\ remote_access_power' = AllZero
      /\ output_power' = [c \in Channels |-> new(c)]
      /\ UpdatePower(Channels, output_power', power_mode)
      /\ UNCHANGED <<front_panel_power, active, wrapped, routine_power,
                     initial_ramp, ext_ramp>>
  BY DEF ReceiveRemoteModeOn
<1>3. ASSUME NEW c \in Channels
      PROVE  Within(new(c), front_panel_power[c], AllZero[c], on,
                    initial_ramp.percent)
  <2> HIDE DEF on
  <2> QED
    BY <1>0, Constants, Percents, RecalcType DEF IInv
<1> HIDE DEF new, on
<1>4. output_power' \in Levels
  BY <1>2, <1>3 DEF Within, Levels
<1>5. \A c \in Channels :
        Within(output_power'[c], front_panel_power'[c], remote_access_power'[c],
               remote_mode_active', initial_ramp.percent)
  BY <1>2, <1>3
<1>6. /\ front_panel_power' \in [Channels -> PanelPowers]
      /\ remote_access_power' \in Levels /\ remote_mode_active' \in BOOLEAN
  BY <1>0, <1>2, Constants DEF IInv, TypeOK
<1> QED
  BY <1>1, <1>2, <1>4, <1>5, <1>6, LevelsStep

LEMMA ReceiveRemoteModeOffStep ==
  ASSUME IInv, ReceiveRemoteModeOff PROVE IInv'
<1> USE DEF IInv, PowerInv
<1> DEFINE initial == [percent |-> 0, in_progress |-> FALSE]
<1>1. /\ fifo' \in Seq(Message) /\ Len(fifo') <= FifoSize
      /\ stage = "messages" /\ UNCHANGED <<core0Vars, stage>>
  BY ReceiveType DEF ReceiveRemoteModeOff
<1>2. /\ remote_mode_active' = FALSE /\ remote_access_power' = AllZero
      /\ routine_power' = AllZero /\ output_power' = AllZero
      /\ initial_ramp' = initial /\ ext_ramp' = ResetRamp
      /\ UpdatePower(Channels, AllZero, power_mode)
      /\ UNCHANGED <<front_panel_power, active, wrapped>>
  BY DEF ReceiveRemoteModeOff
<1>3. /\ initial \in [percent : 0..FullPercent, in_progress : BOOLEAN]
      /\ initial.percent = 0 /\ ~initial.in_progress
  BY Constants
<1> HIDE DEF initial
<1>4. power_mode \in Modes /\ AllZero \in Levels
  BY Constants DEF TypeOK, Modes
<1>5. /\ device_power' \in Levels /\ real_sent' \in Levels
      /\ wrap_sent' \in Levels /\ CacheIsDevice'
  <2> DEFINE none == AllZero
  <2>1. none \in Levels /\ UpdatePower(Channels, none, power_mode)
    BY <1>2, <1>4
  <2> HIDE DEF none
  <2> QED
    BY <1>2, <1>4, <2>1, UpdatePowerSends
<1>6. ResetRamp \in RampState
  BY DEF TypeOK, ResetRamp, RampState
<1>7. TypeOK'
  BY <1>1, <1>2, <1>3, <1>4, <1>5, <1>6 DEF TypeOK, RampState, core0Vars
<1>8. OutputLimits'
  <2> SUFFICES ASSUME NEW c \in Channels
               PROVE  Within(output_power'[c], front_panel_power'[c],
                             remote_access_power'[c], remote_mode_active',
                             initial_ramp'.percent)
    BY DEF OutputLimits
  <2>1. output_power'[c] = 0
    BY <1>2 DEF AllZero
  <2>2. /\ front_panel_power'[c] \in 0..FullPower
        /\ remote_access_power'[c] \in 0..FullPower
        /\ remote_mode_active' \in BOOLEAN
        /\ initial_ramp'.percent \in 0..FullPercent
    BY <1>7, ConstantsAssumption DEF TypeOK, Levels
  <2> QED
    BY <2>1, <2>2, ZeroWithin
<1>9. DeviceLimits'
  <2>1. \A c \in Channels \ Channels :
           Within(device_power[c], front_panel_power'[c],
                  remote_access_power'[c], remote_mode_active',
                  initial_ramp'.percent)
    OBVIOUS
  <2> QED
    BY <1>2, <1>4, <1>7, <1>8, <2>1, SentWithin
<1>10. Dormant'
  BY <1>2, <1>3 DEF Dormant
<1> QED
  BY <1>5, <1>7, <1>8, <1>9, <1>10

LEMMA ReceiveExtRampStartStep ==
  ASSUME IInv, ReceiveExtRampStart PROVE IInv'
<1> USE DEF IInv, PowerInv
<1>1. /\ fifo' \in Seq(Message) /\ Len(fifo') <= FifoSize
      /\ stage = "messages" /\ UNCHANGED <<core0Vars, stage>>
  BY ReceiveType DEF ReceiveExtRampStart
<1>2. [ext_ramp EXCEPT !.in_progress = TRUE] \in RampState
  BY DEF TypeOK, RampState
<1>3. 0 \in 0..(TickWrap - 1)
  BY Constants
<1>4. ext_ramp' \in RampState
  BY <1>2, <1>3, CalcRampType DEF ReceiveExtRampStart, RampState
<1>5. TypeOK'
  BY <1>1, <1>4
  DEF ReceiveExtRampStart, TypeOK, RampState, core0Vars, levelVars, channelVars
<1> QED
  BY <1>5
  DEF ReceiveExtRampStart, CacheIsDevice, Sent, OutputLimits, DeviceLimits,
      Dormant, levelVars, channelVars

LEMMA MessagesDoneStep ==
  ASSUME IInv, MessagesDone PROVE IInv'
  BY DEF IInv, PowerInv, MessagesDone, TypeOK, CacheIsDevice, Sent, OutputLimits,
         DeviceLimits, Dormant, core0Vars, levelVars, channelVars

LEMMA InitInv == Init => IInv
<1> SUFFICES ASSUME Init PROVE IInv
  OBVIOUS
<1>1. TypeOK
  BY InitType
<1>2. CacheIsDevice /\ Dormant
  BY DEF Init, CacheIsDevice, Sent, Dormant, AllZero
<1>3. OutputLimits /\ DeviceLimits
  BY <1>1, LevelsType, ZeroWithin
  DEF Init, OutputLimits, DeviceLimits, AllZero
<1> QED
  BY <1>1, <1>2, <1>3 DEF IInv, PowerInv

LEMMA NextInv == IInv /\ [Next]_vars => IInv'
<1> SUFFICES ASSUME IInv, [Next]_vars PROVE IInv'
  OBVIOUS
<1>1. CASE Core0 \/ Core0Call
  BY <1>1, Core0Step
<1>2. CASE Core1
  BY <1>2, RoutineLoopStep, ChannelsLoopStep, RampLoopStep, ReceiveLoadStep,
     ReceiveStopStep, ReceivePanelPowerStep, ReceiveRemotePowerStep,
     ReceiveRemoteModeOnStep, ReceiveRemoteModeOffStep,
     ReceiveExtRampStartStep, MessagesDoneStep
  DEF Core1
<1>3. CASE RoutineHandler
  BY <1>3, RoutineHandlerStep
<1>4. CASE UNCHANGED vars
  BY <1>4
  DEF IInv, PowerInv, TypeOK, CacheIsDevice, Sent, OutputLimits, DeviceLimits,
      Dormant, vars, core0Vars, core1Vars, levelVars, channelVars
<1> QED
  BY <1>1, <1>2, <1>3, <1>4 DEF Next

-----------------------------------------------------------------------------
(* The two caches of core 0.                                               *)

(* What a queue f leaves behind: its last message of S, the ones that set  *)
(* a level, is in T, the ones that set it right; without such a message    *)
(* the level is right already.                                             *)
Settles(f, S, T, right) ==
  \/ right /\ \A i \in 1..Len(f) : f[i] \notin S
  \/ \E i \in 1..Len(f) :
       f[i] \in T /\ \A j \in (i + 1)..Len(f) : f[j] \notin S

SetsPanel(c) == {m \in Message : m.type = "PANEL" /\ m.channel = c}
SetsPanelTo(c, p) == {m \in SetsPanel(c) : m.power = p}

(* a change of the remote mode zeroes the remote power of every channel *)
SetsRemote(c) == {m \in Message : \/ m.type = "MODE"
                                  \/ m.type = "REMOTE" /\ m.channel = c}
SetsRemoteTo(c, p) ==
  {m \in SetsRemote(c) : IF m.type = "MODE" THEN p = 0 ELSE m.power = p}

(* What is queued between the cores ends with core 1 knowing the caches. *)
PanelSettles ==
  \A c \in Channels : Settles(fifo, SetsPanel(c), SetsPanelTo(c, fp_cache[c]),
                              front_panel_power[c] = fp_cache[c])

RemoteSettles ==
  \A c \in Channels :
    Settles(fifo, SetsRemote(c), SetsRemoteTo(c, remote_cache[c]),
            remote_access_power[c] = Clamped(remote_cache[c]))

(* The calls core 0 has yet to make end with every remote power zero. *)
Zeroing(calls) ==
  /\ \A i \in 1..Len(calls) : calls[i].type = "REMOTE" => calls[i].power = 0
  /\ \A c \in Channels :
       \/ remote_cache[c] = 0
       \/ \E i \in 1..Len(calls) : calls[i].type = "REMOTE" /\ calls[i].channel = c

ChangesMode(calls) == \E i \in 1..Len(calls) : calls[i].type = "MODE"

(* A change of the remote mode is the last call of its function, and only  *)
(* a running session with dials as limits has remote powers to take back:  *)
(* whoever changes the mode has zeroed them, or never set one.             *)
ModeLast == \A i \in 1..(Len(todo) - 1) : todo[i].type # "MODE"
ZeroOutsideSessions ==
  \/ Zeroing(todo)
  \/ running /\ menu \in {"ws", "ble"} /\ ~ChangesMode(todo)

CacheInv == PanelSettles /\ RemoteSettles /\ ModeLast /\ ZeroOutsideSessions

(* Sequences, as the provers like them. *)
LEMMA TailIs ==
  ASSUME NEW s \in Seq(Message), s # <<>>
  PROVE  /\ Tail(s) \in Seq(Message) /\ Len(s) \in Nat \ {0}
         /\ Len(Tail(s)) = Len(s) - 1
         /\ Head(s) = s[1] /\ Head(s) \in Message
         /\ \A i \in 1..Len(Tail(s)) : Tail(s)[i] = s[i + 1]
  OBVIOUS

LEMMA AppendIs ==
  ASSUME NEW s \in Seq(Message), NEW m \in Message
  PROVE  /\ Len(s) \in Nat /\ Len(Append(s, m)) = Len(s) + 1
         /\ Append(s, m)[Len(s) + 1] = m
         /\ \A i \in 1..Len(s) : Append(s, m)[i] = s[i]
  OBVIOUS

(* A message that sets nothing changes nothing about how the queue ends... *)
LEMMA SettlesPast ==
  ASSUME NEW f \in Seq(Message), NEW m \in Message, NEW S, NEW T, NEW right,
         Settles(f, S, T, right), m \notin S
  PROVE  Settles(Append(f, m), S, T, right)
<1> DEFINE g == Append(f, m)
<1>1. /\ Len(f) \in Nat /\ Len(g) = Len(f) + 1 /\ g[Len(f) + 1] = m
      /\ \A i \in 1..Len(f) : g[i] = f[i]
  BY AppendIs
<1> HIDE DEF g
<1>2. CASE right /\ \A i \in 1..Len(f) : f[i] \notin S
  <2>1. \A i \in 1..Len(g) : g[i] \notin S
    BY <1>1, <1>2
  <2> QED
    BY <1>2, <2>1 DEF Settles, g
<1>3. CASE \E i \in 1..Len(f) :
             f[i] \in T /\ \A j \in (i + 1)..Len(f) : f[j] \notin S
  <2>1. PICK i \in 1..Len(f) :
          f[i] \in T /\ \A j \in (i + 1)..Len(f) : f[j] \notin S
    BY <1>3
  <2>2. i \in 1..Len(g) /\ g[i] \in T /\ \A j \in (i + 1)..Len(g) : g[j] \notin S
    BY <1>1, <2>1
  <2> QED
    BY <2>2 DEF Settles, g
<1> QED
  BY <1>2, <1>3 DEF Settles

(* ... and one that sets the level right settles it. *)
LEMMA SettlesWith ==
  ASSUME NEW f \in Seq(Message), NEW m \in Message, NEW S, NEW T, NEW right,
         m \in T
  PROVE  Settles(Append(f, m), S, T, right)
<1> DEFINE g == Append(f, m)
<1>1. Len(f) \in Nat /\ Len(g) = Len(f) + 1 /\ g[Len(f) + 1] = m
  BY AppendIs
<1> HIDE DEF g
<1>2. Len(g) \in 1..Len(g) /\ g[Len(g)] \in T
      /\ \A j \in (Len(g) + 1)..Len(g) : g[j] \notin S
  BY <1>1
<1> QED
  BY <1>2 DEF Settles, g

(* Reading a message keeps the queue's promise when reading one of T makes *)
(* the level right and reading one outside S leaves it so.                 *)
LEMMA SettlesTail ==
  ASSUME NEW f \in Seq(Message), f # <<>>, NEW S, NEW T, T \subseteq S,
         NEW right, NEW now, Settles(f, S, T, right),
         Head(f) \in T => now, Head(f) \notin S /\ right => now
  PROVE  Settles(Tail(f), S, T, now)
<1> DEFINE g == Tail(f)
<1>1. /\ Len(f) \in Nat \ {0} /\ Len(g) = Len(f) - 1 /\ Head(f) = f[1]
      /\ \A i \in 1..Len(g) : g[i] = f[i + 1]
  BY TailIs
<1> HIDE DEF g
<1>2. CASE right /\ \A i \in 1..Len(f) : f[i] \notin S
  <2>1. now /\ \A i \in 1..Len(g) : g[i] \notin S
    BY <1>1, <1>2
  <2> QED
    BY <2>1 DEF Settles, g
<1>3. CASE \E i \in 1..Len(f) :
             f[i] \in T /\ \A j \in (i + 1)..Len(f) : f[j] \notin S
  <2>1. PICK i \in 1..Len(f) :
          f[i] \in T /\ \A j \in (i + 1)..Len(f) : f[j] \notin S
    BY <1>3
  <2>2. CASE i = 1
    <3>1. now /\ \A j \in 1..Len(g) : g[j] \notin S
      BY <1>1, <2>1, <2>2
    <3> QED
      BY <3>1 DEF Settles, g
  <2>3. CASE i # 1
    <3>1. /\ i - 1 \in 1..Len(g) /\ g[i - 1] \in T
          /\ \A j \in ((i - 1) + 1)..Len(g) : g[j] \notin S
      BY <1>1, <2>1, <2>3
    <3> QED
      BY <3>1 DEF Settles, g
  <2> QED
    BY <2>2, <2>3
<1> QED
  BY <1>2, <1>3 DEF Settles

(* A set of messages that set the level right sets it. *)
LEMMA SetsSubsets ==
  ASSUME NEW c, NEW p
  PROVE  SetsPanelTo(c, p) \subseteq SetsPanel(c)
         /\ SetsRemoteTo(c, p) \subseteq SetsRemote(c)
  BY DEF SetsPanelTo, SetsRemoteTo

(* What core 1 reads, about one channel's dial and remote power. *)
LEMMA CacheReceived ==
  ASSUME TypeOK, CacheInv, NEW type, Receive(type),
         \A c \in Channels :
           /\ Head(fifo) \in SetsPanelTo(c, fp_cache[c])
                => front_panel_power'[c] = fp_cache[c]
           /\ Head(fifo) \notin SetsPanel(c)
                => front_panel_power'[c] = front_panel_power[c]
           /\ Head(fifo) \in SetsRemoteTo(c, remote_cache[c])
                => remote_access_power'[c] = Clamped(remote_cache[c])
           /\ Head(fifo) \notin SetsRemote(c)
                => remote_access_power'[c] = remote_access_power[c]
  PROVE  CacheInv'
<1>1. /\ fifo \in Seq(Message) /\ fifo # <<>> /\ fifo' = Tail(fifo)
      /\ UNCHANGED core0Vars
  BY DEF Receive, TypeOK
<1>2. PanelSettles'
  <2> SUFFICES ASSUME NEW c \in Channels
      PROVE Settles(fifo', SetsPanel(c), SetsPanelTo(c, fp_cache'[c]),
                    front_panel_power'[c] = fp_cache'[c])
    BY DEF PanelSettles, SetsPanel, SetsPanelTo
  <2> DEFINE S == SetsPanel(c)
             T == SetsPanelTo(c, fp_cache[c])
             right == front_panel_power[c] = fp_cache[c]
             now == front_panel_power'[c] = fp_cache[c]
  <2>1. T \subseteq S /\ Settles(fifo, S, T, right)
    BY SetsSubsets DEF CacheInv, PanelSettles
  <2>2. (Head(fifo) \in T => now) /\ (Head(fifo) \notin S /\ right => now)
    OBVIOUS
  <2>3. fp_cache' = fp_cache
    BY <1>1 DEF core0Vars
  <2> HIDE DEF S, T, right, now
  <2>4. Settles(Tail(fifo), S, T, now)
    BY <1>1, <2>1, <2>2, SettlesTail
  <2> QED
    BY <1>1, <2>3, <2>4 DEF S, T, now
<1>3. RemoteSettles'
  <2> SUFFICES ASSUME NEW c \in Channels
      PROVE Settles(fifo', SetsRemote(c), SetsRemoteTo(c, remote_cache'[c]),
                    remote_access_power'[c] = Clamped(remote_cache'[c]))
    BY DEF RemoteSettles, SetsRemote, SetsRemoteTo
  <2> DEFINE S == SetsRemote(c)
             T == SetsRemoteTo(c, remote_cache[c])
             right == remote_access_power[c] = Clamped(remote_cache[c])
             now == remote_access_power'[c] = Clamped(remote_cache[c])
  <2>1. T \subseteq S /\ Settles(fifo, S, T, right)
    BY SetsSubsets DEF CacheInv, RemoteSettles
  <2>2. (Head(fifo) \in T => now) /\ (Head(fifo) \notin S /\ right => now)
    OBVIOUS
  <2>3. remote_cache' = remote_cache
    BY <1>1 DEF core0Vars
  <2> HIDE DEF S, T, right, now
  <2>4. Settles(Tail(fifo), S, T, now)
    BY <1>1, <2>1, <2>2, SettlesTail
  <2> QED
    BY <1>1, <2>3, <2>4 DEF S, T, now
<1>4. ModeLast' /\ ZeroOutsideSessions'
  BY <1>1 DEF CacheInv, ModeLast, ZeroOutsideSessions, Zeroing, ChangesMode,
              core0Vars
<1> QED
  BY <1>2, <1>3, <1>4 DEF CacheInv

LEMMA PanelPowerCache ==
  ASSUME TypeOK, CacheInv, ReceivePanelPower PROVE CacheInv'
<1>1. /\ Receive("PANEL") /\ Head(fifo) \in Message /\ Head(fifo).type = "PANEL"
      /\ front_panel_power'
           = [front_panel_power EXCEPT ![Head(fifo).channel] = Head(fifo).power]
      /\ remote_access_power' = remote_access_power
  BY ReceiveType, Zenon DEF ReceivePanelPower
<1>2. \A c \in Channels :
        /\ Head(fifo) \in SetsPanelTo(c, fp_cache[c])
             => front_panel_power'[c] = fp_cache[c]
        /\ Head(fifo) \notin SetsPanel(c)
             => front_panel_power'[c] = front_panel_power[c]
        /\ Head(fifo) \notin SetsRemoteTo(c, remote_cache[c])
  BY <1>1 DEF SetsPanelTo, SetsPanel, SetsRemoteTo, SetsRemote, TypeOK
<1> QED
  BY <1>1, <1>2, CacheReceived

LEMMA RemotePowerCache ==
  ASSUME TypeOK, CacheInv, ReceiveRemotePower PROVE CacheInv'
<1>1. /\ Receive("REMOTE") /\ Head(fifo) \in Message /\ Head(fifo).type = "REMOTE"
      /\ remote_access_power' = [remote_access_power EXCEPT
           ![Head(fifo).channel] = Clamped(Head(fifo).power)]
      /\ front_panel_power' = front_panel_power
  BY ReceiveType, Zenon DEF ReceiveRemotePower
<1>2. \A c \in Channels :
        /\ Head(fifo) \in SetsRemoteTo(c, remote_cache[c])
             => remote_access_power'[c] = Clamped(remote_cache[c])
        /\ Head(fifo) \notin SetsRemote(c)
             => remote_access_power'[c] = remote_access_power[c]
        /\ Head(fifo) \notin SetsPanelTo(c, fp_cache[c])
  BY <1>1 DEF SetsPanelTo, SetsPanel, SetsRemoteTo, SetsRemote, TypeOK, Levels
<1> QED
  BY <1>1, <1>2, CacheReceived

LEMMA RemoteModeCache ==
  ASSUME TypeOK, CacheInv, ReceiveRemoteModeOn \/ ReceiveRemoteModeOff
  PROVE  CacheInv'
<1>1. /\ Receive("MODE") /\ Head(fifo) \in Message /\ Head(fifo).type = "MODE"
      /\ remote_access_power' = AllZero
      /\ front_panel_power' = front_panel_power
  BY ReceiveType, Zenon DEF ReceiveRemoteModeOn, ReceiveRemoteModeOff
<1>2. Clamped(0) = 0
  BY Constants DEF Clamped, MinOf
<1>3. \A c \in Channels :
        /\ Head(fifo) \in SetsRemoteTo(c, remote_cache[c])
             => remote_access_power'[c] = Clamped(remote_cache[c])
        /\ Head(fifo) \in SetsRemote(c)
        /\ Head(fifo) \notin SetsPanelTo(c, fp_cache[c])
  BY <1>1, <1>2 DEF SetsPanelTo, SetsPanel, SetsRemoteTo, SetsRemote, AllZero
<1> QED
  BY <1>1, <1>3, CacheReceived

(* The other messages leave the levels alone. *)
LEMMA OtherMessageCache ==
  ASSUME TypeOK, CacheInv, ReceiveLoad \/ ReceiveStop \/ ReceiveExtRampStart
  PROVE  CacheInv'
<1>1. PICK type \in {"LOAD", "STOP", "REINIT", "EXTRAMP"} : Receive(type)
  BY DEF ReceiveLoad, ReceiveStop, ReceiveExtRampStart
<1>2. /\ Head(fifo) \in Message
      /\ Head(fifo).type \in {"LOAD", "STOP", "REINIT", "EXTRAMP"}
  BY <1>1, ReceiveType
<1>3. remote_access_power' = remote_access_power
      /\ front_panel_power' = front_panel_power
  BY DEF ReceiveLoad, ReceiveStop, ReceiveExtRampStart, levelVars
<1>4. \A c \in Channels :
        /\ Head(fifo) \notin SetsRemoteTo(c, remote_cache[c])
        /\ Head(fifo) \notin SetsPanelTo(c, fp_cache[c])
  BY <1>2 DEF SetsPanelTo, SetsPanel, SetsRemoteTo, SetsRemote
<1> QED
  BY <1>1, <1>3, <1>4, CacheReceived

(* Making a call that leaves the caches alone, or that brings the remote   *)
(* one to what the call says, keeps the rest of the calls zeroing.         *)
LEMMA ZeroingTail ==
  ASSUME TypeOK, todo # <<>>, Zeroing(todo), todo' = Tail(todo),
         \A c \in Channels :
           IF Head(todo).type = "REMOTE" /\ Head(todo).channel = c
           THEN remote_cache'[c] = Head(todo).power
           ELSE remote_cache'[c] = remote_cache[c]
  PROVE  Zeroing(todo)'
<1>1. /\ Len(todo) \in Nat \ {0} /\ Len(todo') = Len(todo) - 1
      /\ Head(todo) = todo[1]
      /\ \A i \in 1..Len(todo') : todo'[i] = todo[i + 1]
  BY TailIs DEF TypeOK
<1>2. \A i \in 1..Len(todo') : todo'[i].type = "REMOTE" => todo'[i].power = 0
  BY <1>1 DEF Zeroing
<1>3. ASSUME NEW c \in Channels, remote_cache'[c] # 0
      PROVE  \E i \in 1..Len(todo') :
               todo'[i].type = "REMOTE" /\ todo'[i].channel = c
  <2>1. ~(Head(todo).type = "REMOTE" /\ Head(todo).channel = c)
    BY <1>1, <1>3 DEF Zeroing
  <2>2. remote_cache[c] # 0
    BY <1>3, <2>1
  <2>3. PICK i \in 1..Len(todo) : todo[i].type = "REMOTE" /\ todo[i].channel = c
    BY <2>2 DEF Zeroing
  <2>4. i - 1 \in 1..Len(todo') /\ todo'[i - 1] = todo[(i - 1) + 1]
    BY <1>1, <2>1, <2>3
  <2>5. (i - 1) + 1 = i
    BY <2>3, <1>1
  <2> QED
    BY <2>3, <2>4, <2>5
<1> QED
  BY <1>2, <1>3 DEF Zeroing

(* The order of core 0's calls is kept as they are made. *)
LEMMA CallsTail ==
  ASSUME TypeOK, CacheInv, todo # <<>>, todo' = Tail(todo),
         UNCHANGED <<menu, running>>,
         \A c \in Channels :
           IF Head(todo).type = "REMOTE" /\ Head(todo).channel = c
           THEN remote_cache'[c] = Head(todo).power
           ELSE remote_cache'[c] = remote_cache[c]
  PROVE  ModeLast' /\ ZeroOutsideSessions'
<1>1. /\ Len(todo) \in Nat \ {0} /\ Len(todo') = Len(todo) - 1
      /\ \A i \in 1..Len(todo') : todo'[i] = todo[i + 1]
  BY TailIs DEF TypeOK
<1>2. ModeLast'
  BY <1>1 DEF CacheInv, ModeLast
<1>3. ~ChangesMode(todo) => ~ChangesMode(todo)'
  BY <1>1 DEF ChangesMode
<1>4. Zeroing(todo) => Zeroing(todo)'
  BY ZeroingTail
<1> QED
  BY <1>2, <1>3, <1>4 DEF CacheInv, ZeroOutsideSessions

LEMMA SkipCallCache ==
  ASSUME TypeOK, CacheInv, SkipCall, UNCHANGED core1Vars PROVE CacheInv'
<1>1. /\ todo # <<>> /\ todo' = Tail(todo) /\ UNCHANGED <<menu, running>>
      /\ UNCHANGED <<fp_cache, remote_cache, fifo>>
      /\ UNCHANGED <<front_panel_power, remote_access_power>>
  BY DEF SkipCall, Idle, core1Vars, levelVars
<1>2. \A c \in Channels : Head(todo).type = "REMOTE" /\ Head(todo).channel = c
                            => remote_cache[c] = Head(todo).power
  BY DEF SkipCall, Unchanged
<1>3. ModeLast' /\ ZeroOutsideSessions'
  BY <1>1, <1>2, CallsTail
<1>4. PanelSettles' /\ RemoteSettles'
  BY <1>1 DEF CacheInv, PanelSettles, RemoteSettles, Settles, SetsPanel,
              SetsPanelTo, SetsRemote, SetsRemoteTo
<1> QED
  BY <1>3, <1>4 DEF CacheInv

(* A mode change is made when no remote power is left to take back. *)
LEMMA ModeAtZero ==
  ASSUME TypeOK, CacheInv, todo # <<>>, Head(todo).type = "MODE"
  PROVE  \A c \in Channels : remote_cache[c] = 0
<1>1. Len(todo) \in Nat \ {0} /\ Head(todo) = todo[1]
  BY TailIs DEF TypeOK
<1>2. Zeroing(todo)
  <2>1. ChangesMode(todo)
    <3>1. 1 \in 1..Len(todo) /\ todo[1].type = "MODE"
      BY <1>1
    <3> QED
      BY <3>1 DEF ChangesMode
  <2> QED
    BY <2>1 DEF CacheInv, ZeroOutsideSessions
<1>3. Len(todo) = 1
  <2>1. \A i \in 1..(Len(todo) - 1) : todo[i].type # "MODE"
    BY DEF CacheInv, ModeLast
  <2>2. 1 \notin 1..(Len(todo) - 1)
    BY <1>1, <2>1
  <2>3. Len(todo) \in Nat \ {0} /\ Len(todo) - 1 \in Nat
    BY <1>1
  <2> DEFINE n == Len(todo)
  <2> HIDE DEF n
  <2>4. n \in Nat \ {0} /\ 1 \notin 1..(n - 1)
    BY <2>2, <2>3 DEF n
  <2>5. n = 1
    BY <2>4
  <2> QED
    BY <2>5 DEF n
<1>4. \A i \in 1..Len(todo) : todo[i].type # "REMOTE"
  BY <1>1, <1>3
<1> QED
  BY <1>2, <1>4 DEF Zeroing

LEMMA PushCallCache ==
  ASSUME TypeOK, CacheInv, PushCall, UNCHANGED core1Vars PROVE CacheInv'
<1> DEFINE m == Head(todo)
<1>1. /\ todo # <<>> /\ todo' = Tail(todo) /\ UNCHANGED <<menu, running>>
      /\ fifo' = Append(fifo, m)
      /\ UNCHANGED <<front_panel_power, remote_access_power>>
      /\ fp_cache' = IF m.type = "PANEL"
                     THEN [fp_cache EXCEPT ![m.channel] = m.power] ELSE fp_cache
      /\ remote_cache' = IF m.type = "REMOTE"
                         THEN [remote_cache EXCEPT ![m.channel] = m.power]
                         ELSE remote_cache
  BY DEF PushCall, Idle, core1Vars, levelVars
<1>2. m \in Message /\ fifo \in Seq(Message)
  BY <1>1, TailIs DEF TypeOK
<1>3. m.type = "MODE" => \A c \in Channels : remote_cache[c] = 0
  BY <1>1, ModeAtZero
<1> HIDE DEF m
<1>4. \A c \in Channels :
        /\ fp_cache'[c] = IF m.type = "PANEL" /\ m.channel = c
                          THEN m.power ELSE fp_cache[c]
        /\ remote_cache'[c] = IF m.type = "REMOTE" /\ m.channel = c
                              THEN m.power ELSE remote_cache[c]
  BY <1>1 DEF TypeOK
<1>5. ModeLast' /\ ZeroOutsideSessions'
  BY <1>1, <1>4, CallsTail DEF m
<1>6. PanelSettles'
  <2> SUFFICES ASSUME NEW c \in Channels
      PROVE Settles(fifo', SetsPanel(c), SetsPanelTo(c, fp_cache'[c]),
                    front_panel_power'[c] = fp_cache'[c])
    BY DEF PanelSettles, SetsPanel, SetsPanelTo
  <2>1. CASE m \in SetsPanel(c)
    <3>1. m \in SetsPanelTo(c, fp_cache'[c])
      BY <1>4, <2>1 DEF SetsPanelTo, SetsPanel
    <3> QED
      BY <1>1, <1>2, <3>1, SettlesWith
  <2>2. CASE m \notin SetsPanel(c)
    <3>1. fp_cache'[c] = fp_cache[c] /\ front_panel_power'[c] = front_panel_power[c]
      BY <1>1, <1>2, <1>4, <2>2 DEF SetsPanel
    <3>2. Settles(fifo, SetsPanel(c), SetsPanelTo(c, fp_cache[c]),
                  front_panel_power[c] = fp_cache[c])
      BY DEF CacheInv, PanelSettles
    <3> DEFINE right == front_panel_power[c] = fp_cache[c]
    <3>3. Settles(fifo', SetsPanel(c), SetsPanelTo(c, fp_cache[c]), right)
      BY <1>1, <1>2, <2>2, <3>2, SettlesPast
    <3> QED
      BY <3>1, <3>3
  <2> QED
    BY <2>1, <2>2
<1>7. RemoteSettles'
  <2> SUFFICES ASSUME NEW c \in Channels
      PROVE Settles(fifo', SetsRemote(c), SetsRemoteTo(c, remote_cache'[c]),
                    remote_access_power'[c] = Clamped(remote_cache'[c]))
    BY DEF RemoteSettles, SetsRemote, SetsRemoteTo
  <2>1. CASE m \in SetsRemote(c)
    <3>1. m \in SetsRemoteTo(c, remote_cache'[c])
      BY <1>3, <1>4, <2>1 DEF SetsRemoteTo, SetsRemote
    <3> QED
      BY <1>1, <1>2, <3>1, SettlesWith
  <2>2. CASE m \notin SetsRemote(c)
    <3>1. /\ remote_cache'[c] = remote_cache[c]
          /\ remote_access_power'[c] = remote_access_power[c]
      BY <1>1, <1>2, <1>4, <2>2 DEF SetsRemote
    <3> DEFINE right == remote_access_power[c] = Clamped(remote_cache[c])
    <3>2. Settles(fifo, SetsRemote(c), SetsRemoteTo(c, remote_cache[c]), right)
      BY DEF CacheInv, RemoteSettles
    <3>3. Settles(fifo', SetsRemote(c), SetsRemoteTo(c, remote_cache[c]), right)
      BY <1>1, <1>2, <2>2, <3>2, SettlesPast
    <3> QED
      BY <3>1, <3>3
  <2> QED
    BY <2>1, <2>2
<1> QED
  BY <1>5, <1>6, <1>7 DEF CacheInv

-----------------------------------------------------------------------------
(* The functions of core 0.                                                *)

(* The calls of the loops over the channels. *)
LEMMA CallsAre ==
  /\ \A p : /\ Len(PanelPowersCalls(p)) = NumChannels
            /\ \A i \in 1..NumChannels : PanelPowersCalls(p)[i].type = "PANEL"
  /\ \A p : /\ Len(RemotePowersCalls(p)) = NumChannels
            /\ \A i \in 1..NumChannels :
                 /\ RemotePowersCalls(p)[i].type = "REMOTE"
                 /\ RemotePowersCalls(p)[i].channel = i - 1
                 /\ RemotePowersCalls(p)[i].power = p[i - 1]
  BY Constants DEF PanelPowersCalls, RemotePowersCalls, PanelPower, RemotePower

(* Stopping a session whose dials are limits zeroes every remote power. *)
LEMMA StopSessionIs ==
  /\ Len(StopSession) = IF menu = "ble_direct" THEN 1 ELSE NumChannels + 1
  /\ StopSession[1] = Stop
  /\ menu # "ble_direct" =>
       \A i \in 2..(NumChannels + 1) : StopSession[i].type = "REMOTE" /\
         StopSession[i].channel = i - 2 /\ StopSession[i].power = 0
  /\ StopSession \in Seq(Message)
<1> DEFINE zeros == RemotePowersCalls(AllZero)
<1>1. /\ zeros \in Seq(Message) /\ Len(zeros) = NumChannels
      /\ \A i \in 1..NumChannels :
           zeros[i].type = "REMOTE" /\ zeros[i].channel = i - 1 /\ zeros[i].power = 0
  BY CallsAre, CallsType, Constants DEF AllZero, Channels
<1>2. StopSession = <<Stop>> \o (IF menu = "ble_direct" THEN <<>> ELSE zeros)
  BY DEF StopSession, IfLimited
<1>3. NumChannels \in Nat /\ StopSession \in Seq(Message) /\ Stop \in Message
  BY CallsType, Constants DEF Stop, Message
<1> HIDE DEF zeros
<1>4. CASE menu = "ble_direct"
  BY <1>2, <1>3, <1>4
<1>5. CASE menu # "ble_direct"
  <2>1. StopSession = <<Stop>> \o zeros
    BY <1>2, <1>5
  <2>2. Len(StopSession) = NumChannels + 1 /\ StopSession[1] = Stop
        /\ \A i \in 2..(NumChannels + 1) : StopSession[i] = zeros[i - 1]
    BY <1>1, <1>3, <2>1
  <2> QED
    BY <1>1, <1>3, <1>5, <2>2
<1> QED
  BY <1>4, <1>5

(* A function that asks for no remote power and no mode change. *)
Plain(calls) ==
  \A i \in 1..Len(calls) : calls[i].type # "REMOTE" /\ calls[i].type # "MODE"

(* What a new function has to respect. *)
LEMMA BeginCache ==
  ASSUME TypeOK, CacheInv, NEW calls, Begin(calls),
         UNCHANGED core1Vars,
         (\A i \in 1..(Len(calls) - 1) : calls[i].type # "MODE"),
         \/ Zeroing(calls)
         \/ running' /\ menu' \in {"ws", "ble"} /\ ~ChangesMode(calls)
  PROVE  CacheInv'
<1>1. /\ todo' = calls /\ UNCHANGED <<fp_cache, remote_cache, fifo>>
      /\ UNCHANGED <<front_panel_power, remote_access_power>>
  BY DEF Begin, core1Vars, levelVars
<1>2. PanelSettles' /\ RemoteSettles'
  BY <1>1 DEF CacheInv, PanelSettles, RemoteSettles, Settles, SetsPanel,
              SetsPanelTo, SetsRemote, SetsRemoteTo
<1>3. Zeroing(calls) => Zeroing(todo)'
  BY <1>1 DEF Zeroing
<1>4. ModeLast' /\ ZeroOutsideSessions'
  BY <1>1, <1>3 DEF ModeLast, ZeroOutsideSessions, ChangesMode
<1> QED
  BY <1>2, <1>4 DEF CacheInv

(* Between two functions a board with no session that limits has nothing   *)
(* to take back.                                                           *)
LEMMA IdleZero ==
  ASSUME CacheInv, Idle, ~(running /\ menu \in {"ws", "ble"})
  PROVE  \A c \in Channels : remote_cache[c] = 0
  BY DEF CacheInv, ZeroOutsideSessions, Zeroing, Idle

LEMMA PlainZeroing ==
  ASSUME CacheInv, Idle, NEW calls, Plain(calls)
  PROVE  /\ \/ Zeroing(calls)
            \/ running /\ menu \in {"ws", "ble"}
         /\ ~ChangesMode(calls)
<1>1. CASE running /\ menu \in {"ws", "ble"}
  BY <1>1 DEF Plain, ChangesMode
<1>2. CASE ~(running /\ menu \in {"ws", "ble"})
  BY <1>2, IdleZero DEF Plain, Zeroing, ChangesMode
<1> QED
  BY <1>1, <1>2

(* A plain function that keeps the session, or that ends none. *)
LEMMA PlainCache ==
  ASSUME TypeOK, CacheInv, NEW calls, Begin(calls), Plain(calls),
         UNCHANGED core1Vars, Len(calls) \in Nat,
         running /\ menu \in {"ws", "ble"} => running' /\ menu' \in {"ws", "ble"}
  PROVE  CacheInv'
<1>1. Idle
  BY DEF Begin
<1>2. \A i \in 1..(Len(calls) - 1) : calls[i].type # "MODE"
  BY DEF Plain
<1> QED
  BY <1>1, <1>2, PlainZeroing, BeginCache

(* Leaving a session. *)
LEMMA StopSessionZeroing ==
  ASSUME CacheInv, Idle
  PROVE  Zeroing(StopSession) /\ ~ChangesMode(StopSession)
<1> USE StopSessionIs, Constants
<1>1. ~ChangesMode(StopSession)
  BY DEF ChangesMode, Stop
<1>2. \A i \in 1..Len(StopSession) :
        StopSession[i].type = "REMOTE" => StopSession[i].power = 0
  BY DEF Stop
<1>3. ASSUME NEW c \in Channels, remote_cache[c] # 0
      PROVE  \E i \in 1..Len(StopSession) :
               StopSession[i].type = "REMOTE" /\ StopSession[i].channel = c
  <2>1. menu \in {"ws", "ble"}
    BY <1>3, IdleZero
  <2>2. c + 2 \in 2..(NumChannels + 1) /\ (c + 2) - 2 = c
    BY DEF Channels
  <2> QED
    BY <2>1, <2>2
<1> QED
  BY <1>1, <1>2, <1>3 DEF Zeroing

LEMMA Core0Cache ==
  ASSUME TypeOK, CacheInv, Core0 PROVE CacheInv'
<1> UNCHANGED core1Vars
  BY DEF Core0
<1> USE CallsAre, Constants
<1>1. CASE PollFrontPanel
  <2>1. PICK p \in [Channels -> PanelPowers] : Begin(PanelPowersCalls(p))
    BY <1>1 DEF PollFrontPanel
  <2>2. Plain(PanelPowersCalls(p)) /\ Len(PanelPowersCalls(p)) \in Nat
    BY DEF Plain
  <2>3. UNCHANGED <<menu, running>>
    BY <1>1 DEF PollFrontPanel
  <2> QED
    BY <2>1, <2>2, <2>3, PlainCache
<1>2. CASE StartLocal
  <2>1. PICK simple \in RoutineConfigs : Begin(<<Load(simple)>>)
    BY <1>2 DEF StartLocal
  <2>2. Plain(<<Load(simple)>>) /\ Len(<<Load(simple)>>) \in Nat
    BY DEF Plain, Load
  <2>3. menu = "main" /\ running' = running
    BY <1>2 DEF StartLocal
  <2> QED
    BY <2>1, <2>2, <2>3, PlainCache
<1>3. CASE StartExtendedRamp
  <2>1. Begin(<<ExtRampStart>>) /\ UNCHANGED <<menu, running>>
    BY <1>3 DEF StartExtendedRamp
  <2>2. Plain(<<ExtRampStart>>) /\ Len(<<ExtRampStart>>) \in Nat
    BY DEF Plain, ExtRampStart
  <2> QED
    BY <2>1, <2>2, PlainCache
<1>4. CASE LeaveLocal
  <2>1. Begin(<<Stop>>) /\ menu = "local"
    BY <1>4 DEF LeaveLocal
  <2>2. Plain(<<Stop>>) /\ Len(<<Stop>>) \in Nat
    BY DEF Plain, Stop
  <2> QED
    BY <2>1, <2>2, PlainCache
<1>5. CASE EnterRemote
  <2> DEFINE calls == IfLimited(<<RemoteMode(TRUE)>>, menu')
  <2>1. Begin(calls) /\ menu = "main" /\ Idle
    BY <1>5 DEF EnterRemote, Begin
  <2>2. \A c \in Channels : remote_cache[c] = 0
    BY <2>1, IdleZero
  <2>3. /\ \A i \in 1..Len(calls) : calls[i].type # "REMOTE"
        /\ \A i \in 1..(Len(calls) - 1) : calls[i].type # "MODE"
    BY DEF IfLimited, RemoteMode
  <2>4. Zeroing(calls)
    BY <2>2, <2>3 DEF Zeroing
  <2> HIDE DEF calls
  <2> QED
    BY <2>1, <2>3, <2>4, BeginCache
<1>6. CASE RemoteStart
  <2>1. PICK simple \in RoutineConfigs :
          Begin(IF menu = "ble" THEN <<Load(simple)>> \o
                     RemotePowersCalls([c \in Channels |-> FullPower])
                ELSE <<Load(simple)>>)
    BY <1>6 DEF RemoteStart
  <2>2. running' = TRUE /\ menu' = menu
    BY <1>6 DEF RemoteStart
  <2>3. CASE menu = "ble"
    <3> DEFINE full == RemotePowersCalls([c \in Channels |-> FullPower])
               calls == <<Load(simple)>> \o full
    <3>1. /\ full \in Seq(Message) /\ Len(full) = NumChannels
          /\ \A i \in 1..NumChannels : full[i].type = "REMOTE"
      BY CallsType
    <3>2. Begin(calls)
      BY <2>1, <2>3
    <3>3. \A i \in 1..Len(calls) : calls[i].type # "MODE"
      <4> HIDE DEF full
      <4>1. /\ Len(calls) = NumChannels + 1 /\ calls[1] = Load(simple)
            /\ \A i \in 2..(NumChannels + 1) : calls[i] = full[i - 1]
        BY <3>1
      <4> QED
        BY <3>1, <4>1 DEF Load
    <3>4. Len(calls) \in Nat
      BY <3>1
    <3> HIDE DEF calls
    <3>5. /\ \A i \in 1..(Len(calls) - 1) : calls[i].type # "MODE"
          /\ ~ChangesMode(calls)
      BY <3>3, <3>4 DEF ChangesMode
    <3> QED
      BY <2>2, <2>3, <3>2, <3>5, BeginCache
  <2>4. CASE menu # "ble"
    <3>1. Begin(<<Load(simple)>>)
      BY <2>1, <2>4
    <3>2. Plain(<<Load(simple)>>) /\ Len(<<Load(simple)>>) \in Nat
      BY DEF Plain, Load
    <3> QED
      BY <2>2, <3>1, <3>2, PlainCache
  <2> QED
    BY <2>3, <2>4
<1>7. CASE RemoteSetPower
  <2>1. PICK p \in [Channels -> RemotePowers] : Begin(RemotePowersCalls(p))
    BY <1>7 DEF RemoteSetPower
  <2>2. running' /\ menu' \in {"ws", "ble"}
    BY <1>7 DEF RemoteSetPower
  <2> DEFINE calls == RemotePowersCalls(p)
  <2>3. /\ \A i \in 1..(Len(calls) - 1) : calls[i].type # "MODE"
        /\ ~ChangesMode(calls)
    BY DEF ChangesMode
  <2> HIDE DEF calls
  <2> QED
    BY <2>1, <2>2, <2>3, BeginCache DEF calls
<1>8. CASE RemoteStop
  <2>1. Begin(StopSession) /\ Idle
    BY <1>8 DEF RemoteStop, Begin
  <2>2. Zeroing(StopSession) /\ ~ChangesMode(StopSession)
    BY <2>1, StopSessionZeroing
  <2>3. \A i \in 1..(Len(StopSession) - 1) : StopSession[i].type # "MODE"
    BY <2>2, StopSessionIs DEF ChangesMode
  <2> QED
    BY <2>1, <2>2, <2>3, BeginCache
<1>9. CASE LeaveRemote
  <2> DEFINE stop == IF running THEN StopSession ELSE <<>>
             last == IfLimited(<<RemoteMode(FALSE)>>, menu)
             calls == stop \o last
  <2>1. Begin(calls) /\ Idle
    BY <1>9 DEF LeaveRemote, Begin
  <2>2. Zeroing(stop) /\ ~ChangesMode(stop)
    <3>1. CASE running
      BY <2>1, <3>1, StopSessionZeroing
    <3>2. CASE ~running
      BY <2>1, <3>2, IdleZero DEF Zeroing, ChangesMode
    <3> QED
      BY <3>1, <3>2
  <2>3. /\ stop \in Seq(Message) /\ last \in Seq(Message) /\ Len(last) \in {0, 1}
        /\ \A i \in 1..Len(last) : last[i].type = "MODE"
    <3>1. /\ <<>> \in Seq(Message) /\ <<RemoteMode(FALSE)>> \in Seq(Message)
          /\ StopSession \in Seq(Message)
      <4>1. FALSE \in BOOLEAN /\ <<>> \in Seq(Message)
        OBVIOUS
      <4>2. \A on \in BOOLEAN : <<RemoteMode(on)>> \in Seq(Message)
        BY CallsType
      <4> QED
        BY <4>1, <4>2, StopSessionIs
    <3>2. last = <<>> \/ last = <<RemoteMode(FALSE)>>
      BY DEF IfLimited
    <3>3. stop = <<>> \/ stop = StopSession
      OBVIOUS
    <3>4. \A i \in 1..Len(last) : last[i].type = "MODE"
      BY <3>2 DEF RemoteMode
    <3> HIDE DEF stop, last
    <3>5. Len(last) \in {0, 1}
      <4>1. Len(<<RemoteMode(FALSE)>>) = 1 /\ Len(<<>>) = 0
        OBVIOUS
      <4> QED
        BY <3>2, <4>1
    <3> QED
      BY <3>1, <3>2, <3>3, <3>4, <3>5
  <2> HIDE DEF stop, last
  <2>4. /\ Len(stop) \in Nat /\ Len(calls) = Len(stop) + Len(last)
        /\ \A i \in 1..Len(stop) : calls[i] = stop[i]
        /\ \A i \in (Len(stop) + 1)..Len(calls) : calls[i] = last[i - Len(stop)]
    BY <2>3
  <2> HIDE DEF calls
  <2>5. \A i \in (Len(stop) + 1)..Len(calls) : calls[i].type = "MODE"
    BY <2>3, <2>4
  <2>6. \A i \in 1..(Len(calls) - 1) : calls[i].type # "MODE"
    BY <2>2, <2>3, <2>4 DEF ChangesMode
  <2>7. Zeroing(calls)
    <3>1. \A i \in 1..Len(calls) : calls[i].type = "REMOTE" => calls[i].power = 0
      BY <2>2, <2>4, <2>5 DEF Zeroing
    <3>2. 1..Len(stop) \subseteq 1..Len(calls)
      BY <2>3, <2>4
    <3>3. ASSUME NEW c \in Channels, remote_cache[c] # 0
          PROVE  \E i \in 1..Len(calls) :
                   calls[i].type = "REMOTE" /\ calls[i].channel = c
      <4>1. PICK i \in 1..Len(stop) : stop[i].type = "REMOTE" /\ stop[i].channel = c
        BY <2>2, <3>3 DEF Zeroing
      <4> QED
        BY <2>4, <3>2, <4>1
    <3> QED
      BY <3>1, <3>3 DEF Zeroing
  <2> QED
    BY <2>1, <2>6, <2>7, BeginCache
<1>10. CASE SaveChannelConfig
  <2>1. Begin(<<Reinit>>) /\ UNCHANGED <<menu, running>>
    BY <1>10 DEF SaveChannelConfig
  <2>2. Plain(<<Reinit>>) /\ Len(<<Reinit>>) \in Nat
    BY DEF Plain, Reinit
  <2> QED
    BY <2>1, <2>2, PlainCache
<1>11. CASE ChangePowerMode
  BY <1>11
  DEF ChangePowerMode, CacheInv, PanelSettles, RemoteSettles, Settles, SetsPanel,
      SetsPanelTo, SetsRemote, SetsRemoteTo, ModeLast, ZeroOutsideSessions,
      Zeroing, ChangesMode, core1Vars, levelVars
<1> QED
  BY <1>1, <1>2, <1>3, <1>4, <1>5, <1>6, <1>7, <1>8, <1>9, <1>10, <1>11 DEF Core0

(* A step that moves no message and no level. *)
LEMMA QuietCache ==
  ASSUME CacheInv,
         UNCHANGED <<core0Vars, fifo, front_panel_power, remote_access_power>>
  PROVE  CacheInv'
  BY DEF CacheInv, PanelSettles, RemoteSettles, Settles, SetsPanel, SetsPanelTo,
         SetsRemote, SetsRemoteTo, ModeLast, ZeroOutsideSessions, Zeroing,
         ChangesMode, core0Vars

LEMMA InitCache == Init => CacheInv
<1> SUFFICES ASSUME Init PROVE CacheInv
  OBVIOUS
<1>1. Clamped(0) = 0
  BY Constants DEF Clamped, MinOf
<1> QED
  BY <1>1 DEF Init, CacheInv, PanelSettles, RemoteSettles, Settles, ModeLast,
              ZeroOutsideSessions, Zeroing, AllZero

LEMMA NextCache == TypeOK /\ CacheInv /\ [Next]_vars => CacheInv'
<1> SUFFICES ASSUME TypeOK, CacheInv, [Next]_vars PROVE CacheInv'
  OBVIOUS
<1>1. CASE Core0
  BY <1>1, Core0Cache
<1>2. CASE Core0Call
  BY <1>2, SkipCallCache, PushCallCache DEF Core0Call
<1>3. CASE RoutineLoop \/ RoutineHandler \/ ChannelsLoop \/ MessagesDone
  BY <1>3, QuietCache
  DEF RoutineLoop, RoutineHandler, ChannelsLoop, MessagesDone, levelVars
<1>4. CASE \E step, calc \in BOOLEAN : RampLoop(step, calc)
  BY <1>4, QuietCache DEF RampLoop, levelVars
<1>5. CASE ReceivePanelPower \/ ReceiveRemotePower
  BY <1>5, PanelPowerCache, RemotePowerCache
<1>6. CASE ReceiveRemoteModeOn \/ ReceiveRemoteModeOff
  BY <1>6, RemoteModeCache
<1>7. CASE ReceiveLoad \/ ReceiveStop \/ ReceiveExtRampStart
  BY <1>7, OtherMessageCache
<1>8. CASE UNCHANGED vars
  BY <1>8, QuietCache DEF vars, core1Vars, levelVars
<1> QED
  BY <1>1, <1>2, <1>3, <1>4, <1>5, <1>6, <1>7, <1>8 DEF Next, Core1

-----------------------------------------------------------------------------
(* The theorems.                                                           *)

LEMMA Invariance == Spec => []IInv
  BY InitInv, NextInv, PTL DEF Spec

(* Every message, level, cache and ramp keeps its range, for any number of *)
(* channels and whatever the clients ask for.                              *)
THEOREM TypeCorrect == Spec => []TypeOK
<1>1. IInv => TypeOK
  BY DEF IInv
<1> QED
  BY <1>1, Invariance, PTL

(* The cache of the channel object in use is the power the output module   *)
(* was last told.                                                          *)
THEOREM CacheCorrect == Spec => []CacheIsDevice
<1>1. IInv => CacheIsDevice
  BY DEF IInv, PowerInv
<1> QED
  BY <1>1, Invariance, PTL

(* The dial, the client's power and the initial ramp each limit the output *)
(* at every moment, to within one unit of rounding.                        *)
THEOREM PowerLimited == Spec => []PowerLimits
<1>1. IInv => PowerLimits
  BY InvImplies DEF PowerLimits
<1> QED
  BY <1>1, Invariance, PTL

(* No routine, no output.                                                  *)
THEOREM SilentWhenStopped == Spec => []SilentWithoutRoutine
<1>1. IInv => SilentWithoutRoutine
  BY InvImplies
<1> QED
  BY <1>1, Invariance, PTL

(* A routine starts from silence: the ramp limit of the state after the    *)
(* step leaves nothing, whatever ran before.                               *)
THEOREM RoutinesStartSilent == Spec => StartsSilent
<1>1. IInv' => (initial_ramp'.in_progress /\ initial_ramp'.percent = 0
                => device_power' = AllZero)
  <2> SUFFICES ASSUME IInv', initial_ramp'.percent = 0
               PROVE  device_power' = AllZero
    OBVIOUS
  <2>1. ASSUME NEW c \in Channels PROVE device_power'[c] = 0
    <3>1. Within(device_power'[c], front_panel_power'[c],
                 remote_access_power'[c], remote_mode_active', 0)
      BY DEF IInv, PowerInv, DeviceLimits
    <3>2. front_panel_power'[c] \in 0..FullPower
      BY ConstantsAssumption DEF IInv, TypeOK
    <3> QED
      BY <3>1, <3>2, WithinZero
  <2>2. device_power' \in [Channels -> 0..FullPower]
    BY DEF IInv, TypeOK, Levels
  <2> QED
    BY <2>1, <2>2 DEF AllZero
<1>2. IInv /\ [Next]_vars =>
        [initial_ramp'.in_progress /\ initial_ramp'.percent = 0
           => device_power' = AllZero]_vars
  BY <1>1, NextInv
<1> QED
  BY <1>2, Invariance, PTL DEF Spec, StartsSilent

(* Core 0 never skips a dial or remote power that core 1 lacks: once the   *)
(* queue between them is empty their levels agree, although core 1 zeroes  *)
(* the remote powers by itself at every change of mode.                    *)
THEOREM CachesNeverStale == Spec => []CachesAgree
<1>1. TypeOK /\ CacheInv /\ [Next]_vars => CacheInv'
  BY NextCache
<1>2. CacheInv => CachesAgree
  BY DEF CacheInv, PanelSettles, RemoteSettles, Settles, CachesAgree, Clamped
<1> QED
  BY <1>1, <1>2, InitCache, TypeCorrect, PTL DEF Spec

=============================================================================
