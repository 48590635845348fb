-------------------------- MODULE PulseOutputProofs --------------------------
(***************************************************************************)
(* The ZC624 keeps its promise about isolation, for any number of          *)
(* channels, pulse lengths, offsets and queue sizes: the detailed module   *)
(* implements IsolatedOutput.                                              *)
(*                                                                         *)
(* The heart of the invariant is Isolated: once settled, no PIO has a      *)
(* pulse waiting, and gap outlasts every pulse that runs and the silence   *)
(* still owed after it.  A pulse in hand finds the output silent, also the *)
(* one that get_queued_pulse took by a register value since changed.       *)
(***************************************************************************)
EXTENDS PulseOutput, TLAPS

(* a PIO takes the next pulse of its FIFO at once *)
PioBusy == \A c \in Channel : running[c] = 0 => pio[c] = <<>>

(* the silence promised *)
Distance == Gap - Delay

Isolated ==
  settled => /\ isolation
             /\ \A c \in Channel : pio[c] = <<>>
             /\ \A c \in Channel : running[c] > 0 => gap >= running[c] + Distance
             /\ Silent(running) => silence + gap >= Distance
             /\ stage = "take" /\ ~asked => Silent(running) /\ silence = Gap
             /\ stage = "start" => Silent(running) /\ silence >= Distance

(* a pulse is not in hand for longer than Delay *)
InHand == stage = "start" => Held \in 0..Delay

HaltFinal == ~powered => stage # "spi" /\ \A c \in Channel : ~on[c]

IInv == /\ TypeOK /\ FollowersNotDriven
        /\ HaltFinal /\ PioBusy /\ Isolated /\ InHand

-----------------------------------------------------------------------------
(* Helpers.                                                                *)

LEMMA DistanceType == Gap \in Nat /\ Delay \in Nat /\ Distance \in Nat /\ Distance <= Gap
BY PulseAssumption DEF Distance

LEMMA OffsetType ==
  ASSUME NEW offset \in 0..100, NEW len \in Nat
  PROVE  (offset * len) \div 100 \in Nat
<1>1. offset * len \in Nat
  OBVIOUS
<1> QED BY <1>1

LEMMA LessType ==
  ASSUME NEW n \in Nat
  PROVE  Less(n) \in Nat /\ (n > 0 => Less(n) = n - 1) /\ (n = 0 => Less(n) = 0)
BY DEF Less

LEMMA QueuedType ==
  ASSUME NEW q \in Seq(QueuedPulse), Len(q) <= QueueSize,
         NEW c \in Channel, NEW len \in Lengths, NEW wait \in Nat
  PROVE  Queued(q, c, len, wait) \in Seq(QueuedPulse)
         /\ Len(Queued(q, c, len, wait)) <= QueueSize
<1>1. [channel |-> c, len |-> len, wait |-> wait] \in QueuedPulse
  BY DEF QueuedPulse
<1>2. Append(q, [channel |-> c, len |-> len, wait |-> wait]) \in Seq(QueuedPulse)
  BY <1>1
<1> QED BY <1>2, PulseAssumption DEF Queued

LEMMA TailQueue ==
  ASSUME NEW S, NEW q \in Seq(S), q # <<>>
  PROVE  Tail(q) \in Seq(S) /\ Len(Tail(q)) = Len(q) - 1 /\ Len(q) \in Nat
         /\ Head(q) \in S
OBVIOUS

(* what do_pulse leaves of the PIO state machines *)
LEMMA DoPulseType ==
  ASSUME TypeOK, PioBusy, NEW c \in Channel, NEW len \in Lengths, DoPulse(c, len)
  PROVE  /\ pio' \in [Channel -> Seq(Lengths)]
         /\ \A d \in Channel : Len(pio'[d]) <= PioDepth
         /\ running' \in [Channel -> Nat]
         /\ PioBusy'
<1>0. len \in Nat /\ len > 0
  BY PulseAssumption
<1>1. CASE running[c] = 0
  BY <1>0, <1>1 DEF DoPulse, TypeOK, PioBusy
<1>2. CASE running[c] # 0 /\ Len(pio[c]) < PioDepth
  <2>1. /\ pio' = [pio EXCEPT ![c] = Append(pio[c], len)]
        /\ running' = running
    BY <1>2 DEF DoPulse
  <2>2. Append(pio[c], len) \in Seq(Lengths) /\ Len(Append(pio[c], len)) <= PioDepth
    BY <1>2, PulseAssumption DEF TypeOK
  <2>3. pio' \in [Channel -> Seq(Lengths)] /\ \A d \in Channel : Len(pio'[d]) <= PioDepth
    BY <2>1, <2>2 DEF TypeOK
  <2>4. \A d \in Channel : d # c => pio'[d] = pio[d]
    BY <2>1 DEF TypeOK
  <2> QED BY <1>2, <2>1, <2>3, <2>4 DEF PioBusy, TypeOK
<1>3. CASE running[c] # 0 /\ ~(Len(pio[c]) < PioDepth)
  BY <1>3 DEF DoPulse, TypeOK, PioBusy
<1> QED BY <1>1, <1>2, <1>3

-----------------------------------------------------------------------------
LEMMA InitIInv == Init => IInv
<1>1. SUFFICES ASSUME Init PROVE IInv
  OBVIOUS
<1>2. NoLinks \in [Channel -> [to : Channel \cup {None}, offset : 0..100]]
  BY DEF NoLinks, Unlinked
<1>3. \A c \in Channel : NoLinks[c].to = None
  BY DEF NoLinks, Unlinked
<1>4. queue \in Seq(QueuedPulse) /\ Len(queue) <= QueueSize
  BY <1>1, PulseAssumption DEF Init
<1>5. /\ pio \in [Channel -> Seq(Lengths)]
      /\ \A c \in Channel : pio[c] = <<>> /\ Len(pio[c]) <= PioDepth
  BY <1>1, PulseAssumption DEF Init
<1>6. running \in [Channel -> Nat] /\ \A c \in Channel : running[c] = 0
  BY <1>1 DEF Init
<1>7. TypeOK
  <2>1. /\ stage = "spi" /\ hand = None /\ isolation = TRUE /\ seen = TRUE /\ asked = FALSE
        /\ link = NoLinks /\ powered = TRUE /\ settled = TRUE /\ silence = Gap /\ gap = 0
        /\ width \in [Channel -> Widths] /\ on \in [Channel -> BOOLEAN]
    BY <1>1 DEF Init
  <2>2. silence \in 0..Gap
    BY <2>1, DistanceType
  <2>3. stage \in {"start", "follow"} => hand \in QueuedPulse
    BY <2>1
  <2> QED BY <1>2, <1>4, <1>5, <1>6, <2>1, <2>2, <2>3 DEF TypeOK
<1>8. FollowersNotDriven /\ HaltFinal
  BY <1>1, <1>3 DEF Init, FollowersNotDriven, HaltFinal
<1>9. PioBusy /\ Isolated /\ InHand
  BY <1>1, <1>5, <1>6, DistanceType DEF Init, PioBusy, Isolated, InHand, Silent
<1> QED BY <1>7, <1>8, <1>9 DEF IInv

-----------------------------------------------------------------------------
(* The steps, one lemma for the SPI commands, which leave the pulses alone, *)
(* and one for each of the others.                                         *)

LinkType == [to : Channel \cup {None}, offset : 0..100]

(* what the SPI commands have in common *)
LEMMA CommandStep ==
  ASSUME IInv, Command,
         link' \in [Channel -> LinkType], on' \in [Channel -> BOOLEAN],
         width' \in [Channel -> Widths],
         queue' \in Seq(QueuedPulse), Len(queue') <= QueueSize,
         powered' \in BOOLEAN,
         FollowersNotDriven',
         powered' \/ \A c \in Channel : ~on'[c]
  PROVE  IInv'
<1> USE DEF Command, pioVars, history
<1>1. TypeOK'
  BY DEF IInv, TypeOK, LinkType
<1>2. HaltFinal' /\ PioBusy' /\ Isolated' /\ InHand'
  BY DEF IInv, HaltFinal, PioBusy, Isolated, InHand, Silent
<1> QED BY <1>1, <1>2 DEF IInv

LEMMA SpiStep ==
  ASSUME IInv, SpiCommand
  PROVE  IInv'
<1>0. /\ link \in [Channel -> LinkType] /\ on \in [Channel -> BOOLEAN]
      /\ width \in [Channel -> Widths]
      /\ queue \in Seq(QueuedPulse) /\ Len(queue) <= QueueSize
      /\ powered \in BOOLEAN
  BY DEF IInv, TypeOK, LinkType
<1>1. FollowersNotDriven
  BY DEF IInv
<1>2. ASSUME stage = "spi" PROVE powered
  BY <1>0, <1>2 DEF IInv, HaltFinal
<1>3. Unlinked \in LinkType
  BY DEF Unlinked, LinkType
<1>4. CASE NoCommand
  BY <1>0, <1>1, <1>2, <1>4, CommandStep
  DEF NoCommand, Command, linkVars, FollowersNotDriven
<1>5. CASE PowerDown
  <2>1. on' \in [Channel -> BOOLEAN] /\ \A c \in Channel : ~on'[c]
    BY <1>5 DEF PowerDown
  <2>2. FollowersNotDriven'
    BY <1>0, <1>5, <2>1, PulseAssumption DEF PowerDown, FollowersNotDriven, LinkType
  <2> QED BY <1>0, <1>5, <2>1, <2>2, CommandStep DEF PowerDown
<1>6. ASSUME NEW c \in Channel, SwitchOn(c) PROVE IInv'
  <2>1. link' \in [Channel -> LinkType]
    BY <1>0, <1>3, <1>6 DEF SwitchOn, UnlinkedFrom
  <2>2. \A l \in Channel : link'[l].to # None => link'[l].to # c /\ link'[l] = link[l]
    BY <1>0, <1>6 DEF SwitchOn, UnlinkedFrom, Unlinked
  <2>3. on' \in [Channel -> BOOLEAN] /\ \A d \in Channel : d # c => on'[d] = on[d]
    BY <1>0, <1>6 DEF SwitchOn
  <2>4. \A l \in Channel : link'[l].to # None => link'[l].to \in Channel
    BY <2>1 DEF LinkType
  <2>5. FollowersNotDriven'
    BY <1>1, <2>2, <2>3, <2>4 DEF FollowersNotDriven
  <2> QED BY <1>0, <1>2, <1>6, <2>1, <2>3, <2>5, CommandStep DEF SwitchOn, Command
<1>7. ASSUME NEW c \in Channel, SwitchOff(c) PROVE IInv'
  <2>1. on' \in [Channel -> BOOLEAN] /\ \A d \in Channel : on'[d] => on[d]
    BY <1>0, <1>7 DEF SwitchOff
  <2>2. link' = link /\ \A l \in Channel : link[l].to # None => link[l].to \in Channel
    BY <1>0, <1>7 DEF SwitchOff, LinkType
  <2>3. FollowersNotDriven'
    BY <1>1, <2>1, <2>2 DEF FollowersNotDriven
  <2> QED BY <1>0, <1>2, <1>7, <2>1, <2>3, CommandStep DEF SwitchOff, Command
<1>8. ASSUME NEW c \in Channel, NEW len \in Lengths, Pulse(c, len) PROVE IInv'
  <2>1. queue' \in Seq(QueuedPulse) /\ Len(queue') <= QueueSize
    BY <1>0, <1>8, QueuedType DEF Pulse
  <2> QED BY <1>0, <1>1, <1>2, <1>8, <2>1, CommandStep
          DEF Pulse, Command, linkVars, FollowersNotDriven
<1>9. ASSUME NEW c \in Channel, NEW len \in Widths, SetPulseWidth(c, len)
      PROVE  IInv'
  <2>1. width' \in [Channel -> Widths]
    BY <1>0, <1>9 DEF SetPulseWidth
  <2> QED BY <1>0, <1>1, <1>2, <1>9, <2>1, CommandStep
          DEF SetPulseWidth, Command, FollowersNotDriven
<1>10. ASSUME NEW lead \in Channel, NEW linked \in Channel \cup {None},
              NEW offset \in Offsets, SyncChannel(lead, linked, offset)
       PROVE  IInv'
  <2>0. powered' = powered /\ width' = width /\ queue' = queue /\ Command /\ powered
    BY <1>2, <1>10 DEF SyncChannel, Command
  <2>1. CASE lead = linked \/ isolation
    <3>1. link' = link /\ on' = on
      BY <1>10, <2>1 DEF SyncChannel
    <3> QED BY <1>0, <1>1, <2>0, <3>1, CommandStep DEF FollowersNotDriven
  <2>2. CASE ~(lead = linked \/ isolation) /\ linked = None
    <3>1. link' = [link EXCEPT ![lead] = Unlinked] /\ on' = on
      BY <1>10, <2>2 DEF SyncChannel
    <3>2. link' \in [Channel -> LinkType]
          /\ \A l \in Channel : link'[l].to # None => link'[l] = link[l]
      BY <1>0, <1>3, <3>1 DEF Unlinked
    <3>3. FollowersNotDriven'
      BY <1>1, <3>1, <3>2 DEF FollowersNotDriven
    <3> QED BY <1>0, <2>0, <3>1, <3>2, <3>3, CommandStep
  <2>3. CASE ~(lead = linked \/ isolation) /\ linked # None
    <3>1. /\ link' = [link EXCEPT ![lead] = [to |-> linked, offset |-> offset]]
          /\ on' = [on EXCEPT ![linked] = FALSE] /\ linked \in Channel
      BY <1>10, <2>3 DEF SyncChannel
    <3>2. [to |-> linked, offset |-> offset] \in LinkType
      BY <3>1, PulseAssumption DEF LinkType
    <3>3. link' \in [Channel -> LinkType]
          /\ link'[lead].to = linked
          /\ \A l \in Channel : l # lead => link'[l] = link[l]
      BY <1>0, <3>1, <3>2
    <3>4. on' \in [Channel -> BOOLEAN] /\ ~on'[linked]
          /\ \A d \in Channel : on'[d] => on[d]
      BY <1>0, <3>1
    <3>5. \A l \in Channel : link[l].to # None => link[l].to \in Channel
      BY <1>0 DEF LinkType
    <3>6. FollowersNotDriven'
      BY <1>1, <3>3, <3>4, <3>5 DEF FollowersNotDriven
    <3> QED BY <1>0, <2>0, <3>3, <3>4, <3>6, CommandStep
  <2> QED BY <2>1, <2>2, <2>3
<1> QED BY <1>4, <1>5, <1>6, <1>7, <1>8, <1>9, <1>10 DEF SpiCommand

LEMMA CheckIsolationStep ==
  ASSUME IInv, CheckIsolation
  PROVE  IInv'
<1>1. link' \in [Channel -> LinkType]
      /\ \A l \in Channel : link'[l].to # None => link'[l] = link[l]
  BY DEF CheckIsolation, IInv, TypeOK, LinkType, NoLinks, Unlinked
<1>2. TypeOK'
  BY <1>1 DEF CheckIsolation, IInv, TypeOK, LinkType, pioVars, history
<1>3. FollowersNotDriven'
  BY <1>1 DEF CheckIsolation, IInv, FollowersNotDriven
<1>4. HaltFinal' /\ PioBusy' /\ Isolated' /\ InHand'
  BY DEF CheckIsolation, IInv, HaltFinal, PioBusy, Isolated, InHand, Silent, pioVars, history
<1> QED BY <1>2, <1>3, <1>4 DEF IInv

LEMMA AskIsolationStep ==
  ASSUME IInv, AskIsolation
  PROVE  IInv'
<1> USE DEF AskIsolation, linkVars, pioVars, history
<1>1. TypeOK'
  BY DEF IInv, TypeOK
<1>2. FollowersNotDriven' /\ HaltFinal' /\ PioBusy' /\ InHand'
  BY DEF IInv, FollowersNotDriven, HaltFinal, PioBusy, InHand
<1>3. settled => asked'
  BY DEF IInv, Isolated
<1>4. Isolated'
  BY <1>3 DEF IInv, Isolated, Silent
<1> QED BY <1>1, <1>2, <1>4 DEF IInv

LEMMA NothingDueStep ==
  ASSUME IInv, NothingDue
  PROVE  IInv'
<1>1. TypeOK'
  BY DEF NothingDue, LoopEnd, IInv, TypeOK, linkVars, pioVars, history
<1>2. FollowersNotDriven' /\ PioBusy' /\ Isolated' /\ InHand'
  BY DEF NothingDue, LoopEnd, IInv, FollowersNotDriven, PioBusy, Isolated, InHand, Silent,
         linkVars, pioVars, history
<1>3. HaltFinal'
  BY DEF NothingDue, LoopEnd, IInv, TypeOK, HaltFinal, linkVars
<1> QED BY <1>1, <1>2, <1>3 DEF IInv

LEMMA TimerStep ==
  ASSUME IInv, NEW c \in Channel, TimerCallback(c)
  PROVE  IInv'
<1>1. width[c] \in Lengths
  BY PulseAssumption DEF IInv, TypeOK
<1>2. queue' \in Seq(QueuedPulse) /\ Len(queue') <= QueueSize
  BY <1>1, QueuedType DEF TimerCallback, IInv, TypeOK
<1>3. TypeOK'
  BY <1>2 DEF TimerCallback, IInv, TypeOK, loopVars, linkVars, pioVars, history
<1>4. FollowersNotDriven' /\ HaltFinal' /\ PioBusy' /\ Isolated' /\ InHand'
  BY DEF TimerCallback, IInv, FollowersNotDriven, HaltFinal, PioBusy, Isolated,
         InHand, Held, Silent, loopVars, linkVars, pioVars, history
<1> QED BY <1>3, <1>4 DEF IInv

LEMMA IsolationStep ==
  ASSUME IInv, NEW value \in BOOLEAN, WriteIsolation(value)
  PROVE  IInv'
<1> USE DEF WriteIsolation, loopVars, linkVars, pioVars
<1>1. TypeOK'
  <2>1. settled' \in BOOLEAN
    OBVIOUS
  <2> QED BY <2>1 DEF IInv, TypeOK
<1>2. FollowersNotDriven' /\ HaltFinal' /\ PioBusy' /\ InHand'
  BY DEF IInv, FollowersNotDriven, HaltFinal, PioBusy, InHand, Held
<1>3. Isolated'
  <2>1. SUFFICES ASSUME settled' PROVE Isolated'
    BY DEF Isolated
  <2>2. CASE settled
    BY <2>1, <2>2 DEF IInv, Isolated, Silent
  <2>3. CASE Silent(running) /\ silence = Gap
    BY <2>1, <2>3, DistanceType DEF IInv, TypeOK, PioBusy, Isolated, Silent
  <2> QED BY <2>1, <2>2, <2>3
<1> QED BY <1>1, <1>2, <1>3 DEF IInv

LEMMA TakePulseStep ==
  ASSUME IInv, TakePulse
  PROVE  IInv'
<1> DEFINE p == Head(queue)
<1>1. /\ queue \in Seq(QueuedPulse) /\ queue # <<>> /\ Len(queue) <= QueueSize
      /\ Lengths \subseteq Nat \ {0}
  BY PulseAssumption DEF TakePulse, Due, IInv, TypeOK
<1>2. p \in QueuedPulse /\ Tail(queue) \in Seq(QueuedPulse) /\ Len(Tail(queue)) <= QueueSize
  BY <1>1, TailQueue, PulseAssumption
<1>3. \A q \in QueuedPulse : q.len \in Nat
  BY <1>1 DEF QueuedPulse
<1>4. /\ stage = "take" /\ stage' = "start" /\ hand' = p /\ queue' = Tail(queue)
      /\ gap' = p.len + Gap /\ asked' = FALSE /\ (asked => gap = 0)
      /\ UNCHANGED <<seen, isolation, link, on, width, pio, running, powered, settled, silence>>
  BY DEF TakePulse, Due, linkVars, pioVars, history
<1>5. p.len \in Nat
  BY <1>2, <1>3
<1> HIDE DEF p
<1>6. TypeOK'
  <2>1. gap' \in Nat
    BY <1>4, <1>5, DistanceType
  <2>2. hand' \in QueuedPulse /\ queue' \in Seq(QueuedPulse) /\ Len(queue') <= QueueSize
    BY <1>2, <1>4
  <2> QED BY <1>4, <2>1, <2>2 DEF IInv, TypeOK
<1>7. FollowersNotDriven' /\ HaltFinal' /\ PioBusy'
  BY <1>4 DEF IInv, FollowersNotDriven, HaltFinal, PioBusy
<1>8. InHand'
  BY <1>4, <1>5, DistanceType DEF InHand, Held
<1>9. Isolated'
  <2>1. SUFFICES ASSUME settled PROVE Isolated'
    BY <1>4 DEF Isolated
  <2>2. running \in [Channel -> Nat] /\ silence \in 0..Gap /\ gap \in Nat /\ asked \in BOOLEAN
    BY DEF IInv, TypeOK
  <2>3. Silent(running) /\ silence >= Distance
    <3>1. CASE asked
      <4>1. /\ gap = 0 /\ \A c \in Channel : running[c] > 0 => gap >= running[c] + Distance
            /\ Silent(running) => silence + gap >= Distance
        BY <1>4, <2>1, <3>1 DEF IInv, Isolated
      <4>2. ASSUME NEW c \in Channel PROVE running[c] = 0
        <5>1. running[c] \in Nat /\ (running[c] > 0 => 0 >= running[c] + Distance)
          BY <2>2, <4>1
        <5> QED BY <5>1, DistanceType
      <4> QED BY <2>2, <4>1, <4>2 DEF Silent
    <3>2. CASE ~asked
      BY <1>4, <2>1, <2>2, <3>2, DistanceType DEF IInv, Isolated
    <3> QED BY <3>1, <3>2
  <2>4. Silent(running)' /\ (silence >= Distance)'
    BY <1>4, <2>3 DEF Silent
  <2>5. \A c \in Channel : ~(running'[c] > 0)
    BY <2>4 DEF Silent
  <2>6. silence' + gap' >= Distance
    BY <1>4, <1>5, <2>2, <2>3, DistanceType
  <2>7. isolation' /\ \A c \in Channel : pio'[c] = <<>>
    BY <1>4, <2>1 DEF IInv, Isolated
  <2> QED BY <1>4, <2>4, <2>5, <2>6, <2>7 DEF Isolated
<1> QED BY <1>6, <1>7, <1>8, <1>9 DEF IInv

LEMMA StartPulseStep ==
  ASSUME IInv, StartPulse
  PROVE  IInv'
<1>1. /\ hand \in QueuedPulse /\ Lengths \subseteq Nat \ {0}
      /\ running \in [Channel -> Nat] /\ silence \in 0..Gap /\ gap \in Nat
  BY PulseAssumption DEF StartPulse, IInv, TypeOK
<1>2. hand.channel \in Channel /\ hand.len \in Lengths /\ hand.len \in Nat /\ hand.len > 0
  <2>1. hand.channel \in Channel /\ hand.len \in Lengths
    BY <1>1 DEF QueuedPulse
  <2>2. \A n \in Lengths : n \in Nat /\ n > 0
    BY <1>1
  <2> QED BY <2>1, <2>2
<1>3. /\ DoPulse(hand.channel, hand.len) /\ stage = "start" /\ stage' = "follow"
      /\ silence' = IF running' # running THEN 0 ELSE silence
      /\ UNCHANGED <<seen, asked, hand, isolation, link, on, width, queue, gap, powered, settled>>
  BY DEF StartPulse, linkVars
<1>4. /\ pio' \in [Channel -> Seq(Lengths)]
      /\ \A d \in Channel : Len(pio'[d]) <= PioDepth
      /\ running' \in [Channel -> Nat]
      /\ PioBusy'
  BY <1>2, <1>3, DoPulseType DEF IInv
<1>5. silence' \in 0..Gap
  BY <1>1, <1>3, DistanceType
<1>6. TypeOK'
  BY <1>3, <1>4, <1>5 DEF IInv, TypeOK
<1>7. FollowersNotDriven' /\ HaltFinal' /\ InHand'
  BY <1>3 DEF IInv, FollowersNotDriven, HaltFinal, InHand
<1>8. Isolated'
  <2>1. SUFFICES ASSUME settled PROVE Isolated'
    BY <1>3 DEF Isolated
  <2>2. /\ isolation /\ Silent(running) /\ \A c \in Channel : pio[c] = <<>>
    BY <1>3, <2>1 DEF IInv, Isolated
  <2>3. running' = [running EXCEPT ![hand.channel] = hand.len] /\ pio' = pio
    BY <1>2, <1>3, <2>2 DEF DoPulse, Silent
  <2>4. gap >= hand.len + Distance
    <3>1. hand.len + Gap - gap \in 0..Delay
      BY <1>3 DEF IInv, InHand, Held
    <3> QED BY <1>1, <1>2, <3>1, DistanceType DEF Distance
  <2>5. \A c \in Channel : running'[c] > 0 => gap' >= running'[c] + Distance
    BY <1>1, <1>2, <1>3, <2>2, <2>3, <2>4 DEF Silent
  <2>6. ~Silent(running')
    BY <1>1, <1>2, <2>3 DEF Silent
  <2> QED BY <1>3, <2>2, <2>3, <2>5, <2>6 DEF Isolated
<1> QED BY <1>4, <1>6, <1>7, <1>8 DEF IInv

LEMMA FollowPulseStep ==
  ASSUME IInv, FollowPulse
  PROVE  IInv'
<1> DEFINE follow == link[hand.channel]
<1>1. /\ queue \in Seq(QueuedPulse) /\ Len(queue) <= QueueSize
      /\ hand \in QueuedPulse
  BY DEF FollowPulse, IInv, TypeOK
<1>2. hand.channel \in Channel /\ hand.len \in Lengths /\ hand.len \in Nat
  BY <1>1, PulseAssumption DEF QueuedPulse
<1>3. follow \in LinkType
  BY <1>2 DEF IInv, TypeOK, LinkType
<1>4. queue' \in Seq(QueuedPulse) /\ Len(queue') <= QueueSize
  <2>1. CASE ~seen /\ follow.to # None
    <3>1. follow.to \in Channel /\ (follow.offset * hand.len) \div 100 \in Nat
      BY <1>2, <1>3, <2>1, OffsetType DEF LinkType
    <3>2. queue' = Queued(queue, follow.to, hand.len, (follow.offset * hand.len) \div 100)
      BY <2>1 DEF FollowPulse
    <3> QED BY <1>1, <1>2, <3>1, <3>2, QueuedType
  <2>2. CASE ~(~seen /\ follow.to # None)
    BY <1>1, <2>2 DEF FollowPulse
  <2> QED BY <2>1, <2>2
<1> HIDE DEF follow
<1>5. /\ stage = "follow" /\ stage' \in {"spi", "halt"} /\ (~powered' => stage' # "spi")
      /\ hand' = None
      /\ UNCHANGED <<seen, asked, isolation, link, on, width, gap, pio, running, powered,
                     settled, silence>>
  BY DEF FollowPulse, LoopEnd, linkVars, pioVars, history
<1>6. TypeOK'
  BY <1>4, <1>5 DEF IInv, TypeOK
<1>7. FollowersNotDriven' /\ HaltFinal' /\ PioBusy' /\ InHand'
  BY <1>5 DEF IInv, FollowersNotDriven, HaltFinal, PioBusy, InHand
<1>8. Isolated'
  BY <1>5 DEF IInv, Isolated, Silent
<1> QED BY <1>6, <1>7, <1>8 DEF IInv

LEMMA TickStep ==
  ASSUME IInv, Tick
  PROVE  IInv'
<1>1. /\ queue \in Seq(QueuedPulse) /\ Len(queue) <= QueueSize /\ Len(queue) \in Nat
      /\ gap \in Nat /\ Gap \in Nat /\ silence \in 0..Gap
      /\ running \in [Channel -> Nat] /\ pio \in [Channel -> Seq(Lengths)]
      /\ \A c \in Channel : Len(pio[c]) <= PioDepth
      /\ Lengths \subseteq Nat \ {0} /\ PioDepth \in Nat
  BY PulseAssumption DEF IInv, TypeOK
<1>2. queue' \in Seq(QueuedPulse) /\ Len(queue') <= QueueSize
  <2>1. \A i \in 1..Len(queue) : queue[i] \in QueuedPulse
    BY <1>1
  <2>2. \A q \in QueuedPulse : [q EXCEPT !.wait = Less(@)] \in QueuedPulse
    BY LessType DEF QueuedPulse
  <2>3. queue' = [i \in 1..Len(queue) |-> [queue[i] EXCEPT !.wait = Less(@)]]
    BY DEF Tick
  <2>4. queue' \in [1..Len(queue) -> QueuedPulse]
    BY <2>1, <2>2, <2>3
  <2> QED BY <1>1, <2>4
<1>3. \A c \in Channel :
        running[c] = 1 /\ pio[c] # <<>>
          => /\ running'[c] = Head(pio[c]) /\ pio'[c] = Tail(pio[c])
             /\ Head(pio[c]) \in Lengths
             /\ Tail(pio[c]) \in Seq(Lengths) /\ Len(Tail(pio[c])) <= PioDepth
  BY <1>1 DEF Tick
<1>4. \A c \in Channel :
        ~(running[c] = 1 /\ pio[c] # <<>>)
          => /\ running'[c] = Less(running[c]) /\ pio'[c] = pio[c]
             /\ Less(running[c]) \in Nat
  BY <1>1, LessType DEF Tick
<1>5. /\ running' \in [Channel -> Nat] /\ pio' \in [Channel -> Seq(Lengths)]
      /\ \A c \in Channel : Len(pio'[c]) <= PioDepth
  <2>1. \A c \in Channel : /\ running'[c] \in Nat /\ pio'[c] \in Seq(Lengths)
                            /\ Len(pio'[c]) <= PioDepth
    BY <1>1, <1>3, <1>4
  <2>2. /\ running' = [c \in Channel |-> running'[c]]
        /\ pio' = [c \in Channel |-> pio'[c]]
    BY DEF Tick
  <2> QED BY <2>1, <2>2
<1>6. gap' \in Nat /\ gap' = Less(gap) /\ silence' \in 0..Gap /\ settled' \in BOOLEAN
  BY <1>1, LessType DEF Tick
<1>7. TypeOK'
  BY <1>2, <1>5, <1>6 DEF Tick, IInv, TypeOK, loopVars, linkVars
<1>8. FollowersNotDriven' /\ HaltFinal' /\ InHand'
  <2>1. FollowersNotDriven' /\ HaltFinal'
    BY DEF Tick, IInv, FollowersNotDriven, HaltFinal, loopVars, linkVars
  <2>2. SUFFICES ASSUME stage = "start" PROVE InHand'
    BY <2>1 DEF InHand, Tick, loopVars
  <2>3. hand.len + Gap - gap \in 0..Delay /\ hand.len + Gap - gap < Delay /\ hand' = hand
    BY <2>2 DEF Tick, IInv, InHand, Held, loopVars
  <2>4. hand.len \in Nat
    BY <1>1, <2>2 DEF IInv, TypeOK, QueuedPulse
  <2>5. hand.len + Gap - gap' \in 0..Delay
    BY <1>1, <1>6, <2>3, <2>4, DistanceType DEF Less, Distance
  <2> QED BY <2>3, <2>5 DEF InHand, Held
<1>9. PioBusy'
  <2>1. SUFFICES ASSUME NEW c \in Channel, running'[c] = 0 PROVE pio'[c] = <<>>
    BY DEF PioBusy
  <2>2. ~(running[c] = 1 /\ pio[c] # <<>>)
    BY <1>1, <1>3, <2>1
  <2>3. running[c] = 0 \/ running[c] = 1
    <3>1. running[c] \in Nat /\ Less(running[c]) = 0
      BY <1>1, <1>4, <2>1, <2>2
    <3> QED BY <3>1 DEF Less
  <2> QED BY <1>4, <2>2, <2>3 DEF IInv, PioBusy
<1>10. Isolated'
  <2>1. SUFFICES ASSUME settled' PROVE Isolated'
    BY DEF Isolated
  <2>2. isolation /\ isolation' /\ (settled \/ (Silent(running') /\ silence' = Gap))
    BY <2>1 DEF Tick
  <2>3. CASE settled
    <3>1. /\ \A c \in Channel : pio[c] = <<>>
          /\ \A c \in Channel : running[c] > 0 => gap >= running[c] + Distance
          /\ Silent(running) => silence + gap >= Distance
      BY <2>3 DEF IInv, Isolated
    <3>2. \A c \in Channel : running'[c] = Less(running[c]) /\ pio'[c] = <<>>
      BY <1>4, <3>1
    <3>3. \A c \in Channel : running'[c] > 0 => gap' >= running'[c] + Distance
      <4>1. SUFFICES ASSUME NEW c \in Channel, running'[c] > 0
                     PROVE  gap' >= running'[c] + Distance
        OBVIOUS
      <4>2. running[c] \in Nat /\ running'[c] = Less(running[c])
        BY <1>1, <3>2
      <4>3. running[c] > 0 /\ running'[c] = running[c] - 1
        BY <4>1, <4>2 DEF Less
      <4> QED BY <1>1, <1>6, <3>1, <4>2, <4>3, DistanceType DEF Less
    <3>4. Silent(running') => silence' + gap' >= Distance
      <4>1. CASE Silent(running)
        <5>1. silence' = IF silence < Gap THEN silence + 1 ELSE Gap
          BY <4>1 DEF Tick
        <5>2. silence + gap >= Distance /\ gap' = Less(gap)
          BY <1>6, <3>1, <4>1
        <5>3. silence \in Nat /\ gap \in Nat /\ Gap \in Nat
          BY <1>1
        <5>4. CASE gap = 0
          BY <5>1, <5>2, <5>3, <5>4, DistanceType DEF Less
        <5>5. CASE gap # 0
          BY <5>1, <5>2, <5>3, <5>5, DistanceType DEF Less
        <5> QED BY <5>4, <5>5
      <4>2. ASSUME ~Silent(running), Silent(running') PROVE gap' >= Distance
        <5>1. PICK c \in Channel : running[c] # 0
          BY <4>2 DEF Silent
        <5>2. running'[c] = 0
          BY <4>2 DEF Silent
        <5>3. running[c] = 1
          <6>1. running[c] \in Nat /\ Less(running[c]) = 0
            BY <1>1, <3>2, <5>2
          <6> QED BY <5>1, <6>1 DEF Less
        <5>4. gap >= 1 + Distance
          BY <3>1, <5>3
        <5> QED BY <1>1, <1>6, <5>4, DistanceType DEF Less
      <4> QED BY <1>1, <1>6, <4>1, <4>2, DistanceType
    <3>5. Silent(running) => Silent(running') /\ silence' \in 0..Gap /\ silence' >= silence
      BY <1>1, <1>6, <3>2 DEF Silent, Less, Tick
    <3>6. /\ stage' = "take" /\ ~asked' => Silent(running') /\ silence' = Gap
          /\ stage' = "start" => Silent(running') /\ silence' >= Distance
      <4>1. stage' = stage /\ asked' = asked
        BY DEF Tick, loopVars
      <4>2. /\ stage = "take" /\ ~asked => Silent(running) /\ silence = Gap
            /\ stage = "start" => Silent(running) /\ silence >= Distance
        BY <2>3 DEF IInv, Isolated
      <4> QED BY <1>1, <3>5, <4>1, <4>2, DistanceType
    <3> QED BY <2>2, <3>2, <3>3, <3>4, <3>6 DEF Isolated
  <2>4. CASE Silent(running') /\ silence' = Gap
    <3>1. \A c \in Channel : running'[c] = 0 /\ pio'[c] = <<>>
      BY <1>9, <2>4 DEF Silent, PioBusy
    <3>2. silence' + gap' >= Distance
      BY <1>1, <1>6, <2>4, DistanceType
    <3>3. \A c \in Channel : ~(running'[c] > 0)
      BY <3>1
    <3> QED BY <2>2, <2>4, <3>1, <3>2, <3>3, DistanceType DEF Isolated
  <2> QED BY <2>2, <2>3, <2>4
<1> QED BY <1>7, <1>8, <1>9, <1>10 DEF IInv

LEMMA Invariant == Spec => []IInv
<1>1. ASSUME IInv, [Next]_vars PROVE IInv'
  <2>1. CASE Loop
    BY <1>1, <2>1, SpiStep, CheckIsolationStep, AskIsolationStep, TakePulseStep,
       NothingDueStep, StartPulseStep, FollowPulseStep DEF Loop
  <2>2. CASE Interrupt
    <3>1. ASSUME NEW c \in Channel, TimerCallback(c) PROVE IInv'
      BY <1>1, <3>1, TimerStep
    <3>2. ASSUME NEW value \in BOOLEAN, SetChannelIsolation(value) PROVE IInv'
      BY <1>1, <3>2, IsolationStep DEF SetChannelIsolation
    <3>3. ASSUME LuaEnableTriphase PROVE IInv'
      BY <1>1, <3>3, IsolationStep DEF LuaEnableTriphase
    <3> QED BY <2>2, <3>1, <3>2, <3>3 DEF Interrupt
  <2>3. CASE Tick
    BY <1>1, <2>3, TickStep
  <2>4. CASE UNCHANGED vars
    <3>1. TypeOK'
      BY <1>1, <2>4 DEF IInv, TypeOK, vars, loopVars, linkVars, pioVars, history
    <3>2. FollowersNotDriven' /\ HaltFinal' /\ PioBusy' /\ Isolated' /\ InHand'
      BY <1>1, <2>4 DEF IInv, FollowersNotDriven, HaltFinal, PioBusy, Isolated, InHand, Held, Silent,
         vars, loopVars, linkVars, pioVars, history
    <3> QED BY <3>1, <3>2 DEF IInv
  <2> QED BY <1>1, <2>1, <2>2, <2>3, <2>4 DEF Next
<1> QED BY <1>1, InitIInv, PTL DEF Spec

-----------------------------------------------------------------------------
(* Every variable keeps its range; the pulse queue and the PIO FIFOs never *)
(* hold more than their capacity (queue_pulse, do_pulse).                  *)
THEOREM TypeCorrect == Spec => []TypeOK
<1>1. IInv => TypeOK
  BY DEF IInv
<1> QED BY <1>1, Invariant, PTL

(* No timer drives a channel that follows another, through every order of  *)
(* link, on and off commands and register writes (sync_chanel, on).        *)
THEOREM FollowersNeverDriven == Spec => []FollowersNotDriven
<1>1. IInv => FollowersNotDriven
  BY DEF IInv
<1> QED BY <1>1, Invariant, PTL

(* After a power down the timers stay off (power_down and main's halt).    *)
THEOREM PowerDownIsFinal == Spec => []PowerDownFinal
<1>1. IInv => PowerDownFinal
  BY DEF IInv, HaltFinal, PowerDownFinal
<1> QED BY <1>1, Invariant, PTL

-----------------------------------------------------------------------------
(* The refinement.                                                         *)

LEMMA InitPromise == Init => Promise!Init
BY DEF Init, Promise!Init

(* nothing that the promise is about changes in the rest of the module *)
LEMMA StutterPromise ==
  ASSUME UNCHANGED <<isolation, settled, running, silence>>
  PROVE  [Promise!Next]_(Promise!vars)
BY DEF Promise!vars

LEMMA WritePromise ==
  ASSUME IInv, NEW value \in BOOLEAN, WriteIsolation(value)
  PROVE  Promise!Next
<1>1. Silent(running) <=> Promise!Silent(running)
  BY DEF Silent, Promise!Silent
<1>2. Promise!SetIsolation
  BY <1>1 DEF WriteIsolation, Promise!SetIsolation, pioVars
<1> QED BY <1>2 DEF Promise!Next

(* a pulse the PIO takes at once starts when the promise allows it *)
LEMMA StartPulsePromise ==
  ASSUME IInv, StartPulse
  PROVE  [Promise!Next]_(Promise!vars)
<1> DEFINE c == hand.channel
           len == hand.len
<1>1. /\ DoPulse(c, len) /\ stage = "start"
      /\ isolation' = isolation /\ settled' = settled
      /\ silence' = IF running' # running THEN 0 ELSE silence
  BY DEF StartPulse
<1>2. c \in Channel /\ len \in Lengths
  BY DEF StartPulse, IInv, TypeOK, QueuedPulse
<1> HIDE DEF c, len
<1>3. running \in [Channel -> Nat] /\ len \in Nat /\ len > 0
  BY <1>2, PulseAssumption DEF IInv, TypeOK
<1>4. CASE running[c] = 0
  <2>1. running' = [running EXCEPT ![c] = len]
    BY <1>1, <1>4 DEF DoPulse
  <2>2. running' # running
    BY <1>2, <1>3, <1>4, <2>1
  <2>3. ASSUME settled PROVE Promise!Silent(running) /\ silence >= Gap - Delay
    BY <1>1, <2>3 DEF IInv, Isolated, Distance, Silent, Promise!Silent
  <2>4. Promise!Start(c, len)
    BY <1>1, <1>4, <2>1, <2>2, <2>3 DEF Promise!Start
  <2> QED BY <1>2, <2>4 DEF Promise!Next
<1>5. CASE running[c] # 0
  <2>1. running' = running
    BY <1>1, <1>5 DEF DoPulse
  <2> QED BY <1>1, <2>1, StutterPromise
<1> QED BY <1>4, <1>5

LEMMA TickPromise ==
  ASSUME IInv, Tick
  PROVE  Promise!Next
<1>1. \A r : Silent(r) <=> Promise!Silent(r)
  BY DEF Silent, Promise!Silent
<1>2. running \in [Channel -> Nat] /\ pio \in [Channel -> Seq(Lengths)]
  BY DEF IInv, TypeOK
<1>3. ASSUME NEW c \in Channel
      PROVE  \/ running[c] = 0 /\ running'[c] = 0
             \/ running[c] > 0 /\ running'[c] = running[c] - 1
             \/ ~settled /\ running[c] = 1 /\ running'[c] \in Lengths
  <2>1. CASE running[c] = 1 /\ pio[c] # <<>>
    <3>1. running'[c] = Head(pio[c]) /\ Head(pio[c]) \in Lengths
      BY <1>2, <2>1 DEF Tick
    <3>2. ~settled
      BY <2>1 DEF IInv, Isolated
    <3> QED BY <2>1, <3>1, <3>2
  <2>2. CASE ~(running[c] = 1 /\ pio[c] # <<>>)
    <3>1. running'[c] = Less(running[c]) /\ running[c] \in Nat
      BY <1>2, <2>2 DEF Tick
    <3> QED BY <3>1 DEF Less
  <2> QED BY <2>1, <2>2
<1>4. DOMAIN running' = Channel
  BY DEF Tick
<1>5. /\ silence' = IF Silent(running)
                     THEN IF silence < Gap THEN silence + 1 ELSE Gap ELSE 0
      /\ settled' = (isolation /\ (settled \/ (Silent(running') /\ silence' = Gap)))
      /\ isolation' = isolation
  BY DEF Tick
<1>6. Promise!Tick
  BY <1>1, <1>3, <1>4, <1>5 DEF Promise!Tick
<1> QED BY <1>6 DEF Promise!Next

(* The output module keeps its promise about isolation: every behaviour of *)
(* the loop, the timers, the links and the register is one of              *)
(* IsolatedOutput, with interrupts anywhere between get_queued_pulse's     *)
(* reading of the register, its reading of the clock and do_pulse.         *)
THEOREM IsolationIsKept == Spec => IsolationKept
<1>1. ASSUME IInv, [Next]_vars PROVE [Promise!Next]_(Promise!vars)
  <2>1. CASE SpiCommand
    <3>1. UNCHANGED <<isolation, settled, running, silence>>
      BY <2>1 DEF SpiCommand, NoCommand, PowerDown, SwitchOn, SwitchOff, Pulse,
         SetPulseWidth, SyncChannel, Command, pioVars, history
    <3> QED BY <3>1, StutterPromise
  <2>2. CASE CheckIsolation
    BY <2>2, StutterPromise DEF CheckIsolation, pioVars, history
  <2>3. CASE StartPulse
    BY <1>1, <2>3, StartPulsePromise
  <2>4. CASE AskIsolation \/ TakePulse \/ NothingDue \/ FollowPulse
    BY <2>4, StutterPromise DEF AskIsolation, TakePulse, NothingDue, FollowPulse, pioVars, history
  <2>5. CASE Interrupt
    <3>1. ASSUME NEW c \in Channel, TimerCallback(c)
          PROVE  [Promise!Next]_(Promise!vars)
      BY <3>1, StutterPromise DEF TimerCallback, pioVars, history
    <3>2. ASSUME NEW value \in BOOLEAN, SetChannelIsolation(value)
          PROVE  [Promise!Next]_(Promise!vars)
      BY <1>1, <3>2, WritePromise DEF SetChannelIsolation
    <3>3. ASSUME LuaEnableTriphase PROVE [Promise!Next]_(Promise!vars)
      BY <1>1, <3>3, WritePromise DEF LuaEnableTriphase
    <3> QED BY <2>5, <3>1, <3>2, <3>3 DEF Interrupt
  <2>6. CASE Tick
    BY <1>1, <2>6, TickPromise
  <2>7. CASE UNCHANGED vars
    BY <2>7, StutterPromise DEF vars, pioVars, history
  <2> QED BY <1>1, <2>1, <2>2, <2>3, <2>4, <2>5, <2>6, <2>7 DEF Next, Loop
<1> QED BY <1>1, InitPromise, Invariant, PTL DEF Spec, IsolationKept, Promise!Spec

=============================================================================
