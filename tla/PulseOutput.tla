----------------------------- MODULE PulseOutput -----------------------------
(***************************************************************************)
(* The ZC624 output module: how SPI commands, per channel timers and       *)
(* channel links become pulses on the four isolated outputs.               *)
(*                                                                         *)
(* The main loop reads one SPI command, looks at the ChannelIsolation      *)
(* register, and takes at most one pulse from the pulse queue to the PIO   *)
(* state machine of its channel.  Timer callbacks put pulses into the      *)
(* queue, and the I2C handler writes the register, at any point between:   *)
(* the steps of the loop are cut where such an interrupt matters.          *)
(*                                                                         *)
(* COutput, COutputChannel, CPulseQueue, CMessageProcess, CI2cSlave,       *)
(* pulse_gen.pio and main in OutputZc.cpp.  Time is counted in ticks and   *)
(* kept as what is left until a moment.  A pulse is one length, the sum of *)
(* its two halves.  Interrupts may keep the loop from starting a pulse for *)
(* up to Delay after it has read the clock for it; nothing in the code     *)
(* bounds that time, so Delay is a parameter.  A repeating timer may fire  *)
(* at any moment.                                                          *)
(***************************************************************************)
EXTENDS Integers, Sequences

CONSTANTS
  Channel,    \* CHANNEL_COUNT of them
  None,       \* 0xFF: linked to nothing
  Lengths,    \* pulse lengths, in ticks
  Widths,     \* the lengths tried for the pulses of the channel timers
  Gap,        \* 150 us, in ticks
  Delay,      \* interrupts between get_queued_pulse's clock and the PIO, in ticks
  Offsets,    \* link offsets, in percent
  QueueSize,  \* 10: the pulse queue
  PioDepth    \* 4: the TX FIFO of a PIO state machine

ASSUME PulseAssumption ==
  /\ None \notin Channel
  /\ Lengths \subseteq Nat \ {0} /\ Widths \subseteq Lengths
  /\ Gap \in Nat /\ Delay \in 0..Gap
  /\ Offsets \subseteq 0..100
  /\ QueueSize \in Nat \ {0} /\ PioDepth \in Nat \ {0}

VARIABLES
  stage,      \* where the main loop is: "spi", "isolation", "ask", "take", "start", "follow"
  isolation,  \* the ChannelIsolation register
  seen,       \* COutput::_channel_isolation_last_value, read at the start of the loop
  asked,      \* channel_isolation of get_queued_pulse, while it runs
  hand,       \* the pulse taken from the queue: sm, pos and neg, or None
  link,       \* _channel_triphase: [to, offset] per lead channel
  on,         \* COutputChannel::_on
  width,      \* _pulse_width_pos_us + _pulse_width_neg_us
  queue,      \* the pulse queue: [channel, len, wait]
  gap,        \* _next_pulse - time_us_64()
  pio,        \* TX FIFO per channel: pulse lengths
  running,    \* ticks left of the pulse a channel is putting out, or 0
  powered,    \* the 9V supply
  settled,    \* history: on since the output had been silent for Gap
  silence     \* history: ticks since a channel last pulsed, up to Gap

loopVars == <<stage, seen, asked, hand>>
linkVars == <<link, on, width>>
pioVars == <<pio, running>>
history == <<settled, silence>>
vars == <<loopVars, isolation, linkVars, queue, gap, pioVars, powered,
          history>>

Unlinked == [to |-> None, offset |-> 0]
NoLinks == [c \in Channel |-> Unlinked]
Less(n) == IF n > 0 THEN n - 1 ELSE 0
Silent(run) == \A c \in Channel : run[c] = 0

(* the variables of the promise are the module's own *)
Promise == INSTANCE IsolatedOutput
             WITH isolation <- isolation, settled <- settled,
                  running <- running, silence <- silence

-----------------------------------------------------------------------------
(* Mutant of Queued: the queue of the second core, taken for unbounded. *)
QueuedAnyway(q, c, len, wait) ==
  Append(q, [channel |-> c, len |-> len, wait |-> wait])

(* CPulseQueue::queue_pulse: a full queue drops the pulse *)
Queued(q, c, len, wait) ==
  IF Len(q) < QueueSize THEN Append(q, [channel |-> c, len |-> len, wait |-> wait])
  ELSE q

(* unlink_if_linked: whoever leads channel c *)
UnlinkedFrom(c) == [l \in Channel |-> IF link[l].to = c THEN Unlinked ELSE link[l]]

(* One SPI command, CMessageProcess::loop. *)
Command == /\ stage = "spi" /\ stage' = "isolation"
           /\ UNCHANGED <<seen, asked, hand, isolation, gap, pioVars, history>>

NoCommand ==
  /\ Command
  /\ UNCHANGED <<linkVars, queue, powered>>

Pulse(c, len) ==
  /\ Command
  /\ queue' = Queued(queue, c, len, 0)
  /\ UNCHANGED <<linkVars, powered>>

SetPulseWidth(c, len) ==
  /\ Command
  /\ width' = [width EXCEPT ![c] = len]
  /\ UNCHANGED <<link, on, queue, powered>>

(* Mutant of SwitchOn: the channel stays linked. *)
SwitchOnLinked(c) ==
  /\ Command
  /\ on' = [on EXCEPT ![c] = TRUE]
  /\ UNCHANGED <<link, width, queue, powered>>

SwitchOn(c) ==
  /\ Command
  /\ link' = UnlinkedFrom(c)
  /\ on' = [on EXCEPT ![c] = TRUE]
  /\ UNCHANGED <<width, queue, powered>>

SwitchOff(c) ==
  /\ Command
  /\ on' = [on EXCEPT ![c] = FALSE]
  /\ UNCHANGED <<link, width, queue, powered>>

(* sync_chanel.  Its check that the lead is not itself linked never runs:  *)
(* the loop's condition is chan++, which is 0 the first time.              *)
SyncChannel(lead, linked, offset) ==
  /\ Command
  /\ IF lead = linked \/ isolation THEN UNCHANGED <<link, on>>
     ELSE IF linked = None
     THEN link' = [link EXCEPT ![lead] = Unlinked] /\ UNCHANGED on
     ELSE /\ link' = [link EXCEPT ![lead] = [to |-> linked, offset |-> offset]]
          /\ on' = [on EXCEPT ![linked] = FALSE]
  /\ UNCHANGED <<width, queue, powered>>

(* power_down: the supply goes off and the loop ends in HALT *)
PowerDown ==
  /\ Command
  /\ powered' = FALSE
  /\ on' = [c \in Channel |-> FALSE]
  /\ UNCHANGED <<link, width, queue>>

SpiCommand ==
  \/ NoCommand \/ PowerDown
  \/ \E c \in Channel : SwitchOn(c) \/ SwitchOff(c)
  \/ \E c \in Channel, len \in Lengths : Pulse(c, len)
  \/ \E c \in Channel, len \in Widths : SetPulseWidth(c, len)
  \/ \E lead \in Channel, linked \in Channel \cup {None}, offset \in Offsets :
       SyncChannel(lead, linked, offset)

-----------------------------------------------------------------------------
(* The rest of the main loop, COutput::loop.                               *)

(* links do not outlive a change of the register *)
CheckIsolation ==
  /\ stage = "isolation" /\ stage' = "ask"
  /\ seen' = isolation
  /\ link' = IF seen # isolation THEN NoLinks ELSE link
  /\ UNCHANGED <<isolation, asked, hand, on, width, queue, gap, pioVars, powered, history>>

(* get_queued_pulse reads the register again *)
AskIsolation ==
  /\ stage = "ask" /\ stage' = "take"
  /\ asked' = isolation
  /\ UNCHANGED <<seen, hand, isolation, linkVars, queue, gap, pioVars, powered, history>>

(* Mutant of Due: the gap already over when the pulse before it ends. *)
DueEarly == /\ queue # <<>> /\ Head(queue).wait = 0
            /\ asked => gap <= Gap
(* get_queued_pulse: the head is due, and with isolation the gap is over *)
Due == /\ queue # <<>> /\ Head(queue).wait = 0
       /\ asked => gap = 0

(* the clock is read for _next_pulse *)
TakePulse ==
  /\ stage = "take" /\ stage' = "start" /\ Due
  /\ hand' = Head(queue) /\ queue' = Tail(queue)
  /\ gap' = Head(queue).len + Gap
  /\ asked' = FALSE
  /\ UNCHANGED <<seen, isolation, linkVars, pioVars, powered, history>>

(* do_pulse: the PIO takes the pulse at once, or into its FIFO, or not *)
DoPulse(c, len) ==
  IF running[c] = 0
  THEN running' = [running EXCEPT ![c] = len] /\ UNCHANGED pio
  ELSE /\ pio' = IF Len(pio[c]) < PioDepth
                 THEN [pio EXCEPT ![c] = Append(@, len)] ELSE pio
       /\ UNCHANGED running

StartPulse ==
  /\ stage = "start" /\ stage' = "follow"
  /\ DoPulse(hand.channel, hand.len)
  /\ silence' = IF running' # running THEN 0 ELSE silence
  /\ UNCHANGED <<seen, asked, hand, isolation, linkVars, queue, gap, powered, settled>>

(* Mutant of LoopEnd: a power down that does not end the loop. *)
LoopAgain == stage' = "spi"

(* the next stage: a powered down module halts *)
LoopEnd == stage' = IF powered THEN "spi" ELSE "halt"

(* A pulse on a lead channel queues one on the channel linked to it, by    *)
(* the isolation read at the start of the loop.                            *)
FollowPulse ==
  /\ stage = "follow" /\ LoopEnd
  /\ LET follow == link[hand.channel]
     IN queue' = IF ~seen /\ follow.to # None
                 THEN Queued(queue, follow.to, hand.len,
                             (follow.offset * hand.len) \div 100)
                 ELSE queue
  /\ hand' = None
  /\ UNCHANGED <<seen, asked, isolation, linkVars, gap, pioVars, powered, history>>

NothingDue ==
  /\ stage = "take" /\ LoopEnd /\ ~Due
  /\ asked' = FALSE
  /\ UNCHANGED <<seen, hand, isolation, linkVars, queue, gap, pioVars,
                 powered, history>>

Loop == SpiCommand \/ CheckIsolation \/ AskIsolation \/ TakePulse \/ NothingDue
        \/ StartPulse \/ FollowPulse

-----------------------------------------------------------------------------
(* What happens between the steps of the loop.                             *)

(* Mutant of TimerCallback: a timer that goes on after the channel's off. *)
TimerStays(c) ==
  /\ queue' = Queued(queue, c, width[c], 0)
  /\ UNCHANGED <<loopVars, isolation, linkVars, gap, pioVars, powered,
                 history>>

(* COutputChannel::timer_callback *)
TimerCallback(c) ==
  /\ on[c]
  /\ queue' = Queued(queue, c, width[c], 0)
  /\ UNCHANGED <<loopVars, isolation, linkVars, gap, pioVars, powered,
                 history>>

WriteIsolation(value) ==
  /\ isolation' = value
  /\ settled' = (value /\ (settled \/ (Silent(running) /\ silence = Gap)))
  /\ UNCHANGED <<loopVars, linkVars, queue, gap, pioVars, powered, silence>>

(* CRoutine::set_channel_isolation, from a routine or a Bluetooth client *)
SetChannelIsolation(value) == WriteIsolation(value)

(* The Lua script's EnableTriphase(state).  The handler reads its second   *)
(* argument, which no script passes, and passes the FALSE it gets on as    *)
(* the isolation, whatever the state.                                      *)
LuaEnableTriphase == WriteIsolation(FALSE)

(* how long ago the clock was read for the pulse in hand *)
Held == hand.len + Gap - gap

(* Time passes: waits and gap run down, pulses end, the PIO starts the     *)
(* next one in its FIFO.                                                   *)
Tick ==
  /\ stage = "start" => Held < Delay
  /\ queue' = [i \in 1..Len(queue) |-> [queue[i] EXCEPT !.wait = Less(@)]]
  /\ gap' = Less(gap)
  /\ running' = [c \in Channel |->
                   IF running[c] = 1 /\ pio[c] # <<>> THEN Head(pio[c])
                   ELSE Less(running[c])]
  /\ pio' = [c \in Channel |->
               IF running[c] = 1 /\ pio[c] # <<>> THEN Tail(pio[c]) ELSE pio[c]]
  /\ silence' = IF Silent(running)
                THEN IF silence < Gap THEN silence + 1 ELSE Gap
                ELSE 0
  /\ settled' = (isolation /\ (settled \/ (Silent(running') /\ silence' = Gap)))
  /\ UNCHANGED <<loopVars, isolation, linkVars, powered>>

Interrupt == \/ \E c \in Channel : TimerCallback(c)
             \/ \E value \in BOOLEAN : SetChannelIsolation(value)
             \/ LuaEnableTriphase

-----------------------------------------------------------------------------
Init ==
  /\ stage = "spi" /\ isolation = TRUE /\ seen = TRUE
  /\ asked = FALSE /\ hand = None
  /\ link = NoLinks
  /\ on = [c \in Channel |-> FALSE]
  /\ width \in [Channel -> Widths]
  /\ queue = <<>> /\ gap = 0
  /\ pio = [c \in Channel |-> <<>>] /\ running = [c \in Channel |-> 0]
  /\ powered = TRUE
  /\ settled = TRUE /\ silence = Gap

Next == Loop \/ Interrupt \/ Tick

Spec == Init /\ [][Next]_vars

(* The main loop never waits and time passes; commands, timers and writes  *)
(* to the register owe nothing.                                            *)
FairSpec == Spec /\ WF_vars(Loop) /\ WF_vars(Tick)

-----------------------------------------------------------------------------
(* Properties.                                                             *)

QueuedPulse == [channel : Channel, len : Lengths, wait : Nat]

(* Every variable keeps its range, and both queues their capacity. *)
TypeOK ==
  /\ stage \in {"spi", "isolation", "ask", "take", "start", "follow", "halt"}
  /\ isolation \in BOOLEAN /\ seen \in BOOLEAN /\ asked \in BOOLEAN
  /\ hand \in QueuedPulse \cup {None}
  /\ stage \in {"start", "follow"} => hand \in QueuedPulse
  /\ link \in [Channel -> [to : Channel \cup {None}, offset : 0..100]]
  /\ on \in [Channel -> BOOLEAN] /\ width \in [Channel -> Widths]
  /\ queue \in Seq(QueuedPulse) /\ Len(queue) <= QueueSize
  /\ gap \in Nat
  /\ pio \in [Channel -> Seq(Lengths)]
  /\ \A c \in Channel : Len(pio[c]) <= PioDepth
  /\ running \in [Channel -> Nat]
  /\ powered \in BOOLEAN /\ settled \in BOOLEAN /\ silence \in 0..Gap

(* Once isolation has been on with a silent output, pulses never overlap,  *)
(* whatever timers, links, queued pulses and register writes come between  *)
(* (CPulseQueue::get_queued_pulse).  Their distance is Gap less the time   *)
(* interrupts take between the clock and the PIO: _next_pulse does not     *)
(* move with the pulse it is for.                                          *)
IsolationKept == Promise!Spec

(* A channel that follows another is never driven by its own timer, so it  *)
(* pulses only when its lead does (sync_chanel, on).                       *)
FollowersNotDriven ==
  \A lead \in Channel : link[lead].to # None => ~on[link[lead].to]

(* After a power down no timer drives a channel again (power_down, main).  *)
PowerDownFinal == ~powered => \A c \in Channel : ~on[c]

(* With isolation left on, all channels off and no more pulse commands,    *)
(* the output falls silent: nothing queued, linked or in a PIO FIFO keeps  *)
(* it going.                                                               *)
NoPulseCommands ==
  <>[][\A c \in Channel, len \in Lengths : ~Pulse(c, len)]_vars
FallsSilent ==
  <>[](isolation /\ \A c \in Channel : ~on[c]) /\ NoPulseCommands
    => <>[]Silent(running)

=============================================================================
