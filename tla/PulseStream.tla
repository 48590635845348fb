------------------------------ MODULE PulseStream ------------------------------
(***************************************************************************)
(* Pulses streamed over Bluetooth LE: CBtGatt on core 0, the queue of each *)
(* channel shared with core 1 (gPulseQueue), Core1's look at the queues    *)
(* once it has taken its messages, and the routine that plays the pulses   *)
(* (CDirectPulse).  Pulses carry the time they are due, so they go past    *)
(* the messages that start and stop the routine and set its power.         *)
(*                                                                         *)
(* Time is in milliseconds.  Core 1 looks at the queues at least once in   *)
(* each, except while core 0 holds it to write to flash.  The client sends *)
(* START first and then, for each channel, pulses with growing times       *)
(* (docs/BleStreaming.md); on the way they may be late.                    *)
(***************************************************************************)
EXTENDS Integers, Sequences, FiniteSets

CONSTANTS
  Channel,
  Level,        \* amplitudes a client sends
  MaxLevel,     \* 1000
  Length,       \* PULSE_QUEUE_LENGTH
  Late,         \* how late a pulse may be played, 1 ms
  Ahead,        \* how far in the future it may be, 1000 ms
  FifoSize,     \* messages the FIFO to core 1 holds
  MaxTime,      \* bound: how long it goes on
  MaxWrites,    \* bound: pulses and power levels sent
  MaxSessions,  \* bound: connections
  MaxStarts,    \* bound: START messages
  MaxHeld       \* bound: milliseconds core 1 is held

ASSUME StreamAssumption ==
  /\ Level \subseteq Nat /\ {MaxLevel, Length, Late, Ahead, FifoSize} \subseteq Nat
  /\ Length > 0 /\ FifoSize > 0 /\ Late > 0
  /\ {MaxTime, MaxWrites, MaxSessions, MaxStarts, MaxHeld} \subseteq Nat

VARIABLES
  now,        \* time_us_64()
  link,       \* "down", "up", or "closing": the host has yet to tell the rest
  start,      \* _start_time_us
  running,    \* _routine_running
  queue,      \* gPulseQueue
  fifo,       \* messages to core 1
  phase,      \* what process_messages is at: "messages" or "pulses"
  looked,     \* core 1 has looked at the queues in this millisecond
  active,     \* _active_routine is CDirectPulse
  cache,      \* its _chan_last_power_level
  power,      \* the power it has asked for
  old,        \* DBG_COUNTER_MSG_OLD
  played,     \* history: the number of the last pulse played on each channel
  last,       \* history: the last time the client used, since its START; MaxTime before
  writes, sessions, starts, held   \* history: counts, and bounds

core0 == <<link, start, running, last, writes, sessions, starts>>
core1 == <<phase, looked, active, cache, power, old, played>>
vars == <<now, core0, core1, queue, fifo, held>>

-----------------------------------------------------------------------------
Silent == [c \in Channel |-> 0]
NotBegun == [c \in Channel |-> MaxTime]
Run == [type |-> "run"]
Stop == [type |-> "stop"]
SetPower(c, p) == [type |-> "power", channel |-> c, level |-> p]

(* multicore_fifo_push_blocking: core 0 waits while there is no room *)
Push(m) == Len(fifo) < FifoSize /\ fifo' = Append(fifo, m)

(* routine_run *)
RoutineRun(run) ==
  IF running = run THEN UNCHANGED <<running, fifo>>
  ELSE Push(IF run THEN Run ELSE Stop) /\ running' = run

-----------------------------------------------------------------------------
(* Core 0, in the Bluetooth stack's callbacks *)

Connected ==
  /\ link = "down" /\ sessions < MaxSessions
  /\ link' = "up" /\ RoutineRun(TRUE)
  /\ sessions' = sessions + 1
  /\ UNCHANGED <<now, start, last, writes, starts, core1, queue, held>>

(* Mutant of Disconnected: the flag stays. *)
DisconnectedFlagKept ==
  /\ link \in {"up", "closing"}
  /\ link' = IF link = "up" THEN "closing" ELSE "down"
  /\ Push(Stop) /\ UNCHANGED running
  /\ last' = NotBegun
  /\ UNCHANGED <<now, start, writes, sessions, starts, core1, queue, held>>

(* disconnected, for ATT_EVENT_DISCONNECTED and again for the HCI's event *)
Disconnected ==
  /\ link \in {"up", "closing"}
  /\ link' = IF link = "up" THEN "closing" ELSE "down"
  /\ RoutineRun(FALSE)
  /\ last' = NotBegun
  /\ UNCHANGED <<now, start, writes, sessions, starts, core1, queue, held>>

(* The user leaves the screen: ~CBtGatt, and a new one when he returns. *)
LeaveScreen ==
  /\ link # "down" \/ start # 0
  /\ link' = "down" /\ start' = 0 /\ RoutineRun(FALSE)
  /\ last' = NotBegun
  /\ UNCHANGED <<now, writes, sessions, starts, core1, queue, held>>

(* process_pulse_stream_packet, BLE_MSG_PULSE_RESET *)
Begin ==
  /\ link = "up" /\ starts < MaxStarts
  /\ start' = now /\ starts' = starts + 1
  /\ last' = [c \in Channel |-> -1]
  /\ UNCHANGED <<now, link, running, writes, sessions, core1, queue, fifo, held>>

(* process_pulse_message; its mutants let late pulses and any power through *)
RejectedLevel(t, level) == level > MaxLevel
RejectedTime(t, level) == start + t < now
Rejected(t, level) == start + t < now \/ level > MaxLevel

Pulse(t, level, mask) ==
  /\ link = "up" /\ writes < MaxWrites
  /\ \A c \in mask : t > last[c]
  /\ writes' = writes + 1
  /\ last' = [c \in Channel |-> IF c \in mask THEN t ELSE last[c]]
  /\ queue' =
       IF Rejected(t, level) THEN queue
       ELSE [c \in Channel |->
              IF c \in mask /\ Len(queue[c]) < Length
              THEN Append(queue[c], [at |-> start + t, level |-> level, nr |-> writes + 1])
              ELSE queue[c]]
  /\ UNCHANGED <<now, link, start, running, sessions, starts, core1, fifo, held>>

(* set_channel_power_level *)
PowerWrite(c, p) ==
  /\ link = "up" /\ p <= MaxLevel /\ writes < MaxWrites
  /\ writes' = writes + 1
  /\ Push(SetPower(c, p))
  /\ UNCHANGED <<now, link, start, running, last, sessions, starts, core1, queue, held>>

Host ==
  \/ Connected \/ Disconnected \/ LeaveScreen \/ Begin
  \/ \E t \in 0..MaxTime, level \in Level, mask \in (SUBSET Channel) \ {{}} :
       Pulse(t, level, mask)
  \/ \E c \in Channel, p \in Level : PowerWrite(c, p)

-----------------------------------------------------------------------------
(* Core 1 *)

Message == /\ phase = "messages" /\ fifo # <<>> /\ fifo' = Tail(fifo)
           /\ UNCHANGED <<now, core0, phase, looked, old, played, queue, held>>

(* Mutant of Activate: the cache keeps what the last routine left. *)
ActivateCacheKept ==
  /\ Message /\ Head(fifo).type = "run"
  /\ active' = TRUE /\ power' = Silent /\ UNCHANGED cache

(* activate_routine and CDirectPulse::start *)
Activate ==
  /\ Message /\ Head(fifo).type = "run"
  /\ active' = TRUE /\ power' = Silent /\ cache' = Silent

(* stop_routine *)
StopRoutine ==
  /\ Message /\ Head(fifo).type = "stop"
  /\ active' = FALSE /\ power' = Silent /\ UNCHANGED cache

(* menu_min_max_change *)
PowerChange ==
  /\ Message /\ Head(fifo).type = "power"
  /\ IF active
     THEN /\ power' = [power EXCEPT ![Head(fifo).channel] = Head(fifo).level]
          /\ cache' = [cache EXCEPT ![Head(fifo).channel] = Head(fifo).level]
     ELSE UNCHANGED <<power, cache>>
  /\ UNCHANGED active

NoMoreMessages ==
  /\ phase = "messages" /\ fifo = <<>> /\ phase' = "pulses"
  /\ UNCHANGED <<now, core0, looked, active, cache, power, old, played, queue, fifo, held>>

(* process_audio_pulse_queue: at the head of a queue, a pulse is one of these *)
HasPulse(c) == queue[c] # <<>>
TooOld(c) == HasPulse(c) /\ Head(queue[c]).at < now - Late
TooEarly(c) == HasPulse(c) /\ Head(queue[c]).at > now + Ahead
Due(c) == HasPulse(c) /\ ~TooOld(c) /\ Head(queue[c]).at <= now
Plays(c) == active /\ Due(c)

(* CDirectPulse::pulse_message *)
PowerForPulse(c) == IF cache[c] # Head(queue[c]).level THEN Head(queue[c]).level ELSE power[c]

(* Mutant of Pulses: a pulse that is played stays in the queue. *)
PulsesPeek ==
  /\ phase = "pulses" /\ phase' = "messages" /\ looked' = TRUE
  /\ old' = old + Cardinality({c \in Channel : TooOld(c)})
  /\ queue' = [c \in Channel |-> IF TooOld(c) \/ TooEarly(c) THEN Tail(queue[c]) ELSE queue[c]]
  /\ played' = [c \in Channel |-> IF Plays(c) THEN Head(queue[c]).nr ELSE played[c]]
  /\ power' = [c \in Channel |-> IF Plays(c) THEN PowerForPulse(c) ELSE power[c]]
  /\ cache' = [c \in Channel |-> IF Plays(c) THEN Head(queue[c]).level ELSE cache[c]]
  /\ UNCHANGED <<now, core0, active, fifo, held>>

Pulses ==
  /\ phase = "pulses" /\ phase' = "messages" /\ looked' = TRUE
  /\ old' = old + Cardinality({c \in Channel : TooOld(c)})
  /\ queue' = [c \in Channel |->
                IF TooOld(c) \/ TooEarly(c) \/ Due(c) THEN Tail(queue[c]) ELSE queue[c]]
  /\ played' = [c \in Channel |-> IF Plays(c) THEN Head(queue[c]).nr ELSE played[c]]
  /\ power' = [c \in Channel |-> IF Plays(c) THEN PowerForPulse(c) ELSE power[c]]
  /\ cache' = [c \in Channel |-> IF Plays(c) THEN Head(queue[c]).level ELSE cache[c]]
  /\ UNCHANGED <<now, core0, active, fifo, held>>

Core1 == Activate \/ StopRoutine \/ PowerChange \/ NoMoreMessages \/ Pulses

-----------------------------------------------------------------------------
Tick ==
  /\ now < MaxTime /\ now' = now + 1
  /\ looked /\ looked' = FALSE
  /\ UNCHANGED <<core0, phase, active, cache, power, old, played, queue, fifo, held>>

(* A millisecond in which core 0 writes to flash: core 1 does nothing. *)
Held ==
  /\ now < MaxTime /\ now' = now + 1
  /\ held < MaxHeld /\ held' = held + 1
  /\ UNCHANGED <<core0, core1, queue, fifo>>

Init ==
  /\ now = 0 /\ link = "down" /\ start = 0 /\ running = FALSE
  /\ queue = [c \in Channel |-> <<>>] /\ fifo = <<>>
  /\ phase = "messages" /\ looked = FALSE /\ active = FALSE
  /\ cache = Silent /\ power = Silent /\ old = 0
  /\ played = [c \in Channel |-> 0] /\ last = NotBegun
  /\ writes = 0 /\ sessions = 0 /\ starts = 0 /\ held = 0

Next == Host \/ Core1 \/ Tick \/ Held

Spec == Init /\ [][Next]_vars

-----------------------------------------------------------------------------
(* The variables take the values the code gives them. *)
TypeOK ==
  /\ now \in 0..MaxTime /\ start \in 0..MaxTime
  /\ link \in {"down", "up", "closing"} /\ {running, active, looked} \subseteq BOOLEAN
  /\ \A c \in Channel : Len(queue[c]) <= Length /\ Len(fifo) <= FifoSize
  /\ {cache, power} \subseteq [Channel -> 0..MaxLevel]

(* Once core 1 has taken its messages, the routine runs if and only if a    *)
(* client is connected, however often it comes and goes and however the     *)
(* connection ends (CBtGatt::packet_handler, disconnected, routine_run).    *)
RunsForAClient == fifo = <<>> => active = (link = "up")

(* A pulse is played at its own power, although CDirectPulse sends a power  *)
(* only when it differs from the last it sent, and power is also set by     *)
(* messages and by starts and stops in between.                             *)
PlaysNow(c) == Plays(c) /\ phase = "pulses" /\ phase' = "messages"
PulseAtItsPower ==
  [][\A c \in Channel : PlaysNow(c) => power'[c] = Head(queue[c]).level]_vars

(* Pulses are played in the order they were sent, each once, none early and *)
(* none more than a millisecond late.                                       *)
InOrderOnTime ==
  [][\A c \in Channel : PlaysNow(c) =>
        /\ played'[c] > played[c]
        /\ now \in Head(queue[c]).at..(Head(queue[c]).at + Late)]_vars

(* Core1.cpp:444: "This shouldn't really happen.  Any pulses with a time in *)
(* the past would already have been discarded on reception": if core 1 is   *)
(* not held, no pulse becomes too old in the queue.                         *)
NoneTooOld == held = 0 => old = 0

(* That holds of the first stream since power up. *)
FirstStreamOnTime == starts <= 1 => NoneTooOld

=============================================================================
