--------------------------- MODULE PulseStreamProofs ---------------------------
(***************************************************************************)
(* Pulses over Bluetooth, for any channels, levels, queue and FIFO lengths *)
(* and times: the routine runs for a client, each pulse is played at its   *)
(* own power, in order and on time.                                        *)
(***************************************************************************)
EXTENDS PulseStream, FiniteSetTheorems, TLAPS

Levels == 0..MaxLevel
Timed == [at : Nat, level : Levels, nr : Nat]
Messages == [type : {"run", "stop"}] \cup [type : {"power"}, channel : Channel, level : Levels]

(* The ranges the steps rely on, those of TypeOK among them.               *)
Types ==
  /\ now \in 0..MaxTime /\ start \in 0..MaxTime
  /\ link \in {"down", "up", "closing"}
  /\ running \in BOOLEAN /\ active \in BOOLEAN /\ looked \in BOOLEAN
  /\ queue \in [Channel -> Seq(Timed)] /\ \A c \in Channel : Len(queue[c]) <= Length
  /\ fifo \in Seq(Messages) /\ Len(fifo) <= FifoSize
  /\ cache \in [Channel -> Levels] /\ power \in [Channel -> Levels]
  /\ played \in [Channel -> Nat] /\ last \in [Channel -> Int]
  /\ writes \in Nat /\ starts \in Nat /\ held \in Nat

(* The last start or stop on its way, or the routine if there is none, is  *)
(* what the client's connection asks for.                                  *)
Wanted == IF running THEN "run" ELSE "stop"
Decided ==
  /\ running = (link = "up")
  /\ \/ active = running /\ \A i \in 1..Len(fifo) : fifo[i].type = "power"
     \/ \E k \in 1..Len(fifo) : /\ fifo[k].type = Wanted
                                /\ \A i \in (k + 1)..Len(fifo) : fifo[i].type = "power"

(* A routine that runs remembers the powers it has asked for.              *)
Remembered == active => cache = power

(* Queues hold what has been sent and not yet played, in order.            *)
InOrder ==
  \A c \in Channel :
    /\ played[c] <= writes
    /\ \A i \in 1..Len(queue[c]) : queue[c][i].nr > played[c] /\ queue[c][i].nr <= writes
    /\ \A i, j \in 1..Len(queue[c]) : i < j => queue[c][i].nr < queue[c][j].nr

(* In the first stream, while core 1 is not held: a queue holds at most    *)
(* one pulse per millisecond, none older than the last look at it, and all *)
(* that the client sends is later.                                         *)
Fresh(c) ==
  /\ \A i, j \in 1..Len(queue[c]) : i < j => queue[c][i].at < queue[c][j].at
  /\ \A i \in 1..Len(queue[c]) : queue[c][i].at >= IF looked THEN now ELSE now - 1
  /\ last[c] < MaxTime => \A i \in 1..Len(queue[c]) : queue[c][i].at <= start + last[c]
OnTime ==
  held = 0 /\ starts <= 1 =>
    /\ old = 0 /\ \A c \in Channel : Fresh(c)
    /\ starts = 0 => last = NotBegun /\ \A c \in Channel : queue[c] = <<>>

IInv == Types /\ Decided /\ Remembered /\ InOrder /\ OnTime

-----------------------------------------------------------------------------
(* Helpers.                                                                *)

LEMMA Numbers ==
  /\ MaxLevel \in Nat /\ Length \in Nat /\ Length > 0 /\ Late \in Nat /\ Late > 0
  /\ FifoSize \in Nat /\ FifoSize > 0 /\ MaxTime \in Nat /\ Ahead \in Nat
BY StreamAssumption

LEMMA Values ==
  /\ Silent \in [Channel -> Levels] /\ NotBegun \in [Channel -> Int]
  /\ Run \in Messages /\ Stop \in Messages /\ Level \subseteq Nat
BY StreamAssumption DEF Silent, NotBegun, Run, Stop, Messages, Levels

LEMMA AppendQueue ==
  ASSUME NEW S, NEW q \in Seq(S), NEW e \in S
  PROVE  /\ Append(q, e) \in Seq(S) /\ Len(Append(q, e)) = Len(q) + 1 /\ Len(q) \in Nat
         /\ \A i \in 1..Len(q) : Append(q, e)[i] = q[i] /\ q[i] \in S
         /\ Append(q, e)[Len(q) + 1] = e
OBVIOUS

LEMMA TailQueue ==
  ASSUME NEW S, NEW q \in Seq(S), q # <<>>
  PROVE  /\ Tail(q) \in Seq(S) /\ Len(Tail(q)) = Len(q) - 1 /\ Len(q) \in Nat \ {0}
         /\ Head(q) = q[1] /\ q[1] \in S
         /\ \A i \in 1..Len(Tail(q)) : Tail(q)[i] = q[i + 1] /\ i + 1 \in 1..Len(q)
OBVIOUS

(* what routine_run leaves in the FIFO *)
LEMMA RoutineRunLeaves ==
  ASSUME NEW run \in BOOLEAN, Types, RoutineRun(run)
  PROVE  /\ running' = run
         /\ fifo' \in Seq(Messages) /\ Len(fifo') <= FifoSize
         /\ \/ running = run /\ fifo' = fifo
            \/ Len(fifo') = Len(fifo) + 1
               /\ fifo'[Len(fifo')].type = IF run THEN "run" ELSE "stop"
<1>1. CASE running = run
  BY <1>1 DEF RoutineRun, Types
<1>2. CASE running # run
  <2>1. /\ running' = run /\ Len(fifo) < FifoSize
        /\ fifo' = Append(fifo, IF run THEN Run ELSE Stop)
    BY <1>2 DEF RoutineRun, Push
  <2>2. fifo \in Seq(Messages) /\ (IF run THEN Run ELSE Stop) \in Messages
    BY Numbers, Values DEF Types
  <2> QED BY <2>1, <2>2, AppendQueue, Numbers DEF Run, Stop
<1> QED BY <1>1, <1>2

(* A queue after one look of core 1 at it. *)
LEMMA LookLeaves ==
  ASSUME Types, NEW c \in Channel, Pulses
  PROVE  \/ queue'[c] = queue[c] /\ ~TooOld(c) /\ ~TooEarly(c) /\ ~Due(c)
         \/ queue[c] # <<>> /\ queue'[c] = Tail(queue[c]) /\ (TooOld(c) \/ TooEarly(c) \/ Due(c))
BY DEF Pulses, TooOld, TooEarly, Due, HasPulse

-----------------------------------------------------------------------------
LEMMA InitIInv == Init => IInv
<1> SUFFICES ASSUME Init PROVE IInv
  OBVIOUS
<1>1. queue \in [Channel -> Seq(Timed)] /\ \A c \in Channel : queue[c] = <<>>
  BY DEF Init
<1>2. fifo = <<>> /\ fifo \in Seq(Messages) /\ Len(fifo) = 0 /\ Len(<<>>) = 0
  BY DEF Init
<1>3. Types /\ Decided /\ Remembered
  <2>1. /\ now \in 0..MaxTime /\ start \in 0..MaxTime
        /\ played \in [Channel -> Nat] /\ last \in [Channel -> Int]
        /\ cache \in [Channel -> Levels] /\ power \in [Channel -> Levels]
        /\ Len(fifo) <= FifoSize /\ \A c \in Channel : Len(queue[c]) <= Length
    BY <1>1, <1>2, Numbers, Values DEF Init
  <2>2. Types
    BY <1>1, <1>2, <2>1 DEF Init, Types
  <2>3. Decided
    <3>1. \A i \in 1..Len(fifo) : fifo[i].type = "power"
      BY <1>2
    <3> QED BY <3>1 DEF Init, Decided
  <2> QED BY <2>2, <2>3 DEF Init, Remembered
<1>4. InOrder
  BY <1>1 DEF Init, InOrder
<1>5. OnTime
  BY <1>1 DEF Init, OnTime, Fresh
<1> QED BY <1>3, <1>4, <1>5 DEF IInv

LEMMA TypesStep ==
  ASSUME Types, [Next]_vars
  PROVE  Types'
<1> USE DEF core0, core1
<1>1. CASE Connected
  <2>1. RoutineRun(TRUE)
    BY <1>1 DEF Connected
  <2> QED BY <1>1, <2>1, RoutineRunLeaves DEF Connected, Types
<1>2. CASE Disconnected \/ LeaveScreen
  <2>1. RoutineRun(FALSE)
    BY <1>2 DEF Disconnected, LeaveScreen
  <2>2. running' = FALSE /\ fifo' \in Seq(Messages) /\ Len(fifo') <= FifoSize
    BY <2>1, RoutineRunLeaves
  <2>3. /\ link' \in {"down", "up", "closing"} /\ last' = NotBegun
        /\ start' = 0 \/ start' = start
        /\ UNCHANGED <<now, writes, starts, core1, queue, held>>
    BY <1>2 DEF Disconnected, LeaveScreen
  <2>4. start' \in 0..MaxTime /\ last' \in [Channel -> Int]
    BY <2>3, Values, Numbers DEF Types
  <2> QED BY <2>2, <2>3, <2>4 DEF Types
<1>3. CASE Begin
  BY <1>3 DEF Begin, Types
<1>4. ASSUME NEW t \in 0..MaxTime, NEW level \in Level, NEW mask \in SUBSET Channel,
             Pulse(t, level, mask)
      PROVE  Types'
  <2>1. last' \in [Channel -> Int] /\ writes' \in Nat
    BY <1>4, Numbers, Values DEF Pulse, Types
  <2>2. CASE Rejected(t, level)
    BY <1>4, <2>1, <2>2 DEF Pulse, Types
  <2>3. CASE ~Rejected(t, level)
    <3>1. [at |-> start + t, level |-> level, nr |-> writes + 1] \in Timed
      BY <2>3, Numbers, Values DEF Rejected, Types, Timed, Levels
    <3>2. ASSUME NEW c \in Channel
          PROVE  queue'[c] \in Seq(Timed) /\ Len(queue'[c]) <= Length
      <4>1. queue[c] \in Seq(Timed) /\ Len(queue[c]) <= Length
        BY DEF Types
      <4>2. queue'[c] = queue[c]
            \/ (Len(queue[c]) < Length
                /\ queue'[c] = Append(queue[c], [at |-> start + t, level |-> level,
                                                 nr |-> writes + 1]))
        BY <1>4, <2>3 DEF Pulse
      <4>3. CASE queue'[c] = queue[c]
        BY <4>1, <4>3
      <4>4. CASE queue'[c] # queue[c]
        <5> DEFINE e == [at |-> start + t, level |-> level, nr |-> writes + 1]
        <5>1. Append(queue[c], e) \in Seq(Timed) /\ Len(Append(queue[c], e)) = Len(queue[c]) + 1
              /\ Len(queue[c]) \in Nat
          BY <3>1, <4>1, AppendQueue
        <5>2. Len(queue[c]) < Length /\ queue'[c] = Append(queue[c], e)
          BY <4>2, <4>4
        <5> HIDE DEF e
        <5> QED BY <5>1, <5>2, Numbers
      <4> QED BY <4>3, <4>4
    <3>3. queue' \in [Channel -> Seq(Timed)]
      <4>1. DOMAIN queue' = Channel /\ queue' = [c \in Channel |-> queue'[c]]
        BY <1>4, <2>3 DEF Pulse
      <4> QED BY <3>2, <4>1
    <3> QED BY <1>4, <2>1, <3>2, <3>3 DEF Pulse, Types
  <2> QED BY <2>2, <2>3
<1>5. ASSUME NEW c \in Channel, NEW p \in Level, PowerWrite(c, p)
      PROVE  Types'
  <2>1. SetPower(c, p) \in Messages /\ fifo \in Seq(Messages)
    BY <1>5, Numbers, Values DEF PowerWrite, Levels, Types, SetPower, Messages
  <2>2. fifo' \in Seq(Messages) /\ Len(fifo') <= FifoSize
    BY <1>5, <2>1, AppendQueue, Numbers DEF PowerWrite, Push
  <2> QED BY <1>5, <2>2 DEF PowerWrite, Types
<1>6. CASE Activate \/ StopRoutine \/ PowerChange
  <2>1. fifo # <<>> /\ fifo' = Tail(fifo) /\ fifo \in Seq(Messages)
    BY <1>6 DEF Activate, StopRoutine, PowerChange, Message, Types
  <2>2. fifo' \in Seq(Messages) /\ Len(fifo') <= FifoSize /\ Head(fifo) \in Messages
    BY <2>1, TailQueue, Numbers DEF Types
  <2>3. cache' \in [Channel -> Levels] /\ power' \in [Channel -> Levels] /\ active' \in BOOLEAN
    <3>1. CASE Activate \/ StopRoutine
      BY <3>1, Numbers, Values DEF Activate, StopRoutine, Types
    <3>2. CASE PowerChange
      <4>1. Head(fifo).channel \in Channel /\ Head(fifo).level \in Levels
        BY <2>2, <3>2 DEF PowerChange, Messages
      <4> QED BY <3>2, <4>1 DEF PowerChange, Types
    <3> QED BY <1>6, <3>1, <3>2
  <2> QED BY <1>6, <2>2, <2>3 DEF Activate, StopRoutine, PowerChange, Message, Types
<1>7. CASE NoMoreMessages
  BY <1>7 DEF NoMoreMessages, Types
<1>8. CASE Pulses
  <2>1. ASSUME NEW c \in Channel
        PROVE  /\ queue'[c] \in Seq(Timed) /\ Len(queue'[c]) <= Length
               /\ Plays(c) => Head(queue[c]) \in Timed
    <3>1. queue[c] \in Seq(Timed) /\ Len(queue[c]) <= Length
      BY DEF Types
    <3>2. queue[c] # <<>> =>
            /\ Tail(queue[c]) \in Seq(Timed) /\ Len(Tail(queue[c])) = Len(queue[c]) - 1
            /\ Len(queue[c]) \in Nat /\ Head(queue[c]) \in Timed
      BY <3>1, TailQueue
    <3>3. queue'[c] = queue[c] \/ (queue[c] # <<>> /\ queue'[c] = Tail(queue[c]))
      BY <1>8, LookLeaves
    <3>4. Plays(c) => queue[c] # <<>>
      BY DEF Plays, Due, HasPulse
    <3>5. CASE queue'[c] = queue[c]
      BY <3>1, <3>2, <3>4, <3>5
    <3>6. CASE queue[c] # <<>> /\ queue'[c] = Tail(queue[c])
      BY <3>1, <3>2, <3>6, Numbers
    <3> QED BY <3>3, <3>5, <3>6
  <2>2. queue' \in [Channel -> Seq(Timed)]
    <3>1. queue' = [c \in Channel |-> queue'[c]]
      BY <1>8 DEF Pulses
    <3> QED BY <2>1, <3>1
  <2>3. played' \in [Channel -> Nat]
    BY <1>8, <2>1 DEF Pulses, Timed, Types
  <2>4. cache' \in [Channel -> Levels]
    BY <1>8, <2>1 DEF Pulses, Timed, Types
  <2>5. power' \in [Channel -> Levels]
    BY <1>8, <2>1 DEF Pulses, PowerForPulse, Timed, Types
  <2> QED BY <1>8, <2>1, <2>2, <2>3, <2>4, <2>5 DEF Pulses, Types
<1>9. CASE Tick
  <2>1. now' \in 0..MaxTime /\ looked' \in BOOLEAN
    <3>1. now < MaxTime /\ now' = now + 1 /\ looked' = FALSE
      BY <1>9 DEF Tick
    <3>2. now \in 0..MaxTime
      BY DEF Types
    <3>3. now' \in 0..MaxTime
      BY <3>1, <3>2, Numbers
    <3> QED BY <3>1, <3>3
  <2>2. UNCHANGED <<core0, active, cache, power, played, queue, fifo, held>>
    BY <1>9 DEF Tick
  <2>3. running' \in BOOLEAN /\ active' \in BOOLEAN
    BY <2>2 DEF Types
  <2>4. queue' \in [Channel -> Seq(Timed)] /\ \A c \in Channel : Len(queue'[c]) <= Length
    BY <2>2 DEF Types
  <2>5. fifo' \in Seq(Messages) /\ Len(fifo') <= FifoSize
    BY <2>2 DEF Types
  <2> QED BY <2>1, <2>2, <2>3, <2>4, <2>5 DEF Types
<1>10. CASE Held
  BY <1>10, Numbers DEF Held, Types
<1>11. CASE UNCHANGED vars
  BY <1>11 DEF vars, Types
<1> QED BY <1>1, <1>2, <1>3, <1>4, <1>5, <1>6, <1>7, <1>8, <1>9, <1>10, <1>11
        DEF Next, Host, Core1

-----------------------------------------------------------------------------
(* The routine and the client.                                             *)

LEMMA DecidedByRoutineRun ==
  ASSUME NEW run \in BOOLEAN, Types, Decided, RoutineRun(run), run = (link' = "up"),
         active' = active
  PROVE  Decided'
<1>1. running' = run /\ fifo' \in Seq(Messages)
  BY RoutineRunLeaves
<1>2. CASE running = run /\ fifo' = fifo
  BY <1>1, <1>2 DEF Decided, Wanted
<1>3. CASE Len(fifo') = Len(fifo) + 1 /\ fifo'[Len(fifo')].type = IF run THEN "run" ELSE "stop"
  <2>1. Len(fifo') \in 1..Len(fifo')
    BY <1>3 DEF Types
  <2>2. fifo'[Len(fifo')].type = Wanted'
    BY <1>1, <1>3 DEF Wanted
  <2>3. \A i \in (Len(fifo') + 1)..Len(fifo') : fifo'[i].type = "power"
    BY <2>1
  <2> QED BY <1>1, <2>1, <2>2, <2>3 DEF Decided
<1> QED BY <1>2, <1>3, RoutineRunLeaves

LEMMA DecidedStep ==
  ASSUME Types, Decided, [Next]_vars
  PROVE  Decided'
<1> USE DEF core0, core1
<1>1. CASE Connected
  BY <1>1, DecidedByRoutineRun DEF Connected
<1>2. CASE Disconnected \/ LeaveScreen
  <2>1. RoutineRun(FALSE) /\ link' # "up" /\ active' = active
    BY <1>2 DEF Disconnected, LeaveScreen
  <2> QED BY <2>1, DecidedByRoutineRun
<1>3. ASSUME NEW c \in Channel, NEW p \in Level, PowerWrite(c, p)
      PROVE  Decided'
  <2>1. /\ SetPower(c, p) \in Messages /\ SetPower(c, p).type = "power"
        /\ fifo \in Seq(Messages) /\ fifo' = Append(fifo, SetPower(c, p))
    BY <1>3, Numbers, Values DEF PowerWrite, Push, SetPower, Messages, Levels, Types
  <2>2. /\ Len(fifo') = Len(fifo) + 1 /\ Len(fifo) \in Nat
        /\ \A i \in 1..Len(fifo) : fifo'[i] = fifo[i]
        /\ fifo'[Len(fifo) + 1].type = "power"
    BY <2>1, AppendQueue
  <2>3. UNCHANGED <<running, link, active>> /\ Wanted' = Wanted
    BY <1>3 DEF PowerWrite, Wanted
  <2>4. CASE active = running /\ \A i \in 1..Len(fifo) : fifo[i].type = "power"
    <3>1. \A i \in 1..Len(fifo') : fifo'[i].type = "power"
      BY <2>2, <2>4
    <3> QED BY <2>3, <2>4, <3>1 DEF Decided
  <2>5. ASSUME NEW k \in 1..Len(fifo), fifo[k].type = Wanted,
               \A i \in (k + 1)..Len(fifo) : fifo[i].type = "power"
        PROVE  Decided'
    <3>1. k \in 1..Len(fifo') /\ fifo'[k].type = Wanted'
      BY <2>2, <2>3, <2>5
    <3>2. \A i \in (k + 1)..Len(fifo') : fifo'[i].type = "power"
      BY <2>2, <2>5
    <3> QED BY <2>3, <3>1, <3>2 DEF Decided
  <2> QED BY <2>4, <2>5 DEF Decided
<1>4. CASE Activate \/ StopRoutine \/ PowerChange
  <2>1. fifo # <<>> /\ fifo' = Tail(fifo) /\ fifo \in Seq(Messages)
    BY <1>4 DEF Activate, StopRoutine, PowerChange, Message, Types
  <2>2. /\ Len(fifo') = Len(fifo) - 1 /\ Len(fifo) \in Nat \ {0} /\ Head(fifo) = fifo[1]
        /\ \A i \in 1..Len(fifo') : fifo'[i] = fifo[i + 1] /\ i + 1 \in 1..Len(fifo)
    BY <2>1, TailQueue
  <2>3. UNCHANGED <<running, link>> /\ Wanted' = Wanted
    BY <1>4 DEF Activate, StopRoutine, PowerChange, Message, Wanted
  <2>4. CASE active = running /\ \A i \in 1..Len(fifo) : fifo[i].type = "power"
    <3>1. fifo[1].type = "power"
      BY <2>2, <2>4
    <3>2. active' = active
      BY <1>4, <2>2, <3>1 DEF Activate, StopRoutine, PowerChange
    <3>3. \A i \in 1..Len(fifo') : fifo'[i].type = "power"
      BY <2>2, <2>4
    <3> QED BY <2>3, <2>4, <3>2, <3>3 DEF Decided
  <2>5. ASSUME fifo[1].type = Wanted, \A i \in 2..Len(fifo) : fifo[i].type = "power"
        PROVE  Decided'
    <3>1. active' = running
      BY <1>4, <2>2, <2>5 DEF Activate, StopRoutine, PowerChange, Wanted, Types
    <3>2. \A i \in 1..Len(fifo') : fifo'[i].type = "power"
      BY <2>2, <2>5
    <3> QED BY <2>3, <3>1, <3>2 DEF Decided
  <2>6. ASSUME NEW k \in 2..Len(fifo), fifo[k].type = Wanted,
               \A i \in (k + 1)..Len(fifo) : fifo[i].type = "power"
        PROVE  Decided'
    <3>1. k - 1 \in 1..Len(fifo') /\ fifo'[k - 1].type = Wanted'
      BY <2>2, <2>3, <2>6
    <3>2. \A i \in ((k - 1) + 1)..Len(fifo') : fifo'[i].type = "power"
      BY <2>2, <2>6
    <3> QED BY <2>3, <3>1, <3>2 DEF Decided
  <2>7. \A k \in 1..Len(fifo) : k = 1 \/ k \in 2..Len(fifo)
    BY <2>2
  <2> QED BY <2>4, <2>5, <2>6, <2>7 DEF Decided
<1>5. ASSUME UNCHANGED <<running, link, active, fifo>>
      PROVE  Decided'
  BY <1>5 DEF Decided, Wanted
<1>6. CASE Begin \/ NoMoreMessages \/ Pulses \/ Tick \/ Held \/ UNCHANGED vars
  BY <1>5, <1>6 DEF Begin, NoMoreMessages, Pulses, Tick, Held, vars
<1>7. ASSUME NEW t \in 0..MaxTime, NEW level \in Level, NEW mask \in SUBSET Channel,
             Pulse(t, level, mask)
      PROVE  Decided'
  BY <1>5, <1>7 DEF Pulse
<1> QED BY <1>1, <1>2, <1>3, <1>4, <1>6, <1>7 DEF Next, Host, Core1

LEMMA RememberedStep ==
  ASSUME Types, Remembered, [Next]_vars
  PROVE  Remembered'
<1> USE DEF core0, core1
<1>1. CASE Activate \/ StopRoutine
  BY <1>1 DEF Activate, StopRoutine, Remembered
<1>2. CASE PowerChange
  BY <1>2 DEF PowerChange, Remembered
<1>3. CASE Pulses
  <2>1. ASSUME active, NEW c \in Channel
        PROVE  cache'[c] = power'[c]
    <3>1. cache[c] = power[c]
      BY <2>1 DEF Remembered
    <3> QED BY <1>3, <3>1 DEF Pulses, PowerForPulse
  <2>2. cache' = [c \in Channel |-> cache'[c]] /\ power' = [c \in Channel |-> power'[c]]
        /\ active' = active
    BY <1>3 DEF Pulses
  <2> QED BY <2>1, <2>2 DEF Remembered
<1>4. ASSUME UNCHANGED <<active, cache, power>>
      PROVE  Remembered'
  BY <1>4 DEF Remembered
<1>5. CASE Host
  BY <1>4, <1>5 DEF Host, Connected, Disconnected, LeaveScreen, Begin, Pulse, PowerWrite
<1>6. CASE NoMoreMessages \/ Tick \/ Held \/ UNCHANGED vars
  BY <1>4, <1>6 DEF NoMoreMessages, Tick, Held, vars
<1> QED BY <1>1, <1>2, <1>3, <1>5, <1>6 DEF Next, Core1

-----------------------------------------------------------------------------
(* The order of the pulses.                                                *)

Numbered(q, lo, hi) ==
  /\ \A i \in 1..Len(q) : q[i].nr > lo /\ q[i].nr <= hi
  /\ \A i, j \in 1..Len(q) : i < j => q[i].nr < q[j].nr
InOrderAt(c) == played[c] <= writes /\ Numbered(queue[c], played[c], writes)

LEMMA NumberedMore ==
  ASSUME NEW q, Len(q) \in Nat, NEW lo \in Nat, NEW hi \in Nat, lo <= hi, Numbered(q, lo, hi),
         \A i \in 1..Len(q) : q[i].nr \in Nat,
         NEW r, Len(r) = Len(q) + 1, \A i \in 1..Len(q) : r[i] = q[i], r[Len(r)].nr = hi + 1
  PROVE  Numbered(r, lo, hi + 1)
<1>1. ASSUME NEW i \in 1..Len(r)
      PROVE  \/ i \in 1..Len(q) /\ r[i] = q[i] /\ r[i].nr > lo /\ r[i].nr <= hi
             \/ i = Len(r) /\ r[i].nr = hi + 1
  BY DEF Numbered
<1>2. ASSUME NEW i \in 1..Len(r), NEW j \in 1..Len(r), i < j
      PROVE  r[i].nr < r[j].nr
  <2>1. i \in 1..Len(q) /\ r[i] = q[i] /\ r[i].nr <= hi /\ q[i].nr \in Nat
    BY <1>1, <1>2
  <2>2. CASE j \in 1..Len(q)
    BY <1>2, <2>1, <2>2 DEF Numbered
  <2>3. CASE j = Len(r)
    BY <2>1, <2>3
  <2> QED BY <2>2, <2>3
<1>3. ASSUME NEW i \in 1..Len(r)
      PROVE  r[i].nr > lo /\ r[i].nr <= hi + 1
  <2>1. CASE i \in 1..Len(q) /\ r[i] = q[i] /\ r[i].nr > lo /\ r[i].nr <= hi
    BY <2>1
  <2>2. CASE i = Len(r) /\ r[i].nr = hi + 1
    BY <2>2
  <2> QED BY <1>1, <2>1, <2>2
<1> QED BY <1>2, <1>3 DEF Numbered

LEMMA NumberedLess ==
  ASSUME NEW q, NEW lo \in Nat, NEW hi \in Nat, lo <= hi, Numbered(q, lo, hi), Len(q) \in Nat,
         Len(q) > 0, \A i \in 1..Len(q) : q[i].nr \in Nat,
         NEW r, Len(r) = Len(q) - 1,
         \A i \in 1..Len(r) : r[i] = q[i + 1] /\ i + 1 \in 1..Len(q),
         NEW mark, mark = lo \/ mark = q[1].nr
  PROVE  mark <= hi /\ Numbered(r, mark, hi)
<1>1. 1 \in 1..Len(q) /\ q[1].nr > lo /\ q[1].nr <= hi /\ q[1].nr \in Nat
  BY DEF Numbered
<1>2. ASSUME NEW i \in 1..Len(r)
      PROVE  r[i].nr > mark /\ r[i].nr <= hi
  <2>1. /\ i + 1 \in 1..Len(q) /\ 1 < i + 1 /\ r[i] = q[i + 1] /\ q[i + 1].nr <= hi
        /\ q[i + 1].nr \in Nat
    BY DEF Numbered
  <2>2. q[1].nr < q[i + 1].nr
    BY <1>1, <2>1 DEF Numbered
  <2> QED BY <1>1, <2>1, <2>2
<1>3. ASSUME NEW i \in 1..Len(r), NEW j \in 1..Len(r), i < j
      PROVE  r[i].nr < r[j].nr
  <2>1. /\ i + 1 \in 1..Len(q) /\ j + 1 \in 1..Len(q) /\ i + 1 < j + 1
        /\ r[i] = q[i + 1] /\ r[j] = q[j + 1]
    BY <1>3
  <2> QED BY <2>1 DEF Numbered
<1> QED BY <1>1, <1>2, <1>3 DEF Numbered

LEMMA QueueAt ==
  ASSUME Types, NEW c \in Channel
  PROVE  /\ queue[c] \in Seq(Timed) /\ Len(queue[c]) \in Nat /\ played[c] \in Nat
         /\ writes \in Nat /\ start \in Nat /\ now \in Nat /\ last[c] \in Int
         /\ \A i \in 1..Len(queue[c]) : queue[c][i].nr \in Nat /\ queue[c][i].at \in Nat
<1>1. queue[c] \in Seq(Timed) /\ played[c] \in Nat /\ writes \in Nat /\ last[c] \in Int
  BY DEF Types
<1>2. start \in Nat /\ now \in Nat
  BY Numbers DEF Types
<1>3. \A i \in 1..Len(queue[c]) : queue[c][i] \in Timed
  BY <1>1
<1> QED BY <1>1, <1>2, <1>3 DEF Timed

(* A look takes the head of a queue or leaves the queue alone; what it     *)
(* plays is the head.                                                      *)
LEMMA LookAt ==
  ASSUME Types, NEW c \in Channel, Pulses
  PROVE  \/ /\ queue'[c] = queue[c] /\ played'[c] = played[c]
            /\ Len(queue[c]) > 0 => queue[c][1].at > now
         \/ /\ Len(queue[c]) > 0 /\ Len(queue'[c]) = Len(queue[c]) - 1
            /\ \A i \in 1..Len(queue'[c]) : queue'[c][i] = queue[c][i + 1]
                                            /\ i + 1 \in 1..Len(queue[c])
            /\ played'[c] = played[c] \/ played'[c] = queue[c][1].nr
<1>1. queue[c] # <<>> =>
        /\ Head(queue[c]) = queue[c][1] /\ Len(Tail(queue[c])) = Len(queue[c]) - 1
        /\ Len(queue[c]) \in Nat \ {0}
        /\ \A i \in 1..Len(Tail(queue[c])) : Tail(queue[c])[i] = queue[c][i + 1]
                                             /\ i + 1 \in 1..Len(queue[c])
  BY QueueAt, TailQueue
<1>2. CASE queue[c] # <<>> /\ queue'[c] = Tail(queue[c])
  <2>1. played'[c] = played[c] \/ played'[c] = Head(queue[c]).nr
    BY DEF Pulses
  <2> QED BY <1>1, <1>2, <2>1
<1>3. CASE queue'[c] = queue[c] /\ ~TooOld(c) /\ ~TooEarly(c) /\ ~Due(c)
  <2>1. played'[c] = played[c]
    BY <1>3 DEF Pulses, Plays
  <2>2. ASSUME Len(queue[c]) > 0
        PROVE  queue[c][1].at > now
    <3>1. queue[c] # <<>> /\ ~(queue[c][1].at <= now)
      BY <1>1, <1>3, <2>2, QueueAt DEF Due, HasPulse
    <3>2. queue[c][1].at \in Nat /\ now \in Nat
      BY <2>2, QueueAt
    <3> QED BY <3>1, <3>2
  <2> QED BY <1>3, <2>1, <2>2
<1> QED BY <1>2, <1>3, LookLeaves

(* A pulse that arrives is added to a queue, or not.                       *)
LEMMA PulseAt ==
  ASSUME Types, NEW c \in Channel, NEW t \in 0..MaxTime, NEW level \in Level,
         NEW mask \in SUBSET Channel, Pulse(t, level, mask)
  PROVE  \/ queue'[c] = queue[c]
         \/ /\ c \in mask /\ Len(queue'[c]) = Len(queue[c]) + 1 /\ ~(start + t < now)
            /\ \A i \in 1..Len(queue[c]) : queue'[c][i] = queue[c][i]
            /\ queue'[c][Len(queue'[c])].nr = writes + 1
            /\ queue'[c][Len(queue'[c])].at = start + t
<1> DEFINE e == [at |-> start + t, level |-> level, nr |-> writes + 1]
<1>1. CASE ~Rejected(t, level) /\ c \in mask /\ queue'[c] = Append(queue[c], e)
  <2>1. queue[c] \in Seq(Timed) /\ e \in Timed
    <3>1. start + t \in Nat /\ writes + 1 \in Nat
      BY QueueAt, Numbers
    <3>2. level \in Levels
      BY <1>1, Numbers, Values DEF Rejected, Levels
    <3> QED BY <3>1, <3>2, QueueAt DEF Timed
  <2>2. /\ Len(queue'[c]) = Len(queue[c]) + 1 /\ queue'[c][Len(queue[c]) + 1] = e
        /\ \A i \in 1..Len(queue[c]) : queue'[c][i] = queue[c][i]
    BY <1>1, <2>1, AppendQueue
  <2> QED BY <1>1, <2>2 DEF Rejected
<1> QED BY <1>1 DEF Pulse

LEMMA InOrderStep ==
  ASSUME Types, InOrder, [Next]_vars
  PROVE  InOrder'
<1> USE DEF core0, core1
<1> SUFFICES ASSUME NEW c \in Channel
             PROVE  InOrderAt(c)'
  BY DEF InOrder, InOrderAt, Numbered
<1>0. /\ InOrderAt(c) /\ played[c] \in Nat /\ writes \in Nat /\ Len(queue[c]) \in Nat
      /\ \A i \in 1..Len(queue[c]) : queue[c][i].nr \in Nat
  BY QueueAt DEF InOrder, InOrderAt, Numbered
<1>1. ASSUME UNCHANGED <<queue, played>>, writes' \in {writes, writes + 1}
      PROVE  InOrderAt(c)'
  BY <1>0, <1>1 DEF InOrderAt, Numbered
<1>2. ASSUME NEW t \in 0..MaxTime, NEW level \in Level, NEW mask \in SUBSET Channel,
             Pulse(t, level, mask)
      PROVE  InOrderAt(c)'
  <2>1. writes' = writes + 1 /\ played' = played
    BY <1>2 DEF Pulse
  <2>2. Numbered(queue'[c], played[c], writes + 1)
    <3> DEFINE q == queue[c]
               r == queue'[c]
    <3>1. \/ r = q
          \/ /\ Len(r) = Len(q) + 1 /\ \A i \in 1..Len(q) : r[i] = q[i]
             /\ r[Len(r)].nr = writes + 1
      BY <1>2, PulseAt
    <3>2. /\ Numbered(q, played[c], writes) /\ played[c] <= writes /\ Len(q) \in Nat
          /\ played[c] \in Nat /\ writes \in Nat /\ \A i \in 1..Len(q) : q[i].nr \in Nat
      BY <1>0 DEF InOrderAt
    <3> HIDE DEF q, r
    <3>3. CASE r = q
      BY <3>2, <3>3 DEF Numbered, r
    <3>4. CASE /\ Len(r) = Len(q) + 1 /\ \A i \in 1..Len(q) : r[i] = q[i]
               /\ r[Len(r)].nr = writes + 1
      BY <3>2, <3>4, NumberedMore DEF r
    <3> QED BY <3>1, <3>3, <3>4
  <2> QED BY <1>0, <2>1, <2>2 DEF InOrderAt
<1>3. CASE Pulses
  <2>1. writes' = writes
    BY <1>3 DEF Pulses
  <2>2. CASE queue'[c] = queue[c] /\ played'[c] = played[c]
    BY <1>0, <2>1, <2>2 DEF InOrderAt
  <2>3. CASE /\ Len(queue[c]) > 0 /\ Len(queue'[c]) = Len(queue[c]) - 1
             /\ \A i \in 1..Len(queue'[c]) : queue'[c][i] = queue[c][i + 1]
                                             /\ i + 1 \in 1..Len(queue[c])
             /\ played'[c] = played[c] \/ played'[c] = queue[c][1].nr
    BY <1>0, <2>1, <2>3, NumberedLess DEF InOrderAt
  <2> QED BY <1>3, <2>2, <2>3, LookAt
<1>4. CASE Connected \/ Disconnected \/ LeaveScreen \/ Begin
  BY <1>1, <1>4 DEF Connected, Disconnected, LeaveScreen, Begin
<1>5. ASSUME NEW d \in Channel, NEW p \in Level, PowerWrite(d, p)
      PROVE  InOrderAt(c)'
  BY <1>1, <1>5 DEF PowerWrite
<1>6. CASE Activate \/ StopRoutine \/ PowerChange
  BY <1>1, <1>6 DEF Activate, StopRoutine, PowerChange, Message
<1>7. CASE NoMoreMessages \/ Tick \/ Held \/ UNCHANGED vars
  BY <1>1, <1>7 DEF NoMoreMessages, Tick, Held, vars
<1> QED BY <1>2, <1>3, <1>4, <1>5, <1>6, <1>7 DEF Next, Host, Core1

-----------------------------------------------------------------------------
(* The time of the pulses.                                                 *)

Rising(q, least) ==
  /\ \A i, j \in 1..Len(q) : i < j => q[i].at < q[j].at
  /\ \A i \in 1..Len(q) : q[i].at >= least
Before(q, end) == \A i \in 1..Len(q) : q[i].at <= end
Least == IF looked THEN now ELSE now - 1

LEMMA FreshIs ==
  ASSUME NEW c \in Channel
  PROVE  Fresh(c) <=> /\ Rising(queue[c], Least)
                      /\ last[c] < MaxTime => Before(queue[c], start + last[c])
BY DEF Fresh, Rising, Before, Least

LEMMA RisingMore ==
  ASSUME NEW q, Len(q) \in Nat, \A i \in 1..Len(q) : q[i].at \in Nat,
         NEW end \in Int, Before(q, end), NEW least \in Int, Rising(q, least),
         NEW t \in Nat, t > end, t >= least,
         NEW r, Len(r) = Len(q) + 1, \A i \in 1..Len(q) : r[i] = q[i], r[Len(r)].at = t
  PROVE  Rising(r, least) /\ Before(r, t)
<1>1. ASSUME NEW i \in 1..Len(r)
      PROVE  r[i].at >= least /\ r[i].at <= t
  <2>1. CASE i \in 1..Len(q)
    BY <2>1 DEF Rising, Before
  <2>2. CASE i = Len(r)
    BY <2>2
  <2> QED BY <2>1, <2>2
<1>2. ASSUME NEW i \in 1..Len(r), NEW j \in 1..Len(r), i < j
      PROVE  r[i].at < r[j].at
  <2>1. i \in 1..Len(q) /\ r[i] = q[i] /\ q[i].at <= end /\ q[i].at \in Nat
    BY <1>2 DEF Before
  <2>2. CASE j \in 1..Len(q)
    BY <1>2, <2>1, <2>2 DEF Rising
  <2>3. CASE j = Len(r)
    BY <2>1, <2>3
  <2> QED BY <2>2, <2>3
<1> QED BY <1>1, <1>2 DEF Rising, Before

LEMMA RisingLess ==
  ASSUME NEW q, Len(q) \in Nat, Len(q) > 0, \A i \in 1..Len(q) : q[i].at \in Nat,
         NEW least \in Int, Rising(q, least),
         NEW r, Len(r) = Len(q) - 1,
         \A i \in 1..Len(r) : r[i] = q[i + 1] /\ i + 1 \in 1..Len(q)
  PROVE  Rising(r, least + 1) /\ \A end \in Int : Before(q, end) => Before(r, end)
<1>1. 1 \in 1..Len(q) /\ q[1].at >= least /\ q[1].at \in Nat
  BY DEF Rising
<1>2. ASSUME NEW i \in 1..Len(r)
      PROVE  r[i].at >= least + 1
  <2>1. i + 1 \in 1..Len(q) /\ 1 < i + 1 /\ r[i] = q[i + 1] /\ q[i + 1].at \in Nat
    OBVIOUS
  <2>2. q[1].at < q[i + 1].at
    BY <1>1, <2>1 DEF Rising
  <2> QED BY <1>1, <2>1, <2>2
<1>3. ASSUME NEW i \in 1..Len(r), NEW j \in 1..Len(r), i < j
      PROVE  r[i].at < r[j].at
  <2>1. /\ i + 1 \in 1..Len(q) /\ j + 1 \in 1..Len(q) /\ i + 1 < j + 1
        /\ r[i] = q[i + 1] /\ r[j] = q[j + 1]
    BY <1>3
  <2> QED BY <2>1 DEF Rising
<1>4. ASSUME NEW end \in Int, Before(q, end)
      PROVE  Before(r, end)
  BY <1>4 DEF Before
<1> QED BY <1>2, <1>3, <1>4 DEF Rising

(* A queue whose head is due later than now rises from the next millisecond. *)
LEMMA RisingHead ==
  ASSUME NEW q, Len(q) \in Nat, \A i \in 1..Len(q) : q[i].at \in Nat,
         NEW least \in Int, Rising(q, least), NEW time \in Int, Len(q) > 0 => q[1].at > time
  PROVE  Rising(q, time)
<1>1. ASSUME NEW i \in 1..Len(q)
      PROVE  q[i].at >= time
  <2>1. 1 \in 1..Len(q) /\ Len(q) > 0 /\ q[1].at \in Nat /\ q[i].at \in Nat
    OBVIOUS
  <2>2. i = 1 \/ q[1].at < q[i].at
    BY <2>1 DEF Rising
  <2> QED BY <2>1, <2>2
<1> QED BY <1>1 DEF Rising

LEMMA RisingFrom ==
  ASSUME NEW q, \A i \in 1..Len(q) : q[i].at \in Nat, NEW least \in Int, Rising(q, least),
         NEW other \in Int, other <= least
  PROVE  Rising(q, other)
BY DEF Rising

LEMMA EmptyIsFresh ==
  ASSUME NEW q, Len(q) = 0, NEW least, NEW end
  PROVE  Rising(q, least) /\ Before(q, end)
BY DEF Rising, Before

First == held = 0 /\ starts <= 1
Steady == old = 0 /\ \A c \in Channel : Fresh(c)
NothingYet == starts = 0 => last = NotBegun /\ \A c \in Channel : queue[c] = <<>>

LEMMA OnTimeIs == OnTime <=> (First => Steady /\ NothingYet)
BY DEF OnTime, First, Steady, NothingYet

LEMMA OnTimePulse ==
  ASSUME Types, Steady, NothingYet, NEW t \in 0..MaxTime, NEW level \in Level,
         NEW mask \in (SUBSET Channel) \ {{}}, Pulse(t, level, mask)
  PROVE  Steady' /\ NothingYet'
<1> USE DEF core0, core1
<1>1. \A c \in mask : c \in Channel /\ last[c] < t /\ last'[c] = t
  BY DEF Pulse
<1>2. \A c \in Channel : c \notin mask => last'[c] = last[c] /\ queue'[c] = queue[c]
  BY DEF Pulse
<1>3. UNCHANGED <<now, start, starts, looked, old>>
  BY DEF Pulse
<1>4. starts # 0
  <2> SUFFICES ASSUME starts = 0
               PROVE  FALSE
    OBVIOUS
  <2>1. PICK c \in mask : TRUE
    OBVIOUS
  <2>2. last[c] = MaxTime
    BY <1>1 DEF NothingYet, NotBegun
  <2> QED BY <1>1, <2>1, <2>2, Numbers
<1>5. ASSUME NEW c \in Channel
      PROVE  Fresh(c)'
  <2> DEFINE least == Least
  <2>1. Least' = Least /\ Least \in Int /\ Least <= now
    BY <1>3, QueueAt DEF Least
  <2>2. CASE c \notin mask
    BY <1>2, <1>3, <2>2 DEF Fresh, Steady
  <2>3. CASE c \in mask
    <3>1. /\ Rising(queue[c], Least) /\ Before(queue[c], start + last[c])
          /\ start + last[c] < start + t /\ last'[c] = t /\ start' = start
          /\ start + t \in Nat /\ start + last[c] \in Int
      BY <1>1, <1>3, <2>3, FreshIs, QueueAt, Numbers DEF Steady
    <3>2. CASE queue'[c] = queue[c]
      <4>1. Before(queue[c], start + t)
        BY <3>1, QueueAt DEF Before
      <4> QED BY <2>1, <3>1, <3>2, <4>1 DEF Fresh, Rising, Before, Least
    <3>3. CASE /\ Len(queue'[c]) = Len(queue[c]) + 1 /\ ~(start + t < now)
               /\ \A i \in 1..Len(queue[c]) : queue'[c][i] = queue[c][i]
               /\ queue'[c][Len(queue'[c])].at = start + t
      <4>1. start + t >= Least /\ start + t > start + last[c]
        BY <2>1, <3>1, <3>3, QueueAt
      <4>2. Rising(queue'[c], Least) /\ Before(queue'[c], start + t)
        BY <2>1, <3>1, <3>3, <4>1, RisingMore, QueueAt
      <4> QED BY <2>1, <3>1, <4>2 DEF Fresh, Rising, Before, Least
    <3> QED BY <3>2, <3>3, PulseAt
  <2> QED BY <2>2, <2>3
<1> QED BY <1>3, <1>4, <1>5 DEF Steady, NothingYet

LEMMA OnTimePulses ==
  ASSUME Types, Steady, NothingYet, Pulses
  PROVE  Steady' /\ NothingYet'
<1> USE DEF core0, core1
<1>1. UNCHANGED <<now, start, starts, last>> /\ looked' = TRUE
  BY DEF Pulses
<1>2. ASSUME NEW c \in Channel
      PROVE  ~TooOld(c)
  <2> SUFFICES ASSUME TooOld(c)
               PROVE  FALSE
    OBVIOUS
  <2>1. queue[c] # <<>> /\ Head(queue[c]).at < now - Late
    BY DEF TooOld, HasPulse
  <2>2. 1 \in 1..Len(queue[c]) /\ Head(queue[c]) = queue[c][1] /\ queue[c][1].at \in Nat
    BY <2>1, QueueAt
  <2>3. queue[c][1].at >= now - 1
    BY <2>2, FreshIs, QueueAt DEF Steady, Rising, Least
  <2> QED BY <2>1, <2>2, <2>3, Numbers, QueueAt
<1>3. old' = 0
  <2>1. {c \in Channel : TooOld(c)} = {}
    BY <1>2
  <2>2. Cardinality({c \in Channel : TooOld(c)}) = 0
    BY <2>1, FS_EmptySet
  <2> QED BY <2>2 DEF Pulses, Steady
<1>4. ASSUME NEW c \in Channel
      PROVE  Fresh(c)'
  <2>1. /\ Rising(queue[c], Least)
        /\ last[c] < MaxTime => Before(queue[c], start + last[c])
        /\ Least \in Int /\ now \in Int /\ now <= Least + 1 /\ start + last[c] \in Int
    BY FreshIs, QueueAt DEF Steady, Least
  <2>2. Rising(queue'[c], now) /\ (last[c] < MaxTime => Before(queue'[c], start + last[c]))
    <3>1. CASE queue'[c] = queue[c] /\ (Len(queue[c]) > 0 => queue[c][1].at > now)
      <4> DEFINE q == queue[c]
      <4>1. /\ Len(q) \in Nat /\ Rising(q, Least) /\ (Len(q) > 0 => q[1].at > now)
            /\ \A i \in 1..Len(q) : q[i].at \in Nat
        BY <2>1, <3>1, QueueAt
      <4> HIDE DEF q
      <4>2. Rising(q, now)
        BY <2>1, <4>1, RisingHead
      <4> QED BY <2>1, <3>1, <4>2 DEF q
    <3>2. CASE /\ Len(queue[c]) > 0 /\ Len(queue'[c]) = Len(queue[c]) - 1
               /\ \A i \in 1..Len(queue'[c]) : queue'[c][i] = queue[c][i + 1]
                                               /\ i + 1 \in 1..Len(queue[c])
      <4>1. /\ Rising(queue'[c], Least + 1)
            /\ \A end \in Int : Before(queue[c], end) => Before(queue'[c], end)
        <5> DEFINE q == queue[c]
                   r == queue'[c]
        <5>1. /\ Len(q) \in Nat /\ Len(q) > 0 /\ \A i \in 1..Len(q) : q[i].at \in Nat
              /\ Rising(q, Least) /\ Len(r) = Len(q) - 1
          BY <2>1, <3>2, QueueAt
        <5>2. \A i \in 1..Len(r) : r[i] = q[i + 1] /\ i + 1 \in 1..Len(q)
          BY <3>2
        <5> HIDE DEF q, r
        <5>3. Rising(r, Least + 1) /\ \A end \in Int : Before(q, end) => Before(r, end)
          BY <2>1, <5>1, <5>2, RisingLess
        <5> QED BY <5>3 DEF q, r
      <4>2. \A i \in 1..Len(queue'[c]) : queue'[c][i].at \in Nat
        BY <3>2, QueueAt
      <4>3. Rising(queue'[c], now)
        <5> DEFINE r == queue'[c]
        <5>1. (\A i \in 1..Len(r) : r[i].at \in Nat) /\ Rising(r, Least + 1)
          BY <4>1, <4>2
        <5> HIDE DEF r
        <5>2. Rising(r, now)
          BY <2>1, <5>1, RisingFrom
        <5> QED BY <5>2 DEF r
      <4> QED BY <2>1, <4>1, <4>3
    <3> QED BY <3>1, <3>2, LookAt
  <2>3. Least' = now
    BY <1>1 DEF Least
  <2> QED BY <1>1, <2>2, <2>3 DEF Fresh, Rising, Before, Least
<1>5. NothingYet'
  <2> SUFFICES ASSUME starts = 0, NEW c \in Channel
               PROVE  last = NotBegun /\ queue'[c] = <<>>
    BY <1>1 DEF NothingYet
  <2>1. queue[c] = <<>> /\ last = NotBegun
    BY DEF NothingYet
  <2>2. ~TooOld(c) /\ ~TooEarly(c) /\ ~Due(c)
    BY <2>1 DEF TooOld, TooEarly, Due, HasPulse
  <2> QED BY <2>1, <2>2 DEF Pulses
<1> QED BY <1>3, <1>4, <1>5 DEF Steady

LEMMA OnTimeStep ==
  ASSUME Types, OnTime, [Next]_vars
  PROVE  OnTime'
<1> USE DEF core0, core1
<1>1. ASSUME UNCHANGED <<now, start, last, queue, looked, old, starts, held>>
      PROVE  OnTime'
  BY <1>1 DEF OnTime, Fresh
<1>2. CASE Connected
  BY <1>1, <1>2 DEF Connected
<1>3. CASE Disconnected \/ LeaveScreen
  <2>1. UNCHANGED <<now, queue, looked, old, starts, held>> /\ last' = NotBegun
    BY <1>3 DEF Disconnected, LeaveScreen
  <2>2. \A c \in Channel : ~(last'[c] < MaxTime)
    BY <2>1, Numbers DEF NotBegun
  <2> QED BY <2>1, <2>2 DEF OnTime, Fresh
<1>4. CASE Begin
  <2> SUFFICES ASSUME First'
               PROVE  Steady' /\ NothingYet'
    BY DEF OnTime, First, Steady, NothingYet
  <2>1. UNCHANGED <<now, queue, looked, old, held>> /\ starts' = starts + 1
    BY <1>4 DEF Begin
  <2>2. starts = 0 /\ First
    BY <2>1 DEF First, Types
  <2>3. Steady /\ \A c \in Channel : queue[c] = <<>>
    BY <2>2, OnTimeIs DEF NothingYet
  <2>4. ASSUME NEW c \in Channel
        PROVE  Fresh(c)'
    <3>1. Len(queue'[c]) = 0
      BY <2>1, <2>3
    <3> QED BY <3>1 DEF Fresh
  <2> QED BY <2>1, <2>2, <2>3, <2>4 DEF Steady, NothingYet
<1>5. ASSUME NEW t \in 0..MaxTime, NEW level \in Level, NEW mask \in (SUBSET Channel) \ {{}},
             Pulse(t, level, mask)
      PROVE  OnTime'
  <2>1. UNCHANGED <<starts, held>>
    BY <1>5 DEF Pulse
  <2>2. First => Steady' /\ NothingYet'
    BY <1>5, OnTimeIs, OnTimePulse
  <2> QED BY <2>1, <2>2 DEF OnTime, First, Steady, NothingYet
<1>6. CASE Pulses
  <2>1. UNCHANGED <<starts, held>>
    BY <1>6 DEF Pulses
  <2>2. First => Steady' /\ NothingYet'
    BY <1>6, OnTimeIs, OnTimePulses
  <2> QED BY <2>1, <2>2 DEF OnTime, First, Steady, NothingYet
<1>7. ASSUME NEW c \in Channel, NEW p \in Level, PowerWrite(c, p)
      PROVE  OnTime'
  BY <1>1, <1>7 DEF PowerWrite
<1>8. CASE Activate \/ StopRoutine \/ PowerChange
  BY <1>1, <1>8 DEF Activate, StopRoutine, PowerChange, Message
<1>9. CASE NoMoreMessages \/ UNCHANGED vars
  BY <1>1, <1>9 DEF NoMoreMessages, vars
<1>10. CASE Tick
  <2>1. /\ UNCHANGED <<start, last, queue, old, starts, held>>
        /\ now' = now + 1 /\ looked = TRUE /\ looked' = FALSE
    BY <1>10 DEF Tick, Types
  <2>2. now \in Nat
    BY Numbers DEF Types
  <2>3. Least' = Least
    BY <2>1, <2>2 DEF Least
  <2>4. \A c \in Channel : Fresh(c) => Fresh(c)'
    BY <2>1, <2>3 DEF Fresh, Least
  <2> QED BY <2>1, <2>4 DEF OnTime
<1>11. CASE Held
  <2>1. held' # 0
    BY <1>11 DEF Held, Types
  <2> QED BY <2>1 DEF OnTime
<1> QED BY <1>2, <1>3, <1>4, <1>5, <1>6, <1>7, <1>8, <1>9, <1>10, <1>11 DEF Next, Host, Core1

-----------------------------------------------------------------------------
THEOREM Invariant == Spec => []IInv
<1>1. Init => IInv
  BY InitIInv
<1>2. IInv /\ [Next]_vars => IInv'
  BY TypesStep, DecidedStep, RememberedStep, InOrderStep, OnTimeStep DEF IInv
<1> QED BY <1>1, <1>2, PTL DEF Spec

(* The variables take the values the code gives them.                      *)
THEOREM TypeCorrect == Spec => []TypeOK
<1>1. Types => TypeOK
  BY DEF Types, TypeOK, Levels
<1> QED BY <1>1, Invariant, PTL DEF IInv

(* With no message on its way, the routine runs if and only if a client is *)
(* connected.                                                              *)
THEOREM RunsExactlyForAClient == Spec => []RunsForAClient
<1>1. Decided => RunsForAClient
  <2> SUFFICES ASSUME Decided, fifo = <<>>
               PROVE  active = (link = "up")
    BY DEF RunsForAClient
  <2>1. Len(fifo) = 0
    OBVIOUS
  <2> QED BY <2>1 DEF Decided
<1> QED BY <1>1, Invariant, PTL DEF IInv

(* A pulse is played in one step only: core 1's look at the queues.        *)
LEMMA PlayedInPulses ==
  ASSUME [Next]_vars, NEW c \in Channel, PlaysNow(c)
  PROVE  Pulses
<1>1. phase = "pulses" /\ phase' # phase
  BY DEF PlaysNow
<1> QED BY <1>1 DEF Next, Host, Core1, Connected, Disconnected, LeaveScreen, Begin, Pulse, PowerWrite,
     Activate, StopRoutine, PowerChange, Message, NoMoreMessages, Tick, Held, vars, core1

(* Each pulse is played at its own power.                                  *)
THEOREM PlayedAtItsPower == Spec => PulseAtItsPower
<1>1. IInv /\ [Next]_vars => \A c \in Channel : PlaysNow(c) => power'[c] = Head(queue[c]).level
  <2> SUFFICES ASSUME IInv, [Next]_vars, NEW c \in Channel, PlaysNow(c)
               PROVE  power'[c] = Head(queue[c]).level
    OBVIOUS
  <2>1. Pulses
    BY PlayedInPulses
  <2>2. Plays(c) /\ active
    BY DEF PlaysNow, Plays
  <2>3. cache[c] = power[c]
    BY <2>2 DEF IInv, Remembered
  <2> QED BY <2>1, <2>2, <2>3 DEF Pulses, PowerForPulse
<1> QED BY <1>1, Invariant, PTL DEF Spec, PulseAtItsPower

(* Pulses are played in the order they were sent, each once and in time.   *)
THEOREM PlayedInOrderOnTime == Spec => InOrderOnTime
<1> DEFINE Played(c) == /\ played'[c] > played[c]
                        /\ now \in Head(queue[c]).at..(Head(queue[c]).at + Late)
<1>1. IInv /\ [Next]_vars => \A c \in Channel : PlaysNow(c) => Played(c)
  <2> SUFFICES ASSUME IInv, [Next]_vars, NEW c \in Channel, PlaysNow(c)
               PROVE  Played(c)
    OBVIOUS
  <2>1. Pulses
    BY PlayedInPulses
  <2>2. Plays(c) /\ Due(c) /\ queue[c] # <<>>
    BY DEF PlaysNow, Plays, Due, HasPulse
  <2>3. Types /\ InOrderAt(c)
    BY DEF IInv, InOrder, InOrderAt, Numbered
  <2>4. /\ 1 \in 1..Len(queue[c]) /\ Head(queue[c]) = queue[c][1]
        /\ queue[c][1].at \in Nat /\ now \in Nat
    BY <2>2, <2>3, QueueAt
  <2>5. played'[c] = queue[c][1].nr /\ queue[c][1].nr > played[c]
    BY <2>1, <2>2, <2>3, <2>4 DEF Pulses, InOrderAt, Numbered
  <2>6. queue[c][1].at <= now /\ ~(queue[c][1].at < now - Late)
    BY <2>2, <2>4 DEF Due, TooOld
  <2> QED BY <2>4, <2>5, <2>6, Numbers
<1> QED BY <1>1, Invariant, PTL DEF Spec, InOrderOnTime

(* In the first stream no pulse becomes too old in its queue.              *)
THEOREM NoneLateInFirstStream == Spec => []FirstStreamOnTime
<1>1. OnTime => FirstStreamOnTime
  BY DEF OnTime, FirstStreamOnTime, NoneTooOld
<1> QED BY <1>1, Invariant, PTL DEF IInv

=============================================================================
