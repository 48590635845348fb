--------------------------- MODULE IsolatedOutput ---------------------------
(***************************************************************************)
(* What the ZC624 output module promises about channel isolation: once     *)
(* isolation is on and the output has been silent for Gap ticks, two       *)
(* channels never pulse at the same time and Gap - Delay ticks of silence  *)
(* precede every pulse, until somebody turns isolation off again.  Delay   *)
(* is how much later than planned interrupts may make a pulse start.       *)
(*                                                                         *)
(* (docs/BleStreaming.md, "Channel isolation & triphase": "there will      *)
(* always be a minimum of 150us between a pulse pair finishing and the     *)
(* next pulse pair being generated".  That is this with a Delay of 0,      *)
(* which the code does not achieve.)                                       *)
(***************************************************************************)
EXTENDS Integers

CONSTANTS
  Channel,   \* the output channels
  Lengths,   \* pulse lengths, in ticks
  Gap,       \* 150 us, in ticks
  Delay      \* interrupts between planning a pulse and starting it, in ticks

VARIABLES
  isolation,  \* the ChannelIsolation register
  settled,    \* isolation on since the output had been silent for Gap
  running,    \* ticks left of the pulse a channel is putting out, or 0
  silence     \* ticks since a channel last pulsed, counted up to Gap

vars == <<isolation, settled, running, silence>>

Silent(run) == \A c \in Channel : run[c] = 0

Init == /\ isolation = TRUE /\ settled = TRUE
        /\ running = [c \in Channel |-> 0] /\ silence = Gap

(* a pulse starts; an unsettled module may start it whenever it likes *)
Start(c, len) ==
  /\ running[c] = 0
  /\ settled => Silent(running) /\ silence >= Gap - Delay
  /\ running' = [running EXCEPT ![c] = len]
  /\ silence' = 0
  /\ UNCHANGED <<isolation, settled>>

(* time passes; an unsettled channel may go straight on with another pulse *)
Tick ==
  /\ \A c \in Channel :
       \/ running[c] = 0 /\ running'[c] = 0
       \/ running[c] > 0 /\ running'[c] = running[c] - 1
       \/ ~settled /\ running[c] = 1 /\ running'[c] \in Lengths
  /\ DOMAIN running' = Channel
  /\ silence' = IF Silent(running)
                THEN IF silence < Gap THEN silence + 1 ELSE Gap
                ELSE 0
  /\ settled' = (isolation /\ (settled \/ (Silent(running') /\ silence' = Gap)))
  /\ UNCHANGED isolation

SetIsolation ==
  /\ isolation' \in BOOLEAN
  /\ settled' = (isolation' /\ (settled \/ (Silent(running) /\ silence = Gap)))
  /\ UNCHANGED <<running, silence>>

Next == \/ \E c \in Channel, len \in Lengths : Start(c, len)
        \/ Tick \/ SetIsolation

Spec == Init /\ [][Next]_vars

=============================================================================
