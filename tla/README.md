# A formal model of the ZC95

The ZC95 is a four channel output unit built from two RP2040 boards. The main
board (`source/zc95`) runs the user interface and remote access on core 0 and a
pattern ("routine") with its power control on core 1. The output module
(`source/zc624`) turns SPI commands into pulses. Two small bootloaders replace
the firmware of both.

This directory holds TLA+ modules of the parts whose order of events matters,
configurations that check them with TLC, and proofs checked by TLAPS.

| module | what it is |
|---|---|
| `PowerControl`, `MCPowerControl`, `PowerControlProofs` | how the power of a channel is decided: dials, remote clients, ramps, caches |
| `IsolatedOutput` | abstract: what channel isolation promises |
| `PulseOutput`, `PulseOutputProofs` | the output module, shown to implement `IsolatedOutput` |
| `InterCore`, `InterCoreProofs` | the FIFOs between the cores, flash writes, fatal errors |
| `FirmwareUpdate`, `MCFirmwareUpdate`, `FirmwareUpdateProofs` | update, backup, restore and repair of both firmwares, with power lost anywhere |
| `ScriptStore` | abstract: a slot shows nothing or one whole script |
| `LuaLoad`, `MCLuaLoad`, `LuaLoadProofs` | upload of scripts into flash, shown to implement `ScriptStore` |
| `RemoteSession`, `MCRemoteSession`, `RemoteSessionProofs` | a serial or web socket session; composes `LuaLoad` with the message processor, the list of routines and core 1 |
| `Transfer` | abstract: a file is taken in order, once, and complete or not at all |
| `Xmodem`, `MCXmodem`, `XmodemProofs` | upload of a firmware over the serial line, shown to implement `Transfer` |
| `PulseStream`, `PulseStreamProofs` | pulses over Bluetooth, from the client to the routine that plays them |

To run one: `tlc -config LuaLoad.cfg MCLuaLoad` (each run and its module are
listed under "Runs"), `tlapm PulseOutputProofs.tla` for the proofs.

## Components

For each: the state it keeps, its operations, with whom it interacts, what is
hard about it, and what makes it correct. `PROJECT.json` lists the source files.

**Power levels and ramps** (`CPowerLevelControl`, `CPowerLevelRamp`,
`COutputChannel`, core 1). State: per channel the dial, remote, routine and
output power, the remote mode, an initial ramp shared by all channels, an
extended ramp of minutes to hours, and in each channel object a cache of the
last power sent. Operations: the setters behind messages from core 0,
`set_routine_power_level`, and a loop that advances both ramps. Hard: three
sources of limits change at any time while two ramps run; a message that equals
the cache is not sent; channel objects are wrapped and unwrapped per routine,
each with a cache of its own. Correct: the power sent never exceeds a limit in
force, is 0 without a routine, starts at 0, and every cache tells the truth.

**Core 1 loop and routine life cycle** (`Core1`). State: the active routine,
the channel objects it uses. Operations: `loop` (routine, channels, ramps,
status, messages), `activate_routine`, `stop_routine`, `reinit_channels`,
`core1_suspend`. Hard: messages queued before a stop, a load over a running
routine, errors in a script while a message is handled.

**Core 0 to core 1 interface** (`CRoutineOutputCore1`). State: caches of the
powers last pushed. Operations: one blocking push per setter; `loop` reads the
status coming back. Hard: the caches against a core 1 that also zeroes powers
by itself; two bounded FIFOs, each with a writer that may wait.

**Main loop** (`zc95.cpp`, `globals.cpp`). Polls dials, menus, clients; `die`
and `_exit` on fatal errors of either core.

**Flash writes** (`FlashHelper`). A mutex, a semaphore and a message take core
1 out of flash, and the audio capture's DMA is stopped. Hard: back-to-back
writes, core 1 being slow. Correct: flash is only written with core 1 parked,
and nobody waits for ever.

**Output module** (`zc624`: `COutput`, `COutputChannel`, `CPulseQueue`). State:
per channel a repeating timer, a link to a follower, pulse widths; a queue of
ten timed pulses, a PIO FIFO per channel, the isolation register, the moment
from which the next pulse is allowed. Operations: SPI commands, timer
callbacks, I2C register writes, a main loop. Hard: interrupts between any two
steps of the loop; isolation switched while pulses are queued; links that make
one pulse cause another. Correct: with isolation on, no two channels at once
and 150 us between pulses; off means silent.

**ZC624 DAC writer**, **SPI and I2C messages**, **the link on the main board**:
small carriers between the two above; the DAC writer drops values when its FIFO
is full.

**Lua and built-in routines**. A script may ask for any power on any channel at
any time, and call `SetMenuOption`, which pushes to core 0 and waits.

**Remote access** (`CSerialConnection`, `CWebServer`, `CWsConnection`,
`CMessageProcessor`, `CRoutineRun`, the screens). State: the receive buffer an
interrupt fills, one pending message, the processor's state, a loader while a
script is uploaded, the list of routines that core 1 reads too. Operations:
take a message, answer it, start, stop, upload, delete, reset. Hard: a
connection lost or reset in the middle of anything; two ways (local, remote)
to run a routine with different limits; a list that is rebuilt between a
client's choice and core 1's look-up. Correct: every message is answered, the
routine asked for is the one that runs, and it ends with the session.

**Script upload and storage** (`CLuaLoad`, `CLuaStorage`, `CRoutines`). State:
slots of six flash sections, a buffer of one section, the place reached.
Operations: start, line, end, delete, list. Hard: the power goes between an
erase and its program; an upload ends early, is begun again, or does not fit.
Correct: what is listed is a whole script, committed by its first byte.

**Bluetooth pulse streaming** (`CBtGatt`, `Core1`, `CDirectPulse`). State: a
queue per channel that both cores use, next to the FIFO of messages. Operations:
connect, disconnect, begin a stream, pulses, powers; on core 1 the messages and
the queues in turn. Hard: pulses overtake the messages that start, stop and set
powers; queues outlive connections. Correct: played in order, on time, at
their own power, for a connected client only.

**XMODEM receiver** (`xmodem.c`, `download_firmware`). State: the block being
received, its number, errors, the flash writer's static position and first
block. Hard: lost bytes, repeated blocks, aborts half way, a second upload.
Correct: a firmware that starts is whole, and a transfer ends.

**Shock collar** (`CCollarComms`). Messages to a radio through a queue and a
PIO FIFO.

**Bootloaders** (`zc95Bootloader`, `zc624Bootloader`, `CHwCheck`). State: a flag
byte in the EEPROM, the two firmwares, three pairs of files on a card.
Operations: back up, update, restore, repair, menus. Hard: power lost between
any two writes; a card, an EEPROM and a bus that fail, partly unnoticed.
Correct: there is always a way back to two whole firmwares.

**Settings, audio, front panel, battery, wifi and web server, display,
vendored libraries, host tools**: I/O, presentation, or third-party code; see
"Not modelled".

## PowerControl

One action per call or message: `PollFrontPanel`, `StartLocal`,
`StartExtendedRamp`, `LeaveLocal`, `EnterRemote`, `RemoteStart`,
`RemoteSetPower`, `RemoteStop`, `LeaveRemote`, `SaveChannelConfig` and
`ChangePowerMode` are functions of core 0. Each lists the calls it makes in
`todo`, and `PushCall` / `SkipCall` carry them out one by one, so core 1 acts
between them. On core 1, `RoutineLoop`, `ChannelsLoop`, `RampLoop` and one
`Receive...` action per message follow the order of `Core1::loop` by `stage`.
A message handler recomputes and sends in the same step, as the C++ does.

Powers are integers. `calc_output_power` works in binary32 and rounds up with
`ceil`; the model uses exact arithmetic and a set `RoundsUp` of pairs whose
binary32 product lies just above an integer (1000 x 127 is one). So the
limits hold up to the one unit that rounding adds, and the properties say so.
The elapsed time of the extended ramp is a count modulo `TickWrap`, as
`uint32_t ramp_progress_us` is.

Properties: `SilentWithoutRoutine`, `PowerLimits` (the dial, the remote power and
the ramps), `CacheIsDevice`, `CachesAgree`; `StopSilences`, `RampEnds`.

Fairness: `WF(Core0Call)` (a function of core 0 makes its calls when there is
room), `WF(Core1)` (its loop never ends), `SF(MessagesDone)` (core 0 pushes at
most one message per channel and dial sample of 50 ms, so core 1 reaches the end of the
FIFO again and again), `SF(RampLoop(TRUE, TRUE))` (both ramp periods keep
ending). Users, clients, dials and routines owe nothing.

## IsolatedOutput and PulseOutput

`docs/BleStreaming.md` promises that with isolation on "there will always be a
minimum of 150us between a pulse pair finishing and the next pulse pair being
generated". `IsolatedOutput` states that as a specification of four variables:
once isolation has been on over a silent gap (`settled`), a pulse starts only
when no channel pulses and `Gap - Delay` has passed; the sentence is that with a
`Delay` of 0. Before that, right after
isolation was off, pulses already in the PIO FIFOs may overlap, and the
abstract module allows them to.

`PulseOutput` has the code's state: the loop's stage, the last isolation value
seen by the loop, links, timers, widths, queue, next allowed moment, PIO FIFOs.
Actions are the SPI commands (`Pulse`, `SwitchOn`, `SwitchOff`,
`SetPulseWidth`, `SyncChannel`, `PowerDown`), the loop's own steps, and what
interrupts it: `TimerCallback`, `SetChannelIsolation`, `LuaEnableTriphase`,
`Tick`. A timer may fire at any moment, which covers every frequency. A pulse is
one length; its polarity halves are not told apart.

`get_queued_pulse` plans the next pulse from the clock it reads (`_next_pulse`,
`CPulseQueue.cpp:76`), and the PIO gets the pulse in hand in a later step
(`TakePulse`, then `StartPulse`). Timer and I2C interrupts come between, and with
them time passes, up to `Delay` ticks: a pulse starts that much later than the
next one was planned after. The code bounds that time by nothing. A timer callback
takes microseconds, but when the queue is full it prints over the UART, which
may take longer than the gap. So `Delay` is a parameter, assumed to be at most
`Gap`; with more, pulses may overlap with isolation on.

`Promise == INSTANCE IsolatedOutput`: the variables carry the same names, and
`IsolationKept == Promise!Spec` is both checked and proved.

Fairness: the main loop never waits and time passes. `FallsSilent` assumes that
pulse commands end, all channels stay off and isolation stays on. Between the
clock and the PIO the loop goes on within `Delay`.

## InterCore

Two bounded FIFOs, and every place where a core waits: pushes of core 0, a
script's `SetMenuOption`, the mutex in `core1_suspend`, the semaphore in
`enter_safe_zone_timeout_ms`. What a command does is left to `PowerControl`;
here it is one symbol. Core 0 has one control state per step of the flash
handshake; core 1 one per part of its loop.

One timing assumption is in a guard: core 0 takes the mutex for a second write
only after core 1 has got out of the way of the first (`EnterMutex`, `pc1 # "lock"`);
the code's prints and the return through the caller take far longer than core
1 needs to wake up, and nothing else orders the two.

Fairness: both cores run; each reaches the end of the FIFO it reads again and
again unless it is left waiting for ever. The second part says that a pass of
the other core's loop pushes a few messages only. Failures, writes and audio
owe nothing. `CoresKeepGoing` and `FatalShutsDown` except the state in which a
script waits: what happens there is what the violation run shows.

## FirmwareUpdate

A firmware is its first block, which holds version and magic number, and the
rest. That is all that tells "bootable", "whole" and "torn" apart. A copy is
three steps, wipe, all blocks but the first, first block, with power lost
between any of them. Every read or write of the card, EEPROM and bus may fail
while `sound` is false; `Settle` ends that, for liveness. Power lost in the
middle of the second step leaves what the first left, since the rest is only
`Part` or complete.

What the code cannot notice is kept in `excuses`: an EEPROM write that is not
done and not looked at (`eeprom`), blocks lost on the bus (`lost`), and what a user
does in the menu (`user`). `Recoverable`, `StartsWhole`, `RunsWhole` and
`ComesUp` hold as long as there is none. Everything else that may fail is not an excuse.

Nothing in the repository sets the flag to PENDING; `RequestUpdate` is
therefore external: any package in `Packages` with the flag set.

Fairness: the firmware runs, a unit that is off is switched on, and one that
shows an error, a menu or nothing is switched off. A unit that runs may run for
ever.

Left out: starting the output module's firmware alone from its menu, and the
stale block count that a backup from the menu may use. The upload is one step
here; `Xmodem` shows what it leaves in flash.

## ScriptStore, LuaLoad and RemoteSession

`LuaLoad` has flash as cells: a cell is a line, the terminator, erased, or the
first byte of a slot, which hides (`NUL`) or shows (newline) what follows. A
section is erased and programmed as one; `store_script_section` and the
parse after `LuaEnd` are separate steps with the power lost between them, or
within one, which leaves a prefix of what was to be programmed. `Shown` is what
`get_script_at_index` and `is_script_valid` make of a slot; text that mixes two
scripts counts as valid unless one of them is broken, the worst case. So
"listed" depends on flash alone, as after a restart.

`ScriptStore` says that a slot shows nothing or one text that was sent since
`LuaStart`, and that it forgets it before it shows another. The power may go in
the step that makes a script appear or disappear, so either may also end the
upload (`Publish`, `Forget`). `StoresWholeScripts
== Store!Spec`, with `shown <- Shown`. One exception is in the abstract module
because the code has it: a script that exactly fills a section leaves no
terminator and runs on into what the slot held before (see Findings).

`RemoteSession` composes `LuaLoad` (by `INSTANCE`, all its steps) with the
connection and the processor. Actions follow `CSerialConnection` (`SerialBegin`,
`SerialSend`, `Quit` in the interrupt; `Deliver`, `Reset` in the loop),
`CWsConnection` (`WsMessage`, `Quit`, `Reset`) and `CMessageProcessor::loop` (one
action per kind of message and state). `Core1` takes a start or stop from the
FIFO and looks the index up in `routines` at that moment. `set_state` is part
of the action that calls it, the destructor's stop and the missing
`reload_routines` are part of `Reset`. Messages that change nothing here are one,
`Query`; powers are in `PowerControl`.

Core 1 is as slow as it likes: a start may wait in the FIFO while core 0 handles
further messages, until the FIFO (`FifoSize`) is full and `Push` waits, or until a
flash operation, which begins with a message that core 1 must read
(`FlashWork`; the handshake itself is in `InterCore`). `reload_routines` is
two steps, `ClearList` and the one that fills the list again, and core 1 may look
in between, for there is no lock.

`Answered` may lose the answer of a serial client (`Crowded`), as
`CSerialConnection::send` does when its queue has no room for it. Histories:
`waiting`, the messages without an answer; `unsent`, those of them whose answer
was dropped; `cut`, an upload was lost since the list was made.

Properties: `MenuIsCurrent` (the list is what flash holds, `cut` excepted);
`RunsWhatWasListed`, about the step in which core 1 looks the index up: it finds
the script that stood there when the client asked. It holds although the list is made
anew after uploads, deletions and refused ones, because each of them that changes
the list has written to flash before. It excepts a look into a list that is half
made, and a choice from a list that was outdated already (`cut`), where the code
promises nothing. `RunsInASession`. `Answers`: a message the box has whole
is answered, or its answer found no room. `EveryMessageAnswered` has
neither exception; its run has room for every answer (`Crowded` = FALSE).

Fairness: both cores run their loops. Clients, resets and the power owe nothing.

## Transfer and Xmodem

A block on the wire is five symbols (SOH, number, complement, data, CRC), a
symbol knows where it comes from, so that a CRC fits only its data; what the
receiver does otherwise depends on the byte value alone, control characters
included. `Receive` is `xmodem_serial_rx` with `process_buffer` and
`xmodem_loop`; the flash writer keeps the first block back and writes it at the
end (`WritePage`, `Finish`), and programming only clears bits (`Program`). The
sender is external: the Python library that `firmware_uploader` uses.

A block number or a data byte may well be SOH, EOT or CAN, and in a receiver
that a lost byte has put out of step it is taken for one. `misread` remembers
that. The line loses bytes and answers, `MaxFaults` of them, anywhere; the user
may abort with or without CAN. Timeouts happen only once the other side's bytes
have arrived: they are 5 and 15 seconds.

A transfer that is cancelled or given up is first "ending": CAN has written the
first page, and `download_firmware` wipes later (`Wipe`), if any block was received.

`TakesTheFile == File!Spec` refines `Transfer` with `status` computed from the
receiver's state. `FirstUploadIsWhole`: after the first upload since the
bootloader started, however it ended, flash holds the old firmware, the whole
new one, or one without its first page; a failed transfer is looked at after
the wipe. Neither promises anything once a byte of a block was taken for EOT: block
4 carries number 4, so that happens to real files, and what comes of it is under
"Noticed". The second kind of mistake they except, a block with the number of
another ("header"), needs a lost byte and a data byte that fits in its place.
`Ends`, `Succeeds`: liveness, with both sides running. `Succeeds` is about
transfers in which no byte of a block is taken for a control character, whatever
is in the file, and the ACK of the block before number 0 is not the one lost
(`Unrepeatable`).

## PulseStream

Time is in milliseconds; `Tick` waits for core 1 to have looked at the queues
(`looked`), except in a millisecond in which core 0 holds core 1 for a flash
write (`Held`). `Host` is what the Bluetooth stack's callbacks do: connections
(one disconnection is told twice), leaving the screen, START, pulses for any set
of channels, powers. Core 1 takes all messages, then one look at each queue:
too old, too early, due, or left. `CDirectPulse` sends a pulse's power only if it
differs from its cache.

Properties: `RunsForAClient`, `PulseAtItsPower`, `InOrderOnTime`, and
`FirstStreamOnTime`: no pulse that was accepted becomes too old while it waits,
in the first stream since power up. `NoneTooOld` states it of all streams; it
fails for the later ones (see Findings).

## Runs

| run | configuration | expects | shows |
|---|---|---|---|
| PowerSafety | `MCPowerControl.cfg` | pass | all limits and caches, two channels |
| PowerLive | `MCPowerControlLive.cfg` | pass | a stop silences, the extended ramp ends |
| PulseOutput | `PulseOutput.cfg` | pass | isolation kept, followers not driven, power down final, the output falls silent |
| InterCore | `InterCore.cfg` | pass | flash written alone, both cores keep going, display and fatal errors |
| InterCoreScript | `InterCoreScript.cfg` | violation | `SetMenuOption` in a callback blocks both cores |
| FirmwareUpdate | `FirmwareUpdate.cfg` | pass | a way back exists at every moment and is taken |
| LuaLoad | `LuaLoad.cfg` | pass | a slot shows nothing or a whole script, whenever the power goes |
| RemoteSession | `RemoteSession.cfg` | pass | messages answered, the right pattern run and stopped, the list current |
| RemoteUnanswered | `RemoteUnanswered.cfg` | violation | an EOT in the middle of a message costs the next one its answer |
| Xmodem | `Xmodem.cfg` | pass | a file arrives in order or not at all, and the transfer ends |
| XmodemAgain | `XmodemAgain.cfg` | violation | a second upload in one boot leaves a torn firmware that starts |
| PulseStream | `PulseStream.cfg` | pass | pulses in order, on time, at their power, for a client |

The bounds, and why they are enough:

- PowerSafety: 2 channels (calls for several channels interleave; channels share
  only the ramps and the mode), full power 4, dials {0, 2}, a client that asks
  for 5 (more than full), routines {0, 4}, one rounding pair, FIFO of 1 (every
  push can block), ramps of two steps. 1.7 million states.
- PowerLive: 1 channel, ramp shape that stands still at first, counter that
  wraps after 4 ticks where the ramp needs fewer; the one channel is driven
  through a wrapper. 65 418 states.
- PulseOutput: 2 channels, pulses of length 2, gap 2, link offsets 0 and 100 %,
  queue of 2, PIO FIFO of 1, so that both fill up and a pulse can fall into the
  gap as well as into the pulse before it; `Delay` 1, half the gap. 1 057 614 states.
- InterCore: FIFOs of 2, two commands or writes per pass, one `SetMenuOption`
  per loop of the script. 75 720 states. In the Script run 4 calls and one in
  the callback, which is what it takes to fill a FIFO of 2 while core 0 replies.
- FirmwareUpdate: three versions: the installed one, one of another API, and one
  of that API whose main firmware never comes up; packages: good, broken,
  mismatched, second file missing. `MaxUses` = 1 entry of the menus (any number of
  starts from it); `Uploads`: a whole firmware or an aborted one. 2.8 million states.
- LuaLoad: one writable slot and a built-in one, three sections of four cells (a
  section the terminator opens, one it ends, and lines in between); a script in
  every length from nothing to one line too many, a second one to mix with it,
  and one that does not parse. No bound on uploads or power losses. 336 425 states.
- RemoteSession: one slot of two sections, one script, a built-in routine, so that
  an upload or a deletion moves what stands at place 1; both kinds of connection,
  two message numbers (a web client may have two under way), a FIFO of 2 where
  the code's holds 8, so that it fills. Nothing else is bounded. 170 452 states.
  RemoteUnanswered: serial, one number.
- Xmodem: nine blocks, two uploads, three faults (with four, 1.6 million
  states, no property fails either); `Width` = 8, so that block numbers wrap
  from 7 to 0, with SOH, EOT and CAN among them: block 1 is SOH and block 4 is
  EOT, as in the code, block 6 is CAN, which in the code is block 24, and
  data bytes take all three values. The code's error limit of 10 and the tool's
  retry limit of 10. 368 401 states. XmodemAgain: the code's bytes (`Width` 256), three
  blocks, one fault, an aborted first upload.
- PulseStream: one channel (channels share only the FIFO, which two messages
  fill), queue of two, three milliseconds with `Late` and `Ahead` one, two
  connections, two STARTs, three pulses or powers, one held millisecond; a level
  of 2 is above `MaxLevel`. 2.4 million states.

Deadlock checking is off in InterCore, where a fatal error halts both cores by
design, in Xmodem and XmodemAgain, where the uploads come to an end, and in PulseStream, which
stops at `MaxTime`.

Every property of a passing run has a mutant, a definition in the component's
module with a comment "Mutant of ...", that TLC finds to break it when it
replaces the original.

## Findings

Each with a run that shows it:

- `CRoutine.h:346` (InterCoreScript): a script's blocking push against core 0's
  blocking reply; both cores wait for ever.
- `CSerialConnection.cpp:185` (RemoteUnanswered): the reset after EOT keeps
  `_recv_buffer_position`. A message cut off by EOT stays in front of the next
  one, which does not parse and is answered with number -1.
- `zc95Bootloader.c:181` (XmodemAgain): the flash writer's position, `first_block`
  and its contents are static and never reset. An upload aborted half way and
  repeated without a restart writes behind the first and then the first one's
  first page: a firmware that starts and is torn.

Noticed while reading and modelling, without a run of their own:

- `CPowerLevelRamp.cpp:75`: the elapsed time wraps at 2^32 us; an extended ramp
  of more than 71.6 minutes, which the menu allows, starts over for ever.
- `COutput.cpp:210`: in the loop against links to linked channels condition
  and increment are swapped; it never runs, and chains and loops are accepted.
- `CLuaRoutine.cpp:1126`: `EnableTriphase` reads argument 2 and has only one, so
  it never turns the isolation back on.
- `globals.cpp:41`: the comment's way to shut down after a panic of core 0 needs
  core 1 to finish its loop, which a script waiting for core 0 does not.
- `zc624.c:416`: `fw_versions->info` where `fw_versions[x].info` is meant; no
  stored output module firmware is found when `pend` is unreadable.
- `Core1.cpp:442`: queues are not emptied at START or on disconnection. Pulses of
  an earlier stream stand before those of the next, which then become too old
  (`docs/BleStreaming.md:203` says that shouldn't happen), and pulses of an
  earlier connection are played in the next. `NoneTooOld` without
  `starts <= 1` shows it.
- `CPulseQueue.cpp:76`: what interrupts take between the clock and the PIO is
  missing from the 150us between two pulses, which `docs/BleStreaming.md:76` calls
  a minimum; see `Delay` above.
- `CMessageProcessor.cpp:51`: a connection lost during an upload deletes the
  loader without `reload_routines`, unlike `set_state` (line 150): the list names
  a script that is gone until it is next made. `MenuIsCurrent` without `cut`.
- `Core1.cpp:475`: core 1 looks into `_routines` with no lock while `reload_routines`
  may be between clearing and filling it (a refused or broken upload, a deletion that
  fails): what it finds there is undefined.
- `CSerialConnection.cpp:198`: an answer for which the send queue has no room is
  dropped, although `docs/JSON.md:42` promises one to every message.
  `CMessageProcessor.cpp:80` answers a message that is too long with MsgId -1, and
  the serial interrupt drops one longer than its buffer (`CSerialConnection.cpp:115`).
- `CLuaLoad`: a script that fills a section exactly is answered OK but has no
  terminator; if it fills the slot it is never listed. `docs/JSON.md:296`
  says of `LuaEnd` that it makes a valid script available in the menu.
- `CLuaStorage.cpp:44`: `index > lua_script_count()` is off by one.
- `xmodem.c:115`: any 0x04 read while waiting for a block is the end of the file.
  When the SOH of block 4 is lost its number is one: the upload counts as complete
  after three blocks, and the first page is written, so a torn firmware
  starts, which the comment at `zc95Bootloader.c:185` says should not happen.
  `FirstUploadIsWhole` and `TakesTheFile` without their exception show it.
- `xmodem.c:131`: CAN has the first page written, and the wipe comes later
  (`zc95Bootloader.c:317`): power lost in between leaves a torn firmware that starts.
  `StartableIsWhole` without `state # "ending"` shows it. CAN or EOT before any
  data programs zeros over the first page.
- A byte lost from block 1 leaves the receiver to take its number, 1, for SOH,
  answer NAK to the wrong block, and so on out of step until a limit ends the transfer.
  A repeat of block 255 when number 0 is expected is answered NAK until the sender
  gives up (`xmodem.c:179`, an int comparison).
- `xmodem.c`: when `process_data` fails its IDLE is overwritten and the transfer
  goes on; the card's receiver reports "completed" when the file could not be opened.
- `set_audio_mode` drops its message when the FIFO is full; the sixth of
  several queued texts is dropped (`CRoutineOutputCore1.cpp:355`); `SetPulseWidth`
  also removes links, which `LuaNotes.md:336` does not say; the comment on the
  offset in `CMessageProcess.cpp:158` is the wrong way round; the ZC624
  bootloader drops damaged blocks without telling and still writes the first
  page; a restore without a card first wipes the output module.

## Proofs

For every value of the constants allowed by the modules' `ASSUME`s:

- `PowerControlProofs`: `TypeCorrect`, `CacheCorrect` (`CacheIsDevice`),
  `PowerLimited` (`PowerLimits`), `SilentWhenStopped`, and `RoutinesStartSilent`
  (`StartsSilent`, an action property no run repeats: the step that loads a
  routine leaves every channel at 0). The invariant has four parts
  next to type correctness: `CacheIsDevice`; `DeviceLimits`, all limits for the
  power sent last; `OutputLimits`, the same for the power computed last, which
  is needed because `ChannelsLoop` sends what an earlier step computed; and
  `Dormant`, that a board without a routine has its requests and its initial
  ramp at zero, so that nothing computed later can wake it. The arithmetic
  rests on lemmas about rounding up a quotient.
  `CachesNeverStale` (`CachesAgree`, the caches of core 0) has an invariant of its
  own, `CacheInv`, over both queues: for each channel the last message in the
  FIFO that sets a power sets the cached one, or core 1 has it already
  (`PanelSettles`, `RemoteSettles`). A change of mode counts as a message that sets
  the remote power to 0, and that needs `ModeLast` and `ZeroOutsideSessions`:
  whoever changes the mode has taken every remote power back before, and only a
  running session has any.
- `PulseOutputProofs`: `TypeCorrect`, `FollowersNeverDriven`,
  `PowerDownIsFinal`, `IsolationIsKept`. The last is a refinement. Its invariant
  adds `PioBusy`, that a PIO FIFO holds pulses only while its channel is
  pulsing, and `Isolated`, that while the output is settled isolation is on,
  no FIFO holds a pulse, and `gap` covers the rest of every running pulse and
  the silence still missing after it, less `Delay`; a pulse in hand is not
  there for longer than that (`InHand`), and finds the output silent. So the loop, which only looks at `gap`, starts a pulse only when the abstract module may; every other step is a step
  of `IsolatedOutput` or leaves its variables alone. `HaltFinal` is what
  `PowerDownFinal` lacks: that the loop has left its SPI stage.
- `InterCoreProofs`: `TypeCorrect`, `FlashWrittenAlone`. The invariant `HandOver`
  says, for each control state of the handshake, who owns the mutex, whether
  the semaphore is down, and where the suspend message is; without it nothing
  excludes a message left over from one write that answers the next.
- `FirmwareUpdateProofs`: `TypeCorrect`, `AlwaysRecoverable` (`Recoverable`),
  `NeverStartsTorn` (`StartsWhole`), `NeverRunsTorn` (`RunsWhole`). The invariant
  follows an update by where the flag would lead a restart: `FlagTells` (with
  PREV both backups are whole, otherwise both boards are), `NoneTorn` (what has
  its first block has the rest), and `Progress`, what has been saved or copied so
  far at each place. They hold while there is no excuse. Assumed of the released
  files is `Intact`: one with a first block that is valid is not cut short. The
  bootloader checks that block and nothing else.
- `PulseStreamProofs`: `TypeCorrect`, `RunsExactlyForAClient` (`RunsForAClient`),
  `PlayedAtItsPower`, `PlayedInOrderOnTime`, `NoneLateInFirstStream`. `Decided`
  says that the last start or stop in the FIFO, or the routine if there is none,
  is what the link asks for; `InOrder` that queues and what was played are
  numbered upwards; `OnTime`, for the first stream, that a queue has at most one
  pulse per millisecond, none older than the last look at it. `Late > 0` is
  needed: with a tolerance of nothing the last look may come too late.
- `LuaLoadProofs`: `TypeCorrect`, `AckedUploadIsShown`, and the refinement
  `ShowsWholeScripts`. `Collected` says that while lines arrive the sections stored
  and the buffer together are the lines sent, behind a hiding first byte;
  `Stored` that before the parse the slot holds all of them and a terminator;
  `Published` the same of what flash will be when the first section is back with
  its marker, for a power loss may come before, within or after that; `Wiped` that
  a slot being deleted has lost its first byte first. `Control` ties these to the
  step in hand. The steps are proved for `Moves`, clients that send anything in any order,
  which is more than `Next` and what a session needs.
- `RemoteSessionProofs`: `TypeCorrect`, `MenuStaysCurrent`, `StopsWithTheSession`
  (`RunsInASession`), `StartsWhatWasChosen`, and `SessionsStoreWholeScripts`, which
  gives sessions the refinement of `LuaLoad`: every step of a session is one
  of `Moves` or leaves the loader alone, so the loader's invariant and its steps
  are cited and not proved again. `WillRun` is what core 1 runs after its last
  message. `StartsListed` says that every start in the FIFO, however long it waits,
  still finds its routine where it was, both in the list core 0 keeps and in the
  one it would make from flash now; a step that changes what flash shows finds
  the FIFO empty.
- `XmodemProofs`: `TypeCorrect`, `FirstUploadWhole` (`FirstUploadIsWhole`) and
  the refinement `FileTakenInOrder` (`TakesTheFile`), for files of any length and
  bytes, any control characters and a line that loses whatever it likes. `InStep`
  holds until a byte is misread as EOT or for a number, and does not need the receiver
  to be in step: all that is in the receiver's buffer and on the wire is of the
  block the sender is at, in order, or one of its control characters (`Of`);
  while there is an answer at most four symbols are left of it, too few for
  a block, and after an ACK none (`Turns`); the receiver has the block the sender
  is at or all before it, and its number is the remainder of that (`Counted`). So
  a complete block that passes its CRC is the one expected or a repeat,
  and an EOT is the sender's, who sends it after the last ACK. `FirstUpload` says
  which pages hold what until the first one is written.

All in all about 9500 obligations. Assumed are only the named `ASSUME`s, which TLC
evaluates for the constants of every run, and the timing in `EnterMutex`.

Only model-checked: all liveness (`StopSilences`, `RampEnds`, `FallsSilent`,
`CoresKeepGoing`, `DisplayCatchesUp`, `FatalShutsDown`, `ComesUp`, `Answers`, `Ends`,
`Succeeds`), which is outside what TLAPS proves. Every other property of a passing run is a theorem.

## Not modelled

The Lua interpreter and the patterns themselves (any request at any time
stands for them), audio processing (numeric), battery and front panel drivers,
menus as far as they draw, Bluetooth scanning and pairing (vendored stack),
EEPROM layout, host tools. More than half of the lines of C in the repository are
third-party: FatFs with its tables, the SD driver, the web server, DHCP and
DNS, the QR code generator, Lua and the fuel gauge driver; none of it is
modelled, except for what it does to its callers.

Of the modelled parts: pulse widths and frequencies (except as pulse lengths),
the power enable and channel isolation of Bluetooth, menu values and status
reports to a client, the XMODEM receivers that write to the card and to the
output module, files of a single or an odd number of 128 byte blocks, and
characters left on the serial line when the bootloader's menu reads it again;
messages too long for their buffer; what the web server does with an answer it
cannot send; bytes that an interrupted program leaves erased in a script (they
never parse); a panic of core 0 while core 1 is parked for a flash write.

## Plan

Done: PowerControl, IsolatedOutput and PulseOutput, InterCore, FirmwareUpdate,
ScriptStore, LuaLoad and RemoteSession, Transfer and Xmodem, PulseStream, each with
the proofs above. Next:

1. Proofs: the parts of the liveness arguments that are safety, such as what blocks a
   full FIFO in `InterCore`, and the bound on errors and repeats in `Xmodem`.
2. The collar's message order and shared variable, the DAC writer's FIFO, the
   text queue.
