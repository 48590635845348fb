-------------------------------- MODULE Xmodem --------------------------------
(***************************************************************************)
(* Upload of a firmware over the serial line: the XMODEM receiver of the   *)
(* bootloader (xmodem.c), the loop and the flash writer it is used with    *)
(* (download_firmware, xmodem_data_received_write_flash), and the sender,  *)
(* a Python library the upload tool calls with a limit on retries.         *)
(*                                                                         *)
(* A block on the wire is five symbols: SOH, number, inverted number, one  *)
(* for the data and one for the CRC.  A symbol is a byte, with the block   *)
(* and place it comes from, so that a CRC fits only the data it was sent   *)
(* with; what the receiver does depends on the byte alone.  Bytes are      *)
(* 0..(Width-1), 256 in the code, and a block number or data may well be   *)
(* SOH, EOT or CAN.  A block of the file is a page of flash (in the code   *)
(* two make one).                                                          *)
(*                                                                         *)
(* The line may lose a byte, either way.  The receiver's timeout (5 s) is  *)
(* shorter than the sender's (15 s), and neither runs out while the other  *)
(* side's bytes are still on their way.                                    *)
(***************************************************************************)
EXTENDS Integers, Sequences, SequencesExt

CONSTANTS
  Blocks,        \* blocks in the file
  Width,         \* number of byte values, 256
  Soh, Eot, Can, \* 1, 4 and 24: control characters, as bytes
  Files,         \* the files there may be: of each block, the data byte
  Old, Erased, Zero, Mixed,   \* what a page holds that no upload put there
  MaxErrors,     \* 10: timeouts before the receiver gives up
  Retry,         \* retry_limit of the sender
  MaxFaults,     \* bound: bytes and answers lost, uploads the user aborts
  MaxTransfers   \* bound: uploads chosen from the menu without a restart

ASSUME XmodemAssumption ==
  /\ {Old, Erased, Zero, Mixed} \cap Nat = {} /\ Old \notin {Erased, Zero, Mixed}
  /\ Blocks \in Nat \ {0} /\ Width \in Nat \ {0, 1}
  /\ {Soh, Eot, Can} \subseteq 0..(Width - 1) /\ Soh # Eot /\ Soh # Can /\ Eot # Can
  /\ Files \subseteq [1..Blocks -> 0..(Width - 1)]
  /\ MaxErrors \in Nat /\ Retry \in Nat /\ MaxFaults \in Nat /\ MaxTransfers \in Nat \ {0}

VARIABLES
  state,      \* xmodem_ctx::state; "ending" is XMODEM_IDLE, until
              \* download_firmware has wiped what there is to wipe
  buffer,     \* xmodem_ctx::buffer, up to buf_pos
  current,    \* current_blk
  errors,     \* error_count
  received,   \* the blocks handed to process_data; total_blocks_received is its length
  flash,      \* the pages of the firmware: one of these, or a block
  pages,      \* static total_byte_counter of the flash writer, in pages
  first,      \* static first_block_contents, Zero at first
  wire,       \* symbols on their way to the bootloader
  answers,    \* characters on their way back
  file,       \* the file chosen
  sender,     \* "start", "block", "eot", "done", "failed" or "aborted"
  next,       \* the block the sender is at
  retries,    \* its error_count
  misread,    \* history: "SOH", "EOT", "CAN": a byte of a block was taken for
              \* it, "header": a block for one of another number
  faults, transfers   \* counters for the bounds

receiver == <<state, buffer, current, errors, received>>
writer == <<flash, pages, first>>
host == <<file, sender, next, retries>>
vars == <<receiver, writer, wire, answers, host, misread, faults, transfers>>

-----------------------------------------------------------------------------
Byte == 0..(Width - 1)
Symbol(byte, n, place) == [byte |-> byte, of |-> n, place |-> place]
Control(byte) == Symbol(byte, 0, 0)
Block(n) == <<Symbol(Soh, n, 1), Symbol(n % Width, n, 2), Symbol(Width - 1 - (n % Width), n, 3),
              Symbol(file[n], n, 4), Symbol(0, n, 5)>>

Page == {Old, Erased, Zero, Mixed} \cup 1..Blocks
AllErased == [p \in 1..(2 * Blocks) |-> Erased]

Send(symbols) == wire' = wire \o symbols
Reply(c) == answers' = Append(answers, c)

-----------------------------------------------------------------------------
(* The flash writer *)

(* programming can only clear bits *)
Program(memory, p, page) ==
  IF p \notin DOMAIN memory THEN memory
  ELSE [memory EXCEPT ![p] =
          IF @ = Erased \/ page = Zero \/ @ = page THEN page ELSE Mixed]

(* Mutant of WritePage: the first is written at once. *)
WritePageFirst(n) ==
  /\ pages' = pages + 1
  /\ IF pages = 0
     THEN flash' = Program(AllErased, 1, n) /\ first' = n
     ELSE flash' = Program(flash, pages + 1, n) /\ UNCHANGED first

(* xmodem_data_received_write_flash with a block: the first is kept back *)
WritePage(n) ==
  /\ pages' = pages + 1
  /\ IF pages = 0
     THEN flash' = AllErased /\ first' = n
     ELSE flash' = Program(flash, pages + 1, n) /\ UNCHANGED first

(* and with none, at the end: now the first *)
Finish == flash' = Program(flash, 1, first) /\ UNCHANGED <<pages, first>>

-----------------------------------------------------------------------------
(* The receiver *)

(* a byte that was not sent as what it is taken for *)
Takes(what, ifNot) == misread' = IF ifNot THEN misread ELSE misread \cup {what}

Arrives == /\ wire # <<>> /\ wire' = Tail(wire)
           /\ UNCHANGED <<host, faults, transfers>>
Char == Head(wire).byte

(* xmodem_serial_rx, XMODEM_RECV_STARTED *)
BlockStarts ==
  /\ Arrives /\ state = "started" /\ Char = Soh
  /\ state' = "block" /\ buffer' = <<Head(wire)>>
  /\ Takes("SOH", Head(wire).place = 1)
  /\ UNCHANGED <<current, errors, received, writer, answers>>

EndOfFile ==
  /\ Arrives /\ state = "started" /\ Char = Eot
  /\ state' = "complete" /\ buffer' = <<>>
  /\ Finish /\ Reply("ACK") /\ Takes("EOT", Head(wire).of = 0)
  /\ UNCHANGED <<current, errors, received>>

(* the end of the data is signalled here too *)
Cancel ==
  /\ Arrives /\ state = "started" /\ Char = Can
  /\ state' = "ending"
  /\ Finish /\ Reply("CAN") /\ Takes("CAN", Head(wire).of = 0)
  /\ UNCHANGED <<buffer, current, errors, received>>

(* download_firmware: of a transfer that failed, what was written is wiped. *)
Wipe ==
  /\ state = "ending" /\ state' = "idle"
  /\ flash' = IF received = <<>> THEN flash ELSE AllErased
  /\ UNCHANGED <<buffer, current, errors, received, pages, first, wire, answers, host,
                 misread, faults, transfers>>

Ignored ==
  /\ Arrives
  /\ state \in {"idle", "complete"} \/ (state = "started" /\ Char \notin {Soh, Eot, Can})
  /\ UNCHANGED <<receiver, writer, answers, misread>>

(* XMODEM_RECV_BLOCK *)
BlockGoesOn ==
  /\ Arrives /\ state = "block" /\ Len(buffer) + 1 < 5
  /\ buffer' = Append(buffer, Head(wire))
  /\ UNCHANGED <<state, current, errors, received, writer, answers, misread>>

(* process_buffer.  buffer[1] == current_blk - 1 is an int comparison: it   *)
(* never holds when current_blk is 0.                                       *)
Number(b) == b[2].byte
Sound(b) == /\ b[3].byte = Width - 1 - Number(b)
            /\ b[4].of = b[5].of /\ b[4].place = 4 /\ b[5].place = 5
DuplicateNever(b) == Sound(b) /\ Number(b) = current - 2   \* mutant
Duplicate(b) == Sound(b) /\ Number(b) = current - 1
Expected(b) == Sound(b) /\ Number(b) = current
TakesNumber(b) == Takes("header", Number(b) = b[4].of % Width)

(* Whatever process_buffer decides, xmodem_serial_rx waits for a block next. *)
BlockEnds ==
  /\ Arrives /\ state = "block" /\ Len(buffer) + 1 = 5
  /\ state' = "started" /\ buffer' = <<>>

(* Mutant of TakeBlock: the block number stays. *)
TakeBlockAgain ==
  /\ BlockEnds
  /\ \E b \in {Append(buffer, Head(wire))} :
       /\ Expected(b) /\ TakesNumber(b)
       /\ received' = Append(received, b[4].of) /\ WritePage(b[4].of)
  /\ Reply("ACK") /\ errors' = 0
  /\ UNCHANGED current

TakeBlock ==
  /\ BlockEnds
  /\ \E b \in {Append(buffer, Head(wire))} :
       /\ Expected(b) /\ TakesNumber(b)
       /\ received' = Append(received, b[4].of) /\ WritePage(b[4].of)
  /\ current' = (current + 1) % Width
  /\ Reply("ACK") /\ errors' = 0

RepeatedBlock ==
  /\ BlockEnds
  /\ \E b \in {Append(buffer, Head(wire))} : Duplicate(b) /\ TakesNumber(b)
  /\ Reply("ACK") /\ errors' = 0
  /\ UNCHANGED <<current, received, writer>>

BadBlock ==
  /\ BlockEnds
  /\ ~Expected(Append(buffer, Head(wire))) /\ ~Duplicate(Append(buffer, Head(wire)))
  /\ Reply("NAK")
  /\ UNCHANGED <<current, errors, received, writer, misread>>

(* xmodem_loop: the timeout.  A block that has begun goes on. *)
TimesOut == /\ state \in {"started", "block"} /\ wire = <<>> /\ answers = <<>>
            /\ UNCHANGED <<wire, host, misread, faults, transfers>>

(* Mutants of Timeout: it never gives up; it does not count. *)
TimeoutForever ==
  /\ TimesOut
  /\ errors' = errors + 1
  /\ Reply(IF received = <<>> THEN "C" ELSE "NAK")
  /\ UNCHANGED <<state, buffer, current, received, writer>>
TimeoutUncounted ==
  /\ TimesOut /\ errors < MaxErrors
  /\ Reply(IF received = <<>> THEN "C" ELSE "NAK")
  /\ UNCHANGED <<errors, state, buffer, current, received, writer>>

Timeout ==
  /\ TimesOut /\ errors < MaxErrors
  /\ errors' = errors + 1
  /\ Reply(IF received = <<>> THEN "C" ELSE "NAK")
  /\ UNCHANGED <<state, buffer, current, received, writer>>

GiveUp ==
  /\ TimesOut /\ errors >= MaxErrors
  /\ state' = "ending" /\ errors' = 0 /\ Reply("CAN")
  /\ UNCHANGED <<buffer, current, received, writer>>

Receive ==
  \/ BlockStarts \/ EndOfFile \/ Cancel \/ Wipe \/ Ignored \/ BlockGoesOn
  \/ TakeBlock \/ RepeatedBlock \/ BadBlock \/ Timeout \/ GiveUp

-----------------------------------------------------------------------------
(* The sender: xmodem.send of the Python library, and the user *)

Over == {"done", "failed", "aborted"}

Hears == /\ answers # <<>> /\ answers' = Tail(answers)
         /\ UNCHANGED <<receiver, writer, misread, faults, transfers>>
SendNext(n) == IF n <= Blocks THEN Send(Block(n)) /\ sender' = "block"
               ELSE Send(<<Control(Eot)>>) /\ sender' = "eot"

HearStart ==
  /\ Hears /\ sender = "start" /\ Head(answers) = "C"
  /\ SendNext(1) /\ UNCHANGED <<file, next, retries>>

HearAck ==
  /\ Hears /\ sender \in {"block", "eot"} /\ Head(answers) = "ACK"
  /\ retries' = 0 /\ UNCHANGED file
  /\ IF sender = "eot" THEN sender' = "done" /\ UNCHANGED <<wire, next>>
     ELSE next' = next + 1 /\ SendNext(next + 1)

(* anything else, or nothing for 15 s: again, until the limit, then CAN CAN *)
Again ==
  /\ retries' = retries + 1
  /\ IF retries < Retry THEN SendNext(next)
     ELSE Send(<<Control(Can), Control(Can)>>) /\ sender' = "failed"
  /\ UNCHANGED <<file, next>>

HearOther == Hears /\ sender \in {"block", "eot"} /\ Head(answers) # "ACK" /\ Again

HearNothing ==
  /\ answers = <<>> /\ wire = <<>> /\ state \in {"idle", "complete"}
  /\ sender \in {"block", "eot"} /\ Again
  /\ UNCHANGED <<receiver, writer, answers, misread, faults, transfers>>

HearUseless ==
  /\ Hears
  /\ sender \in Over \/ (sender = "start" /\ Head(answers) # "C")
  /\ UNCHANGED <<host, wire>>

(* CTRL+X, or the tool is closed *)
UserAborts ==
  /\ sender \in {"start", "block", "eot"} /\ faults < MaxFaults
  /\ sender' = "aborted" /\ faults' = faults + 1
  /\ Send(<<Control(Can), Control(Can)>>) \/ UNCHANGED wire
  /\ UNCHANGED <<receiver, writer, answers, file, next, retries, misread, transfers>>

Upload == HearStart \/ HearAck \/ HearOther \/ HearNothing \/ HearUseless

LoseByte ==
  /\ faults < MaxFaults /\ faults' = faults + 1
  /\ \E i \in DOMAIN wire : wire' = RemoveAt(wire, i)
  /\ UNCHANGED <<receiver, writer, answers, host, misread, transfers>>

LoseAnswer ==
  /\ faults < MaxFaults /\ faults' = faults + 1
  /\ \E i \in DOMAIN answers : answers' = RemoveAt(answers, i)
  /\ UNCHANGED <<receiver, writer, wire, host, misread, transfers>>

(* xmodem_init, xmodem_receive: another upload from the menu.  The statics  *)
(* of the flash writer are as the last one left them.                       *)
UploadAgain ==
  /\ state \in {"idle", "complete"} /\ sender \in Over
  /\ transfers < MaxTransfers /\ transfers' = transfers + 1
  /\ state' = "started" /\ buffer' = <<>> /\ current' = 1 /\ errors' = 0 /\ received' = <<>>
  /\ wire' = <<>> /\ answers' = <<"C">>
  /\ sender' = "start" /\ next' = 1 /\ retries' = 0
  /\ misread' = {}
  /\ UNCHANGED <<writer, file, faults>>

Init ==
  /\ state = "started" /\ buffer = <<>> /\ current = 1 /\ errors = 0 /\ received = <<>>
  /\ flash = [p \in 1..(2 * Blocks) |-> Old] /\ pages = 0 /\ first = Zero
  /\ wire = <<>> /\ answers = <<"C">>
  /\ file \in Files /\ sender = "start" /\ next = 1 /\ retries = 0
  /\ misread = {} /\ faults = 0 /\ transfers = 1

Next == Receive \/ Upload \/ UserAborts \/ LoseByte \/ LoseAnswer \/ UploadAgain

Spec == Init /\ [][Next]_vars /\ WF_vars(Receive) /\ WF_vars(Upload)

-----------------------------------------------------------------------------
(* The variables take the values the code gives them. *)
TypeOK ==
  /\ state \in {"started", "block", "complete", "ending", "idle"}
  /\ Len(buffer) < 5 /\ (buffer # <<>> => state \in {"block", "ending", "idle"})
  /\ current \in Byte /\ errors \in 0..MaxErrors
  /\ flash \in [1..(2 * Blocks) -> Page] /\ first \in {Zero} \cup 1..Blocks
  /\ sender \in {"start", "block", "eot"} \cup Over
  /\ next \in 1..(Blocks + 1) /\ retries \in 0..(Retry + 1)
  /\ misread \subseteq {"SOH", "EOT", "CAN", "header"}

Status == CASE state \in {"started", "block"} -> "open"
            [] state = "complete" -> "complete"
            [] state \in {"ending", "idle"} -> "failed"

File == INSTANCE Transfer WITH status <- Status, misled <- misread \cap {"EOT", "header"} # {}

(* process_buffer, xmodem_serial_rx: blocks are taken once, in order, and   *)
(* the end is the end of the file, whatever bytes and answers the line      *)
(* loses and whoever gives up.  After a byte of a block was taken for EOT,  *)
(* or another for its number, nothing is promised.                          *)
TakesTheFile == File!Spec

(* The first page, without which a firmware does not start, is only there   *)
(* with all the others (zc95Bootloader.c, xmodem_data_received_write_flash: *)
(* "This should stop a firmware that was mostly written to flash from       *)
(* starting, then randomly crashing").  A transfer that was cancelled is    *)
(* looked at when it has been wiped.                                        *)
Startable == flash[1] \in {Old} \cup 1..Blocks
WholeFile == \A p \in 1..Blocks : flash[p] = p
StartableIsWhole ==
  state # "ending" /\ Startable => WholeFile \/ \A p \in DOMAIN flash : flash[p] = Old

(* The same of the first upload since the bootloader started.  A block      *)
(* repeated, damaged or lost, a tool closed or CTRL+X half way leave the    *)
(* old firmware, the whole new one or one that does not start.  So does a   *)
(* byte taken for SOH or CAN, but not one taken for EOT: the first page is  *)
(* written then although the others are not all there.                      *)
FirstUploadIsWhole ==
  transfers = 1 /\ misread \cap {"EOT", "header"} = {} => StartableIsWhole

(* A transfer ends, and the bootloader is back in its menu.                *)
Ends == []<>(state \in {"idle", "complete"})

(* process_buffer: the block before number 0 comes again, and is not taken  *)
(* for a repeat.                                                            *)
Unrepeatable == current = 0 /\ next % Width = Width - 1 /\ sender = "block" /\ wire # <<>>

(* Bytes and answers lost are made good by the timeouts and repeats of      *)
(* both sides (xmodem_loop, process_buffer): the file arrives, unless the   *)
(* user gives up, a byte of a block is taken for a control character, or    *)
(* the ACK of the block before number 0 is lost.                            *)
Succeeds ==
  [](misread = {} /\ ~Unrepeatable) => []<>(state = "complete" \/ sender = "aborted")

=============================================================================
