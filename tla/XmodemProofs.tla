----------------------------- MODULE XmodemProofs -----------------------------
(***************************************************************************)
(* What an upload over the serial line promises for files of any length    *)
(* and contents, any width of a byte, any limits and any number of faults. *)
(*                                                                         *)
(* The line may lose bytes and answers, the tool may be closed and the     *)
(* user may cancel at any moment.  A lost byte puts the receiver out of    *)
(* step, and it goes on with whatever byte reads as SOH.  What is proved   *)
(* is that nothing but a byte of a block that reads as EOT, or a block     *)
(* with the number of another, can then make it take the wrong file.       *)
(***************************************************************************)
EXTENDS Xmodem, SequenceTheorems, TLAPS

-----------------------------------------------------------------------------
(* Types.                                                                  *)

Symbols == {s \in [byte : Byte, of : 0..Blocks, place : 0..5] :
              s.place # 0 => s.of # 0}
Answers == {"C", "ACK", "NAK", "CAN"}
Mistakes == {"SOH", "EOT", "CAN", "header"}

ReceiverTypes ==
  /\ state \in {"started", "block", "complete", "ending", "idle"}
  /\ buffer \in Seq(Symbols) /\ Len(buffer) < 5
  /\ buffer # <<>> => state \in {"block", "ending", "idle"}
  /\ current \in Byte /\ errors \in 0..MaxErrors
  /\ received \in Seq(1..Blocks)

WriterTypes ==
  /\ flash \in [1..(2 * Blocks) -> Page] /\ pages \in Nat
  /\ first \in {Zero} \cup 1..Blocks

(* An upload under way is at a block, and has not used up its repeats. *)
HostTypes ==
  /\ file \in Files /\ sender \in {"start", "block", "eot"} \cup Over
  /\ next \in 1..(Blocks + 1) /\ retries \in 0..(Retry + 1)
  /\ sender \notin Over => retries <= Retry
  /\ sender = "start" => next = 1
  /\ sender = "block" => next <= Blocks
  /\ sender = "eot" => next = Blocks + 1

LineTypes ==
  /\ wire \in Seq(Symbols) /\ answers \in Seq(Answers)
  /\ misread \subseteq Mistakes /\ transfers \in Nat \ {0}

Types == ReceiverTypes /\ WriterTypes /\ HostTypes /\ LineTypes

(* The constants, as the provers like them. *)
LEMMA Constants ==
  /\ Blocks \in Nat \ {0} /\ Width \in Nat \ {0, 1}
  /\ Soh \in Byte /\ Eot \in Byte /\ Can \in Byte
  /\ Soh # Eot /\ Soh # Can /\ Eot # Can
  /\ Files \subseteq [1..Blocks -> Byte]
  /\ MaxErrors \in Nat /\ Retry \in Nat
  /\ Old \notin {Erased, Zero, Mixed}
  /\ {Old, Erased, Zero, Mixed} \cap Nat = {}
  BY XmodemAssumption DEF Byte

(* A block is five symbols of its own. *)
LEMMA BlockIs ==
  ASSUME file \in Files, NEW n \in 1..Blocks
  PROVE  /\ Block(n) \in Seq(Symbols) /\ Len(Block(n)) = 5
         /\ \A i \in 1..5 : Block(n)[i].of = n /\ Block(n)[i].place = i
<1>1. /\ n % Width \in Byte /\ Width - 1 - (n % Width) \in Byte /\ 0 \in Byte
      /\ Soh \in Byte /\ file[n] \in Byte
  BY Constants DEF Byte
<1>2. \A byte \in Byte, place \in 1..5 : Symbol(byte, n, place) \in Symbols
  BY DEF Symbol, Symbols
<1>3. /\ Symbol(Soh, n, 1) \in Symbols /\ Symbol(n % Width, n, 2) \in Symbols
      /\ Symbol(Width - 1 - (n % Width), n, 3) \in Symbols
      /\ Symbol(file[n], n, 4) \in Symbols /\ Symbol(0, n, 5) \in Symbols
  BY <1>1, <1>2
<1>4. Block(n) \in Seq(Symbols) /\ Len(Block(n)) = 5
  BY <1>3 DEF Block
<1>5. /\ Block(n)[1] = Symbol(Soh, n, 1) /\ Block(n)[2] = Symbol(n % Width, n, 2)
      /\ Block(n)[3] = Symbol(Width - 1 - (n % Width), n, 3)
      /\ Block(n)[4] = Symbol(file[n], n, 4) /\ Block(n)[5] = Symbol(0, n, 5)
  BY DEF Block
<1>6. \A byte, place : /\ Symbol(byte, n, place).of = n
                       /\ Symbol(byte, n, place).place = place
  BY DEF Symbol
<1>7. \A i \in 1..5 : i = 1 \/ i = 2 \/ i = 3 \/ i = 4 \/ i = 5
  OBVIOUS
<1> QED
  BY <1>4, <1>5, <1>6, <1>7

LEMMA ControlIs ==
  ASSUME NEW byte \in Byte
  PROVE  /\ Control(byte) \in Symbols /\ Control(byte).byte = byte
         /\ Control(byte).of = 0 /\ Control(byte).place = 0
         /\ <<Control(byte)>> \in Seq(Symbols)
         /\ <<Control(byte), Control(byte)>> \in Seq(Symbols)
<1>1. /\ Control(byte) \in Symbols /\ Control(byte).byte = byte
      /\ Control(byte).of = 0 /\ Control(byte).place = 0
  BY Constants DEF Control, Symbol, Symbols
<1> QED
  BY <1>1

(* Sequences, as the provers like them. *)
LEMMA TailIs ==
  ASSUME NEW S, NEW s \in Seq(S), s # <<>>
  PROVE  /\ Head(s) \in S /\ Tail(s) \in Seq(S) /\ Len(s) \in Nat \ {0}
         /\ Len(Tail(s)) = Len(s) - 1
  OBVIOUS

LEMMA AppendIs ==
  ASSUME NEW S, NEW s \in Seq(S), NEW e \in S
  PROVE  /\ Append(s, e) \in Seq(S) /\ Len(Append(s, e)) = Len(s) + 1
         /\ Len(s) \in Nat
  OBVIOUS

LEMMA Regroup ==
  ASSUME NEW S, NEW s \in Seq(S), NEW t \in Seq(S), NEW u \in Seq(S)
  PROVE  (s \o t) \o u = s \o (t \o u)
  BY ConcatAssociative

LEMMA LenConcat ==
  ASSUME NEW S, NEW s \in Seq(S), NEW t \in Seq(S)
  PROVE  /\ Len(s) \in Nat /\ Len(t) \in Nat
         /\ s \o t \in Seq(S) /\ Len(s \o t) = Len(s) + Len(t)
  OBVIOUS

(* Of two sequences, put together, the lengths and the elements. *)
Joins(s, t, m, n) ==
  /\ Len(s \o t) = m + n
  /\ \A k \in 1..m : (s \o t)[k] = s[k]
  /\ \A k \in 1..n : (s \o t)[m + k] = t[k]

LEMMA JoinIs ==
  ASSUME NEW S, NEW s \in Seq(S), NEW t \in Seq(S)
  PROVE  Joins(s, t, Len(s), Len(t)) /\ s \o t \in Seq(S)
  BY DEF Joins

LEMMA RemoveAtIs ==
  ASSUME NEW S, NEW s \in Seq(S), NEW i \in DOMAIN s
  PROVE  /\ RemoveAt(s, i) \in Seq(S)
         /\ Len(RemoveAt(s, i)) = Len(s) - 1
         /\ \A j \in 1..(Len(s) - 1) :
              RemoveAt(s, i)[j] = IF j < i THEN s[j] ELSE s[j + 1]
<1> DEFINE before == SubSeq(s, 1, i - 1)
           after == SubSeq(s, i + 1, Len(s))
           n == Len(s)
<1>1. i \in 1..n /\ n \in Nat
  OBVIOUS
<1>2. /\ before \in Seq(S) /\ Len(before) = i - 1
      /\ \A k \in 1..(i - 1) : before[k] = s[k]
  BY <1>1
<1>3. /\ after \in Seq(S) /\ Len(after) = n - i
      /\ \A k \in 1..(n - i) : after[k] = s[k + i]
  BY <1>1
<1>4. RemoveAt(s, i) = before \o after
  BY DEF RemoveAt
<1> HIDE DEF before, after, n
<1>5. i - 1 \in Nat /\ n - i \in Nat /\ (i - 1) + (n - i) = n - 1
  BY <1>1
<1>6. /\ before \o after \in Seq(S) /\ Len(before \o after) = (i - 1) + (n - i)
      /\ \A k \in 1..(i - 1) : (before \o after)[k] = before[k]
      /\ \A k \in 1..(n - i) : (before \o after)[(i - 1) + k] = after[k]
  <2>1. Joins(before, after, Len(before), Len(after)) /\ before \o after \in Seq(S)
    BY <1>2, <1>3, JoinIs
  <2>2. Joins(before, after, i - 1, n - i)
    BY <1>2, <1>3, <2>1, Zenon
  <2> QED
    BY <2>1, <2>2, Zenon DEF Joins
<1>7. Len(before \o after) = n - 1
  BY <1>5, <1>6, Zenon
<1>8. ASSUME NEW j \in 1..(n - 1)
      PROVE  (before \o after)[j] = IF j < i THEN s[j] ELSE s[j + 1]
  <2>1. CASE j < i
    <3>1. j \in 1..(i - 1)
      BY <1>1, <2>1
    <3>2. (before \o after)[j] = s[j]
      BY <1>2, <1>6, <3>1, Zenon
    <3> QED
      BY <2>1, <3>2, Zenon
  <2>2. CASE ~(j < i)
    <3> DEFINE k == j - (i - 1)
    <3>1. k \in 1..(n - i) /\ (i - 1) + k = j /\ k + i = j + 1
      BY <1>1, <2>2
    <3> HIDE DEF k
    <3>2. (before \o after)[(i - 1) + k] = s[k + i]
      BY <1>3, <1>6, <3>1, Zenon
    <3> QED
      BY <2>2, <3>1, <3>2, Zenon
  <2> QED
    BY <2>1, <2>2
<1> QED
  BY <1>4, <1>6, <1>7, <1>8 DEF n

(* A page is programmed in place. *)
LEMMA ProgramType ==
  ASSUME NEW memory \in [1..(2 * Blocks) -> Page], NEW p, NEW page \in Page
  PROVE  Program(memory, p, page) \in [1..(2 * Blocks) -> Page]
  BY DEF Program, Page

LEMMA WriterStays ==
  ASSUME WriterTypes
  PROVE  /\ \A n \in 1..Blocks : WritePage(n) => WriterTypes'
         /\ Finish => WriterTypes'
         /\ (flash' \in {flash, AllErased, Program(flash, 1, first)}
             /\ UNCHANGED <<pages, first>>) => WriterTypes'
<1>1. AllErased \in [1..(2 * Blocks) -> Page]
  BY DEF AllErased, Page
<1>2. first \in Page /\ 1..Blocks \subseteq Page
  BY DEF WriterTypes, Page
<1>3. Program(flash, 1, first) \in [1..(2 * Blocks) -> Page]
  BY <1>2, ProgramType DEF WriterTypes
<1>4. \A n \in 1..Blocks :
        Program(flash, pages + 1, n) \in [1..(2 * Blocks) -> Page]
  BY <1>2, ProgramType DEF WriterTypes
<1> QED
  BY <1>1, <1>3, <1>4 DEF WriterTypes, WritePage, Finish

(* What arrives. *)
LEMMA ArrivesIs ==
  ASSUME Types, Arrives
  PROVE  /\ Head(wire) \in Symbols /\ wire' \in Seq(Symbols) /\ wire # <<>>
         /\ wire' = Tail(wire) /\ UNCHANGED <<file, sender, next, retries, faults, transfers>>
         /\ HostTypes'
<1>1. wire \in Seq(Symbols) /\ wire # <<>> /\ wire' = Tail(wire)
  BY DEF Arrives, Types, LineTypes
<1>2. UNCHANGED <<file, sender, next, retries, faults, transfers>>
  BY DEF Arrives, host
<1>3. Head(wire) \in Symbols /\ wire' \in Seq(Symbols)
  BY <1>1, TailIs
<1> QED
  BY <1>1, <1>2, <1>3 DEF Types, HostTypes

LEMMA TakesIs ==
  ASSUME misread \subseteq Mistakes, NEW what \in Mistakes, NEW ifNot,
         Takes(what, ifNot)
  PROVE  /\ misread' \subseteq Mistakes /\ misread \subseteq misread'
         /\ what \notin misread' => ifNot
<1>1. CASE ifNot
  BY <1>1 DEF Takes
<1>2. CASE ~ifNot
  <2>1. misread' = misread \cup {what}
    BY <1>2 DEF Takes
  <2> QED
    BY <2>1
<1> QED
  BY <1>1, <1>2

LEMMA ReplyIs ==
  ASSUME Types, NEW c \in Answers, Reply(c)
  PROVE  answers' \in Seq(Answers)
  BY AppendIs DEF Reply, Types, LineTypes

LEMMA ArrivalTypes ==
  ASSUME Types, BlockStarts \/ EndOfFile \/ Cancel \/ Ignored \/ BlockGoesOn
  PROVE  Types'
<1>1. Arrives
  BY DEF BlockStarts, EndOfFile, Cancel, Ignored, BlockGoesOn
<1>2. /\ Head(wire) \in Symbols /\ wire' \in Seq(Symbols) /\ HostTypes'
      /\ UNCHANGED transfers
  BY <1>1, ArrivesIs
<1>3. buffer \in Seq(Symbols) /\ Len(buffer) \in Nat
  BY DEF Types, ReceiverTypes
<1>4. <<>> \in Seq(Symbols) /\ Len(<<>>) = 0 /\ <<Head(wire)>> \in Seq(Symbols)
      /\ Len(<<Head(wire)>>) = 1
  BY <1>2
<1>5. ReceiverTypes'
  <2>1. CASE BlockStarts
    BY <1>4, <2>1 DEF BlockStarts, Types, ReceiverTypes
  <2>2. CASE EndOfFile
    BY <1>4, <2>2 DEF EndOfFile, Types, ReceiverTypes
  <2>3. CASE Cancel
    BY <2>3 DEF Cancel, Types, ReceiverTypes
  <2>4. CASE Ignored
    BY <2>4 DEF Ignored, receiver, Types, ReceiverTypes
  <2>5. CASE BlockGoesOn
    <3>1. Append(buffer, Head(wire)) \in Seq(Symbols)
          /\ Len(Append(buffer, Head(wire))) = Len(buffer) + 1
      BY <1>2, <1>3, AppendIs
    <3> QED
      BY <2>5, <3>1 DEF BlockGoesOn, Types, ReceiverTypes
  <2> QED
    BY <2>1, <2>2, <2>3, <2>4, <2>5
<1>6. WriterTypes'
  <2> WriterTypes
    BY DEF Types
  <2>1. CASE EndOfFile
    BY <2>1, WriterStays DEF EndOfFile
  <2>2. CASE Cancel
    BY <2>2, WriterStays DEF Cancel
  <2>3. CASE BlockStarts \/ Ignored \/ BlockGoesOn
    BY <2>3 DEF BlockStarts, Ignored, BlockGoesOn, writer, WriterTypes
  <2> QED
    BY <2>1, <2>2, <2>3
<1>7. answers' \in Seq(Answers)
  <2>1. CASE EndOfFile \/ Cancel
    BY <2>1, ReplyIs DEF EndOfFile, Cancel, Answers
  <2>2. CASE BlockStarts \/ Ignored \/ BlockGoesOn
    BY <2>2 DEF BlockStarts, Ignored, BlockGoesOn, Types, LineTypes
  <2> QED
    BY <2>1, <2>2
<1>8. misread' \subseteq Mistakes
  <2> misread \subseteq Mistakes
    BY DEF Types, LineTypes
  <2>1. CASE BlockStarts \/ EndOfFile \/ Cancel
    <3>1. /\ BlockStarts => Takes("SOH", Head(wire).place = 1)
          /\ EndOfFile => Takes("EOT", Head(wire).of = 0)
          /\ Cancel => Takes("CAN", Head(wire).of = 0)
      BY DEF BlockStarts, EndOfFile, Cancel
    <3>2. "SOH" \in Mistakes /\ "EOT" \in Mistakes /\ "CAN" \in Mistakes
      BY DEF Mistakes
    <3> QED
      BY <2>1, <3>1, <3>2, TakesIs
  <2>2. CASE Ignored \/ BlockGoesOn
    BY <2>2 DEF Ignored, BlockGoesOn
  <2> QED
    BY <2>1, <2>2
<1> QED
  BY <1>2, <1>5, <1>6, <1>7, <1>8 DEF Types, LineTypes

(* The block that is complete with the next symbol. *)
Whole == Append(buffer, Head(wire))

LEMMA WholeIs ==
  ASSUME Types, BlockEnds
  PROVE  /\ Whole \in Seq(Symbols) /\ Len(Whole) = 5
         /\ Sound(Whole) => Whole[4].of \in 1..Blocks
<1>1. Head(wire) \in Symbols /\ buffer \in Seq(Symbols)
  BY ArrivesIs DEF BlockEnds, Types, ReceiverTypes
<1>2. Whole \in Seq(Symbols) /\ Len(Whole) = 5
  BY <1>1, AppendIs DEF BlockEnds, Whole
<1>3. Whole[4] \in Symbols
  BY <1>2
<1> QED
  BY <1>2, <1>3, Constants DEF Sound, Symbols

LEMMA BlockTypes ==
  ASSUME Types, TakeBlock \/ RepeatedBlock \/ BadBlock
  PROVE  Types'
<1>1. BlockEnds
  BY DEF TakeBlock, RepeatedBlock, BadBlock
<1>2. /\ wire' \in Seq(Symbols) /\ HostTypes' /\ UNCHANGED transfers
      /\ state' = "started" /\ buffer' = <<>>
  BY <1>1, ArrivesIs DEF BlockEnds
<1>3. answers' \in Seq(Answers) /\ misread' \subseteq Mistakes
  <2>1. answers' \in Seq(Answers)
    BY ReplyIs DEF TakeBlock, RepeatedBlock, BadBlock, Answers
  <2>2. misread \subseteq Mistakes /\ "header" \in Mistakes
    BY DEF Types, LineTypes, Mistakes
  <2>3. CASE TakeBlock \/ RepeatedBlock
    <3>1. TakesNumber(Whole)
      BY <2>3 DEF TakeBlock, RepeatedBlock, Whole
    <3> QED
      BY <2>1, <2>2, <3>1, TakesIs DEF TakesNumber
  <2>4. CASE BadBlock
    BY <2>1, <2>2, <2>4 DEF BadBlock
  <2> QED
    BY <2>3, <2>4
<1>4. CASE TakeBlock
  <2>1. /\ Expected(Whole) /\ received' = Append(received, Whole[4].of)
        /\ WritePage(Whole[4].of) /\ current' = (current + 1) % Width
        /\ errors' = 0
    BY <1>4 DEF TakeBlock, Whole
  <2>2. Whole[4].of \in 1..Blocks
    BY <1>1, <2>1, WholeIs DEF Expected
  <2>3. received' \in Seq(1..Blocks)
    BY <2>1, <2>2, AppendIs DEF Types, ReceiverTypes
  <2>4. WriterTypes'
    BY <2>1, <2>2, WriterStays DEF Types
  <2>5. (current + 1) % Width \in Byte /\ 0 \in 0..MaxErrors
    BY Constants DEF Types, ReceiverTypes, Byte
  <2>6. <<>> \in Seq(Symbols) /\ Len(<<>>) < 5
    OBVIOUS
  <2>7. ReceiverTypes'
    BY <1>2, <2>1, <2>3, <2>5, <2>6 DEF ReceiverTypes
  <2> QED
    BY <1>2, <1>3, <2>4, <2>7 DEF Types, LineTypes
<1>5. CASE RepeatedBlock \/ BadBlock
  <2>1. /\ UNCHANGED <<current, received, flash, pages, first>>
        /\ errors' \in {0, errors}
    BY <1>5 DEF RepeatedBlock, BadBlock, writer
  <2>2. <<>> \in Seq(Symbols) /\ Len(<<>>) < 5 /\ 0 \in 0..MaxErrors
    BY Constants
  <2>3. ReceiverTypes' /\ WriterTypes'
    BY <1>2, <2>1, <2>2 DEF Types, ReceiverTypes, WriterTypes
  <2> QED
    BY <1>2, <1>3, <2>3 DEF Types, LineTypes
<1> QED
  BY <1>4, <1>5

LEMMA TimeoutTypes ==
  ASSUME Types, Timeout \/ GiveUp
  PROVE  Types'
<1>1. UNCHANGED <<wire, file, sender, next, retries, misread, transfers>>
  BY DEF Timeout, GiveUp, TimesOut, host
<1>2. answers' \in Seq(Answers)
  <2>1. CASE Timeout
    <3>1. PICK c \in {"C", "NAK"} : Reply(c)
      BY <2>1 DEF Timeout
    <3> QED
      BY <3>1, ReplyIs DEF Answers
  <2>2. CASE GiveUp
    BY <2>2, ReplyIs DEF GiveUp, Answers
  <2> QED
    BY <2>1, <2>2
<1>3. ReceiverTypes'
  BY Constants DEF Types, ReceiverTypes, Timeout, GiveUp
<1>4. WriterTypes'
  <2>1. CASE Timeout
    BY <2>1 DEF Timeout, writer, Types, WriterTypes
  <2>2. CASE GiveUp
    BY <2>2 DEF GiveUp, writer, Types, WriterTypes
  <2> QED
    BY <2>1, <2>2
<1> QED
  BY <1>1, <1>2, <1>3, <1>4 DEF Types, HostTypes, LineTypes

LEMMA WipeTypes ==
  ASSUME Types, Wipe
  PROVE  Types'
<1>1. WriterTypes'
  BY WriterStays DEF Wipe, Types
<1> QED
  BY <1>1 DEF Wipe, host, Types, ReceiverTypes, HostTypes, LineTypes

(* What the sender puts on the line. *)
LEMMA SendNextTypes ==
  ASSUME Types, NEW n \in 1..(Blocks + 1), SendNext(n)
  PROVE  /\ wire' \in Seq(Symbols)
         /\ sender' = IF n <= Blocks THEN "block" ELSE "eot"
<1>1. wire \in Seq(Symbols) /\ file \in Files
  BY DEF Types, LineTypes, HostTypes
<1>2. CASE n <= Blocks
  <2>1. n \in 1..Blocks
    BY <1>2, Constants
  <2>2. Block(n) \in Seq(Symbols)
    BY <1>1, <2>1, BlockIs
  <2>3. wire' = wire \o Block(n) /\ sender' = "block"
    BY <1>2 DEF SendNext, Send
  <2> QED
    BY <1>1, <1>2, <2>2, <2>3
<1>3. CASE ~(n <= Blocks)
  <2>1. <<Control(Eot)>> \in Seq(Symbols)
    BY Constants, ControlIs
  <2>2. wire' = wire \o <<Control(Eot)>> /\ sender' = "eot"
    BY <1>3 DEF SendNext, Send
  <2> QED
    BY <1>1, <1>3, <2>1, <2>2
<1> QED
  BY <1>2, <1>3

LEMMA CancelsTypes ==
  ASSUME Types, Send(<<Control(Can), Control(Can)>>)
  PROVE  wire' \in Seq(Symbols)
<1>1. <<Control(Can), Control(Can)>> \in Seq(Symbols) /\ wire \in Seq(Symbols)
  BY Constants, ControlIs DEF Types, LineTypes
<1> DEFINE cancels == <<Control(Can), Control(Can)>>
<1> HIDE DEF cancels
<1>2. wire' = wire \o cancels /\ cancels \in Seq(Symbols)
  BY <1>1 DEF Send, cancels
<1> QED
  BY <1>1, <1>2

LEMMA AgainTypes ==
  ASSUME Types, sender \in {"block", "eot"}, Again
  PROVE  HostTypes' /\ wire' \in Seq(Symbols)
<1>1. /\ next \in 1..(Blocks + 1) /\ retries \in Nat /\ retries <= Retry
      /\ sender = "block" => next <= Blocks
      /\ sender = "eot" => next = Blocks + 1
  BY Constants DEF Types, HostTypes, Over
<1>2. retries' = retries + 1 /\ UNCHANGED <<file, next>>
  BY DEF Again
<1>3. CASE retries < Retry
  <2>1. SendNext(next)
    BY <1>3 DEF Again
  <2>2. /\ wire' \in Seq(Symbols)
        /\ sender' = IF next <= Blocks THEN "block" ELSE "eot"
    BY <1>1, <2>1, SendNextTypes
  <2> QED
    BY <1>1, <1>2, <1>3, <2>2, Constants DEF Types, HostTypes
<1>4. CASE ~(retries < Retry)
  <2>1. Send(<<Control(Can), Control(Can)>>) /\ sender' = "failed"
    BY <1>4 DEF Again
  <2> QED
    BY <1>1, <1>2, <2>1, CancelsTypes, Constants DEF Types, HostTypes, Over
<1> QED
  BY <1>3, <1>4

LEMMA AnswersTail ==
  ASSUME Types, Hears
  PROVE  /\ answers' \in Seq(Answers)
         /\ ReceiverTypes' /\ WriterTypes' /\ UNCHANGED <<misread, transfers>>
<1>1. answers' \in Seq(Answers)
  BY TailIs DEF Hears, Types, LineTypes
<1> QED
  BY <1>1 DEF Hears, Types, ReceiverTypes, WriterTypes, receiver, writer

LEMMA UploadTypes ==
  ASSUME Types, Upload PROVE Types'
<1>1. CASE HearStart
  <2>1. 1 \in 1..(Blocks + 1) /\ 1 <= Blocks /\ next = 1
    BY <1>1, Constants DEF HearStart, Types, HostTypes
  <2>2. Hears /\ SendNext(1) /\ UNCHANGED <<file, next, retries>>
    BY <1>1 DEF HearStart
  <2>3. wire' \in Seq(Symbols) /\ sender' = "block"
    BY <2>1, <2>2, SendNextTypes
  <2>4. retries <= Retry
    BY <1>1 DEF HearStart, Types, HostTypes, Over
  <2>5. HostTypes'
    BY <2>1, <2>2, <2>3, <2>4 DEF Types, HostTypes
  <2> QED
    BY <2>2, <2>3, <2>5, AnswersTail DEF Types, LineTypes
<1>2. CASE HearAck
  <2>1. /\ Hears /\ sender \in {"block", "eot"} /\ retries' = 0 /\ file' = file
    BY <1>2 DEF HearAck
  <2>2. CASE sender = "eot"
    <3>1. sender' = "done" /\ UNCHANGED <<wire, next>>
      BY <1>2, <2>2 DEF HearAck
    <3>2. HostTypes' /\ wire' \in Seq(Symbols)
      BY <2>1, <3>1, Constants DEF Types, HostTypes, LineTypes, Over
    <3> QED
      BY <2>1, <3>2, AnswersTail DEF Types, LineTypes
  <2>3. CASE sender # "eot"
    <3>1. next' = next + 1 /\ SendNext(next + 1)
      BY <1>2, <2>3 DEF HearAck
    <3>2. next + 1 \in 1..(Blocks + 1)
      BY <2>1, <2>3, Constants DEF Types, HostTypes
    <3>3. /\ wire' \in Seq(Symbols)
          /\ sender' = IF next + 1 <= Blocks THEN "block" ELSE "eot"
      BY <3>1, <3>2, SendNextTypes
    <3>4. HostTypes'
      BY <2>1, <3>1, <3>2, <3>3, Constants DEF Types, HostTypes
    <3> QED
      BY <2>1, <3>3, <3>4, AnswersTail DEF Types, LineTypes
  <2> QED
    BY <2>2, <2>3
<1>3. CASE HearOther
  BY <1>3, AgainTypes, AnswersTail DEF HearOther, Types, LineTypes
<1>4. CASE HearNothing
  BY <1>4, AgainTypes
  DEF HearNothing, Types, LineTypes, ReceiverTypes, WriterTypes, receiver, writer
<1>5. CASE HearUseless
  BY <1>5, AnswersTail DEF HearUseless, Types, HostTypes, LineTypes, host
<1> QED
  BY <1>1, <1>2, <1>3, <1>4, <1>5 DEF Upload

LEMMA OtherTypes ==
  ASSUME Types, UserAborts \/ LoseByte \/ LoseAnswer \/ UploadAgain PROVE Types'
<1>1. CASE UserAborts
  <2>1. wire' \in Seq(Symbols)
    BY <1>1, CancelsTypes DEF UserAborts, Types, LineTypes
  <2> QED
    BY <1>1, <2>1
    DEF UserAborts, Types, LineTypes, ReceiverTypes, WriterTypes, HostTypes, Over,
        receiver, writer
<1>2. CASE LoseByte
  <2>1. wire' \in Seq(Symbols)
    BY <1>2, RemoveAtIs DEF LoseByte, Types, LineTypes
  <2> QED
    BY <1>2, <2>1
    DEF LoseByte, Types, LineTypes, ReceiverTypes, WriterTypes, HostTypes,
        receiver, writer, host
<1>3. CASE LoseAnswer
  <2>1. answers' \in Seq(Answers)
    BY <1>3, RemoveAtIs DEF LoseAnswer, Types, LineTypes
  <2> QED
    BY <1>3, <2>1
    DEF LoseAnswer, Types, LineTypes, ReceiverTypes, WriterTypes, HostTypes,
        receiver, writer, host
<1>4. CASE UploadAgain
  <2>1. /\ <<>> \in Seq(Symbols) /\ <<>> \in Seq(1..Blocks) /\ Len(<<>>) < 5
        /\ <<"C">> \in Seq(Answers) /\ 1 \in Byte
    BY Constants DEF Answers, Byte
  <2>2. ReceiverTypes'
    BY <1>4, <2>1, Constants DEF UploadAgain, ReceiverTypes
  <2>3. WriterTypes' /\ HostTypes'
    BY <1>4, Constants DEF UploadAgain, Types, WriterTypes, HostTypes, writer
  <2>4. LineTypes'
    BY <1>4, <2>1 DEF UploadAgain, Types, LineTypes
  <2> QED
    BY <2>2, <2>3, <2>4 DEF Types
<1> QED
  BY <1>1, <1>2, <1>3, <1>4

LEMMA InitTypes == Init => Types
<1> SUFFICES ASSUME Init PROVE Types
  OBVIOUS
<1>1. /\ <<>> \in Seq(Symbols) /\ <<>> \in Seq(1..Blocks) /\ Len(<<>>) < 5
      /\ <<"C">> \in Seq(Answers) /\ 1 \in Byte
  BY Constants DEF Answers, Byte
<1>2. ReceiverTypes
  BY <1>1, Constants DEF Init, ReceiverTypes
<1>3. WriterTypes /\ HostTypes
  BY Constants DEF Init, WriterTypes, HostTypes, Page
<1>4. LineTypes
  BY <1>1 DEF Init, LineTypes
<1> QED
  BY <1>2, <1>3, <1>4 DEF Types

LEMMA NextTypes == Types /\ [Next]_vars => Types'
<1> SUFFICES ASSUME Types, [Next]_vars PROVE Types'
  OBVIOUS
<1>1. CASE Receive
  BY <1>1, ArrivalTypes, BlockTypes, TimeoutTypes, WipeTypes DEF Receive
<1>2. CASE Upload
  BY <1>2, UploadTypes
<1>3. CASE UserAborts \/ LoseByte \/ LoseAnswer \/ UploadAgain
  BY <1>3, OtherTypes
<1>4. CASE UNCHANGED vars
  BY <1>4
  DEF vars, receiver, writer, host, Types, ReceiverTypes, WriterTypes, HostTypes,
      LineTypes
<1> QED
  BY <1>1, <1>2, <1>3, <1>4 DEF Next

(* Whatever the line loses, a damaged, repeated or foreign block leaves    *)
(* the receiver, the flash writer and the sender with values of their      *)
(* types.                                                                  *)
THEOREM TypeCorrect == Spec => []TypeOK
<1>1. Types => TypeOK
  BY DEF Types, ReceiverTypes, WriterTypes, HostTypes, LineTypes, Mistakes, TypeOK
<1> QED
  BY <1>1, InitTypes, NextTypes, PTL DEF Spec

-----------------------------------------------------------------------------
(* Remainders. *)
LEMMA RemainderIs ==
  ASSUME NEW w \in Nat \ {0}, NEW a \in Nat, NEW b \in 0..(w - 1)
  PROVE  (w * a + b) % w = b
<1> DEFINE x == w * a + b
           q == x \div w
           r == x % w
<1>1. x \in Nat
  BY SMT
<1> SUFFICES r = b
  OBVIOUS
<1> HIDE DEF x
<1>2. q \in Nat /\ r \in 0..(w - 1) /\ x = w * q + r
  BY <1>1, SMT
<1> HIDE DEF q, r
<1>3. x = w * a + b
  BY DEF x
<1>4. w * (a - q) = r - b
  BY <1>2, <1>3, SMT
<1>5. CASE a - q >= 1
  <2>1. w * (a - q) >= w
    BY <1>2, <1>5, SMT
  <2> QED
    BY <1>2, <1>4, <2>1, SMT
<1>6. CASE a - q <= -1
  <2>1. w * (a - q) <= -w
    BY <1>2, <1>6, SMT
  <2> QED
    BY <1>2, <1>4, <2>1, SMT
<1>7. CASE a = q
  BY <1>2, <1>4, <1>7, SMT
<1> QED
  BY <1>2, <1>5, <1>6, <1>7

LEMMA RemainderNext ==
  ASSUME NEW w \in Nat \ {0, 1}, NEW n \in Nat
  PROVE  /\ ((n % w) + 1) % w = (n + 1) % w
         /\ (n + 1) % w # n % w
<1> DEFINE q == n \div w
           r == n % w
<1>1. q \in Nat /\ r \in 0..(w - 1) /\ n = w * q + r
  BY SMT
<1> HIDE DEF q, r
<1>2. CASE r + 1 < w
  <2>1. n + 1 = w * q + (r + 1) /\ r + 1 \in 0..(w - 1)
    BY <1>1, <1>2, SMT
  <2>2. (n + 1) % w = r + 1
    BY <1>1, <2>1, RemainderIs
  <2>3. r + 1 = w * 0 + (r + 1)
    BY <1>1, SMT
  <2>4. (r + 1) % w = r + 1
    BY <2>1, <2>3, RemainderIs
  <2> QED
    BY <1>1, <2>2, <2>4 DEF r
<1>3. CASE r + 1 = w
  <2>1. n + 1 = w * (q + 1) + 0 /\ 0 \in 0..(w - 1) /\ q + 1 \in Nat
    BY <1>1, <1>3, SMT
  <2>2. (n + 1) % w = 0
    BY <1>1, <2>1, RemainderIs
  <2>3. r + 1 = w * 1 + 0
    BY <1>1, <1>3, SMT
  <2>4. (r + 1) % w = 0
    BY <2>1, <2>3, RemainderIs
  <2> QED
    BY <1>1, <1>3, <2>2, <2>4 DEF r
<1> QED
  BY <1>1, <1>2, <1>3

(* The same of block numbers. *)
LEMMA NumberNext ==
  \A n \in Nat : /\ ((n % Width) + 1) % Width = (n + 1) % Width
                 /\ (n + 1) % Width # n % Width
<1> TAKE n \in Nat
<1>1. Width \in Nat \ {0, 1}
  BY Constants
<1>2. \A w \in Nat \ {0, 1} : /\ ((n % w) + 1) % w = (n + 1) % w
                              /\ (n + 1) % w # n % w
  BY RemainderNext
<1> QED
  BY <1>1, <1>2, Zenon

(* Streams. *)
LEMMA Shift ==
  ASSUME NEW S, NEW s \in Seq(S), NEW w \in Seq(S), w # <<>>
  PROVE  Append(s, Head(w)) \o Tail(w) = s \o w
<1> DEFINE left == Append(s, Head(w)) \o Tail(w)
           right == s \o w
<1>1. Append(s, Head(w)) \in Seq(S) /\ Tail(w) \in Seq(S)
      /\ Len(Append(s, Head(w))) = Len(s) + 1 /\ Len(Tail(w)) = Len(w) - 1
      /\ Len(s) \in Nat /\ Len(w) \in Nat \ {0}
  OBVIOUS
<1>2. left \in Seq(S) /\ right \in Seq(S) /\ Len(left) = Len(right)
  BY <1>1
<1>3. \A i \in 1..Len(left) : left[i] = right[i]
  BY <1>1
<1> HIDE DEF left, right
<1>4. left = right
  BY <1>2, <1>3, SeqEqual
<1> QED
  BY <1>4 DEF left, right

LEMMA Ends2 ==
  ASSUME NEW S, NEW s \in Seq(S), NEW t \in Seq(S), NEW u \in Seq(S)
  PROVE  /\ <<>> \o s = s /\ s \o <<>> = s
         /\ (s \o t) \o u = s \o (t \o u)
         /\ s \o t = <<>> => s = <<>> /\ t = <<>>
<1>1. <<>> \in Seq(S)
  OBVIOUS
<1> QED
  BY <1>1, ConcatEmptySeq, ConcatAssociative

-----------------------------------------------------------------------------
(* The line.                                                               *)

Open == state \in {"started", "block"}
Taken == Len(received)
Misled == misread \cap {"EOT", "header"} # {}

(* What has arrived of a block, and what is still to come. *)
Stream == buffer \o wire

(* What was sent is of block n, and an end is the end of the file. *)
Of(s, n) ==
  \A i \in 1..Len(s) :
    IF s[i].of = 0 THEN s[i].byte = Eot => n = Blocks + 1 ELSE s[i].of = n

(* Behind a whole block there is nothing. *)
EndsLast(s) == \A i \in 1..Len(s) : s[i].place = 5 => i = Len(s) \/ i <= 4

(* The parts of a stream. *)
LEMMA Parts ==
  ASSUME NEW b \in Seq(Symbols), NEW t \in Seq(Symbols), NEW n
  PROVE  /\ Of(b \o t, n) <=> Of(b, n) /\ Of(t, n)
         /\ EndsLast(b \o t) => EndsLast(t)
         /\ EndsLast(b \o t) /\ Len(b) = 5 /\ b[5].place = 5 => t = <<>>
<1> DEFINE s == b \o t
<1>1. s \in Seq(Symbols) /\ Len(b) \in Nat /\ Len(t) \in Nat /\ Len(s) = Len(b) + Len(t)
  BY LenConcat
<1>2. /\ \A i \in 1..Len(b) : i \in 1..Len(s) /\ s[i] = b[i]
      /\ \A i \in 1..Len(t) : i + Len(b) \in 1..Len(s) /\ s[i + Len(b)] = t[i]
      /\ \A i \in 1..Len(s) : i \in 1..Len(b) \/ i - Len(b) \in 1..Len(t)
      /\ \A i \in 1..Len(s) : i \notin 1..Len(b) => s[i] = t[i - Len(b)]
  BY <1>1
<1> HIDE DEF s
<1>3. Of(s, n) <=> Of(b, n) /\ Of(t, n)
  <2>1. ASSUME Of(s, n) PROVE Of(b, n)
    BY <1>2, <2>1 DEF Of
  <2>2. ASSUME Of(s, n) PROVE Of(t, n)
    BY <1>2, <2>2 DEF Of
  <2>3. ASSUME Of(b, n), Of(t, n) PROVE Of(s, n)
    <3> SUFFICES ASSUME NEW i \in 1..Len(s)
                 PROVE  IF s[i].of = 0 THEN s[i].byte = Eot => n = Blocks + 1
                        ELSE s[i].of = n
      BY DEF Of
    <3>1. CASE i \in 1..Len(b)
      BY <1>2, <2>3, <3>1 DEF Of
    <3>2. CASE i \notin 1..Len(b)
      <4>1. i - Len(b) \in 1..Len(t) /\ s[i] = t[i - Len(b)]
        BY <1>2, <3>2
      <4> QED
        BY <2>3, <4>1 DEF Of
    <3> QED
      BY <3>1, <3>2
  <2> QED
    BY <2>1, <2>2, <2>3
<1>4. ASSUME EndsLast(s) PROVE EndsLast(t)
  <2> SUFFICES ASSUME NEW i \in 1..Len(t), t[i].place = 5
               PROVE  i = Len(t) \/ i <= 4
    BY DEF EndsLast
  <2>1. i + Len(b) = Len(s) \/ i + Len(b) <= 4
    BY <1>2, <1>4 DEF EndsLast
  <2> QED
    BY <1>1, <2>1
<1>5. ASSUME EndsLast(s), Len(b) = 5, b[5].place = 5 PROVE t = <<>>
  <2>1. 5 \in 1..Len(s) /\ s[5].place = 5
    BY <1>2, <1>5
  <2>2. Len(s) = 5
    BY <1>5, <2>1 DEF EndsLast
  <2>3. Len(t) = 0
    <3>1. \A x, y \in Nat : x = 5 /\ x + y = 5 => y = 0
      OBVIOUS
    <3>2. Len(b) + Len(t) = 5
      BY <1>1, <2>2
    <3> QED
      BY <1>1, <1>5, <3>1, <3>2, Zenon
  <2> QED
    BY <2>3
<1> QED
  BY <1>3, <1>4, <1>5 DEF s

(* A stream of which a byte is lost. *)
LEMMA LossIs ==
  ASSUME NEW b \in Seq(Symbols), NEW w \in Seq(Symbols), NEW i \in DOMAIN w, NEW n
  PROVE  /\ RemoveAt(w, i) \in Seq(Symbols)
         /\ Len(b \o RemoveAt(w, i)) = Len(b \o w) - 1
         /\ Of(b \o w, n) => Of(b \o RemoveAt(w, i), n)
         /\ EndsLast(b \o w) => EndsLast(b \o RemoveAt(w, i))
<1> DEFINE v == RemoveAt(w, i)
           m == Len(b)
           l == Len(w)
<1>1. /\ v \in Seq(Symbols) /\ Len(v) = l - 1
      /\ \A j \in 1..(l - 1) : v[j] = IF j < i THEN w[j] ELSE w[j + 1]
  BY RemoveAtIs
<1>2. i \in 1..l /\ l \in Nat /\ m \in Nat /\ Len(b) = m /\ Len(w) = l
  OBVIOUS
<1> HIDE DEF v, m, l
<1>3. l - 1 \in Nat /\ m + (l - 1) = (m + l) - 1
  BY <1>2
<1>4. /\ Len(b \o w) = m + l
      /\ \A k \in 1..m : (b \o w)[k] = b[k]
      /\ \A k \in 1..l : (b \o w)[m + k] = w[k]
  <2>1. Joins(b, w, Len(b), Len(w))
    BY JoinIs
  <2>2. Joins(b, w, m, l)
    BY <1>2, <2>1, Zenon
  <2> QED
    BY <2>2, Zenon DEF Joins
<1>5. /\ Len(b \o v) = m + (l - 1)
      /\ \A k \in 1..m : (b \o v)[k] = b[k]
      /\ \A k \in 1..(l - 1) : (b \o v)[m + k] = v[k]
  <2>1. Joins(b, v, Len(b), Len(v))
    BY <1>1, JoinIs
  <2>2. Joins(b, v, m, l - 1)
    BY <1>1, <1>2, <2>1, Zenon
  <2> QED
    BY <2>2, Zenon DEF Joins
<1>6. ASSUME Of(w, n) PROVE Of(v, n)
  <2> SUFFICES ASSUME NEW j \in 1..(l - 1)
               PROVE  IF v[j].of = 0 THEN v[j].byte = Eot => n = Blocks + 1
                      ELSE v[j].of = n
    BY <1>1 DEF Of
  <2>1. j \in 1..l /\ j + 1 \in 1..l
    BY <1>2
  <2>2. \A k \in 1..l : IF w[k].of = 0 THEN w[k].byte = Eot => n = Blocks + 1
                        ELSE w[k].of = n
    BY <1>2, <1>6, Zenon DEF Of
  <2>3. v[j] = w[j] \/ v[j] = w[j + 1]
    BY <1>1
  <2> QED
    BY <2>1, <2>2, <2>3, Zenon
<1>7. ASSUME EndsLast(b \o w) PROVE EndsLast(b \o v)
  <2> SUFFICES ASSUME NEW k \in 1..(m + (l - 1)), (b \o v)[k].place = 5
               PROVE  k = m + (l - 1) \/ k <= 4
    BY <1>5, Zenon DEF EndsLast
  <2>1. \A p \in 1..(m + l) : (b \o w)[p].place = 5 => p = m + l \/ p <= 4
    BY <1>4, <1>7, Zenon DEF EndsLast
  <2>2. CASE k <= m
    <3>1. k \in 1..m /\ k \in 1..(m + l) /\ k # m + l
      BY <1>2, <2>2
    <3>2. (b \o v)[k] = (b \o w)[k]
      BY <1>4, <1>5, <3>1, Zenon
    <3> QED
      BY <2>1, <3>1, <3>2, Zenon
  <2>3. CASE ~(k <= m)
    <3> DEFINE j == k - m
    <3>1. /\ j \in 1..(l - 1) /\ j \in 1..l /\ j + 1 \in 1..l /\ m + j = k
          /\ m + j \in 1..(m + l) /\ m + (j + 1) \in 1..(m + l) /\ m + j # m + l
      BY <1>2, <2>3
    <3> HIDE DEF j
    <3>2. (b \o v)[k] = v[j]
      BY <1>5, <3>1, Zenon
    <3>3. (b \o w)[m + j] = w[j] /\ (b \o w)[m + (j + 1)] = w[j + 1]
      BY <1>4, <3>1, Zenon
    <3>4. v[j] = w[j] \/ v[j] = w[j + 1]
      BY <1>1, <3>1
    <3>5. CASE v[j] = w[j]
      BY <2>1, <3>1, <3>2, <3>3, <3>5, Zenon
    <3>6. CASE v[j] = w[j + 1]
      <4>1. m + (j + 1) = m + l \/ m + (j + 1) <= 4
        BY <2>1, <3>1, <3>2, <3>3, <3>6, Zenon
      <4> QED
        BY <1>2, <3>1, <4>1
    <3> QED
      BY <3>4, <3>5, <3>6
  <2> QED
    BY <2>2, <2>3
<1>8. Of(b \o w, n) => Of(b \o v, n)
  BY <1>1, <1>6, Parts
<1> QED
  BY <1>1, <1>3, <1>4, <1>5, <1>7, <1>8 DEF v

(* A stream at whose end a block, the end or two CANs are sent. *)
Wanted(n) == IF n <= Blocks THEN Block(n) ELSE <<Control(Eot)>>
Cancels == <<Control(Can), Control(Can)>>

LEMMA WantedIs ==
  ASSUME file \in Files, NEW n \in 1..(Blocks + 1)
  PROVE  /\ Wanted(n) \in Seq(Symbols) /\ Len(Wanted(n)) \in 1..5
         /\ Of(Wanted(n), n)
         /\ \A i \in 1..Len(Wanted(n)) : Wanted(n)[i].place = 5 => i = Len(Wanted(n))
<1>1. CASE n <= Blocks
  <2>1. n \in 1..Blocks /\ n # 0
    BY <1>1, Constants
  <2>2. /\ Wanted(n) = Block(n) /\ Block(n) \in Seq(Symbols) /\ Len(Block(n)) = 5
        /\ \A i \in 1..5 : Block(n)[i].of = n /\ Block(n)[i].place = i
    BY <1>1, <2>1, BlockIs DEF Wanted
  <2> QED
    BY <2>1, <2>2 DEF Of
<1>2. CASE ~(n <= Blocks)
  <2>1. n = Blocks + 1 /\ Wanted(n) = <<Control(Eot)>>
    BY <1>2, Constants DEF Wanted
  <2>2. /\ <<Control(Eot)>> \in Seq(Symbols) /\ Control(Eot).of = 0
        /\ Control(Eot).place = 0
    BY Constants, ControlIs
  <2>3. Len(Wanted(n)) = 1 /\ Wanted(n)[1] = Control(Eot)
    BY <2>1
  <2>4. \A i \in 1..Len(Wanted(n)) : i = 1 /\ i = Len(Wanted(n))
    BY <2>3
  <2>5. Of(Wanted(n), n)
    BY <2>1, <2>2, <2>3, <2>4 DEF Of
  <2>6. Wanted(n) \in Seq(Symbols)
    BY <2>1, <2>2, Zenon
  <2>7. Len(Wanted(n)) \in 1..5
    BY <2>3
  <2> QED
    BY <2>4, <2>5, <2>6, <2>7
<1> QED
  BY <1>1, <1>2

LEMMA CancelsIs ==
  ASSUME NEW n
  PROVE  Cancels \in Seq(Symbols) /\ Of(Cancels, n)
<1>1. /\ Cancels \in Seq(Symbols) /\ Control(Can).of = 0 /\ Control(Can).byte = Can
  BY Constants, ControlIs DEF Cancels
<1>2. /\ Len(Cancels) = 2
      /\ \A i \in 1..2 : Cancels[i] = Control(Can)
  BY DEF Cancels
<1> QED
  BY <1>1, <1>2, Constants DEF Of

LEMMA SentIs ==
  ASSUME file \in Files, NEW s \in Seq(Symbols), NEW n \in 1..(Blocks + 1),
         Of(s, n), Len(s) <= 4
  PROVE  /\ s \o Wanted(n) \in Seq(Symbols) /\ Len(s \o Wanted(n)) <= 9
         /\ Of(s \o Wanted(n), n) /\ EndsLast(s \o Wanted(n))
<1> DEFINE w == Wanted(n)
<1>1. /\ w \in Seq(Symbols) /\ Len(w) \in 1..5 /\ Of(w, n)
      /\ \A i \in 1..Len(w) : w[i].place = 5 => i = Len(w)
  BY WantedIs
<1> HIDE DEF w
<1>2. s \o w \in Seq(Symbols) /\ Len(s) \in Nat /\ Len(s \o w) = Len(s) + Len(w)
  BY <1>1, LenConcat
<1>3. EndsLast(s \o w)
  <2> SUFFICES ASSUME NEW k \in 1..Len(s \o w), (s \o w)[k].place = 5
               PROVE  k = Len(s \o w) \/ k <= 4
    BY DEF EndsLast
  <2>1. CASE k > Len(s)
    <3>1. k - Len(s) \in 1..Len(w) /\ (s \o w)[k] = w[k - Len(s)]
      BY <1>1, <1>2, <2>1
    <3>2. k - Len(s) = Len(w)
      BY <1>1, <3>1
    <3> QED
      BY <1>2, <3>2
  <2> QED
    BY <1>2, <2>1
<1>4. Of(s \o w, n)
  BY <1>1, Parts
<1>5. Len(s \o w) <= 9
  <2>1. \A x \in Nat, y \in 1..5 : x <= 4 => x + y <= 9
    OBVIOUS
  <2>2. Len(s) + Len(w) <= 9
    BY <1>1, <1>2, <2>1
  <2> QED
    BY <1>2, <2>2, Zenon
<1> QED
  BY <1>2, <1>3, <1>4, <1>5 DEF w

-----------------------------------------------------------------------------
(* The invariant.  It says nothing of a transfer that was misled.          *)

(* Sender and receiver take turns: when there is an answer, too little is  *)
(* left of what was sent to make a block, and after an ACK nothing.        *)
Turns ==
  sender \notin Over =>
    /\ Len(Stream) <= 9 /\ EndsLast(Stream)
    /\ answers # <<>> => Len(answers) = 1 /\ Len(Stream) <= 4
    /\ sender = "start" => Stream = <<>> /\ received = <<>>
    /\ answers # <<>> /\ Head(answers) = "ACK" => Stream = <<>> /\ Taken = next

(* The receiver has what the sender sent, or all but the last block. *)
Counted ==
  /\ \A i \in 1..Taken : received[i] = i
  /\ Taken \in {next - 1, next} /\ Taken <= Blocks
  /\ current = (Taken + 1) % Width

InStep == Open /\ ~Misled => Of(Stream, next) /\ Turns /\ Counted

(* The writer of the first upload keeps the first page back. *)
AllOld == \A p \in DOMAIN flash : flash[p] = Old
Written ==
  IF Taken = 0
  THEN pages = 0 /\ first = Zero /\ AllOld
  ELSE /\ pages = Taken /\ first = 1
       /\ \A p \in 1..(2 * Blocks) :
            flash[p] = IF p \in 2..Taken THEN p ELSE Erased

FirstUpload ==
  transfers = 1 /\ ~Misled =>
    /\ Open => Written
    /\ state = "ending" /\ received = <<>> => flash[1] = Zero \/ AllOld
    /\ state \in {"complete", "idle"} => StartableIsWhole

(* What a step does to the file, as Transfer sees it. *)
FileStep ==
  \/ Misled'
  \/ ~Misled /\ Open /\ Open' /\ Taken < Blocks
     /\ received' = Append(received, Taken + 1)
  \/ ~Misled /\ Open /\ state' = "complete" /\ Taken = Blocks /\ received' = received
  \/ ~Misled /\ Open /\ state' = "ending" /\ received' = received
  \/ /\ ~Misled /\ received' = received
     /\ state' = state \/ (Open /\ Open') \/ (state = "ending" /\ state' = "idle")
  \/ ~Open /\ Open' /\ received' = <<>>

Keeps == InStep' /\ FirstUpload' /\ FileStep

LEMMA MisledKeeps ==
  ASSUME Misled' PROVE Keeps
  BY DEF Keeps, InStep, FirstUpload, FileStep

LEMMA StreamIs ==
  ASSUME Types
  PROVE  /\ buffer \in Seq(Symbols) /\ wire \in Seq(Symbols) /\ Stream \in Seq(Symbols)
         /\ Len(Stream) \in Nat /\ Len(Stream) = Len(buffer) + Len(wire)
         /\ Len(buffer) \in Nat /\ Len(wire) \in Nat
         /\ Taken \in Nat /\ next \in 1..(Blocks + 1)
<1>1. buffer \in Seq(Symbols) /\ wire \in Seq(Symbols)
  BY DEF Types, ReceiverTypes, LineTypes
<1>2. Stream \in Seq(Symbols) /\ Len(Stream) = Len(buffer) + Len(wire)
  BY <1>1, LenConcat DEF Stream
<1>3. Taken \in Nat /\ next \in 1..(Blocks + 1)
  BY DEF Types, ReceiverTypes, HostTypes, Taken
<1> QED
  BY <1>1, <1>2, <1>3

LEMMA StreamIsNext ==
  ASSUME Types'
  PROVE  Stream' \in Seq(Symbols) /\ Len(Stream') \in Nat
<1>1. buffer' \in Seq(Symbols) /\ wire' \in Seq(Symbols)
  BY DEF Types, ReceiverTypes, LineTypes
<1>2. Stream' \in Seq(Symbols)
  BY <1>1, LenConcat DEF Stream
<1> QED
  BY <1>2

LEMMA SendIs ==
  ASSUME Types, buffer' = buffer, NEW w \in Seq(Symbols), Send(w)
  PROVE  Stream' = Stream \o w
<1>1. buffer \in Seq(Symbols) /\ wire \in Seq(Symbols)
  BY StreamIs
<1>2. \A s, t, u \in Seq(Symbols) : (s \o t) \o u = s \o (t \o u)
  BY Regroup
<1>3. (buffer \o wire) \o w = buffer \o (wire \o w)
  BY <1>1, <1>2, Zenon
<1> QED
  BY <1>3, Zenon DEF Send, Stream

LEMMA SameWriter ==
  ASSUME FirstUpload, ~Misled, (Open /\ Open') \/ state' = state,
         UNCHANGED <<received, writer, transfers>>
  PROVE  FirstUpload'
<1>1. /\ UNCHANGED <<received, flash, pages, first, transfers>>
      /\ Written' <=> Written
      /\ AllOld' <=> AllOld
      /\ state' = state => (StartableIsWhole' <=> StartableIsWhole)
  BY DEF writer, Written, AllOld, Taken, StartableIsWhole, Startable, WholeFile
<1> SUFFICES ASSUME transfers' = 1, ~Misled' PROVE FirstUpload'
  BY DEF FirstUpload
<1>2. CASE Open /\ Open'
  <2>1. Written
    BY <1>1, <1>2 DEF FirstUpload
  <2>2. state' \notin {"ending", "complete", "idle"}
    BY <1>2 DEF Open
  <2> QED
    BY <1>1, <2>1, <2>2 DEF FirstUpload
<1>3. CASE state' = state
  <2>1. Open' <=> Open
    BY <1>3 DEF Open
  <2>2. /\ Open => Written
        /\ state = "ending" /\ received = <<>> => flash[1] = Zero \/ AllOld
        /\ state \in {"complete", "idle"} => StartableIsWhole
    BY <1>1 DEF FirstUpload
  <2> QED
    BY <1>1, <1>3, <2>1, <2>2 DEF FirstUpload
<1> QED
  BY <1>2, <1>3

LEMMA SameCount ==
  ASSUME Counted, UNCHANGED <<received, next, current>> PROVE Counted'
  BY DEF Counted, Taken

(* Symbols move along the line, or get lost. *)
LEMMA LineKeeps ==
  ASSUME Types, Types', InStep, FirstUpload, ~Misled, Open, Open',
         UNCHANGED <<received, current, writer, answers, sender, next, transfers>>,
         Of(Stream, next) => Of(Stream', next), Len(Stream') <= Len(Stream),
         EndsLast(Stream) => EndsLast(Stream')
  PROVE  Keeps
<1>1. Of(Stream, next) /\ Turns /\ Counted
  BY DEF InStep
<1>2. /\ Stream \in Seq(Symbols) /\ Len(Stream) \in Nat
      /\ Stream' \in Seq(Symbols) /\ Len(Stream') \in Nat
  BY StreamIs, StreamIsNext
<1>3. Stream = <<>> => Stream' = <<>>
  <2> SUFFICES ASSUME Stream = <<>> PROVE Stream' = <<>>
    OBVIOUS
  <2>1. Len(Stream) = 0
    BY <1>2
  <2>2. Len(Stream') = 0
    BY <1>2, <2>1
  <2> QED
    BY <1>2, <2>2
<1>4. Len(Stream) <= 9 => Len(Stream') <= 9
  BY <1>2
<1>5. Len(Stream) <= 4 => Len(Stream') <= 4
  BY <1>2
<1>6. Turns'
  BY <1>1, <1>3, <1>4, <1>5 DEF Turns, Taken
<1>7. Of(Stream', next')
  BY <1>1
<1>8. Counted' /\ FirstUpload'
  BY <1>1, SameCount, SameWriter
<1> QED
  BY <1>6, <1>7, <1>8 DEF Keeps, InStep, FileStep

LEMMA BlockStartsKeeps ==
  ASSUME Types, Types', InStep, FirstUpload, ~Misled, BlockStarts
  PROVE  Keeps
<1>1. /\ Arrives /\ state = "started" /\ state' = "block" /\ buffer' = <<Head(wire)>>
      /\ UNCHANGED <<current, received, writer, answers>>
  BY DEF BlockStarts
<1>2. /\ wire \in Seq(Symbols) /\ wire # <<>> /\ wire' = Tail(wire)
      /\ UNCHANGED <<sender, next, transfers>>
  BY <1>1, ArrivesIs DEF Types, LineTypes
<1>3. buffer = <<>> /\ <<>> \in Seq(Symbols)
  BY <1>1 DEF Types, ReceiverTypes
<1>4. Append(<<>>, Head(wire)) \o Tail(wire) = <<>> \o wire
  BY <1>2, <1>3, Shift
<1>5. Append(<<>>, Head(wire)) = <<Head(wire)>>
  OBVIOUS
<1>6. Stream' = Stream
  BY <1>1, <1>2, <1>3, <1>4, <1>5 DEF Stream
<1>7. Len(Stream') <= Len(Stream)
  BY <1>6, StreamIs
<1>8. Open /\ Open'
  BY <1>1 DEF Open
<1> QED
  BY <1>1, <1>2, <1>6, <1>7, <1>8, LineKeeps

LEMMA BlockGoesOnKeeps ==
  ASSUME Types, Types', InStep, FirstUpload, ~Misled, BlockGoesOn
  PROVE  Keeps
<1>1. /\ Arrives /\ state = "block" /\ buffer' = Append(buffer, Head(wire))
      /\ UNCHANGED <<state, current, received, writer, answers>>
  BY DEF BlockGoesOn
<1>2. /\ wire \in Seq(Symbols) /\ wire # <<>> /\ wire' = Tail(wire)
      /\ UNCHANGED <<sender, next, transfers>> /\ buffer \in Seq(Symbols)
  BY <1>1, ArrivesIs DEF Types, LineTypes, ReceiverTypes
<1>3. Stream' = Stream
  BY <1>1, <1>2, Shift DEF Stream
<1>4. Len(Stream') <= Len(Stream)
  BY <1>3, StreamIs
<1>5. Open /\ Open'
  BY <1>1 DEF Open
<1> QED
  BY <1>1, <1>2, <1>3, <1>4, <1>5, LineKeeps

(* With the upload over, only the line and the sender change. *)
LEMMA ClosedKeeps ==
  ASSUME FirstUpload, ~Misled, ~Open, UNCHANGED <<receiver, writer, transfers>>
  PROVE  Keeps
<1>1. ~Open' /\ state' = state /\ received' = received
  BY DEF Open, receiver
<1>2. FirstUpload'
  BY <1>1, SameWriter
<1> QED
  BY <1>1, <1>2 DEF Keeps, InStep, FileStep

LEMMA IgnoredKeeps ==
  ASSUME Types, Types', InStep, FirstUpload, ~Misled, Ignored
  PROVE  Keeps
<1>1. /\ Arrives /\ UNCHANGED <<receiver, writer, answers>>
      /\ state \in {"idle", "complete", "started"}
  BY DEF Ignored
<1>2. /\ Head(wire) \in Symbols /\ wire \in Seq(Symbols) /\ wire # <<>>
      /\ wire' = Tail(wire) /\ wire' \in Seq(Symbols)
      /\ UNCHANGED <<sender, next, transfers>>
  BY <1>1, ArrivesIs DEF Types, LineTypes
<1>3. CASE state # "started"
  <2>1. ~Open
    BY <1>1, <1>3 DEF Open
  <2> QED
    BY <1>1, <1>2, <2>1, ClosedKeeps
<1>4. CASE state = "started"
  <2>1. /\ buffer = <<>> /\ buffer' = <<>> /\ <<>> \in Seq(Symbols)
        /\ UNCHANGED <<state, current, received>>
    BY <1>1, <1>4 DEF receiver, Types, ReceiverTypes
  <2>2. Stream = wire /\ Stream' = wire'
    BY <1>2, <2>1, Ends2 DEF Stream
  <2> DEFINE b == Append(<<>>, Head(wire))
  <2>3. b \in Seq(Symbols) /\ b \o wire' = wire
    BY <1>2, <2>1, Shift, Ends2
  <2> HIDE DEF b
  <2>4. /\ Of(wire, next) => Of(wire', next)
        /\ EndsLast(wire) => EndsLast(wire')
    <3>1. /\ Of(b \o wire', next) => Of(wire', next)
          /\ EndsLast(b \o wire') => EndsLast(wire')
      BY <1>2, <2>3, Parts
    <3> QED
      BY <2>3, <3>1
  <2>5. Len(wire') <= Len(wire)
    BY <1>2, TailIs
  <2>6. Open /\ Open'
    BY <1>4, <2>1 DEF Open
  <2> QED
    BY <1>1, <1>2, <2>1, <2>2, <2>4, <2>5, <2>6, LineKeeps
<1> QED
  BY <1>3, <1>4

LEMMA LoseByteKeeps ==
  ASSUME Types, Types', InStep, FirstUpload, ~Misled, LoseByte
  PROVE  Keeps
<1>1. UNCHANGED <<receiver, writer, answers, sender, next, transfers>>
  BY DEF LoseByte, host
<1>2. PICK i \in DOMAIN wire : wire' = RemoveAt(wire, i)
  BY DEF LoseByte
<1>3. CASE ~Open
  BY <1>1, <1>3, ClosedKeeps
<1>4. CASE Open
  <2>1. UNCHANGED <<state, buffer, current, received>> /\ Open'
    BY <1>1, <1>4 DEF receiver, Open
  <2>2. Stream' = buffer \o RemoveAt(wire, i)
    BY <1>2, <2>1 DEF Stream
  <2>3. /\ buffer \in Seq(Symbols) /\ wire \in Seq(Symbols)
        /\ Len(Stream) \in Nat
    BY StreamIs
  <2>4. /\ Of(Stream, next) => Of(Stream', next)
        /\ EndsLast(Stream) => EndsLast(Stream')
        /\ Len(Stream') = Len(Stream) - 1
    BY <2>2, <2>3, LossIs DEF Stream
  <2>5. Len(Stream') <= Len(Stream)
    BY <2>3, <2>4
  <2> QED
    BY <1>1, <1>4, <2>1, <2>4, <2>5, LineKeeps
<1> QED
  BY <1>3, <1>4

(* A block that ends is of what the sender is at.  If it is sound, it is   *)
(* whole, and nothing is left behind it.                                   *)
LEMMA BlockEndsIs ==
  ASSUME Types, Types', InStep, ~Misled, BlockEnds
  PROVE  /\ Open /\ Open' /\ Counted /\ UNCHANGED <<sender, next, transfers>>
         /\ Of(Stream', next) /\ Len(Whole) = 5 /\ Whole \in Seq(Symbols)
         /\ Sound(Whole) => Whole[4].of = next /\ next \in 1..Blocks
         /\ sender \notin Over =>
              /\ Len(Stream') <= 4 /\ Len(Stream') <= 9 /\ EndsLast(Stream')
              /\ answers = <<>> /\ sender # "start"
              /\ Sound(Whole) => Stream' = <<>>
<1>1. /\ Arrives /\ state = "block" /\ state' = "started" /\ buffer' = <<>>
      /\ Len(buffer) + 1 = 5
  BY DEF BlockEnds
<1>2. /\ Head(wire) \in Symbols /\ wire \in Seq(Symbols) /\ wire # <<>>
      /\ wire' = Tail(wire) /\ wire' \in Seq(Symbols)
      /\ UNCHANGED <<sender, next, transfers>>
  BY <1>1, ArrivesIs DEF Types, LineTypes
<1>3. Open /\ Open' /\ Of(Stream, next) /\ Turns /\ Counted
  BY <1>1 DEF InStep, Open
<1>4. /\ Stream' = wire' /\ Stream' \in Seq(Symbols) /\ Len(Stream') \in Nat
  BY <1>1, <1>2, Ends2, StreamIsNext DEF Stream
<1>5. /\ Whole \in Seq(Symbols) /\ Len(Whole) = 5
      /\ Sound(Whole) => Whole[4].of \in 1..Blocks
  BY WholeIs
<1>6. Whole \o Stream' = Stream
  BY <1>2, <1>4, Shift, StreamIs DEF Whole, Stream
<1> DEFINE w == Whole
           s == Stream'
<1> HIDE DEF w, s
<1>7. w \in Seq(Symbols) /\ Len(w) = 5 /\ s \in Seq(Symbols) /\ w \o s = Stream
  BY <1>4, <1>5, <1>6 DEF w, s
<1>8. /\ Of(w \o s, next) <=> Of(w, next) /\ Of(s, next)
      /\ EndsLast(w \o s) => EndsLast(s)
      /\ EndsLast(w \o s) /\ Len(w) = 5 /\ w[5].place = 5 => s = <<>>
  BY <1>7, Parts
<1>9. Of(w, next) /\ Of(s, next)
  BY <1>3, <1>7, <1>8
<1>10. Sound(w) => w[4].of = next /\ next \in 1..Blocks
  <2>1. 4 \in 1..Len(w)
    BY <1>7
  <2>2. Sound(w) => w[4].of \in 1..Blocks
    BY <1>5 DEF w
  <2>3. w[4].of # 0 => w[4].of = next
    BY <1>9, <2>1 DEF Of
  <2> QED
    BY <2>2, <2>3, Constants
<1>11. Len(Stream) = 5 + Len(s) /\ Len(s) \in Nat /\ Stream # <<>>
  <2>1. Len(w \o s) = Len(w) + Len(s) /\ Len(s) \in Nat
    BY <1>7, LenConcat
  <2>2. Len(Stream) = 5 + Len(s)
    BY <1>7, <2>1, Zenon
  <2>3. \A k \in Nat : 5 + k # 0
    OBVIOUS
  <2>4. Len(<<>>) = 0
    OBVIOUS
  <2> QED
    BY <2>1, <2>2, <2>3, <2>4, Zenon
<1>12. ASSUME sender \notin Over
       PROVE  /\ Len(s) <= 4 /\ Len(s) <= 9 /\ EndsLast(s)
              /\ answers = <<>> /\ sender # "start"
              /\ Sound(w) => s = <<>>
  <2>1. /\ Len(Stream) <= 9 /\ EndsLast(Stream)
        /\ answers # <<>> => Len(Stream) <= 4
        /\ sender # "start"
    BY <1>3, <1>11, <1>12 DEF Turns
  <2>2. \A k \in Nat : 5 + k <= 9 => k <= 4 /\ k <= 9 /\ ~(5 + k <= 4)
    OBVIOUS
  <2>3. 5 + Len(s) <= 9 /\ (answers # <<>> => 5 + Len(s) <= 4)
    BY <1>11, <2>1, Zenon
  <2>4. Len(s) <= 4 /\ Len(s) <= 9 /\ answers = <<>>
    BY <1>11, <2>2, <2>3, Zenon
  <2>5. EndsLast(w \o s)
    BY <1>7, <2>1, Zenon
  <2>6. Sound(w) => w[5].place = 5
    BY DEF Sound
  <2> QED
    BY <1>7, <1>8, <2>1, <2>4, <2>5, <2>6
<1> QED
  BY <1>2, <1>3, <1>5, <1>9, <1>10, <1>12 DEF w, s

(* Which of its two blocks the receiver waits for, if the number is that   *)
(* of the block.                                                           *)
LEMMA ExpectedIs ==
  ASSUME Types, Types', InStep, ~Misled, ~Misled', BlockEnds, TakesNumber(Whole)
  PROVE  /\ Expected(Whole) => Taken = next - 1
         /\ Duplicate(Whole) => Taken = next
<1>1. /\ Counted /\ Taken \in Nat
      /\ Sound(Whole) => Whole[4].of = next /\ next \in 1..Blocks
  BY BlockEndsIs, StreamIs
<1>2. Number(Whole) = Whole[4].of % Width
  <2>1. "header" \notin misread'
    BY DEF Misled
  <2>2. misread \subseteq Mistakes /\ "header" \in Mistakes
    BY DEF Types, LineTypes, Mistakes
  <2> QED
    BY <2>1, <2>2, TakesIs DEF TakesNumber
<1> SUFFICES ASSUME Sound(Whole)
             PROVE  /\ Expected(Whole) => Taken = next - 1
                    /\ Duplicate(Whole) => Taken = next
  BY DEF Expected, Duplicate
<1>3. Number(Whole) = next % Width /\ next \in 1..Blocks /\ next \in Nat
  BY <1>1, <1>2, Constants
<1>4. CASE Taken = next - 1
  <2>1. current = next % Width /\ next % Width \in Nat
    BY <1>1, <1>3, <1>4, Constants DEF Counted
  <2>2. ~Duplicate(Whole)
    BY <1>3, <2>1 DEF Duplicate
  <2> QED
    BY <1>4, <2>2
<1>5. CASE Taken = next
  <2>1. current = (next + 1) % Width
    BY <1>1, <1>5 DEF Counted
  <2>2. (next + 1) % Width # next % Width
    BY <1>3, NumberNext, Zenon
  <2>3. ~Expected(Whole)
    BY <1>3, <2>1, <2>2 DEF Expected
  <2> QED
    BY <1>5, <2>3
<1> QED
  BY <1>1, <1>4, <1>5 DEF Counted

(* The answer to a block. *)
LEMMA AnswerIs ==
  ASSUME Types, Types', InStep, ~Misled, BlockEnds, NEW c, Reply(c),
         c = "ACK" => Sound(Whole) /\ Taken' = next
  PROVE  Of(Stream', next') /\ Turns'
<1>1. /\ Of(Stream', next) /\ UNCHANGED <<sender, next>>
      /\ sender \notin Over =>
           /\ Len(Stream') <= 4 /\ Len(Stream') <= 9 /\ EndsLast(Stream')
           /\ answers = <<>> /\ sender # "start"
           /\ Sound(Whole) => Stream' = <<>>
  BY BlockEndsIs
<1>2. answers = <<>> => Len(answers') = 1 /\ Head(answers') = c
  BY DEF Reply
<1>3. Of(Stream', next')
  BY <1>1
<1>4. Turns'
  BY <1>1, <1>2 DEF Turns
<1> QED
  BY <1>3, <1>4

(* A page that is erased takes what is programmed. *)
LEMMA ProgramIs ==
  ASSUME WriterTypes, NEW q \in 1..(2 * Blocks), NEW page \in Page,
         flash[q] = Erased
  PROVE  /\ DOMAIN Program(flash, q, page) = 1..(2 * Blocks)
         /\ Program(flash, q, page)[q] = page
         /\ \A p \in 1..(2 * Blocks) : p # q => Program(flash, q, page)[p] = flash[p]
  BY DEF Program, WriterTypes

LEMMA TakeBlockKeeps ==
  ASSUME Types, Types', InStep, FirstUpload, ~Misled, ~Misled', TakeBlock
  PROVE  Keeps
<1>1. /\ BlockEnds /\ Expected(Whole) /\ TakesNumber(Whole)
      /\ received' = Append(received, Whole[4].of)
      /\ WritePage(Whole[4].of) /\ current' = (current + 1) % Width
      /\ Reply("ACK") /\ Sound(Whole)
  BY DEF TakeBlock, Whole, Expected
<1>2. /\ Open /\ Open' /\ next \in 1..Blocks /\ Whole[4].of = next
      /\ UNCHANGED <<next, transfers>> /\ Counted
  BY <1>1, BlockEndsIs
<1>3. Taken = next - 1 /\ Taken \in Nat
  BY <1>1, ExpectedIs, StreamIs
<1>4. /\ received' = Append(received, next) /\ Taken' = next
      /\ \A i \in 1..Taken : received'[i] = received[i]
      /\ received'[next] = next
  <2>1. received \in Seq(1..Blocks)
    BY DEF Types, ReceiverTypes
  <2> QED
    BY <1>1, <1>2, <1>3, <2>1 DEF Taken
<1>5. Of(Stream', next') /\ Turns'
  BY <1>1, <1>4, AnswerIs
<1>6. Counted'
  <2>1. \A i \in 1..Taken' : received'[i] = i
    BY <1>2, <1>3, <1>4 DEF Counted
  <2>2. current' = (Taken' + 1) % Width
    <3>1. current = next % Width
      BY <1>2, <1>3 DEF Counted
    <3>2. ((next % Width) + 1) % Width = (next + 1) % Width
      <4>1. next \in Nat
        BY <1>2, Constants
      <4> QED
        BY <4>1, NumberNext, Zenon
    <3> QED
      BY <1>1, <1>4, <3>1, <3>2
  <2> QED
    BY <1>2, <1>4, <2>1, <2>2, Constants DEF Counted
<1>7. ASSUME transfers' = 1 PROVE Written'
  <2>1. Written /\ WriterTypes
    BY <1>2, <1>7 DEF FirstUpload, Types
  <2>2. WritePage(next)
    BY <1>1, <1>2
  <2>3. CASE Taken = 0
    <3>1. next = 1 /\ pages = 0
      BY <1>2, <1>3, <2>1, <2>3 DEF Written
    <3>2. pages' = 1 /\ first' = 1 /\ flash' = AllErased
      BY <2>2, <3>1 DEF WritePage
    <3>3. Taken' = 1
      BY <1>4, <3>1
    <3>4. \A p \in 1..(2 * Blocks) : flash'[p] = Erased /\ p \notin 2..1
      BY <3>2, Constants DEF AllErased
    <3> QED
      BY <3>2, <3>3, <3>4 DEF Written
  <2>4. CASE Taken # 0
    <3>1. /\ pages = Taken /\ first = 1
          /\ \A p \in 1..(2 * Blocks) :
               flash[p] = IF p \in 2..Taken THEN p ELSE Erased
      BY <2>1, <2>4 DEF Written
    <3>2. pages' = next /\ flash' = Program(flash, next, next) /\ first' = 1
      BY <1>2, <1>3, <2>2, <2>4, <3>1 DEF WritePage
    <3>3. next \in 1..(2 * Blocks) /\ flash[next] = Erased /\ next \in Page
          /\ next \in 2..next
      BY <1>2, <1>3, <2>4, <3>1, Constants DEF Page
    <3>4. /\ flash'[next] = next
          /\ \A p \in 1..(2 * Blocks) : p # next => flash'[p] = flash[p]
      BY <2>1, <3>2, <3>3, ProgramIs
    <3>5. \A p \in 1..(2 * Blocks) :
            flash'[p] = IF p \in 2..next THEN p ELSE Erased
      BY <1>2, <1>3, <3>1, <3>3, <3>4, Constants
    <3>6. next # 0
      BY <1>2
    <3> QED
      BY <1>4, <3>2, <3>5, <3>6 DEF Written
  <2> QED
    BY <2>3, <2>4
<1>8. Taken < Blocks /\ received' = Append(received, Taken + 1)
  <2>1. Taken + 1 = next
    BY <1>2, <1>3
  <2> QED
    BY <1>2, <1>3, <1>4, <2>1, Constants
<1>9. FirstUpload'
  BY <1>2, <1>7 DEF FirstUpload, Open
<1> QED
  BY <1>2, <1>5, <1>6, <1>8, <1>9 DEF Keeps, InStep, FileStep

LEMMA OtherBlockKeeps ==
  ASSUME Types, Types', InStep, FirstUpload, ~Misled, ~Misled', RepeatedBlock \/ BadBlock
  PROVE  Keeps
<1>1. BlockEnds /\ UNCHANGED <<current, received, writer>>
  BY DEF RepeatedBlock, BadBlock
<1>2. /\ Open /\ Open' /\ UNCHANGED <<next, transfers>> /\ Counted
  BY <1>1, BlockEndsIs
<1>3. Of(Stream', next') /\ Turns'
  <2>1. CASE RepeatedBlock
    <3>1. Duplicate(Whole) /\ TakesNumber(Whole) /\ Reply("ACK") /\ Sound(Whole)
      BY <2>1 DEF RepeatedBlock, Whole, Duplicate
    <3>2. Taken' = next
      BY <1>1, <3>1, ExpectedIs DEF Taken
    <3> QED
      BY <1>1, <3>1, <3>2, AnswerIs
  <2>2. CASE BadBlock
    BY <1>1, <2>2, AnswerIs DEF BadBlock
  <2> QED
    BY <2>1, <2>2
<1>4. Counted' /\ FirstUpload'
  BY <1>1, <1>2, SameCount, SameWriter
<1> QED
  BY <1>1, <1>2, <1>3, <1>4 DEF Keeps, InStep, FileStep

(* The end of the file: all blocks are there, and the first page is now    *)
(* written.                                                                *)
LEMMA EndOfFileKeeps ==
  ASSUME Types, Types', InStep, FirstUpload, ~Misled, ~Misled', EndOfFile
  PROVE  Keeps
<1>1. /\ Arrives /\ state = "started" /\ Char = Eot /\ state' = "complete"
      /\ Finish /\ received' = received /\ Takes("EOT", Head(wire).of = 0)
  BY DEF EndOfFile
<1>2. wire # <<>> /\ wire \in Seq(Symbols) /\ UNCHANGED transfers
  BY <1>1, ArrivesIs DEF Types, LineTypes
<1>3. Open /\ ~Open' /\ Of(Stream, next) /\ Counted
  BY <1>1 DEF InStep, Open
<1>4. next = Blocks + 1
  <2>1. Head(wire).of = 0
    <3>1. misread \subseteq Mistakes /\ "EOT" \in Mistakes /\ "EOT" \notin misread'
      BY DEF Types, LineTypes, Mistakes, Misled
    <3> QED
      BY <1>1, <3>1, TakesIs
  <2>2. buffer = <<>>
    BY <1>1 DEF Types, ReceiverTypes
  <2>3. Stream = wire
    BY <1>2, <2>2, Ends2 DEF Stream
  <2>4. 1 \in 1..Len(wire) /\ Head(wire) = wire[1]
    BY <1>2
  <2>5. wire[1].of = 0 /\ wire[1].byte = Eot
    BY <1>1, <2>1, <2>4 DEF Char
  <2> QED
    BY <1>3, <2>3, <2>4, <2>5 DEF Of
<1>5. Taken = Blocks
  BY <1>3, <1>4, Constants DEF Counted
<1>6. ASSUME transfers' = 1 PROVE StartableIsWhole'
  <2>1. Written /\ Taken # 0 /\ first = 1
    BY <1>2, <1>3, <1>5, <1>6, Constants DEF FirstUpload, Written
  <2>2. flash' = Program(flash, 1, 1)
    BY <1>1, <2>1 DEF Finish
  <2>3. /\ 1 \in 1..(2 * Blocks) /\ 1 \in Page /\ flash[1] = Erased
        /\ \A p \in 2..Blocks : p \in 1..(2 * Blocks) /\ flash[p] = p
    BY <1>5, <2>1, Constants DEF Written, Page
  <2>4. /\ flash'[1] = 1
        /\ \A p \in 2..Blocks : flash'[p] = p
    BY <2>2, <2>3, ProgramIs, Constants DEF Types
  <2>5. \A p \in 1..Blocks : flash'[p] = p
    BY <2>4, Constants
  <2> QED
    BY <2>5 DEF StartableIsWhole, WholeFile
<1>7. FirstUpload'
  BY <1>1, <1>3, <1>6 DEF FirstUpload
<1> QED
  BY <1>1, <1>3, <1>5, <1>7 DEF Keeps, InStep, FileStep

(* A transfer that fails before a block has been taken leaves the old      *)
(* firmware, or one without a first page.                                  *)
LEMMA FailsKeeps ==
  ASSUME Types, FirstUpload, ~Misled, Open, state' = "ending", received' = received,
         transfers' = transfers, flash' = flash \/ flash' = Program(flash, 1, first)
  PROVE  Keeps
<1>1. ~Open'
  BY DEF Open
<1>2. ASSUME transfers' = 1, received' = <<>>
      PROVE  flash'[1] = Zero \/ AllOld'
  <2>1. first = Zero /\ AllOld
    BY <1>2 DEF FirstUpload, Written, Taken
  <2>2. CASE flash' = flash
    BY <2>1, <2>2 DEF AllOld
  <2>3. CASE flash' = Program(flash, 1, first)
    <3>1. flash' = Program(flash, 1, Zero) /\ 1 \in 1..(2 * Blocks)
      BY <2>1, <2>3, Constants
    <3>2. flash'[1] = Zero
      BY <3>1 DEF Program, Types, WriterTypes
    <3> QED
      BY <3>2
  <2> QED
    BY <2>2, <2>3
<1>3. FirstUpload'
  BY <1>1, <1>2 DEF FirstUpload
<1> QED
  BY <1>1, <1>3 DEF Keeps, InStep, FileStep

LEMMA CancelKeeps ==
  ASSUME Types, FirstUpload, ~Misled, Cancel \/ GiveUp
  PROVE  Keeps
<1>1. CASE Cancel
  <2>1. /\ Arrives /\ state = "started" /\ state' = "ending" /\ received' = received
        /\ flash' = Program(flash, 1, first)
    BY <1>1 DEF Cancel, Finish
  <2> QED
    BY <2>1, ArrivesIs, FailsKeeps DEF Open
<1>2. CASE GiveUp
  BY <1>2, FailsKeeps DEF GiveUp, TimesOut, Open, writer
<1> QED
  BY <1>1, <1>2

LEMMA WipeKeeps ==
  ASSUME Types, FirstUpload, ~Misled, Wipe
  PROVE  Keeps
<1>1. /\ state = "ending" /\ state' = "idle" /\ ~Open /\ ~Open'
      /\ UNCHANGED <<received, transfers>>
      /\ flash' = IF received = <<>> THEN flash ELSE AllErased
  BY DEF Wipe, Open
<1>2. ASSUME transfers' = 1 PROVE StartableIsWhole'
  <2>1. CASE received = <<>>
    <3>1. flash' = flash /\ (flash[1] = Zero \/ AllOld)
      BY <1>1, <1>2, <2>1 DEF FirstUpload
    <3> QED
      BY <3>1, Constants DEF StartableIsWhole, Startable, AllOld
  <2>2. CASE received # <<>>
    <3>1. flash'[1] = Erased
      BY <1>1, <2>2, Constants DEF AllErased
    <3> QED
      BY <3>1, Constants DEF StartableIsWhole, Startable
  <2> QED
    BY <2>1, <2>2
<1>3. FirstUpload'
  BY <1>1, <1>2 DEF FirstUpload
<1> QED
  BY <1>1, <1>3 DEF Keeps, InStep, FileStep

(* A timeout: nothing is on its way, and too little has arrived. *)
LEMMA TimeoutKeeps ==
  ASSUME Types, Types', InStep, FirstUpload, ~Misled, Timeout
  PROVE  Keeps
<1>1. /\ state \in {"started", "block"} /\ wire = <<>> /\ answers = <<>>
      /\ UNCHANGED <<wire, sender, next, transfers>>
      /\ UNCHANGED <<state, buffer, current, received, writer>>
      /\ Reply(IF received = <<>> THEN "C" ELSE "NAK")
  BY DEF Timeout, TimesOut, host
<1>2. /\ Open /\ Open' /\ Stream' = Stream
  BY <1>1 DEF Open, Stream
<1>3. Of(Stream, next) /\ Turns /\ Counted
  BY <1>2 DEF InStep
<1>4. Len(Stream) <= 4 /\ Len(Stream) <= 9
  <2>1. Stream = buffer /\ Len(buffer) < 5 /\ Len(Stream) \in Nat
    BY <1>1, StreamIs, Ends2 DEF Stream, Types, ReceiverTypes
  <2> QED
    BY <2>1
<1>5. Turns'
  <2>1. PICK c \in {"C", "NAK"} : Reply(c)
    BY <1>1
  <2>2. answers' = <<c>>
    BY <1>1, <2>1 DEF Reply
  <2>3. Len(answers') = 1 /\ Head(answers') # "ACK"
    BY <2>2
  <2> QED
    BY <1>1, <1>2, <1>3, <1>4, <2>3 DEF Turns
<1>6. Of(Stream', next') /\ Counted' /\ FirstUpload'
  BY <1>1, <1>2, <1>3, SameCount, SameWriter
<1> QED
  BY <1>1, <1>2, <1>5, <1>6 DEF Keeps, InStep, FileStep

(* An answer the sender still waits for is the only one. *)
LEMMA HearsIs ==
  ASSUME Types, InStep, ~Misled, Open, Hears, sender \notin Over
  PROVE  /\ answers' = <<>> /\ Open' /\ Len(Stream) <= 4
         /\ Of(Stream, next) /\ Counted
         /\ sender = "start" => Stream = <<>> /\ received = <<>>
         /\ Head(answers) = "ACK" => Stream = <<>> /\ Taken = next
<1>1. /\ answers # <<>> /\ answers' = Tail(answers) /\ UNCHANGED receiver
  BY DEF Hears
<1>2. Of(Stream, next) /\ Turns /\ Counted
  BY DEF InStep
<1>3. /\ Len(answers) = 1 /\ Len(Stream) <= 4
      /\ sender = "start" => Stream = <<>> /\ received = <<>>
      /\ Head(answers) = "ACK" => Stream = <<>> /\ Taken = next
  BY <1>1, <1>2 DEF Turns
<1>4. answers \in Seq(Answers)
  BY DEF Types, LineTypes
<1>5. answers' \in Seq(Answers) /\ Len(answers') = 0
  BY <1>1, <1>3, <1>4, TailIs
<1>6. answers' = <<>>
  BY <1>5
<1> QED
  BY <1>1, <1>2, <1>3, <1>6 DEF Open, receiver

(* With the upload under way it is the line that has to stay in step. *)
LEMMA SenderKeeps ==
  ASSUME FirstUpload, ~Misled, Open, Of(Stream', next'), Turns', Counted',
         UNCHANGED <<receiver, writer, transfers>>
  PROVE  Keeps
<1>1. Open' /\ received' = received
  BY DEF Open, receiver
<1>2. FirstUpload'
  BY <1>1, SameWriter
<1> QED
  BY <1>1, <1>2 DEF Keeps, InStep, FileStep

(* The sender sends what it is at. *)
LEMMA SendsKeeps ==
  ASSUME Types, Types', FirstUpload, ~Misled, Open, answers' = <<>>, Counted,
         UNCHANGED <<receiver, writer, transfers>>,
         NEW n \in 1..(Blocks + 1), next' = n, Of(Stream, n), Len(Stream) <= 4,
         Taken \in {n - 1, n}, SendNext(n)
  PROVE  Keeps
<1>1. Send(Wanted(n)) /\ sender' \in {"block", "eot"}
  BY DEF SendNext, Wanted
<1>2. file \in Files /\ buffer' = buffer
  BY DEF Types, HostTypes, receiver
<1>3. /\ buffer \in Seq(Symbols) /\ wire \in Seq(Symbols) /\ Stream \in Seq(Symbols)
      /\ Wanted(n) \in Seq(Symbols)
  BY <1>2, StreamIs, WantedIs
<1>4. Stream' = Stream \o Wanted(n)
  BY <1>1, <1>2, <1>3, SendIs
<1>5. /\ Len(Stream \o Wanted(n)) <= 9 /\ Of(Stream \o Wanted(n), n)
      /\ EndsLast(Stream \o Wanted(n))
  BY <1>2, <1>3, SentIs
<1>6. Len(Stream') <= 9 /\ Of(Stream', next') /\ EndsLast(Stream')
  BY <1>4, <1>5
<1>7. Turns'
  BY <1>1, <1>6 DEF Turns
<1>8. Counted'
  BY DEF Counted, Taken, receiver
<1> QED
  BY <1>6, <1>7, <1>8, SenderKeeps

(* The sender, or the user for it, cancels behind what is under way. *)
LEMMA CancelsKeeps ==
  ASSUME Types, InStep, FirstUpload, ~Misled, Open, sender' \in Over,
         Send(Cancels) \/ UNCHANGED wire,
         UNCHANGED <<receiver, writer, transfers, next>>
  PROVE  Keeps
<1>1. Of(Stream, next) /\ Counted /\ buffer' = buffer
  BY DEF InStep, receiver
<1>2. /\ buffer \in Seq(Symbols) /\ wire \in Seq(Symbols) /\ Stream \in Seq(Symbols)
      /\ Cancels \in Seq(Symbols) /\ Of(Cancels, next)
  BY StreamIs, CancelsIs
<1>3. Of(Stream', next')
  <2>1. CASE Send(Cancels)
    <3>1. Stream' = Stream \o Cancels
      BY <1>1, <1>2, <2>1, SendIs
    <3>2. Of(Stream \o Cancels, next)
      BY <1>1, <1>2, Parts
    <3> QED
      BY <3>1, <3>2
  <2>2. CASE UNCHANGED wire
    BY <1>1, <2>2 DEF Stream
  <2> QED
    BY <2>1, <2>2
<1>4. Counted'
  BY <1>1, SameCount DEF receiver
<1> QED
  BY <1>3, <1>4, SenderKeeps DEF Turns

LEMMA AgainKeeps ==
  ASSUME Types, Types', InStep, FirstUpload, ~Misled, Open, answers' = <<>>,
         Len(Stream) <= 4, Again, UNCHANGED <<receiver, writer, transfers>>
  PROVE  Keeps
<1>1. next' = next
  BY DEF Again
<1>2. Of(Stream, next) /\ Counted /\ next \in 1..(Blocks + 1) /\ Taken \in {next - 1, next}
  BY DEF InStep, Counted, Types, HostTypes
<1>3. CASE retries < Retry
  <2>1. SendNext(next)
    BY <1>3 DEF Again
  <2> QED
    BY <1>1, <1>2, <2>1, SendsKeeps
<1>4. CASE ~(retries < Retry)
  <2>1. Send(Cancels) /\ sender' \in Over
    BY <1>4 DEF Again, Cancels, Over
  <2> QED
    BY <1>1, <2>1, CancelsKeeps
<1> QED
  BY <1>3, <1>4

LEMMA UploadKeeps ==
  ASSUME Types, Types', InStep, FirstUpload, ~Misled, Upload
  PROVE  Keeps
<1>1. UNCHANGED <<receiver, writer, transfers>>
  BY DEF Upload, HearStart, HearAck, HearOther, HearNothing, HearUseless, Hears
<1>2. CASE ~Open
  BY <1>1, <1>2, ClosedKeeps
<1>3. CASE Open /\ HearStart
  <2>1. /\ Hears /\ sender = "start" /\ SendNext(1) /\ next' = next /\ sender \notin Over
    BY <1>3 DEF HearStart, Over
  <2>2. /\ answers' = <<>> /\ Len(Stream) <= 4 /\ Of(Stream, next) /\ Counted
        /\ received = <<>>
    BY <1>3, <2>1, HearsIs
  <2>3. next = 1 /\ 1 \in 1..(Blocks + 1) /\ Taken \in {1 - 1, 1}
    BY <2>1, <2>2, Constants DEF Types, HostTypes, Taken
  <2> QED
    BY <1>1, <1>3, <2>1, <2>2, <2>3, SendsKeeps
<1>4. CASE Open /\ HearAck
  <2>1. /\ Hears /\ sender \in {"block", "eot"} /\ Head(answers) = "ACK"
        /\ sender \notin Over
    BY <1>4 DEF HearAck, Over
  <2>2. answers' = <<>> /\ Stream = <<>> /\ Taken = next /\ Counted
    BY <1>4, <2>1, HearsIs
  <2>3. Taken <= Blocks
    BY <2>2 DEF Counted
  <2>4. sender = "block"
    BY <2>1, <2>2, <2>3, Constants DEF Types, HostTypes
  <2>5. next' = next + 1 /\ SendNext(next + 1)
    BY <1>4, <2>4 DEF HearAck
  <2>6. next + 1 \in 1..(Blocks + 1) /\ Taken \in {(next + 1) - 1, next + 1}
    BY <2>2, <2>3, Constants DEF Types, HostTypes
  <2>7. Of(Stream, next + 1) /\ Len(Stream) <= 4
    BY <2>2 DEF Of
  <2> QED
    BY <1>1, <1>4, <2>2, <2>5, <2>6, <2>7, SendsKeeps
<1>5. CASE Open /\ HearOther
  <2>1. Hears /\ Again /\ sender \notin Over
    BY <1>5 DEF HearOther, Over
  <2>2. answers' = <<>> /\ Len(Stream) <= 4
    BY <1>5, <2>1, HearsIs
  <2> QED
    BY <1>1, <1>5, <2>1, <2>2, AgainKeeps
<1>6. CASE Open /\ HearNothing
  BY <1>6 DEF HearNothing, Open
<1>7. CASE Open /\ HearUseless
  <2>1. /\ Hears /\ UNCHANGED <<wire, sender, next>> /\ UNCHANGED <<buffer, current, received>>
    BY <1>1, <1>7 DEF HearUseless, host, receiver
  <2>2. Stream' = Stream /\ Of(Stream, next) /\ Turns /\ Counted
    BY <1>7, <2>1 DEF Stream, InStep
  <2>3. Of(Stream', next') /\ Counted'
    BY <2>1, <2>2, SameCount
  <2>4. Turns'
    <3>1. CASE sender \in Over
      BY <2>1, <3>1 DEF Turns
    <3>2. CASE sender \notin Over
      <4>1. answers' = <<>>
        BY <1>7, <2>1, <3>2, HearsIs
      <4> QED
        BY <2>1, <2>2, <3>2, <4>1 DEF Turns
    <3> QED
      BY <3>1, <3>2
  <2> QED
    BY <1>1, <1>7, <2>3, <2>4, SenderKeeps
<1> QED
  BY <1>2, <1>3, <1>4, <1>5, <1>6, <1>7 DEF Upload

LEMMA UserAbortsKeeps ==
  ASSUME Types, InStep, FirstUpload, ~Misled, UserAborts
  PROVE  Keeps
<1>1. /\ UNCHANGED <<receiver, writer, next, transfers>>
      /\ Send(Cancels) \/ UNCHANGED wire
      /\ sender' \in Over
  BY DEF UserAborts, Cancels, Over
<1>2. CASE Open
  BY <1>1, <1>2, CancelsKeeps
<1>3. CASE ~Open
  BY <1>1, <1>3, ClosedKeeps
<1> QED
  BY <1>2, <1>3

LEMMA LoseAnswerKeeps ==
  ASSUME Types, InStep, FirstUpload, ~Misled, LoseAnswer
  PROVE  Keeps
<1>1. UNCHANGED <<receiver, writer, wire, sender, next, transfers>>
  BY DEF LoseAnswer, host
<1>2. PICK i \in DOMAIN answers : answers' = RemoveAt(answers, i)
  BY DEF LoseAnswer
<1>3. /\ answers \in Seq(Answers) /\ answers' \in Seq(Answers)
      /\ Len(answers') = Len(answers) - 1
  BY <1>2, RemoveAtIs DEF Types, LineTypes
<1>4. CASE Open
  <2>1. Of(Stream, next) /\ Turns /\ Counted
    BY <1>4 DEF InStep
  <2>2. Stream' = Stream /\ UNCHANGED <<received, current>>
    BY <1>1 DEF Stream, receiver
  <2>3. Of(Stream', next') /\ Counted'
    BY <1>1, <2>1, <2>2, SameCount
  <2>4. answers # <<>>
    BY <1>2, <1>3
  <2>5. Turns'
    <3>1. CASE sender \in Over
      BY <1>1, <3>1 DEF Turns
    <3>2. CASE sender \notin Over
      <4>1. Len(answers) = 1
        BY <2>1, <2>4, <3>2 DEF Turns
      <4>2. answers' = <<>>
        BY <1>3, <4>1
      <4> QED
        BY <1>1, <2>1, <2>2, <3>2, <4>2 DEF Turns
    <3> QED
      BY <3>1, <3>2
  <2> QED
    BY <1>1, <1>4, <2>3, <2>5, SenderKeeps
<1>5. CASE ~Open
  BY <1>1, <1>5, ClosedKeeps
<1> QED
  BY <1>4, <1>5

(* The start of an upload. *)
LEMMA OneIs == 1 % Width = 1
<1>1. Width * 0 + 1 = 1 /\ 1 \in 0..(Width - 1) /\ Width \in Nat \ {0}
  BY Constants
<1> QED
  BY <1>1, RemainderIs

LEMMA UploadAgainKeeps ==
  ASSUME Types, UploadAgain
  PROVE  Keeps
<1>1. /\ buffer' = <<>> /\ wire' = <<>> /\ received' = <<>> /\ current' = 1 /\ next' = 1
      /\ answers' = <<"C">> /\ ~Open /\ Open' /\ transfers' # 1
  BY DEF UploadAgain, Open, Types, LineTypes
<1>2. Stream' = <<>>
  <2>1. <<>> \in Seq(Symbols)
    OBVIOUS
  <2> QED
    BY <1>1, <2>1, Ends2 DEF Stream
<1>3. Of(Stream', next')
  BY <1>2 DEF Of
<1>4. Turns'
  BY <1>1, <1>2 DEF Turns, EndsLast
<1>5. Counted'
  <2>1. Taken' = 0
    BY <1>1 DEF Taken
  <2> QED
    BY <1>1, <2>1, OneIs, Constants DEF Counted
<1> QED
  BY <1>1, <1>3, <1>4, <1>5 DEF Keeps, InStep, FirstUpload, FileStep

LEMMA InitInStep == Init => InStep /\ FirstUpload
<1> SUFFICES ASSUME Init PROVE InStep /\ FirstUpload
  OBVIOUS
<1>1. Stream = <<>>
  <2>1. <<>> \in Seq(Symbols)
    OBVIOUS
  <2> QED
    BY <2>1, Ends2 DEF Init, Stream
<1>2. Of(Stream, next) /\ Turns
  BY <1>1 DEF Init, Of, Turns, EndsLast
<1>3. Taken = 0
  BY DEF Init, Taken
<1>4. Counted
  BY <1>3, OneIs, Constants DEF Init, Counted
<1>5. FirstUpload
  BY <1>3 DEF Init, FirstUpload, Written, AllOld
<1> QED
  BY <1>2, <1>4, <1>5 DEF InStep

LEMMA NextKeeps ==
  Types /\ Types' /\ InStep /\ FirstUpload /\ [Next]_vars => Keeps
<1> SUFFICES ASSUME Types, Types', InStep, FirstUpload, [Next]_vars PROVE Keeps
  OBVIOUS
<1>1. CASE UploadAgain
  BY <1>1, UploadAgainKeeps
<1>2. CASE Misled'
  BY <1>2, MisledKeeps
<1>3. CASE ~Misled' /\ ~UploadAgain
  <2>1. misread \subseteq misread'
    <3>1. CASE Receive
      <4>1. CASE BlockStarts \/ EndOfFile \/ Cancel \/ TakeBlock \/ RepeatedBlock
        <5>1. PICK what \in Mistakes : \E ifNot \in BOOLEAN : Takes(what, ifNot)
          BY <4>1
          DEF BlockStarts, EndOfFile, Cancel, TakeBlock, RepeatedBlock, TakesNumber, Mistakes
        <5> QED
          BY <5>1, TakesIs DEF Types, LineTypes
      <4> QED
        BY <3>1, <4>1
        DEF Receive, Wipe, Ignored, BlockGoesOn, BadBlock, Timeout, GiveUp, TimesOut
    <3>2. CASE Upload \/ UserAborts \/ LoseByte \/ LoseAnswer \/ UNCHANGED vars
      BY <3>2
      DEF Upload, HearStart, HearAck, HearOther, HearNothing, HearUseless, Hears,
          UserAborts, LoseByte, LoseAnswer, vars
    <3> QED
      BY <1>3, <3>1, <3>2 DEF Next
  <2>2. ~Misled
    BY <1>3, <2>1 DEF Misled
  <2>3. CASE Receive
    BY <1>3, <2>2, <2>3, BlockStartsKeeps, EndOfFileKeeps, CancelKeeps, WipeKeeps,
       IgnoredKeeps, BlockGoesOnKeeps, TakeBlockKeeps, OtherBlockKeeps, TimeoutKeeps
    DEF Receive
  <2>4. CASE Upload
    BY <2>2, <2>4, UploadKeeps
  <2>5. CASE UserAborts \/ LoseByte \/ LoseAnswer
    BY <2>2, <2>5, UserAbortsKeeps, LoseByteKeeps, LoseAnswerKeeps
  <2>6. CASE UNCHANGED vars
    <3>1. /\ UNCHANGED <<receiver, writer, transfers>>
          /\ UNCHANGED <<received, current, writer, answers, sender, next, transfers>>
          /\ Stream' = Stream /\ (Open' <=> Open)
      BY <2>6 DEF vars, receiver, host, Stream, Open
    <3>2. Len(Stream') <= Len(Stream)
      BY <3>1, StreamIs
    <3>3. CASE ~Open
      BY <2>2, <3>1, <3>3, ClosedKeeps
    <3>4. CASE Open
      BY <2>2, <3>1, <3>2, <3>4, LineKeeps
    <3> QED
      BY <3>3, <3>4
  <2> QED
    BY <1>3, <2>3, <2>4, <2>5, <2>6 DEF Next
<1> QED
  BY <1>1, <1>2, <1>3

-----------------------------------------------------------------------------
(* What an upload promises.                                                *)

LEMMA InStepIsWhole ==
  Types /\ FirstUpload => FirstUploadIsWhole
<1> SUFFICES ASSUME Types, FirstUpload, transfers = 1, ~Misled PROVE StartableIsWhole
  BY DEF FirstUploadIsWhole, Misled
<1>1. CASE state \in {"complete", "idle"}
  BY <1>1 DEF FirstUpload
<1>2. CASE Open /\ Taken = 0
  <2>1. AllOld
    BY <1>2 DEF FirstUpload, Written
  <2> QED
    BY <2>1 DEF StartableIsWhole, AllOld
<1>3. CASE Open /\ Taken # 0
  <2>1. \A p \in 1..(2 * Blocks) :
          flash[p] = IF p \in 2..Taken THEN p ELSE Erased
    BY <1>3 DEF FirstUpload, Written
  <2>2. 1 \in 1..(2 * Blocks) /\ 1 \notin 2..Taken
    BY Constants
  <2>3. flash[1] = Erased
    BY <2>1, <2>2
  <2> QED
    BY <2>3, Constants DEF StartableIsWhole, Startable
<1>4. CASE state = "ending"
  BY <1>4 DEF StartableIsWhole
<1> QED
  BY <1>1, <1>2, <1>3, <1>4 DEF Open, Types, ReceiverTypes

LEMMA StepTakesTheFile ==
  Types /\ Types' /\ FileStep => [File!Next]_(File!vars)
<1> SUFFICES ASSUME Types, Types', FileStep PROVE [File!Next]_(File!vars)
  OBVIOUS
<1>1. /\ state \in {"started", "block", "complete", "ending", "idle"}
      /\ state' \in {"started", "block", "complete", "ending", "idle"}
  BY DEF Types, ReceiverTypes
<1>2. /\ Open <=> Status = "open"
      /\ Open' <=> Status' = "open"
      /\ state' = "complete" => Status' = "complete"
      /\ state' = "ending" => Status' = "failed"
      /\ state = "ending" /\ state' = "idle" => Status' = Status
      /\ state' = state => Status' = Status
  BY <1>1 DEF Open, Status
<1>3. CASE Misled'
  BY <1>3 DEF File!Next, Misled
<1>4. CASE ~Misled' /\ ~Misled
  <2>1. CASE /\ Open /\ Open' /\ Taken < Blocks
             /\ received' = Append(received, Taken + 1)
    BY <1>2, <1>4, <2>1 DEF File!Next, File!Take, Taken, Misled
  <2>2. CASE Open /\ state' = "complete" /\ Taken = Blocks /\ received' = received
    BY <1>2, <1>4, <2>2 DEF File!Next, File!Complete, Taken, Misled
  <2>3. CASE Open /\ state' = "ending" /\ received' = received
    BY <1>2, <1>4, <2>3 DEF File!Next, File!Fail, Misled
  <2>4. CASE /\ received' = received
             /\ state' = state \/ (Open /\ Open') \/ (state = "ending" /\ state' = "idle")
    <3>1. Status' = Status /\ received' = received
      BY <1>2, <2>4
    <3>2. (misread' \cap {"EOT", "header"} # {}) = (misread \cap {"EOT", "header"} # {})
      BY <1>4 DEF Misled
    <3> QED
      BY <3>1, <3>2 DEF File!vars
  <2>5. CASE ~Open /\ Open' /\ received' = <<>>
    BY <1>2, <1>4, <2>5 DEF File!Next, File!Restart, Misled
  <2> QED
    BY <1>4, <2>1, <2>2, <2>3, <2>4, <2>5 DEF FileStep
<1>5. CASE ~Misled' /\ Misled
  BY <1>2, <1>5 DEF FileStep, File!Next, File!Restart, Misled
<1> QED
  BY <1>3, <1>4, <1>5

LEMMA StartTakesTheFile == Init => File!Init
  BY DEF Init, File!Init, Status

(* The first upload since the bootloader started leaves the old firmware,  *)
(* the whole new one, or one that does not start, however long the file    *)
(* is, whatever its bytes read as, whichever bytes and answers the line    *)
(* loses, and at whatever point the user closes the tool or cancels: the   *)
(* first page is written last (xmodem_data_received_write_flash), and EOT  *)
(* is sent only when all blocks are there (process_buffer).  The one way   *)
(* round it is that a byte of a block is taken for EOT, or a block for one *)
(* of another number; a byte taken for SOH or CAN is made good.            *)
THEOREM FirstUploadWhole == Spec => []FirstUploadIsWhole
<1>1. Types /\ InStep /\ FirstUpload /\ [Next]_vars
        => Types' /\ InStep' /\ FirstUpload'
  BY NextTypes, NextKeeps DEF Keeps
<1> QED
  BY <1>1, InitTypes, InitInStep, InStepIsWhole, PTL DEF Spec

(* The blocks are taken in the order of the file, each once, and an upload *)
(* is called complete only when all of them have been taken, on a line     *)
(* that loses any bytes and answers: block numbers that wrap round at 256, *)
(* a block sent again because its answer was lost, one put together from   *)
(* what is left of two, and an upload that is given up included            *)
(* (xmodem_serial_rx, process_buffer, xmodem_loop), until a byte of a      *)
(* block is taken for EOT or a block for one of another number.            *)
THEOREM FileTakenInOrder == Spec => TakesTheFile
<1>1. Types /\ InStep /\ FirstUpload /\ [Next]_vars
        => Types' /\ InStep' /\ FirstUpload'
  BY NextTypes, NextKeeps DEF Keeps
<1>2. Types /\ InStep /\ FirstUpload /\ [Next]_vars => [File!Next]_(File!vars)
  BY NextTypes, NextKeeps, StepTakesTheFile DEF Keeps
<1> QED
  BY <1>1, <1>2, InitTypes, InitInStep, StartTakesTheFile, PTL
  DEF Spec, TakesTheFile, File!Spec

=============================================================================
