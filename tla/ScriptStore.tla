----------------------------- MODULE ScriptStore -----------------------------
(***************************************************************************)
(* What storing Lua scripts promises: a slot either has nothing on the     *)
(* patterns menu or a script that was uploaded to it, whole.  Half an      *)
(* upload, or two scripts mixed, is never shown, whatever fails and        *)
(* whenever the power goes.                                                *)
(*                                                                         *)
(* (CLuaLoad.cpp, "if either something goes wrong during the upload, or    *)
(* the script is not valid, it won't show up on the patterns menu".)       *)
(*                                                                         *)
(* The exception is the one the code has: a script that exactly fills its  *)
(* last section is stored without a terminator, and is followed by         *)
(* whatever the slot held there before, or not shown at all.               *)
(***************************************************************************)
EXTENDS Integers, Sequences

CONSTANTS
  Slot,      \* the script slots
  Line,      \* the lines a client may send
  Room       \* lines in a flash section; the first has room for one less

VARIABLES
  sent,      \* the lines of the upload under way, in order
  shown      \* per slot: the texts that can be started, at most one

vars == <<sent, shown>>

FillsSection(text) == (Len(text) + 1) % Room = 0
StartsWith(text, lines) ==
  Len(lines) <= Len(text) /\ SubSeq(text, 1, Len(lines)) = lines

(* empty slots, and the built-in scripts, whose text does not matter here *)
Init == sent = <<>> /\ shown \in [Slot -> {{}, {<<>>}}]

Receive(line) == sent' = Append(sent, line) /\ UNCHANGED shown

(* the upload ends, finished or not *)
Stop == sent' = <<>> /\ UNCHANGED shown

(* what the slot showed is gone, and the upload may be cut short by it *)
Forget(s) == shown' = [shown EXCEPT ![s] = {}] /\ sent' \in {sent, <<>>}

(* the script is there, even if the power goes in the moment that shows it *)
Publish(s) ==
  /\ \E text \in shown'[s] :
       /\ shown' = [shown EXCEPT ![s] = {text}]
       /\ StartsWith(text, sent)
       /\ text # sent => FillsSection(sent)
  /\ sent' \in {sent, <<>>}

Next == \/ \E line \in Line : Receive(line)
        \/ Stop
        \/ \E s \in Slot : Forget(s) \/ Publish(s)

Spec == Init /\ [][Next]_vars

=============================================================================
