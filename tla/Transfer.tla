------------------------------- MODULE Transfer -------------------------------
(***************************************************************************)
(* What a firmware upload promises: the blocks of the file are taken in    *)
(* order, each once, and the transfer is called complete only when all of  *)
(* them are there.  One that has ended may be followed by another.         *)
(* Nothing is promised of one that was misled about what it received.      *)
(***************************************************************************)
EXTENDS Integers, Sequences

CONSTANT Blocks    \* blocks in the file

VARIABLES received,   \* the blocks taken, by their place in the file
          status,     \* "open", "complete" or "failed"
          misled      \* it took a byte or a number for what it is not

vars == <<received, status, misled>>

Init == received = <<>> /\ status = "open" /\ ~misled

Take == /\ status = "open" /\ Len(received) < Blocks
        /\ received' = Append(received, Len(received) + 1)
        /\ UNCHANGED status

Complete == /\ status = "open" /\ Len(received) = Blocks
            /\ status' = "complete" /\ UNCHANGED received

Fail == status = "open" /\ status' = "failed" /\ UNCHANGED received

Restart == status # "open" /\ status' = "open" /\ received' = <<>>

Next ==
  \/ misled'
  \/ ~misled' /\ ~misled /\ (Take \/ Complete \/ Fail)
  \/ ~misled' /\ Restart

Spec == Init /\ [][Next]_vars

=============================================================================
