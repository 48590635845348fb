------------------------------- MODULE MCXmodem -------------------------------
EXTENDS Xmodem

\* data bytes of all kinds, control characters among them
MCFiles == {[n \in 1..Blocks |-> (3 * n) % Width]}

=============================================================================
