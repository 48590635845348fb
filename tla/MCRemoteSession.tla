--------------------------- MODULE MCRemoteSession ---------------------------
EXTENDS RemoteSession, TLC

CONSTANTS Ramp
MCScript == {Ramp}
MCSize == Ramp :> 1

=============================================================================
