------------------------------ MODULE MCLuaLoad ------------------------------
EXTENDS LuaLoad, TLC

CONSTANTS Ramp, Wave, Typo
MCScript == {Ramp, Wave, Typo}
MCSize == Ramp :> 12 @@ Wave :> 5 @@ Typo :> 1

=============================================================================
