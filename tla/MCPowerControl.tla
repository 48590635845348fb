--------------------------- MODULE MCPowerControl ---------------------------
(* A two channel instance with powers 0..4, of which one pair rounds up.   *)
EXTENDS PowerControl

MCConfigs == {{}, {0}}
MCWrapped == {{0}}
MCRoundsUp == {<<4, 2>>}
(* the linear shape, and one that climbs slowly first *)
MCLinear == [q \in 0..FullRamp |-> q]
MCSlowStart == [q \in 0..FullRamp |-> (q * q) \div FullRamp]

=============================================================================
