CONSTANTS
  Channel = {c1, c2}
  None = None
  Lengths = {2}
  Widths = {2}
  Gap = 2
  Delay = 1
  Offsets = {0, 100}
  QueueSize = 2
  PioDepth = 1
SPECIFICATION FairSpec
INVARIANTS TypeOK FollowersNotDriven PowerDownFinal
PROPERTIES  FallsSilent
