\* One channel with room for two pulses, two connections.
SPECIFICATION Spec
CONSTANTS
  Channel = {c1}
  Level = {0, 1, 2}
  MaxLevel = 1
  Length = 2
  Late = 1
  Ahead = 1
  FifoSize = 2
  MaxTime = 3
  MaxWrites = 3
  MaxSessions = 2
  MaxStarts = 2
  MaxHeld = 1
INVARIANTS TypeOK RunsForAClient FirstStreamOnTime
PROPERTIES PulseAtItsPower InOrderOnTime
CHECK_DEADLOCK FALSE
