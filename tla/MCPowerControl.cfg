CONSTANTS
  NumChannels = 2
  FullPower = 4
  FullPercent = 2
  PanelPowers = {0, 2}
  RemotePowers = {5}
  RoutinePowers = {0, 4}
  RoutineConfigs <- MCConfigs
  RoundsUp <- MCRoundsUp
  FifoSize = 1
  RampLevel = 1
  TicksPerPP = 1
  TickWrap = 4
  RampShape <- MCLinear
SPECIFICATION Spec
INVARIANTS TypeOK SilentWithoutRoutine PowerLimits CacheIsDevice CachesAgree
