CONSTANTS
  NumChannels = 1
  FullPower = 4
  FullPercent = 2
  PanelPowers = {0, 2}
  RemotePowers = {5}
  RoutinePowers = {4}
  RoutineConfigs <- MCWrapped
  RoundsUp <- MCRoundsUp
  FifoSize = 1
  RampLevel = 1
  TicksPerPP = 2
  TickWrap = 4
  RampShape <- MCSlowStart
SPECIFICATION FairSpec
PROPERTIES StopSilences RampEnds
