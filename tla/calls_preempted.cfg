SPECIFICATION HistorySpec
CONSTANTS
  MaxTasks = 2
  PriorityLevels = 1
  TimeSlice = 1
  MsPerTick = 1
  TickMod = 2
  WaitTimes <- MC_WaitTimes
  MaxID = 2
  CreateWhileRunning = FALSE
  Masked = FALSE
  TargetStates <- MC_Ready
INVARIANT
  SleepersListed
