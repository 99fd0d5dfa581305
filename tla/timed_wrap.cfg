SPECIFICATION TimedSpec
CONSTANTS
  MaxTasks = 2
  PriorityLevels = 3
  TimeSlice = 2
  MsPerTick = 1
  TickMod = 5
  WaitTimes <- MC_WaitTimes
  MaxID = 2
  CreateWhileRunning = FALSE
INVARIANTS
  Punctual
