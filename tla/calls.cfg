SPECIFICATION FairHistorySpec
CONSTANTS
  MaxTasks = 3
  PriorityLevels = 1
  TimeSlice = 1
  MsPerTick = 1
  TickMod = 2
  WaitTimes <- MC_WaitTimes
  MaxID = 3
  CreateWhileRunning = FALSE
  Masked = TRUE
  TargetStates <- MC_Ready
INVARIANT
  LinksMirror
PROPERTIES
  ImplementsKernel
  CallsReturn
