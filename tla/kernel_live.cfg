SPECIFICATION FairSpec
CONSTANTS
  MaxTasks = 3
  PriorityLevels = 2
  TimeSlice = 1
  MsPerTick = 1
  TickMod = 2
  WaitTimes <- MC_OneWait
  MaxID = 3
  CreateWhileRunning = TRUE
PROPERTIES
  SleepersWake
  EveryReadyTaskGetsItsTurn
