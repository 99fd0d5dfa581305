SPECIFICATION Spec
CONSTANTS
  MaxTasks = 3
  PriorityLevels = 2
  TimeSlice = 1
  MsPerTick = 1
  TickMod = 3
  WaitTimes <- MC_WaitTimes
  MaxID = 3
  CreateWhileRunning = TRUE
INVARIANTS
  TypeOK
  ScheduledOnce
  NoTaskLost
  BitmapExact
  NoBlockedTaskRuns
  WaitingSorted
  IDsUnique
PROPERTY
  ImplementsPriorityScheduler
