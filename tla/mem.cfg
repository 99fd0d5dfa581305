SPECIFICATION ContextSpec
CONSTANTS
  RamWords = 4096
  KernelStackSize = 510
  SizeMod = 65536
  MaxTasks = 2
  Sizes <- MC_Sizes
  Locals <- MC_Locals
INVARIANTS
  StackAsAsked
  ContextPreserved
  LocalsPreserved
