SPECIFICATION Spec
CONSTANTS
  RamWords = 4096
  KernelStackSize = 510
  SizeMod = 65536
  MaxTasks = 4
  Sizes <- MC_MinSizes
INVARIANT
  StackAsAsked
