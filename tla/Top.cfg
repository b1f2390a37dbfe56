SPECIFICATION Spec
CONSTANTS
  CommandLines <- MCCommandLines
  Kernel0 <- MCKernel
  Ids <- MCIds
  Mounts <- MCMounts
  Visible <- MCVisible
  CpuCounts <- MCCpuCounts
  NodeOf <- MCNodeOf
  DefDelay = 300
  WinAlign = 2
  MonPidMax = 3
  MaxEvents = 2
  MaxWinch = 1
  MaxClock = 1300
  StacksInit = 1
  StacksGrow = 1
  StacksIncr = 2
  NewOldIncr = 2
  NewOldInit = 1
  NewOldGrow = 1
  IdMax = 4
  UInt = 1024
  ULong = 1024
INVARIANTS RowsAndStringsKept
PROPERTIES UsageOfTheFrame EachProcessOnce FramesEnd
