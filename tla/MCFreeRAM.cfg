SPECIFICATION Spec
CONSTANTS
  MemoryMaps <- SmallMaps
  LowPages = 1
  PageBytes = 2
  CounterSpan = 64
  MaxRun = 2
INVARIANT FreeRAMIsRequestable
CHECK_DEADLOCK FALSE
