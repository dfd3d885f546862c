SPECIFICATION Spec
CONSTANTS
  MemoryMaps <- SmallMaps
  LowPages = 1
  PageBytes = 2
  CounterSpan = 64
  MaxRun = 2
INVARIANTS
  TypeOK
  NothingFreeBelowCursor
  CountersMatchBitmap
  ServedPagesAreUsable
PROPERTY ImplementsPool
\* Panic halts the machine: the maps the kernel rejects end there.
CHECK_DEADLOCK FALSE
