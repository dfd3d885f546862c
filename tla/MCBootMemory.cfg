SPECIFICATION Spec
CONSTANTS
  Machines <- SomeMachines
  LowPages = 2
  PageBytes = 2
  CounterSpan = 1000
  Entries = 4
  HeapStart = 128
  HeapPages = 3
INVARIANTS
  NothingOverlaps
  EverythingReachable
\* Initialisation ends.
CHECK_DEADLOCK FALSE
