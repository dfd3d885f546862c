SPECIFICATION Spec
CONSTANTS
  Machines <- SomeMachines
  FrameCount = 7
  Garbage = {0, 3, 100}
  Room <- SomeRoom
  MADTHeaderSize = 2
  SizeSpan = 16
INVARIANTS
  HandedOver
  TablesRead
PROPERTIES
  BootEnds
\* The machine stops at the end of a boot.
CHECK_DEADLOCK FALSE
