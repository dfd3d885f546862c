SPECIFICATION Spec
CONSTANTS
  Machines <- SomeMachines
  DeviceCount = 2
  FunctionCount = 2
  MaxDevices = 3
  DriverNum = 2
  Slots = 3
  SlotsPerFrame = 2
  PortsInPage = 4
  LowFrames = 11
  Tags = {1, 2}
INVARIANTS
  ScanMatchesLookup
  StartedPortsAreComplete
PROPERTIES
  OnlyIdlePortsReprogrammed
  PortsSettle
  ReadReturns
\* A page fault, or nobody reading, is an end.
CHECK_DEADLOCK FALSE
