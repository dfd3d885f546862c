SPECIFICATION Spec
CONSTANTS
  Keys <- SomeKeys
  MaxKeys = 2
  MaxPackets = 2
INVARIANTS
  NoLostRequest
  PacketsWhole
  KernelCatchesUp
PROPERTIES
  SettledForGood
  BufferDrains
  InputArrives
\* The kernel halts between interrupts: nobody has to touch the devices.
CHECK_DEADLOCK FALSE
