SPECIFICATION Spec
CONSTANTS
  Entries = 2
  Root = 1
  Frames <- SmallFrames
  VirtualPages <- SmallVirtual
  PhysicalPages <- SmallPhysical
  MaxRun = 2
INVARIANTS
  TypeOK
  TablesAreATree
  WalkAgrees
  IdentityRunComplete
PROPERTY ImplementsAddressSpace
\* The model ends when a second table was put at NULL.
CHECK_DEADLOCK FALSE
