SPECIFICATION Spec
CONSTANTS
  NULL = NULL
  PageUnits = 6
  StartPages = 1
  SizeSpan = 64
  MaxPages = 3
  Sizes <- SmallSizes
INVARIANTS
  TypeOK
  ChainIntact
  Coalesced
  HeapAccounted
  BlocksMatchSegments
  AtMostTwoExpansions
PROPERTIES
  ImplementsBlocks
  MallocReturns
\* The model ends where CreateHeap panics and where calloc smashes the heap.
CHECK_DEADLOCK FALSE
