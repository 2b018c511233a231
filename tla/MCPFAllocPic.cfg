\* a heap of fourteen bytes at address 3, records of two bytes; 17 is the first
\* request that is too large, 18 and 31 the first and the last that wrap
SPECIFICATION Spec
CONSTANTS
  AddressSpace = 32
  Heap = 3
  HeapSize = 14
  EnvSize = 2
  Request = {0, 1, 3, 17, 18, 31}
  NULL = NULL
  Junk = Junk
INVARIANTS TypeOK NothingOverlaps FramesNest
PROPERTIES ImplementsAlloc
