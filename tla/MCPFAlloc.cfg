\* eighteen bytes of memory, pointers of two bytes
SPECIFICATION FairSpec
CONSTANTS
  MemSize = 18
  NodeSize = 2
  EnvSize = 4
  PFSTEST_ALIGNMENT = 2
  Request = {0, 1, 3}
  NULL = NULL
  Junk = Junk
  Static = Static
INVARIANTS TypeOK EveryBlockHasOneOwner
PROPERTIES FreeingEnds ImplementsAlloc
