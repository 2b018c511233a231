\* callers may put a node into both lists
SPECIFICATION FairSpec
CONSTANTS
  List = {l1, l2}
  Node = {n1, n2, n3}
  NULL = NULL
  Junk = Junk
INVARIANTS NoLoop NoJunkRead
PROPERTIES OwnListGrowsAtEnd AppendReturns ImplementsSequences
