\* a limited expectation whose answer has the wrong size
SPECIFICATION Spec
CONSTANTS
  Mock = {m1}
  Value <- MCValue
  ArgCount <- MCTwoArgs
  Handlers <- MCStubHandlers
  Sizes = {2}
  SizeOf <- MCSizeOf
  Times = {1, 2}
  Wanted = {}
  Kinds = {}
  NULL = NULL
  MaxExpectations = 2
  MaxInvocations = 3
  MaxVerifiers = 0
  MaxOrder = 0
INVARIANTS MatchesWithinLimit
