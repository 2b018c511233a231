\* verifying: two verifiers of every kind over calls to two mocks
SPECIFICATION Spec
CONSTANTS
  Mock = {m1, m2}
  Value <- MCValue
  ArgCount <- MCNoArgs
  Handlers = {}
  Sizes = {}
  SizeOf <- MCSizeOf
  Times = {}
  Wanted = {0, 2}
  Kinds = {"exactly", "at_most", "at_least", "in_order", "no_more_interactions", "no_more_invocations"}
  NULL = NULL
  MaxExpectations = 2
  MaxInvocations = 3
  MaxVerifiers = 2
  MaxOrder = 2
INVARIANTS VerdictIsRight
