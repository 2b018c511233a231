CONSTANTS
  UintmaxMax = 65535
  MaxFinite = 12
  PrintedDigits = 1
  SizeOf <- Sizes
  EnumNames <- TwoNames
  Object <- Objects
  ActualInput <- ManyInputs
  ExpectedInput <- SmallInputs
  PgString <- PgStrings
  MemberInput <- SomeMembers
  AnyMember = 999
  CloseInput <- Close
SPECIFICATION Spec
INVARIANTS
  TypeOK
  PrintedReadsBack
  AssertIsRight
  FailureShowsDifference
CHECK_DEADLOCK FALSE
