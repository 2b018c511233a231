\* a list of matchers for an array, against each member of the array
SPECIFICATION Spec
CONSTANTS
  UintmaxMax = 65535
  MaxFinite = 12
  PrintedDigits = 1
  SizeOf <- Sizes
  EnumNames <- TwoNames
  Object <- Objects
  ActualInput <- ManyInputs
  ExpectedInput <- SmallInputs
  PgString <- PgStrings
  MemberInput <- SomeMembers
  AnyMember = 999
  CloseInput <- Close
INVARIANTS EveryMemberIsTested
CHECK_DEADLOCK FALSE
