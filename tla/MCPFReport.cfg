CONSTANTS
  Suite <- TwoTests
  Char <- TrickyChars
  File <- TrickyFiles
  Line <- SomeLines
  MaxFailures = 2
  MaxChars = 3
SPECIFICATION Spec
INVARIANTS
  TypeOK
  StandardReadsBack
  XmlReadsBack
CHECK_DEADLOCK FALSE
