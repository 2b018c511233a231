\* eight bytes of memory, of which four in use may look free
SPECIFICATION Spec
CONSTANTS
  Size = 8
  MaxLookalikes = 4
  NULL = NULL
INVARIANTS ReadingIsRight MaxIsDeepest
PROPERTIES ResetSparesData
\* a program whose memory was overwritten is not followed further
CHECK_DEADLOCK FALSE
