\* command lines of up to five words
SPECIFICATION FairSpec
CONSTANTS
  Word = {"word"}
  MaxArgs = 5
  NULL = NULL
INVARIANTS StaysInArgv DoesWhatArgvMeans
PROPERTIES ParsingEnds
