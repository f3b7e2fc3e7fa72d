SPECIFICATION Spec
CONSTANTS
  Alphabets <- TypedAlphabets
  READLINE_BUFSIZE = 2
  MaxLine = 6
  MaxFile = 3
  MaxBrackets = 3
INVARIANTS
  TypeOK
  BufferBounded
  ReaderAgrees
  CompleteForParser
  NothingSkipped
  LexicalElements
PROPERTIES
  ScanEnds
CHECK_DEADLOCK FALSE
