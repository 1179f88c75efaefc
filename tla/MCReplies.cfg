\* A buffer of three bytes; strings of up to one byte are embedded.
CONSTANTS
  Objects <- MCObjects
  Values <- MCValues
  Numbers <- MCNumbers
  MaxLen = 3
  MaxKeys = 1
  Chunk = 3
  EmbMax = 1
  IntRoom = 2
  WriteMax = 3
  MaxPending = 2
SPECIFICATION FairSpec
INVARIANTS
  TypeOK
  RefsExact
  AccountExact
  HandlerIffPending
PROPERTIES
  ImplementsStream
  QuitCloses
CHECK_DEADLOCK FALSE
