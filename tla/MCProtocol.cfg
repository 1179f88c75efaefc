\* Arguments of 3 bytes and more are big; reads of up to 3 bytes.
CONSTANTS
  Scripts <- MCScripts
  ReadLen = 3
  BigArg = 3
  InlineMax = 6
  QueryMax = 12
  MaxArgs = 4
  MaxBulk = 5
SPECIFICATION FairSpec
INVARIANTS
  TypeOK
  ServedExactly
  KeptOpen
PROPERTIES
  HandlerReturns
CHECK_DEADLOCK FALSE
