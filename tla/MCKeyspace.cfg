\* Two databases with two keys; the timer visits one at a time and draws one key
\* a round.
CONSTANTS
  a = a
  b = b
  v1 = v1
  v2 = v2
  None = None
  dbnum = 2
  Keys <- MCKeys
  Vals = {v1}
  TTLs = {1}
  MaxTime = 2
  LLMax = 7
  DbsPerCall = 1
  LookupsPerLoop = 1
  CheckEvery = 2
VIEW MCView
SPECIFICATION FairSpec
INVARIANTS
  TypeOK
  AssertsHold
  ExpiresBorrow
PROPERTIES
  ImplementsLogical
  DeadCollected
