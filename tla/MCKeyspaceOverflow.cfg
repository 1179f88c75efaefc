\* An expire time beyond the largest long long.
CONSTANTS
  a = a
  b = b
  v1 = v1
  v2 = v2
  None = None
  dbnum = 1
  Keys = {a}
  Vals <- MCVals
  TTLs = {1, 7}
  MaxTime = 3
  LLMax = 7
  DbsPerCall = 1
  LookupsPerLoop = 1
  CheckEvery = 2
VIEW MCView
SPECIFICATION Spec
PROPERTIES
  TimerUnseen
