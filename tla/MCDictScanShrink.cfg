\* What the comment on dictScan says, over a dictionary that shrinks.
CONSTANTS
  Keys <- MCKeys
  Vals = {"v"}
  NoKey = "nokey"
  Hash <- MCHash
  InitialSize = 1
  Sizes <- MCSizes
  MinFill = 30
  RehashBatch = 1
  CursorBits = 4
  Count = 1
SPECIFICATION ScanSpec
INVARIANTS
  ScanMissesNothing
