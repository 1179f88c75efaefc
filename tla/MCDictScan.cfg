\* SCAN over a dictionary that grows and shrinks.
CONSTANTS
  Keys <- MCKeys
  Vals = {"v"}
  NoKey = "nokey"
  Hash <- MCHash
  InitialSize = 1
  Sizes <- MCSizes
  MinFill = 30
  RehashBatch = 1
  CursorBits = 4
  Count = 1
SPECIFICATION ScanSpec
INVARIANTS
  ScanTypeOK
  ScanCompleteIfGrowing
PROPERTIES
  ScanEnds
