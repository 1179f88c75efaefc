\* The dictionary with three keys and two values.
CONSTANTS
  Keys = {"k1", "k2", "k3"}
  Vals = {"v", "w"}
  NoVal = "none"
  NoKey = "nokey"
  Hash <- MCHash
  InitialSize = 1
  Sizes <- MCSizes
  MinFill = 30
  RehashBatch = 1
VIEW MCView
SPECIFICATION FairSpec
INVARIANTS
  TypeOK
  Reachable
  KeysUnique
  UsedExact
  RehashSound
  IterationExact
PROPERTIES
  FrozenWhileIterating
  ImplementsMap
  RehashEnds
