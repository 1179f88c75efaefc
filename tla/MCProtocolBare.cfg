\* Lines that end with LF alone.
CONSTANTS
  Scripts <- MCBareScripts
  ReadLen = 3
  BigArg = 3
  InlineMax = 6
  QueryMax = 12
  MaxArgs = 4
  MaxBulk = 5
SPECIFICATION Spec
PROPERTIES
  LineLeavesRest
CHECK_DEADLOCK FALSE
