\* One number of each type is REDIS_SHARED_INTEGERS.
CONSTANTS
  Members <- MCMembers
  Long <- MCLong
  Heights <- MCHeights
  Additions <- MCAdditions
  Removals <- MCRemovals
  MaxEntries = 2
  MaxLevel = 3
  MemberShared = 1
  MemberHeader = 5
  Elements <- MCElements
  LongElements <- MCLongElements
  ListMaxEntries = 4
  MaxLength = 6
  Pushes <- MCPushes
  Indices <- MCIndices
  ListShared = 2
  ListHeader = 1
  IntHalf = 32
  Bytes <- MCBytes
  BigLen = 10
  MaxCount = 2
  Fields <- MCFields
  Texts <- MCSharedTexts
  Length <- MCSharedLength
  LongTexts <- MCLongTexts
  HashMaxEntries = 2
  HashShared = "a"
  HashHeader = "header"
  Words <- MCWords
  SetMaxEntries = 3
  UnsignedMax = 8
  Others <- MCOthers
  SetAdditions <- MCSharedAdditions
  SetRemovals <- MCSetRemovals
  SetHeader = 100
  Half <- MCHalf
  MinLL <- MCMinLL
  MaxLL = 7
  SharedIntegers = 5
  Increments <- MCIncrements
  Decrements <- MCDecrements
SPECIFICATION Spec
VIEW value
PROPERTY
  ImplementsKeyValue
CHECK_DEADLOCK FALSE
