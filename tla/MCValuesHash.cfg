\* A field and a value differ in length.
CONSTANTS
  Members <- MCMembers
  Long <- MCLong
  Heights <- MCHeights
  Additions <- MCAdditions
  Removals <- MCRemovals
  MaxEntries = 2
  MaxLevel = 3
  MemberShared = 9
  MemberHeader = 5
  Elements <- MCElements
  LongElements <- MCLongElements
  ListMaxEntries = 4
  MaxLength = 6
  Pushes <- MCPushes
  Indices <- MCIndices
  ListShared = 9
  ListHeader = 1
  IntHalf = 32
  Bytes <- MCBytes
  BigLen = 10
  MaxCount = 2
  Fields <- MCFields
  Texts <- MCTexts
  Length <- MCLengths
  LongTexts <- MCLongTexts
  HashMaxEntries = 2
  HashShared = "10000"
  HashHeader = "header"
  Words <- MCWords
  SetMaxEntries = 3
  UnsignedMax = 8
  Others <- MCOthers
  SetAdditions <- MCSetAdditions
  SetRemovals <- MCSetRemovals
  SetHeader = 100
  Half <- MCHalf
  MinLL <- MCMinLL
  MaxLL = 7
  SharedIntegers = 8
  Increments <- MCIncrements
  Decrements <- MCDecrements
SPECIFICATION Spec
VIEW value
PROPERTY
  ImplementsKeyValue
CHECK_DEADLOCK FALSE
