SPECIFICATION FairSpec
CONSTANTS
  Chars <- MCChars
  HexValue <- MCHexValue
  HexMax = 2
  Messages <- MCMessages
  Reading <- MCReading
INVARIANTS
  DecodesBody
  CompleteLeavesTail
  VerdictRight
PROPERTIES
  CallReturns
CHECK_DEADLOCK FALSE
