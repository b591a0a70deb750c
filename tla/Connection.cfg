SPECIFICATION Spec
CONSTANTS
  InitLength = 3
  NumHeaders = 2
  MaxHeaders = 3
  Lines = {"short", "long"}
  Heap = {"header", "keep", "blank", "nul"}
  InitSize = 2
  MaxText = 11
  NUL = NUL
  Junk = Junk
  Base = 2
  PathLen <- MCPathLen
INVARIANTS
  
  
  OffsetsOrdered
  OneResize
  
  OwnResponseSent
PROPERTIES
  ParsedWithinLimit
