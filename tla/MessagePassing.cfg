SPECIFICATION FairSpec
CONSTANTS
  Pointers = 3
  Word = 4
  Room = 5
  Modes = {"sync", "async"}
INVARIANTS
  PayloadsIntact
PROPERTIES
  AllArrive
CHECK_DEADLOCK FALSE
