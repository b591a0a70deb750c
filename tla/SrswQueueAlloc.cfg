\* sizeof(void*) = 8 and the smallest ring with more than eight bytes of it.
SPECIFICATION Spec
CONSTANTS
  Values = {v1}
  NULL = NULL
  Junk = Junk
  Size = 16
  Word = 8
INVARIANTS
  StoreInBuffer
