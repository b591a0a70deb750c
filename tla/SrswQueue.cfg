\* A slot counts as one byte, so the whole ring lies in the allocation and
\* payloads can be compared with the abstract mailbox.
SPECIFICATION SizeSpec
CONSTANTS
  Values = {v1, v2}
  NULL = NULL
  Junk = Junk
  Size = 4
  Word = 1
INVARIANTS
  TypeOK
  EventAccounting
  NoNullPop
  SlotExclusive
  SizeNotOver
PROPERTIES
  HeadIsPopped
  ImplementsMailbox
