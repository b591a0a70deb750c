\* Two threads on each side of a ring of two slots, and the statistics thread.
SPECIFICATION FairSpec
CONSTANTS
  Values = {v1, v2}
  Writers = {w1, w2}
  Readers = {r1, r2}
  Watchers = {s1}
  MaxSize = 2
  NULL = NULL
  Unlocked = Unlocked
INVARIANTS
  RingConsistent
  SizeIsExact
PROPERTIES
  LockIsReleased
  ImplementsMailbox
