\* One worker feeds two actors through queues of one place.
SPECIFICATION Spec
CONSTANTS
  Workers = {w1}
  ActorCount = 2
  Conns = {c1, c2}
  QueueCap = 1
  MaxEvents = 1
  CountMod = 2
  Troubles = {"urgent", "shut", "reset", "broken"}
  Reach <- AnyWorker
  RespUnits = 2
  TxCap = 1
  NoWorker = NoWorker
  NoConn = NoConn
  Listener = Listener
INVARIANTS
  NoCheckFails
  OverflowNeedsLoad
  QueueAnnounced
SYMMETRY Symmetry
