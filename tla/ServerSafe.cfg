\* Two workers share an actor; descriptors are reused by either worker.
SPECIFICATION Spec
CONSTANTS
  Workers = {w1, w2}
  ActorCount = 1
  Conns = {c1, c2}
  QueueCap = 2
  MaxEvents = 2
  CountMod = 1
  Troubles = {"shut", "reset"}
  Reach <- AnyWorker
  RespUnits = 2
  TxCap = 1
  NoWorker = NoWorker
  NoConn = NoConn
  Listener = Listener
INVARIANTS
  SingleOwner
  ContextOwnership
  EventsAreFresh
  NoCheckFails
  QueueOfHome
  ActiveIsExact
SYMMETRY Symmetry
