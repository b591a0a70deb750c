SPECIFICATION FairSpec
CONSTANTS
  Workers = {w1, w2}
  ActorCount = 1
  Conns = {c1, c2}
  QueueCap = 2
  MaxEvents = 2
  CountMod = 1
  Troubles = {}
  Reach <- OneFixed
  RespUnits = 2
  TxCap = 1
  NoWorker = NoWorker
  NoConn = NoConn
  Listener = Listener
PROPERTIES
  RequestsFinish
