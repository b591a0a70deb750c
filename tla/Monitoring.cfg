CONSTANTS
  ActorCount = 2
  MaxWorkers = 2
  Workers = {0, 1}
  NumTypes = 2
  NsPerMicro = 2
  MicrosPerSec = 1
  MaxClock = 2
  MaxIntervals = 1
  MaxRequests = 1
SPECIFICATION FairSpec
INVARIANTS BarrierCovers TimesAccurate CountsExact CrashNeedsEarlyWalk 
PROPERTIES EverybodyStarts
CHECK_DEADLOCK FALSE
