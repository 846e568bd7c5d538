SPECIFICATION HostsSpec
CONSTANTS
  ForegroundThreads = 1
  BackgroundThreads = 1
  MaxInflight = 2
  MaxRequests = 3
  MaxInvalidated = 1
  Openers = {t1, t2}
  Items = {i1, i2}
  MaxParses = 3
  MaxGeneration = 24
  HostGenerations = 6
  MaxChanges = 2
INVARIANTS
  LimitsKept
  OneIdentity
  SessionsTrackHandles
  ReaderKeepsOneDocument
PROPERTY StaleRejected
\* Spent request ids and parses leave nothing to do.
CHECK_DEADLOCK FALSE
