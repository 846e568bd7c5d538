SPECIFICATION BoundarySpec
CONSTANTS
  MaxGeneration = 7
  MaxBufferId = 5
INVARIANTS BuffersOwned OnlyEncodingLosesARequest
\* A spent generation space leaves a host with nothing live nothing to call.
CHECK_DEADLOCK FALSE
