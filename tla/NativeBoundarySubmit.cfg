SPECIFICATION BoundarySpec
CONSTANTS
  MaxGeneration = 7
  MaxBufferId = 3
INVARIANT SubmittedIsRetired
\* A spent generation space leaves a host with nothing live nothing to call.
CHECK_DEADLOCK FALSE
