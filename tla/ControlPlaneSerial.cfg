SPECIFICATION FairControlSpec
CONSTANTS
  MaxGeneration = 7
  Threads = {t1}
  Ranges = {r1, r2}
  DefaultRange = r1
INVARIANTS
  NoOrphans
  TokensNeverReused
  RetiredRequestsCancelled
PROPERTIES
  DisposeReleasesOneTree
  LayoutContract
  SubmitRetiresRequest
\* A dropped control plane, or spent generations with nothing live, leaves nothing to call.
CHECK_DEADLOCK FALSE
