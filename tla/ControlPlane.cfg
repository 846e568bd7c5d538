SPECIFICATION ControlSpec
CONSTANTS
  MaxGeneration = 7
  Threads = {t1, t2}
  Ranges = {r1}
  DefaultRange = r1
SYMMETRY ThreadSymmetry
INVARIANTS
  CancelledSubmitRefused
PROPERTIES
  PagesAcceptedOnce
\* An exhausted generation space with nothing live leaves nothing to call.
CHECK_DEADLOCK FALSE
