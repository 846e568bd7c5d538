SPECIFICATION ControlSpec
CONSTANTS
  MaxGeneration = 7
  Threads = {t1, t2}
  Ranges = {r1}
  DefaultRange = r1
SYMMETRY ThreadSymmetry
INVARIANT OneRequestInFlight
CHECK_DEADLOCK FALSE
