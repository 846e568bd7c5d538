SPECIFICATION RepaginationSpec
CONSTANTS
  Shapes <- MCShapes
  Editions <- MCEditions
  MaxBlocks = 3
  LineHeight = 2
  Heights = {5, 8}
  FragmentLimits = {2, 9}
  PageLimits = {4, 9}
  MaxEdits = 2
INVARIANTS
  TextKept
  PlacementSound
  EveryPageProgresses
  IncrementalIsFull
  FirstEditShown
\* Repagination ends.
CHECK_DEADLOCK FALSE
