SPECIFICATION RepaginationSpec
CONSTANTS
  Shapes <- MCTailShapes
  Editions <- MCTailEditions
  MaxBlocks = 2
  LineHeight = 2
  Heights = {6}
  FragmentLimits = {9}
  PageLimits = {9}
  MaxEdits = 1
INVARIANT RemainderCompatible
CHECK_DEADLOCK FALSE
