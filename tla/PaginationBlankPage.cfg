SPECIFICATION PaginationSpec
CONSTANTS
  Shapes <- MCBlankShapes
  MaxBlocks = 2
  LineHeight = 2
  Heights = {8}
  FragmentLimits = {9}
  PageLimits = {9}
INVARIANT NonTerminalPagesHaveContent
CHECK_DEADLOCK FALSE
