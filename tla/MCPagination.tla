---------------------------- MODULE MCPagination ----------------------------
EXTENDS Pagination

Plain(kind, lines) ==
  [kind |-> kind, lines |-> lines, content |-> 0, marker |-> FALSE, sized |-> TRUE,
   marginTop |-> 0, paddingTop |-> 0,
   marginBottom |-> 0, paddingBottom |-> 0, breakBefore |-> FALSE, breakAfter |-> FALSE, keepWithNext |-> FALSE]

MCBlankShapes == {Plain("text", 1), [Plain("text", 0) EXCEPT !.breakAfter = TRUE]}
=============================================================================
