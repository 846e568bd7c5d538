--------------------------- MODULE MCRepagination ---------------------------
(***************************************************************************)
(* Chapters of seventeen shapes of blocks, paginated from scratch; those    *)
(* made of five shapes, and of few options, are edited as well.             *)
(***************************************************************************)
EXTENDS Repagination

Plain(kind, lines) ==
  [kind |-> kind, lines |-> lines, content |-> 0, marker |-> FALSE,
   sized |-> TRUE, marginTop |-> 0, paddingTop |-> 0,
   marginBottom |-> 0, paddingBottom |-> 0, breakBefore |-> FALSE, breakAfter |-> FALSE,
   keepWithNext |-> FALSE]

Boxed ==
  [Plain("text", 2) EXCEPT !.marginTop = 2, !.paddingTop = 1, !.marginBottom = 3, !.paddingBottom = 2]

\* Blocks that end a container with padding, and whose own margin below is negative.
DrawingUp(kind, lines) == [Plain(kind, lines) EXCEPT !.paddingBottom = -1]

Placed ==
  {Plain("text", 1), DrawingUp("text", 3), Boxed,
   [Plain("text", 1) EXCEPT !.marker = TRUE, !.marginTop = -1],
   [Plain("text", 1) EXCEPT !.marginBottom = 2, !.keepWithNext = TRUE],
   [Plain("text", 1) EXCEPT !.breakBefore = TRUE],
   [Plain("text", 1) EXCEPT !.breakAfter = TRUE],
   Plain("text", 0), [Plain("text", 0) EXCEPT !.breakAfter = TRUE],
   Plain("break", 0), [Plain("box", 2) EXCEPT !.marginTop = 2],
   [Plain("image", 12) EXCEPT !.marginTop = 2], [Plain("image", 12) EXCEPT !.sized = FALSE],
   [Plain("cover", 4) EXCEPT !.paddingBottom = -3]}

Says(content, kind, lines) == [Plain(kind, lines) EXCEPT !.content = content]

Line == Plain("text", 1)
Long == Says(2, "text", 7)
LongBeforeBreak == [Long EXCEPT !.breakAfter = TRUE]

Edited == {Line, Says(3, "text", 1), Long, LongBeforeBreak, Plain("break", 0)}

MCShapes == Placed \cup Edited

\* Long chapters change in their blocks, short ones in the options too.
MCEditions ==
  [blocks : UNION {[1 .. n -> Edited] : n \in 0 .. 3}, height : {5}, fragments : {9}, limit : {9}]
    \cup [blocks : UNION {[1 .. n -> Edited] : n \in 0 .. 2}, height : {5, 8}, fragments : {9}, limit : {4, 9}]

MCTailShapes == {Line, Long, LongBeforeBreak}
MCTailEditions ==
  [blocks : UNION {[1 .. n -> MCTailShapes] : n \in 0 .. 2}, height : {6}, fragments : {9}, limit : {9}]
=============================================================================
