----------------------------- MODULE Pagination -----------------------------
(***************************************************************************)
(* Full pagination of a chapter (paginate_prepared_blocks, the page builder *)
(* paginate_page_from_blocks and its PageBuilder in                         *)
(* crates/pagelet/src/layout.rs).                                           *)
(*                                                                         *)
(* A chapter is its sequence of flow blocks.  A block is text of so many    *)
(* lines, a box (a divider, a placeholder), an image, a cover image centred *)
(* in the space left, or a forced break.  Lines are of one height, and the  *)
(* least height is one unit; vertical positions count from the top of the   *)
(* content area.  Text without visible characters has no lines.  What a     *)
(* block says or shows, its list marker included, is a number.  One step is *)
(* one round of the loop over blocks.                                       *)
(***************************************************************************)
EXTENDS Integers, Sequences, FiniteSets

CONSTANTS
  Shapes,          \* the blocks a chapter may hold
  MaxBlocks,       \* bound on the blocks of a chapter
  LineHeight,      \* height of a line
  Heights,         \* heights of the content area
  FragmentLimits,  \* values of ResourceLimits::max_layout_fragments
  PageLimits       \* values of LayoutOptions::max_pages

\* lines: of text, or the height of a box or image.  marker: a list item with a marker.
\* sized: an image whose size its file or the book tells.  A padding is negative where a
\* container with padding takes over a negative margin (apply_container_vertical_geometry).
Block == [kind : {"text", "box", "image", "cover", "break"}, lines : Nat, content : Nat,
          marker : BOOLEAN, sized : BOOLEAN,
          marginTop : Int, paddingTop : Int, marginBottom : Int, paddingBottom : Int,
          breakBefore : BOOLEAN, breakAfter : BOOLEAN, keepWithNext : BOOLEAN]

ASSUME PaginationAssumption ==
  /\ Shapes \subseteq Block
  /\ MaxBlocks \in Nat
  /\ LineHeight \in Nat \ {0}
  /\ Heights \subseteq Nat \ {0}
  /\ FragmentLimits \subseteq Nat
  /\ PageLimits \subseteq Nat \ {0}

VARIABLES
  job,      \* the chapter and the options, fixed at the start
  pages,    \* finished pages: [start, pieces, next]
  page,     \* the PageBuilder, with the position the loop has reached
  outcome   \* "paging", "built" and to be validated, "complete", or "error"

paginationVars == <<job, pages, page, outcome>>

\* A break token: a block, and the first of its lines still to be placed.
Position(block, line) == [block |-> block, line |-> line]

\* The token of the last page.
None == Position(0, 0)

Before(p, q) == p.block < q.block \/ (p.block = q.block /\ p.line < q.line)

EmptyPage(start) == [start |-> start, at |-> start, y |-> 0, pending |-> 0, pieces |-> <<>>]

Job == [blocks : UNION {[1 .. n -> Shapes] : n \in 0 .. MaxBlocks},
        height : Heights, fragments : FragmentLimits, limit : PageLimits]

PaginationInit ==
  /\ job \in Job
  /\ pages = <<>>
  /\ page = EmptyPage(Position(1, 0))
  /\ outcome = IF job.blocks = <<>> THEN "complete" ELSE "paging"

-----------------------------------------------------------------------------
(* Closing a page *)

AtEnd(position) == position.block > Len(job.blocks)

\* The page is pushed with these pieces, and the next one starts.
Close(pieces, next) ==
  /\ pages' = Append(pages, [start |-> page.start, pieces |-> pieces,
                             next |-> IF AtEnd(next) THEN None ELSE next])
  /\ page' = EmptyPage(next)
  /\ outcome' = IF AtEnd(next) THEN "built" ELSE "paging"
  /\ UNCHANGED job

PageLimit ==
  /\ outcome = "paging" /\ Len(pages) >= job.limit
  /\ outcome' = "error"
  /\ UNCHANGED <<job, pages, page>>

\* An empty page that is not the last.
Blank(p) == p.pieces = <<>> /\ p.next # None

\* validate_layout_invariants, at the end of the chapter.
Validate ==
  /\ outcome = "built"
  /\ outcome' = IF \E i \in DOMAIN pages : Blank(pages[i]) THEN "error" ELSE "complete"
  /\ UNCHANGED <<job, pages, page>>

-----------------------------------------------------------------------------
(* Placing a block *)

Current == job.blocks[page.at.block]

Started == page.pieces # <<>>

Collapse(first, second) ==
  IF (first >= 0) # (second >= 0) THEN first + second
  ELSE IF (first > second) = (first >= 0) THEN first ELSE second

\* block_start_spacing: where the block's content starts.
Top ==
  IF page.at.line > 0 THEN page.y
  ELSE page.y + Collapse(page.pending, Current.marginTop) + Current.paddingTop

Remaining == Current.lines - page.at.line

\* Where the first n lines left of the block end.
Ends(n) == Top + n * LineHeight

\* They end within the page; the last line of the block brings its padding.
Fits(n) ==
  Ends(n) + (IF n = Remaining THEN Current.paddingBottom ELSE 0) <= job.height

\* The n-th line follows the one before it on the page.
Follows(n) == Ends(n - 1) < job.height /\ Fits(n)

\* The lines that go on this page: the first, and those that follow ...
FitCount == Cardinality({n \in 1 .. Remaining : \A m \in 2 .. n : Follows(m)})

\* Mutant of Taken: no line is left behind as company for the last.
TakenAll == FitCount

\* ... and one fewer when that would leave a single line for the next page.
Taken == IF Remaining - FitCount = 1 /\ FitCount > 1 THEN FitCount - 1 ELSE FitCount

\* Mutant of Refused: an empty page may refuse as well.
RefusedAnywhere == Top >= job.height \/ ~Fits(1) \/ (FitCount = 1 /\ Remaining > 1)

\* NoFit: below other content, no space is left, not even one line fits, or only one would.
Refused ==
  Started /\ (Top >= job.height \/ ~Fits(1) \/ (FitCount = 1 /\ Remaining > 1))

\* The lines of the block that go on this page, once they are not refused.  A list item's
\* marker is placed beside its first line.
Lines == [block |-> page.at.block, content |-> Current.content,
          marker |-> Current.marker /\ page.at.line = 0,
          from |-> page.at.line, to |-> page.at.line + Taken, top |-> Top, bottom |-> Ends(Taken)]

AtLeastOne(height) == IF height >= 1 THEN height ELSE 1

\* resolve_image_size: an image whose size is known is no higher than a page leaves room for.
Height ==
  LET available == AtLeastOne(job.height - Current.paddingTop - Current.paddingBottom) IN
  IF Current.kind = "box" THEN Current.lines
  ELSE IF Current.sized /\ Current.lines > available THEN available
  ELSE AtLeastOne(Current.lines)

BoxFits == Top + Height + Current.paddingBottom <= job.height

\* Mutant of Clipped: an image keeps its height on a page of its own.
Unclipped == Height

\* push_image_box: an image that still passes the bottom is cut off there.
Clipped ==
  IF Current.kind = "box" \/ Top + Height <= job.height THEN Height
  ELSE AtLeastOne(job.height - Top)

\* A cover is moved to the middle of the space left.
Moved ==
  LET rest == job.height - Top - Current.paddingBottom - Clipped IN
  IF Current.kind = "cover" /\ rest > 0 THEN rest \div 2 ELSE 0

TheBox == [block |-> page.at.block, content |-> Current.content, marker |-> FALSE,
           from |-> 0, to |-> 1, top |-> Top + Moved, bottom |-> Top + Moved + Clipped]

-----------------------------------------------------------------------------
(* The rounds of the loop *)

\* What is on a page: fragments.len() + text_paints.len(), of which a piece is one and its
\* marker another.
FragmentsOf(pieces) == Len(pieces) + Cardinality({k \in DOMAIN pieces : pieces[k].marker})

Loop == outcome = "paging" /\ Len(pages) < job.limit /\ ~AtEnd(page.at)

\* The checks every round starts with.
TooManyFragments ==
  /\ Loop
  /\ FragmentsOf(page.pieces) >= job.fragments
  /\ outcome' = "error"
  /\ UNCHANGED <<job, pages, page>>

Round == Loop /\ FragmentsOf(page.pieces) < job.fragments

NextBlock == Position(page.at.block + 1, 0)

\* The page ends before the block: nothing more of it is placed.
Turn == Close(page.pieces, page.at)

\* The block is passed over.
Skip ==
  /\ page' = [page EXCEPT !.at = NextBlock]
  /\ UNCHANGED <<job, pages, outcome>>

\* Mutant of Put: the space above the piece does not move what follows.
PutUnspaced(piece) ==
  /\ page' = [page EXCEPT !.pieces = Append(@, piece), !.at = NextBlock,
                          !.y = @ + piece.bottom - piece.top + Current.paddingBottom,
                          !.pending = Current.marginBottom]
  /\ UNCHANGED <<job, pages, outcome>>

\* The block is done with this piece, and the page goes on.
Put(piece) ==
  /\ page' = [page EXCEPT !.pieces = Append(@, piece), !.at = NextBlock,
                          !.y = piece.bottom + Current.paddingBottom,
                          !.pending = Current.marginBottom]
  /\ UNCHANGED <<job, pages, outcome>>

BreakBefore == Round /\ Current.breakBefore /\ Started /\ Turn

Place == Round /\ ~(Current.breakBefore /\ Started)

ForcedBreak ==
  /\ Place /\ Current.kind = "break"
  /\ IF Started THEN Close(page.pieces, NextBlock) ELSE Skip

\* should_keep_with_next: no room for this block's first line and one more.
KeptWithNext == Current.keepWithNext /\ Started /\ page.y + 2 * LineHeight > job.height

KeepWithNext == Place /\ Current.kind = "text" /\ KeptWithNext /\ Turn

Text == Place /\ Current.kind = "text" /\ ~KeptWithNext

\* No visible line is left: nothing is placed, but a break after it is taken.
Invisible ==
  /\ Text /\ Remaining = 0
  /\ IF Current.breakAfter THEN Close(page.pieces, NextBlock) ELSE Skip

NoFit == Text /\ Remaining > 0 /\ Refused /\ Turn

\* Mutant of Split: the token is past the line left behind as company.
SplitPastFit ==
  /\ Text /\ Remaining > 0 /\ ~Refused /\ Taken < Remaining
  /\ Close(Append(page.pieces, Lines), Position(page.at.block, page.at.line + FitCount))

Split ==
  /\ Text /\ Remaining > 0 /\ ~Refused /\ Taken < Remaining
  /\ Close(Append(page.pieces, Lines), Position(page.at.block, Lines.to))

Whole ==
  /\ Text /\ Remaining > 0 /\ ~Refused /\ Taken = Remaining
  /\ IF Current.breakAfter THEN Close(Append(page.pieces, Lines), NextBlock) ELSE Put(Lines)

PlaceBox == Place /\ Current.kind \in {"box", "image", "cover"}

\* push_simple_box, push_image_box: what does not fit below other content waits.
BoxNoFit == PlaceBox /\ Started /\ ~BoxFits /\ Turn

Box == PlaceBox /\ (Started => BoxFits) /\ Put(TheBox)

\* No block is left.
LastPage == outcome = "paging" /\ Len(pages) < job.limit /\ AtEnd(page.at) /\ Turn

PaginationNext ==
  \/ TooManyFragments \/ BreakBefore \/ ForcedBreak \/ KeepWithNext
  \/ Invisible \/ NoFit \/ Split \/ Whole
  \/ BoxNoFit \/ Box \/ LastPage \/ PageLimit \/ Validate

PaginationSpec == PaginationInit /\ [][PaginationNext]_paginationVars

-----------------------------------------------------------------------------
(* Properties *)

\* The pages, and the page being built as one more.
Sheets == Append(pages, [start |-> page.start, pieces |-> page.pieces, next |-> page.at])

\* Where pieces are: <<sheet, number on the sheet>>, and the piece there.
Spots == UNION {{i} \X DOMAIN Sheets[i].pieces : i \in DOMAIN Sheets}
At(s) == Sheets[s[1]].pieces[s[2]]

Token == [block : 1 .. Len(job.blocks) + 1, line : Nat]

PagePiece ==
  {p \in [block : 1 .. Len(job.blocks), content : Nat, marker : BOOLEAN, from : Nat,
           to : Nat, top : Int, bottom : Int] : p.from < p.to}

\* The limit is asked for before a round (layout.rs:2580), and a round that places a list
\* item's first line places its marker too: with that marker a page ends one past the limit.
WithinLimit(pieces) ==
  FragmentsOf(pieces) <=
    IF pieces # <<>> /\ pieces[Len(pieces)].marker THEN job.fragments + 1 ELSE job.fragments

\* Break tokens stay in the chapter, pieces show some of a block that exists, and no page
\* holds more fragments than the limit, but for the marker of the list item it ends with.
PaginationTypeOK ==
  /\ outcome \in {"paging", "built", "complete", "error"}
  /\ page \in [start : Token, at : Token, y : Int, pending : Int, pieces : Seq(PagePiece)]
  /\ pages \in Seq([start : Token, pieces : Seq(PagePiece), next : Token \cup {None}])
  /\ WithinLimit(page.pieces)
  /\ \A i \in DOMAIN pages : WithinLimit(pages[i].pieces)

\* The visible units of a block: lines of text, or the one box.
Units(block) ==
  CASE block.kind = "text" -> block.lines
    [] block.kind = "break" -> 0
    [] OTHER -> 1

InOrder(s, t) == s[1] < t[1] \/ (s[1] = t[1] /\ s[2] < t[2])

\* Pages "do not drop text" (docs/adr/0005-break-token-pagination.md:35): every line and
\* box before the position the loop has reached is on exactly one page, once, nothing
\* after it is on any, and the pages show the blocks in the chapter's order.
NothingLostOrRepeated ==
  /\ \A b \in DOMAIN job.blocks : \A unit \in 0 .. Units(job.blocks[b]) - 1 :
       Cardinality({s \in Spots : At(s).block = b /\ unit \in At(s).from .. At(s).to - 1})
         = IF Before(Position(b, unit), page.at) THEN 1 ELSE 0
  /\ \A s, t \in Spots :
       InOrder(s, t) => Before(Position(At(s).block, At(s).from), Position(At(t).block, At(t).from))

\* A page moves the break token forward, whatever fits on it: otherwise pagination would
\* build the same page until the page limit (paginate_prepared_blocks).
EveryPageProgresses ==
  \A i \in DOMAIN pages : pages[i].next = None \/ Before(pages[i].start, pages[i].next)

\* Nothing else could be done with the piece: it is the first of its page, and one line, one
\* box, or an image of the least height.
Unavoidable(s) ==
  /\ s[2] = 1
  /\ At(s).to = At(s).from + 1
  /\ job.blocks[At(s).block].kind \in {"image", "cover"} => At(s).bottom = At(s).top + 1

\* The end of a block with a negative padding, which draws what follows up into the page: it
\* passes the bottom by no more than that padding, and of text only the last line does.
DrawnUp(s) ==
  LET p == At(s)
      block == job.blocks[p.block]
  IN  /\ p.to = Units(block)
      /\ p.bottom + block.paddingBottom <= job.height
      /\ block.kind = "text" => p.bottom < job.height + LineHeight

\* Content passes the bottom of the page only where nothing else could be done or a negative
\* padding makes up for it (push_text_block, push_simple_box, push_image_box).
OverflowExcused == \A s \in Spots : At(s).bottom > job.height => Unavoidable(s) \/ DrawnUp(s)

NoNegativeSpacing ==
  \A b \in DOMAIN job.blocks :
    LET block == job.blocks[b] IN
    /\ block.marginTop >= 0 /\ block.marginBottom >= 0
    /\ block.paddingTop >= 0 /\ block.paddingBottom >= 0

\* Pages' "fragments do not overlap" (docs/adr/0005-break-token-pagination.md:34-35), as
\* long as no margin and no padding is negative.
NoOverlap ==
  NoNegativeSpacing =>
    \A s, t \in Spots : s[1] = t[1] /\ s[2] < t[2] => At(s).bottom <= At(t).top

\* Single lines of split paragraphs.  A last line is alone on its page only after a page
\* with one line and nothing else, so only where no more would fit.  A first line is alone
\* below other content only when exactly two follow: one of two fitting lines was held
\* back for the last (push_text_block).
SingleLines ==
  \A s \in Spots :
    LET p == At(s)
        lines == job.blocks[p.block].lines
    IN  job.blocks[p.block].kind = "text" /\ p.to = p.from + 1 =>
          /\ p.to = lines /\ p.from > 0 =>
               \E t \in Spots : /\ t[1] = s[1] - 1 /\ t[2] = 1
                                /\ At(t).block = p.block /\ At(t).to = p.from
                                /\ At(t).from + 1 = p.from
          /\ p.to < lines /\ s[2] > 1 => lines - p.to = 2

\* "pagination produced an empty non-terminal page" (layout.rs:2354) never applies to the
\* pages pagination itself builds.
NonTerminalPagesHaveContent == \A i \in DOMAIN pages : ~Blank(pages[i])
=============================================================================
